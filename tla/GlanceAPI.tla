------------------------------ MODULE GlanceAPI ------------------------------
(***************************************************************************)
(* The GlanceAPI controller: one GlanceAPI object, the reconciler that     *)
(* works on it, the informer cache the reconciler reads it from, and the   *)
(* objects the reconciler writes (application credential secrets, the      *)
(* config-data secret, KeystoneEndpoint, Topology, StatefulSet).           *)
(*                                                                         *)
(* controller-runtime never reconciles one object twice at the same time,  *)
(* so there is one worker.  A reconcile pass is cut into one action per    *)
(* group of calls that ends in a write to the API server; user edits,      *)
(* other controllers, cache updates, failing calls and a crash of the      *)
(* operator happen between any two of them.                                *)
(*                                                                         *)
(* Simplifications:                                                        *)
(*  - of the condition list only "is Ready True" is stored, and, during a  *)
(*    pass, the two sub-conditions that may not be True at its end;        *)
(*  - hashes are the values they are hashes of;                            *)
(*  - the informer cache is modelled for the GlanceAPI object itself; the  *)
(*    other objects are read as they are;                                  *)
(*  - Services, APIEndpoints, ReadyCount and cron jobs are calls that may  *)
(*    fail, without state of their own.                                    *)
(***************************************************************************)
EXTENDS Naturals, FiniteSets

CONSTANTS
    Creds,         \* application credential secrets the spec may name
    Storages,      \* values of the storage configuration (backends, PVCs, cache)
    Topologies,    \* Topology objects the spec may reference
    Endpoints,     \* values of the keystoneEndpoint annotation that occur
    Replicas,      \* spec.replicas
    MayMiss,       \* the external inputs that are missing at the start
    PatientUser,   \* the user edits the object only when it is Ready
    MaxEdits,      \* bound on user edits
    MaxCrashes,    \* bound on crashes of the operator
    MaxFaults,     \* bound on failing API calls and lost inputs
    None           \* an empty reference

\* External inputs, in the order in which reconcileNormal asks for them.
InputNames == {"secret", "memcached", "cinder", "tls", "nad", "config", "topology"}

ASSUME ConstantsAssumption ==
    /\ None \notin Creds \cup Storages \cup Topologies
    /\ Storages # {}
    /\ Endpoints \subseteq BOOLEAN /\ Endpoints # {}
    /\ Replicas \in Nat
    /\ MayMiss \subseteq InputNames
    /\ PatientUser \in BOOLEAN
    /\ MaxEdits \in Nat /\ MaxCrashes \in Nat /\ MaxFaults \in Nat

VARIABLES
    cr,        \* the GlanceAPI object in the API server
    cache,     \* the version of it in the informer cache
    queued,    \* the work queue holds a request for it
    pc,        \* where the worker is in Reconcile ("idle" between passes)
    before,    \* the version the pass has read
    inst,      \* the worker's copy of it, modified during the pass
    conds,     \* sub-conditions of this pass that are True
    exit,      \* how the pass ends: "done", "requeue" or "error"
    acSecret,  \* application credential secrets: "none", "live", "revoked"
    acFin,     \* secrets that carry this GlanceAPI's consumer finalizer
    config,    \* credential rendered in the config-data secret
    sts,       \* the StatefulSet
    pods,      \* its pods
    ke,        \* the KeystoneEndpoint object
    topoFin,   \* Topology objects that carry this GlanceAPI's finalizer
    missing,   \* external inputs that are missing or not ready
    edits, crashes, faults

server == <<cr, acSecret, acFin, config, sts, pods, ke, topoFin>>
worker == <<pc, before, inst, conds, exit>>
env    == <<missing, edits, crashes, faults>>
vars   == <<cr, cache, queued, pc, before, inst, conds, exit, acSecret, acFin,
            config, sts, pods, ke, topoFin, missing, edits, crashes, faults>>

-----------------------------------------------------------------------------
(* The objects.                                                            *)

CredRef == Creds \cup {None}
TopoRef == Topologies \cup {None}

\* GlanceAPISpec, reduced to the fields whose change the reconciler tells apart.
SpecType == [ac : CredRef, storage : Storages, topology : TopoRef]

\* GlanceAPIStatus; "new" is a nil condition list, "gen" ObservedGeneration and
\* "storage" the backendHash.
StatusType == [new : BOOLEAN, ready : BOOLEAN, gen : Nat, ac : CredRef,
               storage : Storages \cup {None}, topology : TopoRef]

CRType == [exists : BOOLEAN, deleting : BOOLEAN, finalizer : BOOLEAN, gen : Nat,
           endpoint : BOOLEAN, spec : SpecType, status : StatusType]

\* The pod template of the StatefulSet carries the hash of every input.
TemplateType == [ac : CredRef, storage : Storages, topology : TopoRef, endpoint : BOOLEAN]

StsType == [exists : BOOLEAN, template : TemplateType, volumes : Storages,
            observed : BOOLEAN, ready : 0 .. Replicas]

PodType == [state : {"none", "starting", "ready"}, ac : CredRef,
            current : BOOLEAN, owned : BOOLEAN]

\* Annotations and spec fields an object's pod template is built from.
StatefulSetTemplate(o) ==
    [ac |-> o.spec.ac, storage |-> o.spec.storage,
     topology |-> o.spec.topology, endpoint |-> o.endpoint]

Pods  == 1 .. Replicas
NoPod == [state |-> "none", ac |-> None, current |-> TRUE, owned |-> TRUE]

AnyStorage == CHOOSE s \in Storages : TRUE

NoStatus == [new |-> TRUE, ready |-> FALSE, gen |-> 0, ac |-> None,
             storage |-> None, topology |-> None]

NoCR == [exists |-> FALSE, deleting |-> FALSE, finalizer |-> FALSE, gen |-> 0,
         endpoint |-> FALSE, status |-> NoStatus,
         spec |-> [ac |-> None, storage |-> AnyStorage, topology |-> None]]

NoSts == [exists |-> FALSE, template |-> StatefulSetTemplate(NoCR),
          volumes |-> AnyStorage, observed |-> FALSE, ready |-> 0]

NewCR(s, e) == [exists |-> TRUE, deleting |-> FALSE, finalizer |-> FALSE, gen |-> 1,
                endpoint |-> e, spec |-> s, status |-> NoStatus]

Steps == {"verifyInputs", "backendHash", "verifyBackends", "reconcileInit",
          "generateServiceConfig", "acFinalizer", "topology", "statefulset",
          "jobs", "acRelease", "deleteEndpoints", "deleteSecrets",
          "deleteTopology", "patch"}

TypeOK ==
    /\ cr \in CRType /\ cache \in CRType /\ before \in CRType /\ inst \in CRType
    /\ queued \in BOOLEAN
    /\ pc \in Steps \cup {"idle"}
    /\ conds \subseteq {"KeystoneEndpointReady", "DeploymentReady"}
    /\ exit \in {"done", "requeue", "error"}
    /\ acSecret \in [Creds -> {"none", "live", "revoked"}]
    /\ acFin \subseteq Creds
    /\ config \in CredRef
    /\ sts \in StsType
    /\ pods \in [Pods -> PodType]
    /\ ke \in {"absent", "pending", "ready", "deleting", "released"}
    /\ topoFin \subseteq Topologies
    /\ missing \subseteq InputNames
    /\ edits \in Nat /\ crashes \in Nat /\ faults \in Nat

\* The object has just been created: no finalizer, no status, nothing deployed.
Init ==
    /\ \E s \in SpecType, e \in Endpoints : cr = NewCR(s, e)
    /\ cache = NoCR /\ before = NoCR /\ inst = NoCR
    /\ queued = FALSE /\ pc = "idle" /\ conds = {} /\ exit = "done"
    /\ acSecret \in [Creds -> {"none", "live"}] /\ acFin = {} /\ config = None
    /\ sts = NoSts /\ pods = [i \in Pods |-> NoPod]
    /\ ke = "absent" /\ topoFin = {}
    /\ missing \in SUBSET MayMiss
    /\ edits = 0 /\ crashes = 0 /\ faults = 0

-----------------------------------------------------------------------------
(* Moving through a pass.                                                  *)

\* The pass goes on with step p.
Proceed(p) == pc' = p /\ UNCHANGED exit

\* The pass returns; the deferred function patches the object next.  A pass
\* that returns before its end leaves Ready other than True.
Return(e) == pc' = "patch" /\ exit' = e

\* A write to an object the controller owns produces an event for the queue.
OwnedEvent(changed) == queued' = (queued \/ changed)

\* The worker is between passes.
Idle == pc' = "idle" /\ exit' = "done" /\ before' = NoCR /\ inst' = NoCR /\ conds' = {}

\* Deleting the StatefulSet: its pods are left to the garbage collector.
DeleteStatefulSet ==
    /\ sts' = NoSts
    /\ pods' = [i \in Pods |-> IF pods[i].state = "none" THEN pods[i]
                               ELSE [pods[i] EXCEPT !.owned = FALSE]]

-----------------------------------------------------------------------------
(* Reconcile.                                                              *)

\* The cached object is gone: nothing to do.
ReconcileNotFound ==
    /\ pc = "idle" /\ queued /\ ~cache.exists
    /\ queued' = FALSE
    /\ UNCHANGED <<server, cache, worker, env>>

\* Mutated Reconcile: a pass starts from an empty status and records the generation
\* when it gets as far as reconcileNormal.
ReconcileResetsStatus ==
    LET addFinalizer == ~cache.deleting /\ ~cache.finalizer
        early == addFinalizer \/ cache.status.new \/ cache.deleting
    IN /\ pc = "idle" /\ queued /\ cache.exists
       /\ queued' = FALSE
       /\ before' = cache
       /\ inst' = [cache EXCEPT !.finalizer = @ \/ addFinalizer,
                                !.status.new = FALSE,
                                !.status.ready = FALSE,
                                !.status.gen = IF early THEN 0 ELSE cache.gen]
       /\ conds' = {}
       /\ pc' = IF addFinalizer \/ cache.status.new THEN "patch"
                ELSE IF cache.deleting THEN "deleteEndpoints" ELSE "verifyInputs"
       /\ exit' = "done"
       /\ UNCHANGED <<server, cache, env>>

\* Read the object, reset the conditions, record the generation.  A new object,
\* or one that just got the finalizer, is patched at once; the patch's event
\* brings the next pass.
Reconcile ==
    LET addFinalizer == ~cache.deleting /\ ~cache.finalizer
    IN /\ pc = "idle" /\ queued /\ cache.exists
       /\ queued' = FALSE
       /\ before' = cache
       /\ inst' = [cache EXCEPT !.finalizer = @ \/ addFinalizer,
                                !.status.new = FALSE,
                                !.status.ready = FALSE,
                                !.status.gen = cache.gen]
       /\ conds' = {}
       /\ pc' = IF addFinalizer \/ cache.status.new THEN "patch"
                ELSE IF cache.deleting THEN "deleteEndpoints" ELSE "verifyInputs"
       /\ exit' = "done"
       /\ UNCHANGED <<server, cache, env>>

\* The OpenStack secret and memcached, both waited for with a requeue.
VerifyInputs ==
    /\ pc = "verifyInputs"
    /\ IF missing \cap {"secret", "memcached"} # {}
       THEN Return("requeue") ELSE Proceed("backendHash")
    /\ UNCHANGED <<server, cache, queued, before, inst, conds, env>>

\* The hash of the fields that decide on backends and volumes is their value.
createHashOfBackendConfig(o) == o.spec.storage

\* Mutated BackendHash: the hash is stored, the StatefulSet is not deleted.
BackendHashNoRefresh ==
    /\ pc = "backendHash"
    /\ inst' = [inst EXCEPT !.status.storage = createHashOfBackendConfig(inst)]
    /\ Proceed("verifyBackends")
    /\ UNCHANGED <<server, cache, queued, before, conds, env>>

\* The hash is stored in the copy; if it changed, glanceAPIRefresh deletes the
\* StatefulSet so that it is created again.
BackendHash ==
    LET changed == inst.status.storage # createHashOfBackendConfig(inst)
    IN /\ pc = "backendHash"
       /\ inst' = [inst EXCEPT !.status.storage = createHashOfBackendConfig(inst)]
       /\ IF changed /\ sts.exists
          THEN DeleteStatefulSet /\ OwnedEvent(TRUE)
          ELSE UNCHANGED <<sts, pods, queued>>
       /\ Proceed("verifyBackends")
       /\ UNCHANGED <<cr, acSecret, acFin, config, ke, topoFin, cache, before, conds, env>>

\* The call that deletes the StatefulSet fails: the pass returns the error,
\* with the new hash already in the copy that the deferred patch saves.
GlanceAPIRefreshFails ==
    /\ pc = "backendHash"
    /\ inst.status.storage # createHashOfBackendConfig(inst) /\ sts.exists
    /\ faults < MaxFaults /\ faults' = faults + 1
    /\ inst' = [inst EXCEPT !.status.storage = createHashOfBackendConfig(inst)]
    /\ Return("error")
    /\ UNCHANGED <<server, cache, queued, before, conds, missing, edits, crashes>>

\* Mutated VerifyBackends: a missing Cinder ends the pass without a requeue.
VerifyBackendsNoRequeue ==
    /\ pc = "verifyBackends"
    /\ IF missing \cap {"cinder", "tls", "nad"} # {}
       THEN Return("done") ELSE Proceed("reconcileInit")
    /\ UNCHANGED <<server, cache, queued, before, inst, conds, env>>

\* Cinder (when it is a backend), then the TLS secrets, then the network
\* attachments.  A missing TLS secret ends the pass without a requeue: the watch
\* on secrets is what brings the next one.
VerifyBackends ==
    /\ pc = "verifyBackends"
    /\ \/ /\ "cinder" \in missing \/ ("tls" \notin missing /\ "nad" \in missing)
          /\ Return("requeue")
       \/ /\ "cinder" \notin missing /\ "tls" \in missing
          /\ Return("done")
       \/ /\ missing \cap {"cinder", "tls", "nad"} = {}
          /\ Proceed("reconcileInit")
    /\ UNCHANGED <<server, cache, queued, before, inst, conds, env>>

\* Mutated EnsureKeystoneEndpoints: an endpoint that is no longer asked for stays.
EnsureKeystoneEndpointsKept ==
    \/ /\ inst.endpoint
       /\ ke' = IF ke = "absent" THEN "pending" ELSE ke
       /\ conds' = IF ke = "ready" THEN conds \cup {"KeystoneEndpointReady"} ELSE conds
    \/ /\ ~inst.endpoint
       /\ ke' = ke
       /\ conds' = conds \cup {"KeystoneEndpointReady"}

\* Services, then the KeystoneEndpoint: created or patched when the annotation
\* says so, and its condition mirrored (the one of an object that is being
\* deleted may still be True); deleted otherwise.
EnsureKeystoneEndpoints ==
    \/ /\ inst.endpoint
       /\ ke' = IF ke = "absent" THEN "pending" ELSE ke
       /\ \E ready \in BOOLEAN :
            /\ ke \in {"absent", "pending"} => ~ready
            /\ ke = "ready" => ready
            /\ conds' = IF ready THEN conds \cup {"KeystoneEndpointReady"} ELSE conds
    \/ /\ ~inst.endpoint
       /\ ke' = IF ke = "absent" THEN "absent" ELSE "deleting"
       /\ conds' = conds \cup {"KeystoneEndpointReady"}

ReconcileInit ==
    /\ pc = "reconcileInit"
    /\ EnsureKeystoneEndpoints
    /\ OwnedEvent(ke' # ke)
    /\ Proceed("generateServiceConfig")
    /\ UNCHANGED <<cr, acSecret, acFin, config, sts, pods, topoFin, cache, before, inst, env>>

\* Render the config-data secret.  Every input that is not there (database,
\* KeystoneAPI, secrets, the application credential) is an error.
GenerateServiceConfig ==
    LET c == inst.spec.ac
    IN /\ pc = "generateServiceConfig"
       /\ IF "config" \in missing \/ (c # None /\ acSecret[c] # "live")
          THEN Return("error") /\ UNCHANGED <<config, queued>>
          ELSE /\ config' = c
               /\ OwnedEvent(config # c)
               /\ Proceed("acFinalizer")
       /\ UNCHANGED <<cr, acSecret, acFin, sts, pods, ke, topoFin, cache, before, inst,
                      conds, env>>

\* Mutated AddACFinalizer: the empty reference is not skipped.
AddACFinalizerUnguarded ==
    /\ pc = "acFinalizer"
    /\ acFin' = acFin \cup {inst.spec.ac}
    /\ Proceed("topology")
    /\ UNCHANGED <<cr, acSecret, config, sts, pods, ke, topoFin, cache, queued, before, inst,
                   conds, env>>

\* Mutated AddACFinalizer: only the first secret is protected, not the one that a
\* rotation brings.
AddACFinalizerFirstOnly ==
    /\ pc = "acFinalizer"
    /\ acFin' = IF inst.status.ac = None THEN acFin \cup ({inst.spec.ac} \ {None}) ELSE acFin
    /\ Proceed("topology")
    /\ UNCHANGED <<cr, acSecret, config, sts, pods, ke, topoFin, cache, queued, before, inst,
                   conds, env>>

\* Put the consumer finalizer on the secret the spec names, before the
\* StatefulSet learns of it.  Writing the secret is an event when the index on
\* the cached objects finds this GlanceAPI.
AddACFinalizer ==
    LET c == inst.spec.ac
    IN /\ pc = "acFinalizer"
       /\ \/ /\ c = None
             /\ Proceed("topology") /\ UNCHANGED <<acFin, queued>>
          \/ /\ c # None /\ acSecret[c] # "live"
             /\ Return("error") /\ UNCHANGED <<acFin, queued>>
          \/ /\ c # None /\ acSecret[c] = "live"
             /\ acFin' = acFin \cup {c}
             /\ queued' = (queued \/ (c \notin acFin /\ cache.spec.ac = c))
             /\ Proceed("topology")
       /\ UNCHANGED <<cr, acSecret, config, sts, pods, ke, topoFin, cache, before, inst,
                      conds, env>>

\* Mutated EnsureServiceTopology: the Topology applied last keeps the finalizer.
EnsureServiceTopologyKeepsOld ==
    LET ref == inst.spec.topology
    IN /\ pc = "topology"
       /\ IF ref # None /\ "topology" \in missing
          THEN Return("error") /\ UNCHANGED <<topoFin, inst>>
          ELSE /\ topoFin' = IF ref = None THEN topoFin ELSE topoFin \cup {ref}
               /\ inst' = [inst EXCEPT !.status.topology = ref]
               /\ Proceed("statefulset")
       /\ UNCHANGED <<cr, acSecret, acFin, config, sts, pods, ke, cache, queued, before,
                      conds, env>>

\* EnsureServiceTopology drops the finalizer of the Topology applied last, if it
\* is another one, and puts it on the referenced one, which must exist.
EnsureServiceTopology ==
    LET ref  == inst.spec.topology
        last == inst.status.topology
        kept == IF last # ref THEN topoFin \ {last} ELSE topoFin
    IN /\ pc = "topology"
       /\ IF ref # None /\ "topology" \in missing
          THEN Return("error") /\ topoFin' = kept /\ UNCHANGED inst
          ELSE /\ topoFin' = IF ref = None THEN kept ELSE kept \cup {ref}
               /\ inst' = [inst EXCEPT !.status.topology = ref]
               /\ Proceed("statefulset")
       /\ UNCHANGED <<cr, acSecret, acFin, config, sts, pods, ke, cache, queued, before,
                      conds, env>>

\* Create the StatefulSet, or patch its template (its volume claim templates
\* cannot be patched).  The deployment is ready if the controller of StatefulSets
\* has observed this generation and reports all replicas ready.
CreateOrPatchStatefulSet ==
    LET t == StatefulSetTemplate(inst)
    IN /\ pc = "statefulset"
       /\ IF ~sts.exists
          THEN /\ sts' = [exists |-> TRUE, template |-> t, volumes |-> inst.spec.storage,
                          observed |-> FALSE, ready |-> 0]
               /\ UNCHANGED pods
          ELSE IF sts.template # t
          THEN /\ sts' = [sts EXCEPT !.template = t, !.observed = FALSE]
               /\ pods' = [i \in Pods |-> IF pods[i].state = "none" THEN pods[i]
                                          ELSE [pods[i] EXCEPT !.current = FALSE]]
          ELSE UNCHANGED <<sts, pods>>
       /\ OwnedEvent(sts' # sts)
       /\ conds' = IF sts'.observed /\ sts'.ready = Replicas
                   THEN conds \cup {"DeploymentReady"} ELSE conds
       /\ Proceed("jobs")
       /\ UNCHANGED <<cr, acSecret, acFin, config, ke, topoFin, cache, before, inst, env>>

\* PVC labels, image cache cron jobs: calls that may fail, no state of their own.
ReconcileJobs ==
    /\ pc = "jobs"
    /\ Proceed("acRelease")
    /\ UNCHANGED <<server, cache, queued, before, inst, conds, env>>

AllSubConditionIsTrue == conds = {"KeystoneEndpointReady", "DeploymentReady"}

\* Mutated ReleaseACSecret: a recorded secret is taken for an old one without
\* comparing it with the spec.
ReleaseACSecretUncompared ==
    LET release == inst.status.ac # None /\ AllSubConditionIsTrue
    IN /\ pc = "acRelease"
       /\ acFin' = IF release THEN acFin \ {inst.status.ac} ELSE acFin
       /\ inst' = [inst EXCEPT !.status.ac = inst.spec.ac,
                               !.status.ready = AllSubConditionIsTrue]
       /\ Return("done")
       /\ UNCHANGED <<cr, acSecret, config, sts, pods, ke, topoFin, cache, queued, before,
                      conds, env>>

\* Mutated ReleaseACSecret: the new secret is recorded although the old one is
\* not released yet.
ReleaseACSecretForgets ==
    LET release == inst.status.ac \notin {None, inst.spec.ac} /\ AllSubConditionIsTrue
    IN /\ pc = "acRelease"
       /\ acFin' = IF release THEN acFin \ {inst.status.ac} ELSE acFin
       /\ inst' = [inst EXCEPT !.status.ac = inst.spec.ac,
                               !.status.ready = AllSubConditionIsTrue]
       /\ Return("done")
       /\ UNCHANGED <<cr, acSecret, config, sts, pods, ke, topoFin, cache, queued, before,
                      conds, env>>

\* On a rotation, the finalizer of the old secret is removed, and the new secret
\* recorded, once every sub-condition is True.
ReleaseACSecret ==
    LET old      == inst.status.ac
        rotation == old # None /\ old # inst.spec.ac
        release  == rotation /\ AllSubConditionIsTrue
    IN /\ pc = "acRelease"
       /\ acFin' = IF release THEN acFin \ {old} ELSE acFin
       /\ inst' = [inst EXCEPT !.status.ac = IF rotation /\ ~release THEN @ ELSE inst.spec.ac,
                               !.status.ready = AllSubConditionIsTrue]
       /\ Return("done")
       /\ UNCHANGED <<cr, acSecret, config, sts, pods, ke, topoFin, cache, queued, before,
                      conds, env>>

-----------------------------------------------------------------------------
(* reconcileDelete.                                                        *)

\* Mutated EnsureDeletedEndpoints: the KeystoneEndpoint keeps our finalizer.
EnsureDeletedEndpointsSkipped ==
    /\ pc = "deleteEndpoints"
    /\ Proceed("deleteSecrets")
    /\ UNCHANGED <<server, cache, queued, before, inst, conds, env>>

\* Our finalizer is removed from the KeystoneEndpoint, if there is one.
EnsureDeletedEndpoints ==
    /\ pc = "deleteEndpoints"
    /\ ke' = IF ke \in {"pending", "ready"} THEN "released" ELSE ke
    /\ OwnedEvent(ke' # ke)
    /\ Proceed("deleteSecrets")
    /\ UNCHANGED <<cr, acSecret, acFin, config, sts, pods, topoFin, cache, before, inst,
                   conds, env>>

\* Mutated RemoveACFinalizers: only the secret that the status names.
RemoveACFinalizersStatusOnly ==
    /\ pc = "deleteSecrets"
    /\ acFin' = acFin \ {inst.status.ac}
    /\ Proceed("deleteTopology")
    /\ UNCHANGED <<cr, acSecret, config, sts, pods, ke, topoFin, cache, queued, before,
                   inst, conds, env>>

\* The consumer finalizer is removed from the secrets that the status and the
\* spec name.
RemoveACFinalizers ==
    /\ pc = "deleteSecrets"
    /\ acFin' = acFin \ {inst.status.ac, inst.spec.ac}
    /\ Proceed("deleteTopology")
    /\ UNCHANGED <<cr, acSecret, config, sts, pods, ke, topoFin, cache, queued, before,
                   inst, conds, env>>

\* Mutated EnsureDeletedTopologyRef: the GlanceAPI keeps its own finalizer.
EnsureDeletedTopologyRefKeepsOwn ==
    /\ pc = "deleteTopology"
    /\ topoFin' = topoFin \ {inst.status.topology}
    /\ Return("done")
    /\ UNCHANGED <<cr, acSecret, acFin, config, sts, pods, ke, cache, queued, before,
                   inst, conds, env>>

\* The finalizer is removed from the Topology applied last, and then from the
\* GlanceAPI.
EnsureDeletedTopologyRef ==
    /\ pc = "deleteTopology"
    /\ topoFin' = topoFin \ {inst.status.topology}
    /\ inst' = [inst EXCEPT !.finalizer = FALSE]
    /\ Return("done")
    /\ UNCHANGED <<cr, acSecret, acFin, config, sts, pods, ke, cache, queued, before,
                   conds, env>>

-----------------------------------------------------------------------------
(* The deferred patch.                                                     *)

\* A merge patch carries the fields that differ from the version read; the
\* others keep the value they have in the server.
Patched(new, old, current) == IF new # old THEN new ELSE current

\* The condition list is one field of the patch.
ConditionsChanged == \/ inst.status.new # before.status.new
                     \/ inst.status.ready # before.status.ready

MergePatch ==
    LET i == inst.status
        b == before.status
        c == cr.status
    IN [cr EXCEPT
          !.finalizer = Patched(inst.finalizer, before.finalizer, cr.finalizer),
          !.status = [new      |-> IF ConditionsChanged THEN i.new ELSE c.new,
                      ready    |-> IF ConditionsChanged THEN i.ready ELSE c.ready,
                      gen      |-> Patched(i.gen, b.gen, c.gen),
                      ac       |-> Patched(i.ac, b.ac, c.ac),
                      storage  |-> Patched(i.storage, b.storage, c.storage),
                      topology |-> Patched(i.topology, b.topology, c.topology)]]

\* Without its last finalizer an object that is being deleted disappears, and
\* what it owns is left to the garbage collector.
PatchInstance ==
    LET o == MergePatch
        gone == o.deleting /\ ~o.finalizer
    IN /\ pc = "patch"
       /\ Idle
       /\ IF ~cr.exists
          THEN queued' = TRUE /\ UNCHANGED <<cr, sts, pods>>
          ELSE /\ queued' = (queued \/ exit # "done")
               /\ cr' = IF gone THEN NoCR ELSE o
               /\ IF gone THEN DeleteStatefulSet ELSE UNCHANGED <<sts, pods>>
       /\ UNCHANGED <<acSecret, acFin, config, ke, topoFin, cache, env>>

-----------------------------------------------------------------------------
(* Failures.                                                               *)

FaultySteps == Steps \ {"verifyInputs", "backendHash", "verifyBackends", "patch"}

\* A call fails before it has had its effect: the pass returns the error, which
\* puts the request back in the queue.
CallFails ==
    /\ pc \in FaultySteps
    /\ faults < MaxFaults /\ faults' = faults + 1
    /\ Return("error")
    /\ UNCHANGED <<server, cache, queued, before, inst, conds, missing, edits, crashes>>

\* The patch fails, or the pass panics (GetPvcListWithLabel returns nil on an
\* error and its callers dereference it): nothing is saved.
PassLost ==
    /\ pc \in {"patch", "jobs"}
    /\ faults < MaxFaults /\ faults' = faults + 1
    /\ Idle /\ queued' = TRUE
    /\ UNCHANGED <<server, cache, missing, edits, crashes>>

\* The operator stops; its replacement lists the object and queues it.
Crash ==
    /\ pc # "idle" /\ crashes < MaxCrashes /\ crashes' = crashes + 1
    /\ Idle /\ queued' = TRUE /\ cache' = cr
    /\ UNCHANGED <<server, missing, edits, faults>>

-----------------------------------------------------------------------------
(* The rest of the cluster.                                                *)

\* A watch event brings the cache up to date and queues a request.
CacheSync ==
    /\ cache # cr
    /\ cache' = cr /\ queued' = TRUE
    /\ UNCHANGED <<server, worker, env>>

UserMayAct  == cr.exists /\ ~cr.deleting /\ edits < MaxEdits
UserMayEdit == UserMayAct /\ (PatientUser => cr.status.ready /\ cr.status.gen = cr.gen)

\* The user (or the Glance controller) changes the spec; it never names a
\* credential that has been revoked.
EditSpec ==
    /\ UserMayEdit
    /\ \E s \in SpecType \ {cr.spec} :
         /\ s.ac # None => acSecret[s.ac] # "revoked"
         /\ cr' = [cr EXCEPT !.spec = s, !.gen = @ + 1]
    /\ edits' = edits + 1
    /\ UNCHANGED <<acSecret, acFin, config, sts, pods, ke, topoFin, cache, queued, worker,
                   missing, crashes, faults>>

\* The Glance controller moves the keystoneEndpoint annotation; the generation
\* of an object does not count its annotations.
EditEndpoint ==
    /\ UserMayEdit
    /\ \E e \in Endpoints \ {cr.endpoint} : cr' = [cr EXCEPT !.endpoint = e]
    /\ edits' = edits + 1
    /\ UNCHANGED <<acSecret, acFin, config, sts, pods, ke, topoFin, cache, queued, worker,
                   missing, crashes, faults>>

\* The object is deleted, at any time; with a finalizer it is only marked.
DeleteGlanceAPI ==
    /\ UserMayAct
    /\ cr' = IF cr.finalizer THEN [cr EXCEPT !.deleting = TRUE, !.gen = @ + 1] ELSE NoCR
    /\ edits' = edits + 1
    /\ UNCHANGED <<acSecret, acFin, config, sts, pods, ke, topoFin, cache, queued, worker,
                   missing, crashes, faults>>

\* A missing input appears.  Secrets, memcached, NADs, Topologies, KeystoneAPI
\* and Horizon are watched; Cinder and the database are not.
InputAppears(i) ==
    /\ i \in missing
    /\ missing' = missing \ {i}
    /\ queued' = (queued \/ i \notin {"cinder", "config"})
    /\ UNCHANGED <<server, cache, worker, edits, crashes, faults>>

InputLost(i) ==
    /\ i \in MayMiss \ missing
    /\ faults < MaxFaults /\ faults' = faults + 1
    /\ missing' = missing \cup {i}
    /\ UNCHANGED <<server, cache, queued, worker, edits, crashes>>

\* keystone-operator: creates the secret of a credential, and revokes one that
\* the spec no longer names and no consumer holds.
ACSecretCreated(c) ==
    /\ acSecret[c] = "none"
    /\ acSecret' = [acSecret EXCEPT ![c] = "live"]
    /\ queued' = (queued \/ (cache.exists /\ cache.spec.ac = c))
    /\ UNCHANGED <<cr, acFin, config, sts, pods, ke, topoFin, cache, worker, env>>

ACSecretRevoked(c) ==
    /\ acSecret[c] = "live" /\ c \notin acFin /\ cr.spec.ac # c
    /\ acSecret' = [acSecret EXCEPT ![c] = "revoked"]
    /\ UNCHANGED <<cr, acFin, config, sts, pods, ke, topoFin, cache, queued, worker, env>>

\* keystone-operator: registers the endpoint, removes it.
EndpointRegistered ==
    /\ ke = "pending" /\ ke' = "ready" /\ queued' = TRUE
    /\ UNCHANGED <<cr, acSecret, acFin, config, sts, pods, topoFin, cache, worker, env>>

EndpointRemoved ==
    /\ ke = "deleting" \/ (ke = "released" /\ ~cr.exists)
    /\ ke' = "absent" /\ queued' = TRUE
    /\ UNCHANGED <<cr, acSecret, acFin, config, sts, pods, topoFin, cache, worker, env>>

ReadyPods == {i \in Pods : pods[i].state = "ready" /\ pods[i].owned}

\* StatefulSet controller: reports the generation and the ready replicas it sees.
StsReportsStatus ==
    /\ sts.exists
    /\ sts.observed => sts.ready # Cardinality(ReadyPods)
    /\ sts' = [sts EXCEPT !.observed = TRUE, !.ready = Cardinality(ReadyPods)]
    /\ queued' = TRUE
    /\ UNCHANGED <<cr, acSecret, acFin, config, pods, ke, topoFin, cache, worker, env>>

\* A pod starts: it mounts the config-data secret as it is now.
PodStarts(i) ==
    /\ sts.exists /\ pods[i].state = "none"
    /\ pods' = [pods EXCEPT ![i] = [state |-> "starting", ac |-> config,
                                    current |-> TRUE, owned |-> TRUE]]
    /\ UNCHANGED <<cr, acSecret, acFin, config, sts, ke, topoFin, cache, queued, worker, env>>

PodBecomesReady(i) ==
    /\ pods[i].state = "starting" /\ pods[i].owned
    /\ pods' = [pods EXCEPT ![i].state = "ready"]
    /\ UNCHANGED <<cr, acSecret, acFin, config, sts, ke, topoFin, cache, queued, worker, env>>

\* Rolling update: a pod of an older template is deleted, once the StatefulSet
\* controller has seen the template and while no other pod is down.
PodRolls(i) ==
    /\ sts.exists /\ sts.observed
    /\ pods[i].state # "none" /\ pods[i].owned /\ ~pods[i].current
    /\ \A j \in Pods \ {i} : pods[j].state = "ready"
    /\ pods' = [pods EXCEPT ![i] = NoPod]
    /\ UNCHANGED <<cr, acSecret, acFin, config, sts, ke, topoFin, cache, queued, worker, env>>

\* The garbage collector removes the pods of a deleted StatefulSet.
PodCollected(i) ==
    /\ pods[i].state # "none" /\ ~pods[i].owned
    /\ pods' = [pods EXCEPT ![i] = NoPod]
    /\ UNCHANGED <<cr, acSecret, acFin, config, sts, ke, topoFin, cache, queued, worker, env>>

-----------------------------------------------------------------------------
(* The specification.                                                      *)

\* A reconcile pass.
Worker ==
    \/ ReconcileNotFound \/ Reconcile
    \/ VerifyInputs \/ BackendHash \/ VerifyBackends \/ ReconcileInit
    \/ GenerateServiceConfig \/ AddACFinalizer \/ EnsureServiceTopology
    \/ CreateOrPatchStatefulSet \/ ReconcileJobs \/ ReleaseACSecret
    \/ EnsureDeletedEndpoints \/ RemoveACFinalizers \/ EnsureDeletedTopologyRef
    \/ PatchInstance

\* What other controllers do in response to what they see.
Cluster ==
    \/ CacheSync
    \/ EndpointRegistered \/ EndpointRemoved \/ StsReportsStatus
    \/ \E i \in Pods : PodStarts(i) \/ PodBecomesReady(i) \/ PodRolls(i) \/ PodCollected(i)

\* What the user must provide for the service to be deployed.
Inputs ==
    \/ \E i \in InputNames : InputAppears(i)
    \/ \E c \in Creds : ACSecretCreated(c)

Failure == GlanceAPIRefreshFails \/ CallFails \/ PassLost \/ Crash \/ \E i \in InputNames : InputLost(i)

User == EditSpec \/ EditEndpoint \/ DeleteGlanceAPI \/ \E c \in Creds : ACSecretRevoked(c)

Next == Worker \/ Cluster \/ Inputs \/ Failure \/ User

Spec == Init /\ [][Next]_vars

\* The worker goes on, watches deliver, the other controllers act and the inputs
\* appear.  Nothing is assumed of failures and of the user.
Fairness ==
    /\ WF_vars(Worker)
    /\ WF_vars(CacheSync)
    /\ WF_vars(EndpointRegistered) /\ WF_vars(EndpointRemoved) /\ WF_vars(StsReportsStatus)
    /\ \A i \in Pods : /\ WF_vars(PodStarts(i)) /\ WF_vars(PodBecomesReady(i))
                       /\ WF_vars(PodRolls(i)) /\ WF_vars(PodCollected(i))
    /\ \A i \in InputNames : WF_vars(InputAppears(i))
    /\ \A c \in Creds : WF_vars(ACSecretCreated(c))

FairSpec == Spec /\ Fairness

-----------------------------------------------------------------------------
(* Safety.                                                                 *)

\* The pass and the queue are empty and the cache is current: nothing more
\* happens until something outside the reconciler changes.
Settled == pc = "idle" /\ ~queued /\ cache = cr

\* The GlanceAPI is Ready for its current generation.
ReadyNow == cr.exists /\ ~cr.deleting /\ cr.status.ready /\ cr.status.gen = cr.gen

\* The credential that the StatefulSet's template hands to new pods carries this
\* GlanceAPI's consumer finalizer until the GlanceAPI is deleted: the early
\* ManageACSecretFinalizer and the late RemoveACSecretConsumerFinalizer of
\* reconcileNormal never leave the deployed secret unprotected, whatever the
\* crashes, failed patches, stale reads and rotations in between.
TemplateCredentialProtected ==
    sts.exists /\ sts.template.ac # None /\ cr.exists /\ ~cr.deleting
        => sts.template.ac \in acFin

\* The deletion of the GlanceAPI cannot be taken back, and the worker enters
\* reconcileDelete only for an object that is being deleted.
Doomed == ~cr.exists \/ cr.deleting

DeletionSeen ==
    cache.deleting \/ pc \in {"deleteEndpoints", "deleteSecrets", "deleteTopology"} => Doomed

\* From the step after ManageACSecretFinalizer on, the secret of the spec the
\* pass works for is protected; after CreateOrPatch the template names it.
SpecCredentialProtected ==
    pc \in {"topology", "statefulset", "jobs", "acRelease"} /\ inst.spec.ac # None
        => inst.spec.ac \in acFin

TemplateFollowsSpec ==
    pc \in {"jobs", "acRelease"} /\ sts.exists => sts.template.ac = inst.spec.ac

\* The inductive strengthening of TemplateCredentialProtected: the order of
\* reconcileNormal (protect the new secret, deploy it, release the old one) makes
\* each step find the new secret protected, and only reconcileDelete, for an
\* object that is being deleted, may release the secret that is in use.
ProtectionInv ==
    /\ DeletionSeen
    /\ SpecCredentialProtected
    /\ TemplateFollowsSpec
    /\ TemplateCredentialProtected

\* No pod of the deployed StatefulSet holds a credential that has been revoked
\* because this GlanceAPI gave up its finalizer ("This prevents premature
\* revocation during rapid rotations").
NoPodOnRevokedCredential ==
    cr.exists /\ ~cr.deleting =>
        \A i \in Pods : pods[i].state = "ready" /\ pods[i].owned /\ pods[i].ac # None
                            => acSecret[pods[i].ac] # "revoked"

\* Every secret that still carries the consumer finalizer is one the status or
\* the spec names, so that a later rotation or reconcileDelete can find it.
FinalizersTracked ==
    Settled /\ cr.exists => acFin \subseteq {cr.spec.ac, cr.status.ac}

\* A GlanceAPI that is gone has left no consumer finalizer behind, although the
\* reconciler may have crashed or lost a patch anywhere (reconcileDelete: "to
\* handle the edge case where the reconciler crashed after adding the finalizer
\* but before updating the status").
DeletionReleasesSecrets == ~cr.exists => acFin = {}

\* A GlanceAPI that is gone does not leave a KeystoneEndpoint that carries its
\* finalizer and that nobody would remove (ensureDeletedEndpoints).
DeletionReleasesEndpoint == ~cr.exists => ke \notin {"pending", "ready"}

\* A GlanceAPI that has settled as Ready holds the finalizer of the Topology it
\* uses and of no other (EnsureServiceTopology, over failed and repeated passes).
TopologyTracked == Settled /\ ReadyNow => topoFin = {cr.spec.topology} \ {None}

\* What settles as Ready is what the spec asks for: the StatefulSet has the
\* template of the current spec, and the KeystoneEndpoint is registered exactly
\* when the annotation says so (unless one is still being removed, the end of
\* which brings another pass).
SettledReadyIsDeployed ==
    Settled /\ ReadyNow =>
        /\ sts.exists /\ sts.template = StatefulSetTemplate(cr)
        /\ ke # "deleting" => (ke = "ready" <=> cr.endpoint)

\* A GlanceAPI that is Ready runs on the volumes that its spec asks for: a change of
\* the storage configuration has recreated the StatefulSet (glanceAPIRefresh), as
\* its volume claim templates cannot be patched.
ReadyHasVolumes == ReadyNow => sts.exists /\ sts.volumes = cr.spec.storage

\* A change of the storage configuration that has been recorded in the
\* backendHash has recreated the StatefulSet ("The hash update results in a
\* glanceAPIRefresh trigger").
HashUpdateRecreates ==
    Settled /\ cr.exists /\ ~cr.deleting /\ sts.exists => sts.volumes = cr.status.storage

\* The object as the Glance controller sees it.
View(o) == [exists |-> o.exists, deleting |-> o.deleting, new |-> o.status.new,
            gen |-> o.gen, observed |-> o.status.gen, ready |-> o.status.ready]

Contract == INSTANCE GlanceAPIContract WITH
    Objects <- {"this"},
    object  <- [o \in {"this"} |-> View(cr)]

\* The reconciler keeps the contract on which the Glance controller relies: over
\* stale reads, crashes and lost patches, ObservedGeneration never goes back or
\* ahead of the object, a status once reported is not taken away, and an object
\* that the reconciler holds disappears only after its deletion was asked for.
KeepsContract == Contract!Spec

\* The steps of a pass over an object that was held and not being deleted when it
\* was read, and those over one that was being deleted.
NormalSteps == {"verifyInputs", "backendHash", "verifyBackends", "reconcileInit",
                "generateServiceConfig", "acFinalizer", "topology", "statefulset",
                "jobs", "acRelease"}
DeleteSteps == {"deleteEndpoints", "deleteSecrets", "deleteTopology"}

\* The patch that is next removes the GlanceAPI's own finalizer.
LettingGo == pc = "patch" /\ ~inst.finalizer

\* The finalizer and the first status arrive with the same patch, and only an
\* object that has the finalizer is marked as being deleted.
FinalizerWithStatus ==
    \A o \in {cr, cache, before} :
        /\ o.finalizer = ~o.status.new
        /\ o.deleting => o.finalizer
        /\ o.finalizer => o.exists

\* A copy may be old, but what it says of the finalizer still holds: an object
\* that was seen with it and not being deleted is there.
HoldKept ==
    /\ \A o \in {cache, before} : o.finalizer /\ cr.exists => cr.finalizer
    /\ cache.finalizer /\ ~cache.deleting => cr.exists
    /\ pc \in NormalSteps => cr.exists /\ cr.finalizer

\* The finalizer is given up for an object that is being deleted, and after the
\* cache has shown the deletion.
LettingGoIsLast ==
    pc \in DeleteSteps \/ LettingGo => Doomed /\ (cache.deleting \/ ~cache.exists)

\* The copy that a pass works on: it will report the generation it has read, and
\* keeps the finalizer until the end of reconcileDelete.
PassCopy ==
    pc # "idle" => /\ inst.finalizer \/ pc = "patch"
                   /\ ~inst.status.new
                   /\ inst.status.gen = before.gen

\* ObservedGeneration, the generation a pass has read, the one in the cache and
\* the one in the server follow each other.
ObservedInOrder ==
    cr.exists => /\ cr.status.gen <= cache.gen /\ cache.gen <= cr.gen
                 /\ pc # "idle" => cr.status.gen <= before.gen /\ before.gen <= cache.gen

\* A KeystoneEndpoint that has not been released belongs to an object that is
\* held, and not by a pass that has been through ensureDeletedEndpoints.
EndpointHeld ==
    ke \in {"pending", "ready"} =>
        /\ cr.exists /\ cr.finalizer
        /\ pc \notin {"deleteSecrets", "deleteTopology"} /\ ~LettingGo

\* What makes the reconciler keep the contract, step by step: the single worker
\* reads versions in their order, and the finalizer that the first patch sets
\* keeps the object until a pass that has read its deletion has cleaned up.
LifeCycleInv ==
    /\ DeletionSeen
    /\ FinalizerWithStatus
    /\ HoldKept
    /\ LettingGoIsLast
    /\ PassCopy
    /\ ObservedInOrder
    /\ EndpointHeld

\* The versions that the cache and the pass in progress hold.
Versions == {o \in {cache, before} : o.exists}

\* What a version says of the object.  One that is behind is behind by one edit of
\* a user who waits for Ready: its secret is then the recorded one, and the object
\* had become Ready.  One of the current spec may be behind by what passes have
\* recorded, which is the secret of that spec.
VersionsClose ==
    cr.exists =>
        /\ cr.gen > 0 /\ (cr.status.new => ~cr.status.ready)
        /\ \A o \in Versions :
             /\ o.gen = cr.gen \/ o.deleting => o.spec = cr.spec
             /\ o.status.new => ~o.status.ready /\ ~cr.status.ready
             /\ o.spec # cr.spec => /\ cr.status.ac = o.spec.ac
                                    /\ o.status.ready \/ cr.status.ready
             /\ o.spec = cr.spec =>
                  /\ cr.status.ac \in {o.status.ac, cr.spec.ac}
                  /\ cr.status.ready /\ ~o.status.ready => cr.status.ac = cr.spec.ac

\* A pass works for the spec it has read.  What the cache has shown since then is
\* the status of the object, which nobody but the pass writes.
PassReads ==
    /\ pc = "idle" => before = NoCR
    /\ pc # "idle" =>
         /\ before.exists /\ inst.spec = before.spec
         /\ cr.exists => /\ cache = before \/ cache.status = cr.status
                         /\ cache.spec \in {before.spec, cr.spec}
    /\ pc \in NormalSteps => ~before.status.new
    /\ pc \in DeleteSteps => before.deleting
    /\ before.deleting => Doomed

\* A pass records the secret of its spec, and reports Ready, at its end and when
\* no other secret holds the finalizer.
PassRecords ==
    pc # "idle" =>
        /\ inst.status.ac # before.status.ac =>
             /\ pc = "patch" /\ inst.status.ac = inst.spec.ac
             /\ cr.exists /\ before.spec = cr.spec => acFin \subseteq {inst.spec.ac}
        /\ inst.status.ready =>
             pc = "patch" /\ inst.status.ac = inst.spec.ac /\ ~before.status.new

\* A GlanceAPI that is Ready for its generation has recorded the secret of its spec.
ReadyIsRecorded ==
    cr.status.ready /\ cr.status.gen = cr.gen => cr.status.ac = cr.spec.ac

\* At any time, in the middle of a pass too, the finalizers are on secrets that the
\* object names, and there are none once a pass is about to let go of it.
FinalizersNamed ==
    /\ cr.exists => acFin \subseteq {cr.spec.ac, cr.status.ac}
    /\ acFin # {} => cr.exists /\ cr.finalizer /\ pc # "deleteTopology" /\ ~LettingGo

\* What keeps the consumer finalizers on record when the user waits for Ready
\* before an edit: Ready means that one secret is left, and nobody works for a
\* spec older than the one before the last.
TrackingInv ==
    /\ VersionsClose
    /\ PassReads
    /\ PassRecords
    /\ ReadyIsRecorded
    /\ FinalizersNamed

-----------------------------------------------------------------------------
(* Liveness.                                                               *)

\* Once the user stops, the GlanceAPI becomes and stays Ready for its current
\* generation with every replica on the current template, or is deleted.
Converges ==
    <>[](\/ ~cr.exists
         \/ ReadyNow /\ \A i \in Pods : pods[i].state = "ready" /\ pods[i].current)

\* A deletion completes: reconcileDelete waits for nobody and its retries end
\* with the removal of the finalizer.
DeletionCompletes == cr.deleting ~> ~cr.exists

=============================================================================
