------------------------------- MODULE Glance -------------------------------
(***************************************************************************)
(* The Glance controller: one Glance object, its reconciler and the two    *)
(* informer caches it reads from (the Glance itself and the GlanceAPI      *)
(* objects it owns).  A GlanceAPI is here what the Glance controller sees  *)
(* of it: its spec, its keystoneEndpoint annotation, its generation and    *)
(* the part of its status that is mirrored.  What the GlanceAPI controller *)
(* does with it is in module GlanceAPI; here it does what module           *)
(* GlanceAPIContract allows: it observes, becomes ready, reports late or   *)
(* failure, and finishes deletions.                                        *)
(*                                                                         *)
(* The webhooks stand before the user: an edit that they reject is no      *)
(* action.                                                                 *)
(*                                                                         *)
(* Simplifications:                                                        *)
(*  - of the conditions only the two that may not be True at the end of a  *)
(*    pass are stored, and of the saved list only "is Ready True";         *)
(*  - the fields that all GlanceAPIs inherit are one value, "image";       *)
(*  - the resource version of a GlanceAPI is its content;                  *)
(*  - RBAC objects, the DB purge cron job and unused database accounts are *)
(*    calls that may fail, without state of their own.                     *)
(***************************************************************************)
EXTENDS Naturals

CONSTANTS
    Names,         \* keys of spec.glanceAPIs; the order of numbers is their order
    Layouts,       \* layouts (spec.glanceAPIs[name].type) that occur
    Images,        \* values of the fields that every GlanceAPI inherits
    Quotas,        \* values of IsQuotaEnabled that occur
    Endpoints,     \* APIs that the user may choose as keystoneEndpoint
    MayMiss,       \* external inputs that are missing at the start
    PatientUser,   \* the user edits the object only when it is Ready
    Failures,      \* what may fail: "call", "patch", "cleanup", "report"
    MaxEdits, MaxCrashes, MaxFaults

InputNames == {"inputs", "badSecret", "db", "dbsync", "service", "keystone"}

ASSUME ConstantsAssumption ==
    /\ Names \subseteq Nat /\ Names # {}
    /\ Layouts \subseteq {"split", "single", "edge"}
    /\ Quotas \subseteq BOOLEAN
    /\ Endpoints \subseteq Names
    /\ MayMiss \subseteq InputNames
    /\ PatientUser \in BOOLEAN
    /\ Failures \subseteq {"call", "patch", "cleanup", "report"}
    /\ MaxEdits \in Nat /\ MaxCrashes \in Nat /\ MaxFaults \in Nat

VARIABLES
    glance,    \* the Glance object in the API server
    gcache,    \* the version of it in the informer cache
    queued,    \* the work queue holds a request for it
    pc,        \* where the worker is in Reconcile ("idle" between passes)
    before,    \* the version the pass has read
    inst,      \* the worker's copy of it, modified during the pass
    conds,     \* sub-conditions of this pass that are True
    todo,      \* GlanceAPIs the pass has not deployed yet
    mirror,    \* condition of the external half of a split GlanceAPI
    exit,      \* how the pass ends: "done", "requeue" or "error"
    api,       \* the GlanceAPI objects in the API server
    seen,      \* the versions of them in the informer cache
    claimed,   \* objects that carry our finalizer: "db", "service"
    limits,    \* registered limits exist in keystone
    missing,   \* external inputs that are missing or not ready
    edits, crashes, faults

\* Something of kind k fails; there are at most MaxFaults failures.
Fails(k) == k \in Failures /\ faults < MaxFaults /\ faults' = faults + 1

server == <<glance, api, claimed, limits>>
caches == <<gcache, seen>>
worker == <<pc, before, inst, conds, todo, mirror, exit>>
env    == <<missing, edits, crashes, faults>>
vars   == <<glance, gcache, queued, pc, before, inst, conds, todo, mirror, exit, api,
            seen, claimed, limits, missing, edits, crashes, faults>>

-----------------------------------------------------------------------------
(* The objects.                                                            *)

\* The GlanceAPI objects of a layout: a split API is two of them.
LayoutRoles(t) == CASE t = "split"  -> {"external", "internal"}
                    [] t = "single" -> {"single"}
                    [] t = "edge"   -> {"edge"}
                    [] OTHER        -> {}

\* A GlanceAPI object is named after its API and its role in the layout.
APIs == Names \X UNION {LayoutRoles(t) : t \in Layouts}

\* GlanceSpec; an API that is not in the map is "absent".
SpecType == [apis : [Names -> {"split", "single", "edge", "absent"}],
             image : Images, quota : BOOLEAN, endpoint : Names]

\* GlanceStatus; "new" is a nil condition list, "keys" the APIs that have
\* entries in APIEndpoints and GlanceAPIReadyCounts.
StatusType == [new : BOOLEAN, ready : BOOLEAN, gen : Nat, keys : SUBSET Names]

GlanceType == [exists : BOOLEAN, deleting : BOOLEAN, finalizer : BOOLEAN, gen : Nat,
               spec : SpecType, status : StatusType]

\* A GlanceAPI, with the mirrored part of its status.  It has its own finalizer
\* exactly when its condition list is not nil.
APIType == [exists : BOOLEAN, deleting : BOOLEAN, gen : Nat, image : Images,
            quota : BOOLEAN, endpoint : BOOLEAN,
            new : BOOLEAN, ready : BOOLEAN, observed : Nat]

AnyImage == CHOOSE i \in Images : TRUE
AnyName  == CHOOSE n \in Names : TRUE

NoStatus == [new |-> TRUE, ready |-> FALSE, gen |-> 0, keys |-> {}]
NoGlance == [exists |-> FALSE, deleting |-> FALSE, finalizer |-> FALSE, gen |-> 0,
             spec |-> [apis |-> [n \in Names |-> "absent"], image |-> AnyImage,
                       quota |-> FALSE, endpoint |-> AnyName],
             status |-> NoStatus]
NoAPI    == [exists |-> FALSE, deleting |-> FALSE, gen |-> 0, image |-> AnyImage,
             quota |-> FALSE, endpoint |-> FALSE,
             new |-> TRUE, ready |-> FALSE, observed |-> 0]

\* The objects that the two controllers share.
APIView(a) == [exists |-> a.exists, deleting |-> a.deleting, new |-> a.new, gen |-> a.gen,
               observed |-> a.observed, ready |-> a.ready]

Contract == INSTANCE GlanceAPIContract WITH
    Objects <- APIs,
    object  <- [o \in APIs |-> APIView(api[o])]

Steps == {"inputs", "ensureDB", "reconcileInit", "apiDeployment", "cleanup", "finish",
          "deleteDB", "deleteService", "deleteLimits", "patch"}

TypeOK ==
    /\ glance \in GlanceType /\ gcache \in GlanceType
    /\ before \in GlanceType /\ inst \in GlanceType
    /\ queued \in BOOLEAN
    /\ pc \in Steps \cup {"idle"}
    /\ conds \subseteq {"KeystoneServiceReady", "GlanceAPIReady"}
    /\ todo \subseteq APIs
    /\ mirror \in {"nil", "True", "False"}
    /\ exit \in {"done", "requeue", "error"}
    /\ api \in [APIs -> APIType] /\ seen \in [APIs -> APIType]
    /\ claimed \subseteq {"db", "service"}
    /\ limits \in BOOLEAN
    /\ missing \subseteq InputNames
    /\ edits \in Nat /\ crashes \in Nat /\ faults \in Nat

-----------------------------------------------------------------------------
(* The webhooks.                                                           *)

\* The keystone endpoint is an API of the map that is not an edge API.
isValidKeystoneEP(s) == s.apis[s.endpoint] \in {"split", "single"}

\* The specs that the user may ask for.
UserSpecs == [apis : [Names -> Layouts \cup {"absent"}], image : Images,
              quota : Quotas, endpoint : Endpoints]

\* The layout of an API that stays in the map does not change.
ValidateUpdate(s, old) ==
    /\ isValidKeystoneEP(s)
    /\ \A n \in Names : "absent" \notin {s.apis[n], old.apis[n]} => s.apis[n] = old.apis[n]

-----------------------------------------------------------------------------
(* Layouts.                                                                *)

\* The GlanceAPI objects that a spec asks for.
Wanted(s) == {o \in APIs : o[2] \in LayoutRoles(s.apis[o[1]])}

\* The loop over the sorted names; the internal half of an API comes second.
First(S) == CHOOSE o \in S : \A p \in S \ {o} :
                o[1] < p[1] \/ (o[1] = p[1] /\ p[2] = "internal")

\* Mutated Desired: the update of the spec writes ObservedGeneration, too.
DesiredAsObserved(o, s, old) ==
    LET g == IF old.image = s.image /\ old.quota = s.quota THEN old.gen ELSE old.gen + 1
    IN [old EXCEPT !.image = s.image, !.quota = s.quota, !.endpoint = (s.endpoint = o[1]),
                   !.gen = g, !.observed = g]

\* A GlanceAPI with the spec and the annotation that a Glance spec gives it; its
\* generation counts changes of the spec, not of the annotations.
Desired(o, s, old) ==
    [old EXCEPT !.image = s.image, !.quota = s.quota, !.endpoint = (s.endpoint = o[1]),
                !.gen = IF old.image = s.image /\ old.quota = s.quota THEN @ ELSE @ + 1]

Created(o, s) == [Desired(o, s, NoAPI) EXCEPT !.exists = TRUE, !.gen = 1]

\* Deleting a GlanceAPI: with a finalizer it is only marked.
Deleted(a) == IF ~a.exists \/ a.new THEN NoAPI
              ELSE IF a.deleting THEN a ELSE [a EXCEPT !.deleting = TRUE, !.gen = @ + 1]

\* Mirror: nothing without conditions, else whether the GlanceAPI is Ready.
Mirror(a) == IF a.new THEN "nil" ELSE IF a.ready THEN "True" ELSE "False"

\* GetHigherPrioCondition: what is not True comes first, nil last.
HigherPrio(c, d) == IF "False" \in {c, d} THEN "False"
                    ELSE IF "True" \in {c, d} THEN "True" ELSE "nil"

\* The Glance has just been created; which of its images comes first is immaterial.
Init ==
    /\ \E s \in UserSpecs :
         /\ isValidKeystoneEP(s) /\ s.image = AnyImage
         /\ glance = [NoGlance EXCEPT !.exists = TRUE, !.gen = 1, !.spec = s]
    /\ gcache = NoGlance /\ before = NoGlance /\ inst = NoGlance
    /\ queued = FALSE /\ pc = "idle" /\ conds = {} /\ todo = {} /\ mirror = "nil"
    /\ exit = "done"
    /\ api = [o \in APIs |-> NoAPI] /\ seen = [o \in APIs |-> NoAPI]
    /\ claimed = {} /\ limits = FALSE
    /\ missing \in SUBSET MayMiss
    /\ edits = 0 /\ crashes = 0 /\ faults = 0

-----------------------------------------------------------------------------
(* Moving through a pass.                                                  *)

Proceed(p) == pc' = p /\ UNCHANGED exit

\* The pass returns; the deferred function patches the object next.
Return(e) == pc' = "patch" /\ exit' = e

Idle == /\ pc' = "idle" /\ exit' = "done" /\ before' = NoGlance /\ inst' = NoGlance
        /\ conds' = {} /\ todo' = {} /\ mirror' = "nil"

\* The loop over the APIs is left when there is none to deploy.
DeployNext(S) == Proceed(IF S = {} THEN "cleanup" ELSE "apiDeployment") /\ todo' = S

-----------------------------------------------------------------------------
(* Reconcile.                                                              *)

\* The cached object is gone: nothing to do.
ReconcileNotFound ==
    /\ pc = "idle" /\ queued /\ ~gcache.exists
    /\ queued' = FALSE
    /\ UNCHANGED <<server, caches, worker, env>>

\* The worker's copy of the cached object, with its conditions initialised.
Started(addFinalizer) ==
    [gcache EXCEPT !.finalizer = @ \/ addFinalizer,
                   !.status = [new |-> FALSE, ready |-> FALSE, gen |-> gcache.gen,
                               keys |-> gcache.status.keys]]

\* Mutated Reconcile: the pass that adds the finalizer goes on with it unsaved.
ReconcileGoesOn ==
    LET addFinalizer == ~gcache.deleting /\ ~gcache.finalizer
    IN /\ pc = "idle" /\ queued /\ gcache.exists
       /\ queued' = FALSE
       /\ before' = gcache /\ inst' = Started(addFinalizer)
       /\ conds' = {} /\ exit' = "done"
       /\ pc' = IF gcache.deleting THEN "deleteDB" ELSE "inputs"
       /\ UNCHANGED <<server, caches, todo, mirror, env>>

\* Read the object, reset the conditions, record the generation.  A new object,
\* or one that just got the finalizer, is patched at once.
Reconcile ==
    LET addFinalizer == ~gcache.deleting /\ ~gcache.finalizer
    IN /\ pc = "idle" /\ queued /\ gcache.exists
       /\ queued' = FALSE
       /\ before' = gcache /\ inst' = Started(addFinalizer)
       /\ conds' = {} /\ exit' = "done"
       /\ pc' = IF addFinalizer \/ gcache.status.new THEN "patch"
                ELSE IF gcache.deleting THEN "deleteDB" ELSE "inputs"
       /\ UNCHANGED <<server, caches, todo, mirror, env>>

\* RBAC, the notification bus, memcached and the OpenStack secret are waited for
\* with a requeue; a secret that lacks a field is an error.
verifyServiceSecret == IF "inputs" \in missing THEN "requeue"
                       ELSE IF "badSecret" \in missing THEN "error" ELSE "ok"

\* The error is dropped: the watch on secrets is what brings the next pass.
VerifyInputs ==
    /\ pc = "inputs"
    /\ \/ verifyServiceSecret = "requeue" /\ Return("requeue")
       \/ verifyServiceSecret = "error" /\ Return("done")
       \/ verifyServiceSecret = "ok" /\ Proceed("ensureDB")
    /\ UNCHANGED <<server, caches, queued, before, inst, conds, todo, mirror, env>>

\* The database is created, with our finalizer, and waited for.
EnsureDB ==
    /\ pc = "ensureDB"
    /\ claimed' = claimed \cup {"db"}
    /\ queued' = (queued \/ "db" \notin claimed)
    /\ IF "db" \in missing THEN Return("requeue") ELSE Proceed("reconcileInit")
    /\ UNCHANGED <<glance, api, limits, caches, before, inst, conds, todo, mirror, env>>

\* The KeystoneService is created, with our finalizer, and its condition is
\* mirrored; the db-sync job is waited for.  A missing network attachment sets a
\* condition that the end of this step sets True again.
ReconcileInit ==
    /\ pc = "reconcileInit"
    /\ claimed' = claimed \cup {"service"}
    /\ queued' = (queued \/ "service" \notin claimed)
    /\ conds' = IF "service" \in missing THEN conds ELSE conds \cup {"KeystoneServiceReady"}
    /\ IF "dbsync" \in missing
       THEN Return("requeue") /\ UNCHANGED todo
       ELSE DeployNext(Wanted(inst.spec))
    /\ UNCHANGED <<glance, api, limits, caches, before, inst, mirror, env>>

\* With quotas, the limits are registered in keystone, which must be there.
NoKeystone == inst.spec.quota /\ "keystone" \in missing
ensureRegisteredLimits == limits' = (limits \/ (inst.spec.quota /\ ~NoKeystone))

\* Mutated WriteFails: an update is sent without the version it was made from.
WriteFailsOnCreateOnly(o) == ~seen[o].exists /\ api[o].exists

\* The outcome of apiDeploymentCreateOrUpdate for object o: a GlanceAPI that is
\* not in the cache is created (which fails if the server has one), one that is
\* not as desired is updated (which fails if the cache is behind).
UpToDate(o)   == seen[o].exists /\ Desired(o, inst.spec, seen[o]) = seen[o]
WriteFails(o) == /\ ~UpToDate(o)
                 /\ IF seen[o].exists THEN seen[o] # api[o] ELSE api[o].exists
Written(o)    == IF UpToDate(o) THEN seen[o]
                 ELSE IF seen[o].exists THEN Desired(o, inst.spec, seen[o])
                 ELSE Created(o, inst.spec)

\* Mutated SetGlanceAPIReady: the condition is stored under its value.
SetGlanceAPIReadyByValue(c) == conds' = IF c = "nil" THEN conds ELSE conds \cup {c}

\* Set the GlanceAPIReady condition, unless there is nothing to mirror.
SetGlanceAPIReady(c) ==
    conds' = CASE c = "True"  -> conds \cup {"GlanceAPIReady"}
               [] c = "False" -> conds \ {"GlanceAPIReady"}
               [] OTHER       -> conds

\* Mutated MirrorCondition: of a split API only the internal half counts.
MirrorConditionInternalOnly(o, c) ==
    IF o[2] = "external"
    THEN mirror' = c /\ UNCHANGED conds
    ELSE mirror' = "nil" /\ SetGlanceAPIReady(c)

\* The condition of an API; for a split API, of the worse of its halves.
MirrorCondition(o, c) ==
    IF o[2] = "external"
    THEN mirror' = c /\ UNCHANGED conds
    ELSE mirror' = "nil" /\ SetGlanceAPIReady(HigherPrio(c, mirror))

\* Mutated APIDeployment: an existing GlanceAPI keeps its annotations.
APIDeploymentKeepsAnnotations ==
    LET o == First(todo)
        w == IF seen[o].exists THEN [Written(o) EXCEPT !.endpoint = seen[o].endpoint]
             ELSE Written(o)
    IN /\ pc = "apiDeployment"
       /\ ~NoKeystone /\ ~WriteFails(o)
       /\ ensureRegisteredLimits
       /\ api' = IF UpToDate(o) THEN api ELSE [api EXCEPT ![o] = w]
       /\ inst' = [inst EXCEPT !.status.keys = @ \cup {o[1]}]
       /\ MirrorCondition(o, Mirror(w))
       /\ DeployNext(todo \ {o})
       /\ UNCHANGED <<glance, claimed, caches, queued, before, env>>

\* One object of the loop over the APIs: the registered limits are ensured, the
\* GlanceAPI is created or updated, its ready count, endpoints and condition are
\* mirrored.  The condition replaces the one of the API before it.
APIDeployment ==
    LET o == First(todo)
    IN /\ pc = "apiDeployment"
       /\ ~NoKeystone /\ ~WriteFails(o)
       /\ ensureRegisteredLimits
       /\ api' = IF UpToDate(o) THEN api ELSE [api EXCEPT ![o] = Written(o)]
       /\ inst' = [inst EXCEPT !.status.keys = @ \cup {o[1]}]
       /\ MirrorCondition(o, Mirror(Written(o)))
       /\ DeployNext(todo \ {o})
       /\ UNCHANGED <<glance, claimed, caches, queued, before, env>>

\* Mutated APIDeploymentFails: the error is dropped.
APIDeploymentFailsQuietly ==
    LET o == First(todo)
    IN /\ pc = "apiDeployment"
       /\ NoKeystone \/ WriteFails(o)
       /\ ensureRegisteredLimits
       /\ conds' = conds \ {"GlanceAPIReady"}
       /\ Return("done")
       /\ UNCHANGED <<glance, api, claimed, caches, queued, before, inst, todo, mirror, env>>

\* Without a KeystoneAPI the limits cannot be ensured; a write to the API server
\* is refused.  The pass returns the error.
APIDeploymentFails ==
    LET o == First(todo)
    IN /\ pc = "apiDeployment"
       /\ NoKeystone \/ WriteFails(o)
       /\ ensureRegisteredLimits
       /\ conds' = conds \ {"GlanceAPIReady"}
       /\ Return("error")
       /\ UNCHANGED <<glance, api, claimed, caches, queued, before, inst, todo, mirror, env>>

\* The GlanceAPIs of the cache whose API is not in the spec.
Removed == {o \in APIs : /\ seen[o].exists /\ ~seen[o].deleting
                         /\ inst.spec.apis[o[1]] = "absent"}

\* Delete them, and forget their endpoints and ready counts.
Cleanup(S) ==
    /\ api' = [o \in APIs |-> IF o \in S THEN Deleted(api[o]) ELSE api[o]]
    /\ inst' = [inst EXCEPT !.status.keys = @ \ {o[1] : o \in S}]

\* Mutated GlanceAPICleanup: a GlanceAPI that is not Ready is left alone.
GlanceAPICleanupReadyOnly ==
    /\ pc = "cleanup"
    /\ Cleanup({o \in Removed : seen[o].ready})
    /\ Proceed("finish")
    /\ UNCHANGED <<glance, claimed, limits, caches, queued, before, conds, todo, mirror, env>>

\* Every GlanceAPI of the cache that we own and whose API is not in the spec.
GlanceAPICleanup ==
    /\ pc = "cleanup"
    /\ Cleanup(Removed)
    /\ Proceed("finish")
    /\ UNCHANGED <<glance, claimed, limits, caches, queued, before, conds, todo, mirror, env>>

\* One of the deletions fails: the ones before it have happened.
GlanceAPICleanupFails ==
    /\ pc = "cleanup"
    /\ Fails("cleanup")
    /\ \E S \in SUBSET Removed : S # Removed /\ Cleanup(S)
    /\ Return("error")
    /\ UNCHANGED <<glance, claimed, limits, caches, queued, before, conds, todo, mirror,
                   missing, edits, crashes>>

\* Mutated checkGlanceAPIsGeneration: always content.
GenerationUnchecked == TRUE

\* Every GlanceAPI of the cache has been reconciled at its generation.
checkGlanceAPIsGeneration ==
    \A o \in APIs : seen[o].exists => seen[o].gen = seen[o].observed

\* Unused database accounts, the DB purge cron job, then the Ready condition.
Finish ==
    LET ready == conds = {"KeystoneServiceReady", "GlanceAPIReady"}
    IN /\ pc = "finish"
       /\ inst' = [inst EXCEPT !.status.ready = ready /\ checkGlanceAPIsGeneration]
       /\ Return("done")
       /\ UNCHANGED <<server, caches, queued, before, conds, todo, mirror, env>>

-----------------------------------------------------------------------------
(* reconcileDelete.                                                        *)

\* Our finalizer is removed from the database, then from the KeystoneService.
DeleteDBFinalizer ==
    /\ pc = "deleteDB"
    /\ claimed' = claimed \ {"db"}
    /\ Proceed("deleteService")
    /\ UNCHANGED <<glance, api, limits, caches, queued, before, inst, conds, todo, mirror, env>>

\* Mutated DeleteServiceFinalizer: the KeystoneService keeps our finalizer.
DeleteServiceFinalizerSkipped ==
    /\ pc = "deleteService"
    /\ Proceed("deleteLimits")
    /\ UNCHANGED <<server, caches, queued, before, inst, conds, todo, mirror, env>>

\* removeAPIFinalizer comes next: it looks for our finalizer on the GlanceAPIs,
\* which carry only their own.
DeleteServiceFinalizer ==
    /\ pc = "deleteService"
    /\ claimed' = claimed \ {"service"}
    /\ Proceed("deleteLimits")
    /\ UNCHANGED <<glance, api, limits, caches, queued, before, inst, conds, todo, mirror, env>>

\* Mutated DeleteLimits: the registered limits stay.
DeleteLimitsSkipped ==
    /\ pc = "deleteLimits"
    /\ inst' = [inst EXCEPT !.finalizer = FALSE]
    /\ Return("done")
    /\ UNCHANGED <<server, caches, queued, before, conds, todo, mirror, env>>

\* All limits that are registered for the service are deleted.
registeredLimitsDelete == limits' = FALSE

\* The registered limits are deleted when there is a KeystoneAPI and quotas are
\* enabled; the finalizer of the Glance is removed in any case.
DeleteLimits ==
    /\ pc = "deleteLimits"
    /\ IF inst.spec.quota /\ "keystone" \notin missing
       THEN registeredLimitsDelete ELSE UNCHANGED limits
    /\ inst' = [inst EXCEPT !.finalizer = FALSE]
    /\ Return("done")
    /\ UNCHANGED <<glance, api, claimed, caches, queued, before, conds, todo, mirror, env>>

-----------------------------------------------------------------------------
(* The deferred patch.                                                     *)

Patched(new, old, current) == IF new # old THEN new ELSE current

\* A merge patch carries what differs from the version read: the condition list
\* as a whole, the maps key by key.
MergePatch ==
    LET i == inst.status
        b == before.status
        c == glance.status
        changed == i.new # b.new \/ i.ready # b.ready
    IN [glance EXCEPT
          !.finalizer = Patched(inst.finalizer, before.finalizer, glance.finalizer),
          !.status = [new   |-> IF changed THEN i.new ELSE c.new,
                      ready |-> IF changed THEN i.ready ELSE c.ready,
                      gen   |-> Patched(i.gen, b.gen, c.gen),
                      keys  |-> (c.keys \cup (i.keys \ b.keys)) \ (b.keys \ i.keys)]]

\* An object that is being deleted disappears with its last finalizer.
PatchInstance ==
    LET o == MergePatch
    IN /\ pc = "patch"
       /\ Idle
       /\ queued' = (queued \/ exit # "done" \/ ~glance.exists)
       /\ glance' = IF ~glance.exists THEN glance
                    ELSE IF o.deleting /\ ~o.finalizer THEN NoGlance ELSE o
       /\ UNCHANGED <<api, claimed, limits, caches, env>>

-----------------------------------------------------------------------------
(* Failures.                                                               *)

\* A call fails before it has had its effect: the pass returns the error.
CallFails ==
    /\ pc \in Steps \ {"patch", "cleanup"}
    /\ Fails("call")
    /\ conds' = conds \ {"GlanceAPIReady"}
    /\ Return("error")
    /\ UNCHANGED <<server, caches, queued, before, inst, todo, mirror, missing, edits, crashes>>

\* The patch fails: nothing is saved.
PatchFails ==
    /\ pc = "patch"
    /\ Fails("patch")
    /\ Idle /\ queued' = TRUE
    /\ UNCHANGED <<server, caches, missing, edits, crashes>>

\* The operator stops; its replacement lists the objects and queues them.
Crash ==
    /\ pc # "idle" /\ crashes < MaxCrashes /\ crashes' = crashes + 1
    /\ Idle /\ queued' = TRUE /\ gcache' = glance /\ seen' = api
    /\ UNCHANGED <<server, missing, edits, faults>>

-----------------------------------------------------------------------------
(* The rest of the cluster.                                                *)

\* Watch events: each brings one object up to date and queues a request.
CacheSync ==
    /\ gcache # glance
    /\ gcache' = glance /\ queued' = TRUE
    /\ UNCHANGED <<server, seen, worker, env>>

APICacheSync(o) ==
    /\ seen[o] # api[o]
    /\ seen' = [seen EXCEPT ![o] = api[o]] /\ queued' = TRUE
    /\ UNCHANGED <<server, gcache, worker, env>>

\* The GlanceAPI controller: its first pass, or the first pass at a new
\* generation, which may leave it Ready if it was;
APIObserves(o) ==
    LET a == api[o]
    IN /\ a.exists /\ (a.new \/ a.observed # a.gen)
       /\ \E r \in BOOLEAN :
            /\ r => a.ready /\ ~a.deleting
            /\ api' = [api EXCEPT ![o] = [a EXCEPT !.new = FALSE, !.observed = a.gen,
                                                   !.ready = r]]
       /\ UNCHANGED <<glance, claimed, limits, caches, queued, worker, env>>

\* its StatefulSet is up;
APIBecomesReady(o) ==
    LET a == api[o]
    IN /\ a.exists /\ ~a.deleting /\ ~a.new /\ a.observed = a.gen /\ ~a.ready
       /\ api' = [api EXCEPT ![o].ready = TRUE]
       /\ UNCHANGED <<glance, claimed, limits, caches, queued, worker, env>>

\* any other report: its StatefulSet or one of its inputs is not there any more,
\* or the report comes late and is about an older generation;
APIReports(o) ==
    /\ api[o].exists
    /\ Fails("report")
    /\ \E a \in Contract!Reports(api[o]) \ {api[o]} : api' = [api EXCEPT ![o] = a]
    /\ UNCHANGED <<glance, claimed, limits, caches, queued, worker, missing, edits, crashes>>

\* its deletion is complete.
APIFinalized(o) ==
    /\ api[o].deleting
    /\ api' = [api EXCEPT ![o] = NoAPI]
    /\ UNCHANGED <<glance, claimed, limits, caches, queued, worker, env>>

\* The garbage collector deletes the GlanceAPIs of a Glance that is gone.
APICollected(o) ==
    /\ ~glance.exists /\ api[o].exists /\ ~api[o].deleting
    /\ api' = [api EXCEPT ![o] = Deleted(@)]
    /\ UNCHANGED <<glance, claimed, limits, caches, queued, worker, env>>

UserMayAct  == glance.exists /\ ~glance.deleting /\ edits < MaxEdits
UserMayEdit == /\ UserMayAct
               /\ PatientUser => glance.status.ready /\ glance.status.gen = glance.gen

\* The user changes the spec in a way that the webhooks accept.
EditSpec ==
    /\ UserMayEdit
    /\ \E s \in UserSpecs :
         /\ s # glance.spec /\ ValidateUpdate(s, glance.spec)
         /\ glance' = [glance EXCEPT !.spec = s, !.gen = @ + 1]
    /\ edits' = edits + 1
    /\ UNCHANGED <<api, claimed, limits, caches, queued, worker, missing, crashes, faults>>

DeleteGlance ==
    /\ UserMayAct
    /\ glance' = IF glance.finalizer THEN [glance EXCEPT !.deleting = TRUE, !.gen = @ + 1]
                 ELSE NoGlance
    /\ edits' = edits + 1
    /\ UNCHANGED <<api, claimed, limits, caches, queued, worker, missing, crashes, faults>>

\* A missing input appears; all of them are watched but the KeystoneAPI.
InputAppears(i) ==
    /\ i \in missing
    /\ missing' = missing \ {i}
    /\ queued' = (queued \/ i # "keystone")
    /\ UNCHANGED <<server, caches, worker, edits, crashes, faults>>

-----------------------------------------------------------------------------
(* The specification.                                                      *)

Worker ==
    \/ ReconcileNotFound \/ Reconcile
    \/ VerifyInputs \/ EnsureDB \/ ReconcileInit
    \/ APIDeployment \/ APIDeploymentFails \/ GlanceAPICleanup \/ Finish
    \/ DeleteDBFinalizer \/ DeleteServiceFinalizer \/ DeleteLimits
    \/ PatchInstance

\* What the GlanceAPI controller does to an object, short of failures.
APIController(o) == APIObserves(o) \/ APIBecomesReady(o) \/ APIFinalized(o)

Cluster ==
    \/ CacheSync
    \/ \E o \in APIs : APICacheSync(o) \/ APIController(o) \/ APICollected(o)
    \/ \E i \in InputNames : InputAppears(i)

Failure ==
    \/ GlanceAPICleanupFails \/ CallFails \/ PatchFails \/ Crash
    \/ \E o \in APIs : APIReports(o)

User == EditSpec \/ DeleteGlance

Next == Worker \/ Cluster \/ Failure \/ User

Spec == Init /\ [][Next]_vars

\* The worker goes on, watches deliver, the GlanceAPI controller and the garbage
\* collector act, and the inputs appear.
Fairness ==
    /\ WF_vars(Worker) /\ WF_vars(CacheSync)
    /\ \A o \in APIs : /\ WF_vars(APICacheSync(o)) /\ WF_vars(APIController(o))
                       /\ WF_vars(APICollected(o))
    /\ \A i \in MayMiss : WF_vars(InputAppears(i))

FairSpec == Spec /\ Fairness

-----------------------------------------------------------------------------
(* Safety.                                                                 *)

\* Nothing more happens until something outside the reconciler changes.
Settled == pc = "idle" /\ ~queued /\ gcache = glance /\ seen = api

ReadyNow == /\ glance.exists /\ ~glance.deleting
            /\ glance.status.ready /\ glance.status.gen = glance.gen

\* What settles as Ready is deployed: every GlanceAPI that the spec asks for is
\* there, with the inherited fields and the keystoneEndpoint annotation of the
\* current spec, and reconciled at its generation (apiDeploymentCreateOrUpdate
\* reads from a cache that may be behind, and fails on conflicts).  One of them
\* may still be on its way out, when its API was removed and came back.
SettledReadyIsDeployed ==
    Settled /\ ReadyNow =>
        \A o \in Wanted(glance.spec) :
            /\ api[o].exists
            /\ Desired(o, glance.spec, api[o]) = api[o]
            /\ api[o].observed = api[o].gen

\* A Glance that settles as Ready consists of GlanceAPIs that are Ready ("the
\* Status of the entire Glance Deployment (intended as a single entity)").
ReadyIsWhole ==
    Settled /\ ReadyNow => \A o \in Wanted(glance.spec) : api[o].ready

\* A GlanceAPI that is not part of the layout the spec asks for does not outlive
\* the passes that a change of the spec brings (glanceAPICleanup: "Delete the
\* glanceAPI instance if it no longer appears in the spec").
NoForeignAPI ==
    Settled /\ missing = {} /\ glance.exists /\ ~glance.deleting =>
        \A o \in APIs \ Wanted(glance.spec) : ~api[o].exists \/ api[o].deleting

\* A Glance that is gone has left its finalizer neither on the database nor on
\* the KeystoneService, over crashes and failed calls of reconcileDelete.
DeletionReleasesClaims == ~glance.exists => claimed = {}

\* A Glance that is gone has left no registered limits in keystone ("We should
\* delete the limits created for the Glance service, and do not leave leftovers
\* in the ctlplane").
DeletionRemovesLimits == ~glance.exists => ~limits

\* No GlanceAPI is created for a Glance that is gone: a pass that deploys holds
\* the finalizer of the Glance, although what it has read may be stale.
NoAPIAfterDeletion ==
    [][~glance.exists => \A o \in APIs : api'[o].exists => api[o].exists]_vars

\* Seen from a GlanceAPI, the Glance controller keeps the contract too: it writes
\* from a cache that may be behind, but a write never undoes a report of the
\* GlanceAPI controller or a deletion, and what is created is new.
KeepsContract == Contract!Spec

\* The steps of a pass over a Glance that was held and not being deleted when it
\* was read, and those over one that was being deleted.
NormalSteps == {"inputs", "ensureDB", "reconcileInit", "apiDeployment", "cleanup", "finish"}
DeleteSteps == {"deleteDB", "deleteService", "deleteLimits"}

\* The patch that is next removes the finalizer of the Glance.
LettingGo == pc = "patch" /\ ~inst.finalizer

\* The deletion of the Glance cannot be taken back.
Doomed == ~glance.exists \/ glance.deleting

\* The loop over the APIs has a GlanceAPI to deploy that the spec asks for.
DeployingWanted == pc = "apiDeployment" => todo # {} /\ todo \subseteq Wanted(inst.spec)

\* The finalizer and the first status arrive with the same patch, and only an
\* object that has the finalizer is marked as being deleted.
FinalizerWithStatus ==
    \A o \in {glance, gcache, before} :
        /\ o.finalizer = ~o.status.new
        /\ o.deleting => o.finalizer
        /\ o.finalizer => o.exists

\* A copy may be old, but what it says of the finalizer still holds; the copy of
\* the pass keeps it until the end of reconcileDelete.
HoldKept ==
    /\ \A o \in {gcache, before} : o.finalizer /\ glance.exists => glance.finalizer
    /\ gcache.finalizer /\ ~gcache.deleting => glance.exists
    /\ pc \in NormalSteps => glance.exists /\ glance.finalizer
    /\ pc # "idle" => ~inst.status.new /\ (inst.finalizer \/ pc = "patch")

\* The finalizer is given up for an object that is being deleted, and after the
\* cache has shown the deletion.
LettingGoIsLast ==
    /\ gcache.deleting => Doomed
    /\ pc \in DeleteSteps \/ LettingGo => Doomed /\ (gcache.deleting \/ ~gcache.exists)

\* Our finalizer on the database and on the KeystoneService belongs to a Glance
\* that is held, and reconcileDelete removes it before its own.
ClaimsHeld ==
    /\ claimed # {} => glance.exists /\ glance.finalizer
    /\ pc = "deleteService" => "db" \notin claimed
    /\ pc = "deleteLimits" \/ LettingGo => claimed = {}

\* What makes the worker deploy only for a Glance that is there, and let go of it
\* last.
LifeCycleInv ==
    /\ DeployingWanted
    /\ FinalizerWithStatus
    /\ HoldKept
    /\ LettingGoIsLast
    /\ ClaimsHeld

\* A GlanceAPI of the contract: one that is gone has left nothing, one that was
\* never reported on is neither marked nor observed, and no report is ahead of the
\* spec.
InContract(a) == /\ ~a.exists => a = NoAPI
                 /\ a.exists => a.gen > 0
                 /\ a.new => ~a.deleting /\ a.observed = 0
                 /\ a.observed <= a.gen

\* All GlanceAPIs are, whatever the Glance controller writes from its caches.
APIsInContract == \A o \in APIs : InContract(api[o])

\* What is written into the API server under a version that the cache still shows
\* stays visible as a difference until a watch event brings it, and with it a new
\* pass: nobody turns a GlanceAPI back into what it was.
Ahead(o) ==
    \/ api[o].exists # seen[o].exists
    \/ seen[o].exists /\ \/ api[o].gen > seen[o].gen
                         \/ api[o].endpoint # seen[o].endpoint
                         \/ api[o].deleting # seen[o].deleting

\* A cached version is not ahead of the API server, and what is marked there has
\* been in the cache.
VersionsInOrder ==
    \A o \in APIs :
        /\ seen[o].exists /\ api[o].exists => seen[o].gen <= api[o].gen
        /\ glance.exists /\ api[o].deleting => seen[o].exists

\* Without a request in the queue, no watch event has come since the pass began.
NothingMissed ==
    /\ pc # "idle" => /\ inst.spec = before.spec
                      /\ ~queued => before = gcache
    /\ pc \notin {"idle", "patch"} => ~inst.status.ready
    /\ pc \in {"cleanup", "finish"} => todo = {}
    /\ glance.exists => gcache.gen <= glance.gen

\* The pass has dealt with GlanceAPI o: it is as desired, or has been written.
Dealt(o, s) == Ahead(o) \/ (seen[o].exists /\ Desired(o, s, seen[o]) = seen[o])

Deployed(s) == \A o \in Wanted(s) : /\ Dealt(o, s)
                                    /\ seen[o].exists => seen[o].gen = seen[o].observed

\* The GlanceAPIs whose API is not in the spec have been deleted.
CleanedUp(s) ==
    \A o \in APIs : s.apis[o[1]] = "absent" => \/ Ahead(o)
                                               \/ ~seen[o].exists \/ seen[o].deleting

\* What the steps of a pass have done by now, and what that means for the version
\* that is saved at its end.
WorkDone ==
    ~queued =>
        /\ pc \in {"apiDeployment", "cleanup", "finish"} =>
               \A o \in Wanted(inst.spec) \ todo : Dealt(o, inst.spec)
        /\ pc = "finish" => CleanedUp(inst.spec)
        /\ pc = "patch" /\ glance.exists =>
               /\ inst.status.ready => Deployed(inst.spec)
               /\ exit = "done" /\ before.finalizer /\ ~before.deleting =>
                      CleanedUp(inst.spec) \/ "badSecret" \in missing
        /\ pc = "idle" /\ gcache = glance /\ glance.exists =>
               /\ glance.status.ready => Deployed(glance.spec)
               /\ ~glance.deleting => CleanedUp(glance.spec) \/ "badSecret" \in missing

\* What makes the saved status true once nothing is left to do: a pass that nothing
\* has overtaken has dealt with every GlanceAPI, and any other is followed by one.
PassInv == VersionsInOrder /\ NothingMissed /\ WorkDone

-----------------------------------------------------------------------------
(* Liveness.                                                               *)

\* Once the user stops, the Glance becomes and stays Ready for its generation
\* with all its GlanceAPIs Ready, or it and all its GlanceAPIs are gone.
Converges ==
    <>[](\/ ~glance.exists /\ \A o \in APIs : ~api[o].exists
         \/ ReadyNow /\ \A o \in Wanted(glance.spec) : api[o].exists /\ api[o].ready)

=============================================================================
