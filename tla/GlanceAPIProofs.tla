-------------------------- MODULE GlanceAPIProofs --------------------------
(***************************************************************************)
(* Proofs about GlanceAPI, for any number of credentials, storage values,  *)
(* topologies, replicas, edits, crashes and faults: types, the protection  *)
(* of the credential in use, and that what settles as Ready is deployed.   *)
(***************************************************************************)
EXTENDS GlanceAPI, FiniteSetTheorems, TLAPS

-----------------------------------------------------------------------------
(* What the operators return.                                              *)

\* The pods are finitely many, and so are the ready ones: the count that the
\* StatefulSet controller reports is a number of replicas.
LEMMA ReadyPodsCount == Cardinality(ReadyPods) \in 0 .. Replicas
<1>1. Replicas \in Nat
  BY ConstantsAssumption DEF ConstantsAssumption
<1>2. IsFiniteSet(Pods) /\ Cardinality(Pods) = Replicas
  BY <1>1, FS_Interval DEF Pods
<1>3. ReadyPods \subseteq Pods
  BY DEF ReadyPods
<1>4. Cardinality(ReadyPods) \in Nat /\ Cardinality(ReadyPods) <= Replicas
  BY <1>2, <1>3, FS_Subset, FS_CardinalityType
<1> QED
  BY <1>1, <1>4

\* The object that a pass starts from when there is none.
LEMMA NoCRType == NoCR \in CRType
<1>1. AnyStorage \in Storages
  BY ConstantsAssumption DEF ConstantsAssumption, AnyStorage
<1> QED
  BY <1>1 DEF NoCR, NoStatus, CRType, SpecType, StatusType, CredRef, TopoRef

\* A StatefulSet that does not exist, and a pod that does not.
LEMMA NoStsType == NoSts \in StsType
<1>1. AnyStorage \in Storages /\ Replicas \in Nat
  BY ConstantsAssumption DEF ConstantsAssumption, AnyStorage
<1> QED
  BY <1>1 DEF NoSts, NoCR, StatefulSetTemplate, StsType, TemplateType, CredRef, TopoRef

LEMMA NoPodType == NoPod \in PodType
  BY DEF NoPod, PodType, CredRef

\* The template that StatefulSet() builds from a GlanceAPI.
LEMMA TemplateTyped ==
    ASSUME NEW o \in CRType PROVE StatefulSetTemplate(o) \in TemplateType
  BY DEF CRType, SpecType, StatefulSetTemplate, TemplateType

\* The patch of a GlanceAPI with the fields a pass has changed is a GlanceAPI
\* with the same spec and life cycle.
LEMMA MergePatchType ==
    ASSUME cr \in CRType, inst \in CRType, before \in CRType
    PROVE  /\ MergePatch \in CRType
           /\ MergePatch.exists = cr.exists
           /\ MergePatch.deleting = cr.deleting
           /\ MergePatch.spec = cr.spec
<1> DEFINE f == Patched(inst.finalizer, before.finalizer, cr.finalizer)
           s == [new      |-> IF ConditionsChanged THEN inst.status.new ELSE cr.status.new,
                 ready    |-> IF ConditionsChanged THEN inst.status.ready ELSE cr.status.ready,
                 gen      |-> Patched(inst.status.gen, before.status.gen, cr.status.gen),
                 ac       |-> Patched(inst.status.ac, before.status.ac, cr.status.ac),
                 storage  |-> Patched(inst.status.storage, before.status.storage,
                                      cr.status.storage),
                 topology |-> Patched(inst.status.topology, before.status.topology,
                                      cr.status.topology)]
<1>1. f \in BOOLEAN
  BY DEF CRType, Patched
<1>2. inst.status \in StatusType /\ before.status \in StatusType /\ cr.status \in StatusType
  BY DEF CRType
<1>3. s \in StatusType
  BY <1>2 DEF StatusType, Patched
<1>4. MergePatch = [cr EXCEPT !.finalizer = f, !.status = s]
  BY DEF MergePatch
<1> HIDE DEF f, s
<1> QED
  BY <1>1, <1>3, <1>4 DEF CRType

\* A new generation.
LEMMA NextGeneration ==
    ASSUME NEW o \in CRType
    PROVE  /\ \A s \in SpecType : [o EXCEPT !.spec = s, !.gen = @ + 1] \in CRType
           /\ [o EXCEPT !.deleting = TRUE, !.gen = @ + 1] \in CRType
<1> DEFINE n == o.gen + 1
<1>1. n \in Nat
  BY DEF CRType
<1>2. /\ \A s \in SpecType : [o EXCEPT !.spec = s, !.gen = n] \in CRType
      /\ [o EXCEPT !.deleting = TRUE, !.gen = n] \in CRType
  <2> HIDE DEF n
  <2> QED
    BY <1>1 DEF CRType
<1> QED
  BY <1>2

\* The pods of a deleted StatefulSet, and of one whose template changed.
LEMMA PodsTyped ==
    ASSUME pods \in [Pods -> PodType]
    PROVE  /\ [i \in Pods |-> IF pods[i].state = "none" THEN pods[i]
                              ELSE [pods[i] EXCEPT !.owned = FALSE]] \in [Pods -> PodType]
           /\ [i \in Pods |-> IF pods[i].state = "none" THEN pods[i]
                              ELSE [pods[i] EXCEPT !.current = FALSE]] \in [Pods -> PodType]
<1>1. ASSUME NEW i \in Pods
      PROVE  /\ [pods[i] EXCEPT !.owned = FALSE] \in PodType
             /\ [pods[i] EXCEPT !.current = FALSE] \in PodType
  BY DEF PodType
<1> QED
  BY <1>1

-----------------------------------------------------------------------------
(* Type correctness.                                                       *)

\* The initial state is typed.
LEMMA InitType == Init => TypeOK
<1> SUFFICES ASSUME Init PROVE TypeOK
  OBVIOUS
<1>1. cr \in CRType
  <2>1. PICK s \in SpecType, e \in Endpoints : cr = NewCR(s, e)
    BY DEF Init
  <2>2. e \in BOOLEAN
    BY ConstantsAssumption DEF ConstantsAssumption
  <2> QED
    BY <2>1, <2>2 DEF NewCR, NoStatus, CRType, StatusType, CredRef, TopoRef
<1>2. pods \in [Pods -> PodType]
  BY NoPodType DEF Init
<1>3. acSecret \in [Creds -> {"none", "live", "revoked"}]
  BY DEF Init
<1>4. missing \subseteq InputNames
  BY ConstantsAssumption DEF Init, ConstantsAssumption
<1> QED
  BY <1>1, <1>2, <1>3, <1>4, NoCRType, NoStsType DEF Init, TypeOK, CredRef

\* A step of a reconcile pass keeps the types.
LEMMA WorkerType == TypeOK /\ Worker => TypeOK'
<1> SUFFICES ASSUME TypeOK, Worker PROVE TypeOK'
  OBVIOUS
<1> USE DEF TypeOK, server, worker, env, Proceed, Return, OwnedEvent, Steps
<1>1. CASE ReconcileNotFound
  BY <1>1 DEF ReconcileNotFound
<1>2. CASE Reconcile
  <2>1. inst' \in CRType
    BY <1>2 DEF Reconcile, CRType, StatusType
  <2> QED
    BY <1>2, <2>1 DEF Reconcile
<1>3. CASE VerifyInputs
  BY <1>3 DEF VerifyInputs
<1>4. CASE BackendHash
  <2>1. inst' \in CRType
    BY <1>4 DEF BackendHash, createHashOfBackendConfig, CRType, StatusType, SpecType
  <2>2. sts' \in StsType /\ pods' \in [Pods -> PodType]
    BY <1>4, NoStsType, PodsTyped DEF BackendHash, DeleteStatefulSet
  <2> QED
    BY <1>4, <2>1, <2>2 DEF BackendHash
<1>5. CASE VerifyBackends
  BY <1>5 DEF VerifyBackends
<1>6. CASE ReconcileInit
  BY <1>6 DEF ReconcileInit, EnsureKeystoneEndpoints
<1>7. CASE GenerateServiceConfig
  <2>1. inst.spec.ac \in CredRef
    BY DEF CRType, SpecType
  <2> QED
    BY <1>7, <2>1 DEF GenerateServiceConfig
<1>8. CASE AddACFinalizer
  <2>1. inst.spec.ac \in Creds \cup {None}
    BY DEF CRType, SpecType, CredRef
  <2> QED
    BY <1>8, <2>1 DEF AddACFinalizer
<1>9. CASE EnsureServiceTopology
  <2>1. inst' \in CRType
    BY <1>9 DEF EnsureServiceTopology, CRType, StatusType, SpecType
  <2>2. topoFin' \subseteq Topologies
    BY <1>9 DEF EnsureServiceTopology, CRType, SpecType, TopoRef
  <2> QED
    BY <1>9, <2>1, <2>2 DEF EnsureServiceTopology
<1>10. CASE CreateOrPatchStatefulSet
  <2>1. StatefulSetTemplate(inst) \in TemplateType
    BY TemplateTyped
  <2>2. inst.spec.storage \in Storages
    BY DEF CRType, SpecType
  <2>3. 0 \in 0 .. Replicas
    BY ConstantsAssumption DEF ConstantsAssumption
  <2>4. sts' \in StsType
    <3>1. [exists |-> TRUE, template |-> StatefulSetTemplate(inst),
           volumes |-> inst.spec.storage, observed |-> FALSE, ready |-> 0] \in StsType
      BY <2>1, <2>2, <2>3 DEF StsType
    <3>2. [sts EXCEPT !.template = StatefulSetTemplate(inst), !.observed = FALSE] \in StsType
      BY <2>1 DEF StsType
    <3> QED
      BY <1>10, <3>1, <3>2 DEF CreateOrPatchStatefulSet
  <2>5. pods' \in [Pods -> PodType]
    BY <1>10, PodsTyped DEF CreateOrPatchStatefulSet
  <2> QED
    BY <1>10, <2>4, <2>5 DEF CreateOrPatchStatefulSet
<1>11. CASE ReconcileJobs
  BY <1>11 DEF ReconcileJobs
<1>12. CASE ReleaseACSecret
  <2>1. inst' \in CRType
    BY <1>12 DEF ReleaseACSecret, AllSubConditionIsTrue, CRType, StatusType, SpecType
  <2> QED
    BY <1>12, <2>1 DEF ReleaseACSecret
<1>13. CASE EnsureDeletedEndpoints
  BY <1>13 DEF EnsureDeletedEndpoints
<1>14. CASE RemoveACFinalizers
  BY <1>14 DEF RemoveACFinalizers
<1>15. CASE EnsureDeletedTopologyRef
  <2>1. inst' \in CRType
    BY <1>15 DEF EnsureDeletedTopologyRef, CRType
  <2> QED
    BY <1>15, <2>1 DEF EnsureDeletedTopologyRef
<1>16. CASE PatchInstance
  <2>1. cr' \in CRType
    BY <1>16, MergePatchType, NoCRType DEF PatchInstance
  <2>2. sts' \in StsType /\ pods' \in [Pods -> PodType]
    BY <1>16, NoStsType, PodsTyped DEF PatchInstance, DeleteStatefulSet
  <2> QED
    BY <1>16, <2>1, <2>2, NoCRType DEF PatchInstance, Idle
<1> QED
  BY <1>1, <1>2, <1>3, <1>4, <1>5, <1>6, <1>7, <1>8, <1>9, <1>10, <1>11, <1>12, <1>13,
     <1>14, <1>15, <1>16 DEF Worker

\* So do the other controllers and the inputs,
LEMMA ClusterType == TypeOK /\ (Cluster \/ Inputs) => TypeOK'
<1> SUFFICES ASSUME TypeOK, Cluster \/ Inputs PROVE TypeOK'
  OBVIOUS
<1> USE DEF TypeOK, server, worker, env
<1>1. CASE CacheSync
  BY <1>1 DEF CacheSync
<1>2. CASE EndpointRegistered \/ EndpointRemoved
  BY <1>2 DEF EndpointRegistered, EndpointRemoved
<1>3. CASE StsReportsStatus
  <2>1. sts' \in StsType
    BY <1>3, ReadyPodsCount DEF StsReportsStatus, StsType
  <2> QED
    BY <1>3, <2>1 DEF StsReportsStatus
<1>4. ASSUME NEW i \in Pods,
             PodStarts(i) \/ PodBecomesReady(i) \/ PodRolls(i) \/ PodCollected(i)
      PROVE  TypeOK'
  <2>1. [pods[i] EXCEPT !.state = "ready"] \in PodType
    BY DEF PodType
  <2>2. [state |-> "starting", ac |-> config, current |-> TRUE, owned |-> TRUE] \in PodType
    BY DEF PodType
  <2>3. pods' \in [Pods -> PodType]
    BY <1>4, <2>1, <2>2, NoPodType DEF PodStarts, PodBecomesReady, PodRolls, PodCollected
  <2> QED
    BY <1>4, <2>3 DEF PodStarts, PodBecomesReady, PodRolls, PodCollected
<1>5. ASSUME NEW i \in InputNames, InputAppears(i) PROVE TypeOK'
  BY <1>5 DEF InputAppears
<1>6. ASSUME NEW c \in Creds, ACSecretCreated(c) PROVE TypeOK'
  BY <1>6 DEF ACSecretCreated
<1> QED
  BY <1>1, <1>2, <1>3, <1>4, <1>5, <1>6 DEF Cluster, Inputs

\* failures, and the user.
LEMMA EnvironmentType == TypeOK /\ (Failure \/ User) => TypeOK'
<1> SUFFICES ASSUME TypeOK, Failure \/ User PROVE TypeOK'
  OBVIOUS
<1> USE DEF TypeOK, server, worker, env, Return, Steps
<1>1. CASE GlanceAPIRefreshFails
  <2>1. inst' \in CRType
    BY <1>1 DEF GlanceAPIRefreshFails, createHashOfBackendConfig, CRType, StatusType, SpecType
  <2> QED
    BY <1>1, <2>1 DEF GlanceAPIRefreshFails
<1>2. CASE CallFails
  BY <1>2 DEF CallFails
<1>3. CASE PassLost \/ Crash
  <2>1. before' \in CRType /\ inst' \in CRType
    BY <1>3, NoCRType DEF PassLost, Crash, Idle
  <2>2. CASE PassLost
    BY <2>1, <2>2 DEF PassLost, Idle
  <2>3. CASE Crash
    BY <2>1, <2>3 DEF Crash, Idle
  <2> QED
    BY <1>3, <2>2, <2>3
<1>4. ASSUME NEW i \in InputNames, InputLost(i) PROVE TypeOK'
  BY <1>4 DEF InputLost
<1>5. CASE EditSpec
  <2>1. cr' \in CRType
    <3>1. PICK s \in SpecType : cr' = [cr EXCEPT !.spec = s, !.gen = @ + 1]
      BY <1>5 DEF EditSpec
    <3>2. cr \in CRType
      OBVIOUS
    <3> QED
      BY <3>1, <3>2, NextGeneration
  <2> QED
    BY <1>5, <2>1 DEF EditSpec
<1>6. CASE EditEndpoint
  <2>1. cr' \in CRType
    BY <1>6, ConstantsAssumption DEF EditEndpoint, CRType, ConstantsAssumption
  <2> QED
    BY <1>6, <2>1 DEF EditEndpoint
<1>7. CASE DeleteGlanceAPI
  <2>1. cr' \in CRType
    BY <1>7, NextGeneration, NoCRType DEF DeleteGlanceAPI
  <2> QED
    BY <1>7, <2>1 DEF DeleteGlanceAPI
<1>8. ASSUME NEW c \in Creds, ACSecretRevoked(c) PROVE TypeOK'
  BY <1>8 DEF ACSecretRevoked
<1> QED
  BY <1>1, <1>2, <1>3, <1>4, <1>5, <1>6, <1>7, <1>8 DEF Failure, User

\* Every state of the controller and of the cluster around it is typed, whatever
\* the order of passes, failures and edits.
THEOREM TypeCorrect == Spec => []TypeOK
<1>1. TypeOK /\ [Next]_vars => TypeOK'
  <2> SUFFICES ASSUME TypeOK, [Next]_vars PROVE TypeOK'
    OBVIOUS
  <2>1. CASE UNCHANGED vars
    BY <2>1 DEF vars, TypeOK
  <2> QED
    BY <2>1, WorkerType, ClusterType, EnvironmentType DEF Next
<1> QED
  BY <1>1, InitType, PTL DEF Spec

-----------------------------------------------------------------------------
(* The credential in use is protected.                                     *)

\* Who writes the GlanceAPI object: the deferred patch and the user.
LEMMA Writers ==
    [Next]_vars =>
        UNCHANGED cr \/ PatchInstance \/ EditSpec \/ EditEndpoint \/ DeleteGlanceAPI
  BY DEF Next, vars, server, Worker, ReconcileNotFound, Reconcile, VerifyInputs, BackendHash,
     VerifyBackends, ReconcileInit, GenerateServiceConfig, AddACFinalizer,
     EnsureServiceTopology, CreateOrPatchStatefulSet, ReconcileJobs, ReleaseACSecret,
     EnsureDeletedEndpoints, RemoveACFinalizers, EnsureDeletedTopologyRef,
     Cluster, CacheSync, EndpointRegistered, EndpointRemoved, StsReportsStatus, PodStarts,
     PodBecomesReady, PodRolls, PodCollected, Inputs, InputAppears, ACSecretCreated,
     Failure, GlanceAPIRefreshFails, CallFails, PassLost, Crash, InputLost,
     User, ACSecretRevoked

\* The cache is filled from the object as it is then.
LEMMA CacheWriters == [Next]_vars => UNCHANGED cache \/ (cache' = cr /\ UNCHANGED cr)
  BY DEF Next, vars, server, env, Worker, ReconcileNotFound, Reconcile, VerifyInputs,
     BackendHash, VerifyBackends, ReconcileInit, GenerateServiceConfig, AddACFinalizer,
     EnsureServiceTopology, CreateOrPatchStatefulSet, ReconcileJobs, ReleaseACSecret,
     EnsureDeletedEndpoints, RemoveACFinalizers, EnsureDeletedTopologyRef, PatchInstance,
     Cluster, CacheSync, EndpointRegistered, EndpointRemoved, StsReportsStatus, PodStarts,
     PodBecomesReady, PodRolls, PodCollected, Inputs, InputAppears, ACSecretCreated,
     Failure, GlanceAPIRefreshFails, CallFails, PassLost, Crash, InputLost,
     User, EditSpec, EditEndpoint, DeleteGlanceAPI, ACSecretRevoked

\* A deletion is never taken back.
LEMMA DoomedStable == TypeOK /\ Doomed /\ [Next]_vars => Doomed'
<1> SUFFICES ASSUME TypeOK, Doomed, [Next]_vars PROVE Doomed'
  OBVIOUS
<1> USE DEF Doomed
<1>1. CASE UNCHANGED cr
  BY <1>1
<1>2. CASE PatchInstance
  <2>1. cr \in CRType /\ inst \in CRType /\ before \in CRType
    BY DEF TypeOK
  <2>2. MergePatch.exists = cr.exists /\ MergePatch.deleting = cr.deleting
    BY <2>1, MergePatchType
  <2> QED
    BY <1>2, <2>2 DEF PatchInstance, NoCR
<1>3. CASE EditSpec \/ EditEndpoint \/ DeleteGlanceAPI
  BY <1>3 DEF EditSpec, EditEndpoint, DeleteGlanceAPI, UserMayEdit, UserMayAct
<1>4. UNCHANGED cr \/ PatchInstance \/ EditSpec \/ EditEndpoint \/ DeleteGlanceAPI
  BY Writers
<1> QED
  BY <1>1, <1>2, <1>3, <1>4

\* The worker never runs reconcileDelete for an object that is not being deleted:
\* what it has read may be stale, but a deletion stays one.
LEMMA DeletionSeenStep == TypeOK /\ DeletionSeen /\ [Next]_vars => DeletionSeen'
<1> SUFFICES ASSUME TypeOK, DeletionSeen, [Next]_vars PROVE DeletionSeen'
  OBVIOUS
<1>1. Doomed => Doomed'
  BY DoomedStable
<1>2. UNCHANGED cache \/ (cache' = cr /\ UNCHANGED cr)
  BY CacheWriters
<1>3. cache'.deleting => Doomed'
  BY <1>1, <1>2 DEF DeletionSeen, Doomed
<1>4. pc' \in {"deleteEndpoints", "deleteSecrets", "deleteTopology"} =>
        pc \in {"deleteEndpoints", "deleteSecrets", "deleteTopology"} \/ cache.deleting
  BY DEF Next, vars, server, worker, Idle, Proceed, Return, Worker, ReconcileNotFound,
     Reconcile, VerifyInputs, BackendHash, VerifyBackends, ReconcileInit,
     GenerateServiceConfig, AddACFinalizer, EnsureServiceTopology, CreateOrPatchStatefulSet,
     ReconcileJobs, ReleaseACSecret, EnsureDeletedEndpoints, RemoveACFinalizers,
     EnsureDeletedTopologyRef, PatchInstance,
     Cluster, CacheSync, EndpointRegistered, EndpointRemoved, StsReportsStatus, PodStarts,
     PodBecomesReady, PodRolls, PodCollected, Inputs, InputAppears, ACSecretCreated,
     Failure, GlanceAPIRefreshFails, CallFails, PassLost, Crash, InputLost,
     User, EditSpec, EditEndpoint, DeleteGlanceAPI, ACSecretRevoked
<1> QED
  BY <1>1, <1>3, <1>4 DEF DeletionSeen

\* Steps that touch neither the finalizers nor the template, nor the worker's
\* copy of the spec, and do not enter a later step of the pass.
LEMMA Quiet ==
    ASSUME TypeOK, ProtectionInv, Doomed => Doomed', DeletionSeen',
           UNCHANGED <<acFin, sts>> \/ (UNCHANGED acFin /\ sts' = NoSts)
               \/ (UNCHANGED acFin /\ sts'.exists = sts.exists /\ sts'.template = sts.template),
           \/ pc' \notin {"topology", "statefulset", "jobs", "acRelease"}
           \/ UNCHANGED <<pc, inst>>
    PROVE  ProtectionInv'
  BY DEF ProtectionInv, SpecCredentialProtected, TemplateFollowsSpec,
     TemplateCredentialProtected, Doomed, NoSts

\* Every step keeps ProtectionInv.  The steps that matter: AddACFinalizer
\* protects the secret before CreateOrPatchStatefulSet deploys it,
\* ReleaseACSecret gives up a secret that the template no longer names, and
\* RemoveACFinalizers runs for a doomed object only.
LEMMA ProtectionStep == TypeOK /\ ProtectionInv /\ [Next]_vars => ProtectionInv'
<1> SUFFICES ASSUME TypeOK, ProtectionInv, [Next]_vars PROVE ProtectionInv'
  OBVIOUS
<1>1. Doomed => Doomed'
  BY DoomedStable
<1>2. DeletionSeen'
  BY DeletionSeenStep DEF ProtectionInv
<1> USE <1>1, <1>2
<1> USE DEF server, worker, env
<1>3. CASE UNCHANGED vars
  BY <1>3, Quiet DEF vars
<1>4. CASE ReconcileNotFound
  BY <1>4, Quiet DEF ReconcileNotFound
<1>5. CASE Reconcile
  BY <1>5, Quiet DEF Reconcile
<1>6. CASE VerifyInputs
  BY <1>6, Quiet DEF VerifyInputs, Return, Proceed
<1>7. CASE BackendHash
  BY <1>7, Quiet DEF BackendHash, DeleteStatefulSet, Proceed
<1>8. CASE VerifyBackends
  BY <1>8, Quiet DEF VerifyBackends, Return, Proceed
<1>9. CASE ReconcileInit
  BY <1>9, Quiet DEF ReconcileInit, Proceed
<1>10. CASE GenerateServiceConfig
  BY <1>10, Quiet DEF GenerateServiceConfig, Return, Proceed
<1>11. CASE AddACFinalizer
  <2>1. CASE pc' = "patch"
    BY <1>11, <2>1, Quiet DEF AddACFinalizer, Return, Proceed
  <2>2. CASE pc' = "topology"
    <3>1. acFin \subseteq acFin' /\ (inst.spec.ac # None => inst.spec.ac \in acFin')
      BY <1>11, <2>2 DEF AddACFinalizer, Return, Proceed
    <3>2. UNCHANGED <<inst, sts, cr>>
      BY <1>11 DEF AddACFinalizer
    <3> QED
      BY <2>2, <3>1, <3>2 DEF ProtectionInv, SpecCredentialProtected, TemplateFollowsSpec,
         TemplateCredentialProtected
  <2> QED
    BY <1>11, <2>1, <2>2 DEF AddACFinalizer, Return, Proceed
<1>12. CASE EnsureServiceTopology
  <2>1. inst'.spec.ac = inst.spec.ac
    BY <1>12 DEF EnsureServiceTopology, TypeOK, CRType
  <2>2. pc = "topology" /\ pc' \in {"patch", "statefulset"} /\ UNCHANGED <<acFin, sts, cr>>
    BY <1>12 DEF EnsureServiceTopology, Return, Proceed
  <2> QED
    BY <2>1, <2>2 DEF ProtectionInv, SpecCredentialProtected, TemplateFollowsSpec,
       TemplateCredentialProtected
<1>13. CASE CreateOrPatchStatefulSet
  <2>1. /\ pc = "statefulset" /\ pc' = "jobs"
        /\ UNCHANGED <<acFin, inst, cr>>
    BY <1>13 DEF CreateOrPatchStatefulSet, Proceed
  <2>2. sts'.template = StatefulSetTemplate(inst)
    <3>1. [sts EXCEPT !.template = StatefulSetTemplate(inst),
                      !.observed = FALSE].template = StatefulSetTemplate(inst)
      BY DEF TypeOK, StsType
    <3>2. CASE ~sts.exists
      BY <1>13, <3>2 DEF CreateOrPatchStatefulSet
    <3>3. CASE sts.exists /\ sts.template # StatefulSetTemplate(inst)
      <4>1. sts' = [sts EXCEPT !.template = StatefulSetTemplate(inst), !.observed = FALSE]
        BY <1>13, <3>3 DEF CreateOrPatchStatefulSet
      <4> QED
        BY <3>1, <4>1
    <3>4. CASE sts.exists /\ sts.template = StatefulSetTemplate(inst)
      BY <1>13, <3>4 DEF CreateOrPatchStatefulSet
    <3> QED
      BY <3>2, <3>3, <3>4
  <2>3. sts'.template.ac = inst.spec.ac
    BY <2>2 DEF StatefulSetTemplate
  <2> QED
    BY <2>1, <2>3 DEF ProtectionInv, SpecCredentialProtected, TemplateFollowsSpec,
       TemplateCredentialProtected
<1>14. CASE ReconcileJobs
  BY <1>14 DEF ReconcileJobs, Proceed, ProtectionInv, SpecCredentialProtected,
     TemplateFollowsSpec, TemplateCredentialProtected
<1>15. CASE ReleaseACSecret
  <2>1. pc = "acRelease" /\ pc' = "patch" /\ UNCHANGED <<sts, cr>>
    BY <1>15 DEF ReleaseACSecret, Return
  <2>2. inst.spec.ac \in acFin => inst.spec.ac \in acFin'
    BY <1>15 DEF ReleaseACSecret
  <2> QED
    BY <2>1, <2>2 DEF ProtectionInv, SpecCredentialProtected, TemplateFollowsSpec,
       TemplateCredentialProtected
<1>16. CASE EnsureDeletedEndpoints
  BY <1>16, Quiet DEF EnsureDeletedEndpoints, Proceed
<1>17. CASE RemoveACFinalizers
  <2>1. pc' = "deleteTopology" /\ Doomed'
    BY <1>17 DEF RemoveACFinalizers, Proceed, ProtectionInv, DeletionSeen
  <2> QED
    BY <2>1 DEF Doomed, ProtectionInv, SpecCredentialProtected, TemplateFollowsSpec,
       TemplateCredentialProtected
<1>18. CASE EnsureDeletedTopologyRef
  BY <1>18, Quiet DEF EnsureDeletedTopologyRef, Return
<1>19. CASE PatchInstance
  BY <1>19, Quiet DEF PatchInstance, Idle, DeleteStatefulSet
<1>20. CASE Cluster
  <2>1. UNCHANGED <<acFin, worker>>
    BY <1>20 DEF Cluster, CacheSync, EndpointRegistered, EndpointRemoved, StsReportsStatus,
       PodStarts, PodBecomesReady, PodRolls, PodCollected
  <2>2. sts'.exists = sts.exists /\ sts'.template = sts.template
    BY <1>20 DEF Cluster, CacheSync, EndpointRegistered, EndpointRemoved, StsReportsStatus,
       PodStarts, PodBecomesReady, PodRolls, PodCollected, TypeOK, StsType
  <2> QED
    BY <2>1, <2>2, Quiet
<1>21. CASE Inputs
  BY <1>21, Quiet DEF Inputs, InputAppears, ACSecretCreated
<1>22. CASE Failure
  <2>1. UNCHANGED <<acFin, sts>>
    BY <1>22 DEF Failure, GlanceAPIRefreshFails, CallFails, PassLost, Crash, InputLost
  <2>2. pc' \in {"idle", "patch"} \/ UNCHANGED <<pc, inst>>
    BY <1>22 DEF Failure, GlanceAPIRefreshFails, CallFails, PassLost, Crash, InputLost,
       Idle, Return
  <2> QED
    BY <2>1, <2>2, Quiet
<1>23. CASE User
  BY <1>23, Quiet DEF User, EditSpec, EditEndpoint, DeleteGlanceAPI, ACSecretRevoked
<1> QED
  BY <1>3, <1>4, <1>5, <1>6, <1>7, <1>8, <1>9, <1>10, <1>11, <1>12, <1>13, <1>14, <1>15,
     <1>16, <1>17, <1>18, <1>19, <1>20, <1>21, <1>22, <1>23 DEF Next, Worker

\* ProtectionInv is an invariant of the controller, for every number of
\* credentials, crashes, failed calls and edits.
THEOREM ProtectionInvariant == Spec => []ProtectionInv
<1>1. Init => ProtectionInv
  BY DEF Init, ProtectionInv, DeletionSeen, SpecCredentialProtected, TemplateFollowsSpec,
     TemplateCredentialProtected, NoCR, NoSts
<1>2. TypeOK /\ ProtectionInv /\ [Next]_vars => ProtectionInv'
  BY ProtectionStep
<1> QED
  BY <1>1, <1>2, TypeCorrect, PTL DEF Spec

\* The credential that the StatefulSet hands to new pods carries the consumer
\* finalizer of the GlanceAPI until the GlanceAPI is deleted.
THEOREM CredentialProtected == Spec => []TemplateCredentialProtected
<1>1. ProtectionInv => TemplateCredentialProtected
  BY DEF ProtectionInv
<1> QED
  BY <1>1, ProtectionInvariant, PTL

-----------------------------------------------------------------------------
(* What settles as Ready is deployed.                                      *)

\* The StatefulSet has the template of version o.
TemplateSet(o) == sts.exists /\ sts.template = StatefulSetTemplate(o)

\* The KeystoneEndpoint is what version o asks for, as far as a pass can see that.
EndpointSet(o) ==
    ke \in (IF o.endpoint THEN {"ready", "deleting", "released"} ELSE {"absent", "deleting"})

\* A pass works for the version it has read.  If nothing has asked for another pass
\* since, that version is still the one in the cache.
PassVersion ==
    pc # "idle" =>
        /\ inst.spec = before.spec /\ inst.endpoint = before.endpoint
        /\ inst.status.ready => pc = "patch"
        /\ ~queued => cache = before

\* What a pass has behind it is deployed: the template to the end, the endpoint
\* unless its change has asked for another pass.
PassDeploys ==
    pc # "idle" =>
        /\ pc \in {"jobs", "acRelease"} \/ inst.status.ready => TemplateSet(inst)
        /\ ~queued /\ ("KeystoneEndpointReady" \in conds \/ inst.status.ready) =>
             EndpointSet(inst)

\* When no pass is running or asked for, Ready in the cache and in the server means
\* that the version in the cache is deployed.  (The annotation may go and come back
\* unnoticed, so that the version in the server need not be the one meant.)
QuietIsDeployed ==
    /\ pc = "idle" /\ ~queued
    /\ cr.exists /\ cr.status.ready /\ cache.exists /\ cache.status.ready
    => TemplateSet(cache) /\ EndpointSet(cache)

\* Only reconcileDelete releases the KeystoneEndpoint.
ReleasedOnDeletion == ke = "released" => Doomed

DeployedInv == PassVersion /\ PassDeploys /\ QuietIsDeployed /\ ReleasedOnDeletion

\* Steps that keep what the pass works for, make no earlier step a later one and do
\* not change the template after it was set; a change of the endpoint is queued.
LEMMA DeployedElsewhere ==
    ASSUME TypeOK, DeployedInv, Doomed => Doomed', UNCHANGED <<cache, before>>,
           inst'.spec = inst.spec, inst'.endpoint = inst.endpoint,
           inst'.status.ready = inst.status.ready,
           cr'.exists /\ cr'.status.ready => cr.exists /\ cr.status.ready,
           queued => queued', UNCHANGED conds,
           UNCHANGED ke \/ queued', ke' = "released" => ke = "released" \/ Doomed',
           pc' = "idle" <=> pc = "idle", pc = "patch" => pc' = "patch",
           pc' \in {"jobs", "acRelease"} => pc \in {"jobs", "acRelease"},
           \/ sts'.exists = sts.exists /\ sts'.template = sts.template
           \/ pc' \notin {"idle", "jobs", "acRelease", "patch"}
    PROVE  DeployedInv'
<1>1. PassVersion'
  BY DEF DeployedInv, PassVersion
<1>2. PassDeploys'
  <2>1. StatefulSetTemplate(inst)' = StatefulSetTemplate(inst)
    BY DEF StatefulSetTemplate
  <2> QED
    BY <2>1 DEF DeployedInv, PassVersion, PassDeploys, TemplateSet, EndpointSet
<1>3. QuietIsDeployed'
  BY DEF DeployedInv, QuietIsDeployed, TemplateSet, EndpointSet, StatefulSetTemplate
<1>4. ReleasedOnDeletion'
  BY DEF DeployedInv, ReleasedOnDeletion
<1> QED
  BY <1>1, <1>2, <1>3, <1>4 DEF DeployedInv

\* Steps after which a pass is asked for and none is running, or that bring the
\* cache up to date during one.
LEMMA DeployedQueued ==
    ASSUME TypeOK, DeployedInv, Doomed => Doomed', queued', UNCHANGED <<ke, sts>>,
           UNCHANGED <<pc, before, inst>> \/ Idle
    PROVE  DeployedInv'
<1>1. PassVersion' /\ PassDeploys'
  BY DEF DeployedInv, PassVersion, PassDeploys, TemplateSet, StatefulSetTemplate, Idle
<1>2. QuietIsDeployed' /\ ReleasedOnDeletion'
  BY DEF DeployedInv, QuietIsDeployed, ReleasedOnDeletion
<1> QED
  BY <1>1, <1>2 DEF DeployedInv

\* A pass starts.
LEMMA DeployedReconcile ==
    ASSUME TypeOK, DeployedInv, Doomed => Doomed', Reconcile PROVE DeployedInv'
<1> DEFINE f == cache.finalizer \/ (~cache.deleting /\ ~cache.finalizer)
<1>1. /\ UNCHANGED <<cr, cache, ke, sts>> /\ before' = cache /\ conds' = {}
      /\ pc' \in {"patch", "deleteEndpoints", "verifyInputs"}
      /\ inst' = [cache EXCEPT !.finalizer = f, !.status.new = FALSE,
                               !.status.ready = FALSE, !.status.gen = cache.gen]
  BY DEF Reconcile, server
<1>2. inst'.spec = cache.spec /\ inst'.endpoint = cache.endpoint /\ ~inst'.status.ready
  <2>1. cache \in CRType
    BY DEF TypeOK
  <2> HIDE DEF f
  <2> QED
    BY <1>1, <2>1 DEF CRType, StatusType
<1>3. PassVersion' /\ PassDeploys' /\ QuietIsDeployed' /\ ReleasedOnDeletion'
  BY <1>1, <1>2 DEF DeployedInv, PassVersion, PassDeploys, QuietIsDeployed, ReleasedOnDeletion
<1> QED
  BY <1>3 DEF DeployedInv

\* The steps of a pass leave its copy of the spec and of the annotation alone, and
\* all but the last one of reconcileNormal the conditions.
LEMMA DeployedCopy ==
    ASSUME TypeOK,
           \/ BackendHash \/ GlanceAPIRefreshFails \/ EnsureServiceTopology
           \/ EnsureDeletedTopologyRef \/ ReleaseACSecret
    PROVE  /\ inst'.spec = inst.spec /\ inst'.endpoint = inst.endpoint
           /\ ReleaseACSecret \/ inst'.status.ready = inst.status.ready
           /\ ReleaseACSecret => inst'.status.ready = AllSubConditionIsTrue
<1>1. inst \in CRType
  BY DEF TypeOK
<1>2. CASE BackendHash \/ GlanceAPIRefreshFails
  <2>1. inst' = [inst EXCEPT !.status.storage = createHashOfBackendConfig(inst)]
        /\ ~ReleaseACSecret
    BY <1>2 DEF BackendHash, GlanceAPIRefreshFails, ReleaseACSecret
  <2> QED
    BY <1>1, <2>1 DEF CRType, StatusType
<1>3. CASE EnsureServiceTopology
  <2>1. /\ UNCHANGED inst \/ inst' = [inst EXCEPT !.status.topology = inst.spec.topology]
        /\ ~ReleaseACSecret
    BY <1>3 DEF EnsureServiceTopology, ReleaseACSecret
  <2> QED
    BY <1>1, <2>1 DEF CRType, StatusType
<1>4. CASE EnsureDeletedTopologyRef
  <2>1. inst' = [inst EXCEPT !.finalizer = FALSE] /\ ~ReleaseACSecret
    BY <1>4 DEF EnsureDeletedTopologyRef, ReleaseACSecret
  <2> QED
    BY <1>1, <2>1 DEF CRType, StatusType
<1>5. CASE ReleaseACSecret
  <2>1. PICK a, r : /\ inst' = [inst EXCEPT !.status.ac = a, !.status.ready = r]
                    /\ r = AllSubConditionIsTrue
    BY <1>5 DEF ReleaseACSecret
  <2> QED
    BY <1>1, <1>5, <2>1 DEF CRType, StatusType
<1> QED
  BY <1>2, <1>3, <1>4, <1>5

\* The KeystoneEndpoint is brought in line with the annotation.
LEMMA DeployedEndpoint ==
    ASSUME TypeOK, DeployedInv, Doomed => Doomed', ReconcileInit PROVE DeployedInv'
<1>1. /\ UNCHANGED <<cr, cache, before, inst, sts>>
      /\ pc = "reconcileInit" /\ pc' = "generateServiceConfig" /\ queued \in BOOLEAN
      /\ queued' = (queued \/ ke' # ke) /\ EnsureKeystoneEndpoints /\ ~inst.status.ready
  BY DEF ReconcileInit, Proceed, OwnedEvent, TypeOK, DeployedInv, PassVersion
<1>2. UNCHANGED ke /\ ~queued' => EndpointSet(inst)' \/ "KeystoneEndpointReady" \notin conds'
  <2>1. CASE inst.endpoint
    <3>1. CASE "KeystoneEndpointReady" \in conds
      BY <1>1, <3>1, <2>1 DEF DeployedInv, PassDeploys, EndpointSet
    <3>2. CASE "KeystoneEndpointReady" \notin conds
      <4>1. PICK ready \in BOOLEAN :
              /\ ke \in {"absent", "pending"} => ~ready
              /\ conds' = IF ready THEN conds \cup {"KeystoneEndpointReady"} ELSE conds
        BY <1>1, <2>1 DEF EnsureKeystoneEndpoints
      <4>2. ready => ke \in {"ready", "deleting", "released"}
        BY <4>1 DEF TypeOK
      <4> QED
        BY <1>1, <2>1, <3>2, <4>1, <4>2 DEF EndpointSet
    <3> QED
      BY <3>1, <3>2
  <2>2. CASE ~inst.endpoint
    BY <1>1, <2>2 DEF EnsureKeystoneEndpoints, EndpointSet
  <2> QED
    BY <2>1, <2>2
<1>3. PassVersion'
  BY <1>1 DEF DeployedInv, PassVersion
<1>4. PassDeploys'
  BY <1>1, <1>2 DEF PassDeploys
<1>5. QuietIsDeployed'
  BY <1>1 DEF QuietIsDeployed
<1>6. ReleasedOnDeletion'
  BY <1>1 DEF DeployedInv, ReleasedOnDeletion, EnsureKeystoneEndpoints
<1> QED
  BY <1>3, <1>4, <1>5, <1>6 DEF DeployedInv

\* The StatefulSet gets the template of the pass.
LEMMA DeployedTemplate ==
    ASSUME TypeOK, DeployedInv, Doomed => Doomed', CreateOrPatchStatefulSet
    PROVE  DeployedInv'
<1> DEFINE t == StatefulSetTemplate(inst)
<1>1. /\ UNCHANGED <<cr, cache, before, inst, ke>> /\ pc = "statefulset" /\ pc' = "jobs"
      /\ queued => queued'
      /\ conds' \subseteq conds \cup {"DeploymentReady"}
  BY DEF CreateOrPatchStatefulSet, Proceed, OwnedEvent
<1>2. sts'.exists /\ sts'.template = t
  <2>1. CASE ~sts.exists
    BY <2>1 DEF CreateOrPatchStatefulSet
  <2>2. CASE sts.exists /\ sts.template # t
    <3>1. sts' = [sts EXCEPT !.template = t, !.observed = FALSE] /\ sts \in StsType
      BY <2>2 DEF CreateOrPatchStatefulSet, TypeOK
    <3> HIDE DEF t
    <3> QED
      BY <2>2, <3>1 DEF StsType
  <2>3. CASE sts.exists /\ sts.template = t
    BY <2>3 DEF CreateOrPatchStatefulSet
  <2> QED
    BY <2>1, <2>2, <2>3
<1>3. StatefulSetTemplate(inst)' = t
  BY <1>1 DEF StatefulSetTemplate
<1> HIDE DEF t
<1>4. PassVersion' /\ QuietIsDeployed' /\ ReleasedOnDeletion'
  BY <1>1 DEF DeployedInv, PassVersion, QuietIsDeployed, ReleasedOnDeletion
<1>5. PassDeploys'
  BY <1>1, <1>2, <1>3 DEF DeployedInv, PassDeploys, TemplateSet, EndpointSet
<1> QED
  BY <1>4, <1>5 DEF DeployedInv

\* The end of reconcileNormal: Ready is the conjunction of the sub-conditions.
LEMMA DeployedRelease ==
    ASSUME TypeOK, DeployedInv, Doomed => Doomed', ReleaseACSecret PROVE DeployedInv'
<1>1. /\ UNCHANGED <<cr, cache, before, conds, ke, sts, queued>>
      /\ pc = "acRelease" /\ pc' = "patch"
  BY DEF ReleaseACSecret, Return
<1>2. /\ inst'.spec = inst.spec /\ inst'.endpoint = inst.endpoint
      /\ inst'.status.ready => "KeystoneEndpointReady" \in conds
  BY DeployedCopy DEF AllSubConditionIsTrue
<1>3. PassVersion' /\ QuietIsDeployed' /\ ReleasedOnDeletion'
  BY <1>1, <1>2 DEF DeployedInv, PassVersion, QuietIsDeployed, ReleasedOnDeletion
<1>4. PassDeploys'
  BY <1>1, <1>2 DEF DeployedInv, PassDeploys, TemplateSet, EndpointSet, StatefulSetTemplate
<1> QED
  BY <1>3, <1>4 DEF DeployedInv

\* The deferred patch.  Ready stays in the server after a pass over a version that
\* was Ready only if the pass has found it so, and then that version is deployed.
LEMMA DeployedPatch ==
    ASSUME TypeOK, DeployedInv, Doomed => Doomed', PatchInstance PROVE DeployedInv'
<1>1. /\ UNCHANGED <<cache, ke>> /\ Idle /\ pc = "patch" /\ pc' = "idle"
      /\ queued => queued'
  BY DEF PatchInstance, Idle
<1>2. PassVersion' /\ PassDeploys' /\ ReleasedOnDeletion'
  BY <1>1 DEF DeployedInv, PassVersion, PassDeploys, ReleasedOnDeletion
<1>3. QuietIsDeployed'
  <2> SUFFICES ASSUME ~queued', cr'.exists, cr'.status.ready, cache.status.ready
               PROVE  TemplateSet(cache)' /\ EndpointSet(cache)'
    BY <1>1 DEF QuietIsDeployed
  <2>1. cr.exists /\ cr' = MergePatch /\ UNCHANGED <<sts, pods>>
    BY DEF PatchInstance, NoCR
  <2>2. cache = before /\ inst.spec = before.spec /\ inst.endpoint = before.endpoint
    BY <1>1 DEF DeployedInv, PassVersion
  <2>3. cr'.status.ready = IF ConditionsChanged THEN inst.status.ready ELSE cr.status.ready
    BY <2>1 DEF MergePatch, TypeOK, CRType, StatusType
  <2>4. inst.status.ready
    <3>1. inst.status.ready \in BOOLEAN /\ before.status.ready \in BOOLEAN
      BY DEF TypeOK, CRType, StatusType
    <3> QED
      BY <2>2, <2>3, <3>1 DEF ConditionsChanged
  <2>5. TemplateSet(inst) /\ EndpointSet(inst)
    BY <1>1, <2>4 DEF DeployedInv, PassDeploys
  <2> QED
    BY <1>1, <2>1, <2>2, <2>5 DEF TemplateSet, EndpointSet, StatefulSetTemplate
<1> QED
  BY <1>2, <1>3 DEF DeployedInv

\* Every step keeps DeployedInv.
LEMMA DeployedStep ==
    ASSUME TypeOK, ProtectionInv, DeployedInv, [Next]_vars PROVE DeployedInv'
<1> USE DEF server, worker, env, Proceed, Return, OwnedEvent
<1>0. (Doomed => Doomed') /\ queued \in BOOLEAN
  BY DoomedStable DEF TypeOK
<1>1. CASE UNCHANGED vars
  BY <1>0, <1>1, DeployedElsewhere DEF vars
<1>2. CASE ReconcileNotFound
  <2>1. UNCHANGED <<cr, cache, before, inst, pc, ke, sts>> /\ pc = "idle" /\ ~cache.exists
    BY <1>2 DEF ReconcileNotFound
  <2> QED
    BY <1>0, <2>1 DEF DeployedInv, PassVersion, PassDeploys, QuietIsDeployed, ReleasedOnDeletion
<1>3. CASE Reconcile
  BY <1>0, <1>3, DeployedReconcile
<1>4. CASE VerifyInputs \/ VerifyBackends \/ GenerateServiceConfig \/ AddACFinalizer
           \/ ReconcileJobs \/ RemoveACFinalizers
  BY <1>0, <1>4, DeployedElsewhere DEF VerifyInputs, VerifyBackends, GenerateServiceConfig,
     AddACFinalizer, ReconcileJobs, RemoveACFinalizers
<1>5. CASE BackendHash \/ EnsureServiceTopology \/ GlanceAPIRefreshFails
           \/ EnsureDeletedTopologyRef
  <2>1. /\ UNCHANGED <<cr, cache, before, conds, ke>> /\ (queued => queued')
        /\ pc \notin {"idle", "patch"}
        /\ pc' \in {"verifyBackends", "statefulset", "patch"}
        /\ UNCHANGED sts \/ pc' = "verifyBackends"
    BY <1>0, <1>5 DEF BackendHash, EnsureServiceTopology, GlanceAPIRefreshFails,
       EnsureDeletedTopologyRef
  <2>2. /\ inst'.spec = inst.spec /\ inst'.endpoint = inst.endpoint
        /\ inst'.status.ready = inst.status.ready
    <3>1. ~ReleaseACSecret
      BY <1>5 DEF BackendHash, EnsureServiceTopology, GlanceAPIRefreshFails,
         EnsureDeletedTopologyRef, ReleaseACSecret
    <3> QED
      BY <1>5, <3>1, DeployedCopy
  <2> QED
    BY <1>0, <2>1, <2>2, DeployedElsewhere
<1>6. CASE ReconcileInit
  BY <1>0, <1>6, DeployedEndpoint
<1>7. CASE CreateOrPatchStatefulSet
  BY <1>0, <1>7, DeployedTemplate
<1>8. CASE ReleaseACSecret
  BY <1>0, <1>8, DeployedRelease
<1>9. CASE EnsureDeletedEndpoints
  <2>1. /\ UNCHANGED <<cr, cache, before, inst, conds, sts>>
        /\ pc = "deleteEndpoints" /\ pc' = "deleteSecrets"
        /\ queued' = (queued \/ ke' # ke) /\ queued \in BOOLEAN
    BY <1>9 DEF EnsureDeletedEndpoints, TypeOK
  <2>2. Doomed'
    BY <1>0, <2>1 DEF ProtectionInv, DeletionSeen
  <2> QED
    BY <1>0, <2>1, <2>2, DeployedElsewhere
<1>10. CASE PatchInstance
  BY <1>0, <1>10, DeployedPatch
<1>11. CASE PassLost \/ CacheSync \/ Crash
  BY <1>0, <1>11, DeployedQueued DEF PassLost, CacheSync, Crash
<1>12. CASE CallFails
  BY <1>0, <1>12, DeployedElsewhere DEF CallFails, FaultySteps, Steps
<1>13. CASE EditSpec \/ EditEndpoint \/ DeleteGlanceAPI
  <2>1. /\ UNCHANGED <<cache, before, inst, conds, pc, ke, sts, queued>> /\ cr.exists
    BY <1>13 DEF EditSpec, EditEndpoint, DeleteGlanceAPI, UserMayEdit, UserMayAct
  <2>2. cr'.exists => cr'.status = cr.status
    <3>0. cr \in CRType
      BY DEF TypeOK
    <3>1. CASE EditSpec
      <4>1. PICK s, n : cr' = [cr EXCEPT !.spec = s, !.gen = n]
        BY <3>1 DEF EditSpec
      <4> QED
        BY <3>0, <4>1 DEF CRType
    <3>2. CASE EditEndpoint
      <4>1. PICK e : cr' = [cr EXCEPT !.endpoint = e]
        BY <3>2 DEF EditEndpoint
      <4> QED
        BY <3>0, <4>1 DEF CRType
    <3>3. CASE DeleteGlanceAPI
      <4>1. PICK n : cr' = NoCR \/ cr' = [cr EXCEPT !.deleting = TRUE, !.gen = n]
        BY <3>3 DEF DeleteGlanceAPI
      <4>2. ~NoCR.exists
        BY DEF NoCR
      <4> QED
        BY <3>0, <4>1, <4>2 DEF CRType
    <3> QED
      BY <1>13, <3>1, <3>2, <3>3
  <2> QED
    BY <1>0, <2>1, <2>2, DeployedElsewhere
<1>14. CASE EndpointRegistered \/ EndpointRemoved
  BY <1>0, <1>14, DeployedElsewhere DEF EndpointRegistered, EndpointRemoved
<1>15. CASE StsReportsStatus
  <2>1. /\ UNCHANGED <<cr, cache, before, inst, conds, pc, ke>> /\ queued' = TRUE
        /\ sts'.exists = sts.exists /\ sts'.template = sts.template
    BY <1>15 DEF StsReportsStatus, TypeOK, StsType
  <2> QED
    BY <1>0, <2>1, DeployedElsewhere
<1>16. ASSUME NEW i \in Pods,
              PodStarts(i) \/ PodBecomesReady(i) \/ PodRolls(i) \/ PodCollected(i)
       PROVE  DeployedInv'
  BY <1>0, <1>16, DeployedElsewhere DEF PodStarts, PodBecomesReady, PodRolls, PodCollected
<1>17. ASSUME NEW i \in InputNames, InputAppears(i) \/ InputLost(i) PROVE DeployedInv'
  BY <1>0, <1>17, DeployedElsewhere DEF InputAppears, InputLost
<1>18. ASSUME NEW c \in Creds, ACSecretCreated(c) \/ ACSecretRevoked(c) PROVE DeployedInv'
  BY <1>0, <1>18, DeployedElsewhere DEF ACSecretCreated, ACSecretRevoked
<1> QED
  BY <1>1, <1>2, <1>3, <1>4, <1>5, <1>6, <1>7, <1>8, <1>9, <1>10, <1>11, <1>12, <1>13,
     <1>14, <1>15, <1>16, <1>17, <1>18 DEF Next, Worker, Cluster, Inputs, Failure, User

\* A GlanceAPI that settles as Ready runs on the template of its spec and has its
\* KeystoneEndpoint exactly when the annotation asks for it: whatever edits,
\* crashes, failures and stale reads came before, and for any user.
THEOREM SettledDeployed == Spec => []SettledReadyIsDeployed
<1>1. Init => DeployedInv
  BY DEF Init, NoCR, DeployedInv, PassVersion, PassDeploys, QuietIsDeployed, ReleasedOnDeletion
<1>2. TypeOK /\ ProtectionInv /\ DeployedInv /\ [Next]_vars => DeployedInv'
  BY DeployedStep
<1>3. TypeOK /\ DeployedInv => SettledReadyIsDeployed
  <2> SUFFICES ASSUME TypeOK, DeployedInv, Settled, ReadyNow
               PROVE  /\ sts.exists /\ sts.template = StatefulSetTemplate(cr)
                      /\ ke # "deleting" => (ke = "ready" <=> cr.endpoint)
    BY DEF SettledReadyIsDeployed
  <2>1. TemplateSet(cr) /\ EndpointSet(cr)
    BY DEF DeployedInv, QuietIsDeployed, Settled, ReadyNow
  <2>2. ke # "released"
    BY DEF DeployedInv, ReleasedOnDeletion, Doomed, ReadyNow
  <2> QED
    BY <2>1, <2>2 DEF TemplateSet, EndpointSet
<1> QED
  BY <1>1, <1>2, <1>3, TypeCorrect, ProtectionInvariant, PTL DEF Spec

=============================================================================
