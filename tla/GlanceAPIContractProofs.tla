------------------------ MODULE GlanceAPIContractProofs ------------------------
(***************************************************************************)
(* GlanceAPI implements GlanceAPIContract, and its deletion leaves no      *)
(* KeystoneEndpoint behind, for every value of the constants.  When the    *)
(* user waits for Ready before an edit, it leaves no consumer finalizer on *)
(* a credential secret either, names every one while it lives, holds the   *)
(* finalizer of its Topology and of no other, and runs on the volumes of   *)
(* its spec.                                                               *)
(***************************************************************************)
EXTENDS GlanceAPIProofs, ContractRecords

-----------------------------------------------------------------------------
(* What the writes do to the fields that the life cycle depends on.        *)

\* The copy that Reconcile makes of the cached object.
LEMMA ReconcileCopy ==
    ASSUME TypeOK, Reconcile
    PROVE  /\ cache.deleting => inst'.finalizer = cache.finalizer
           /\ ~cache.deleting => inst'.finalizer
           /\ ~inst'.status.new
           /\ inst'.status.gen = cache.gen
<1> DEFINE f == cache.finalizer \/ (~cache.deleting /\ ~cache.finalizer)
           c == [cache EXCEPT !.finalizer = f, !.status.new = FALSE,
                              !.status.ready = FALSE, !.status.gen = cache.gen]
<1>1. inst' = c
  BY DEF Reconcile
<1>2. cache \in CRType
  BY DEF TypeOK
<1>3. f \in BOOLEAN /\ (cache.deleting => f = cache.finalizer) /\ (~cache.deleting => f)
  BY <1>2 DEF CRType
<1>4. c.finalizer = f /\ ~c.status.new /\ c.status.gen = cache.gen
  <2> HIDE DEF f
  <2> QED
    BY <1>2 DEF CRType, StatusType
<1> QED
  BY <1>1, <1>3, <1>4

\* The steps of a pass change neither the finalizer of the copy, before the end
\* of reconcileDelete, nor the generation it will report.
LEMMA CopyKept ==
    ASSUME TypeOK,
           \/ BackendHash \/ EnsureServiceTopology \/ ReleaseACSecret
           \/ GlanceAPIRefreshFails \/ UNCHANGED inst
    PROVE  /\ inst'.finalizer = inst.finalizer
           /\ inst'.status.new = inst.status.new
           /\ inst'.status.gen = inst.status.gen
<1>1. inst \in [exists : BOOLEAN, deleting : BOOLEAN, finalizer : BOOLEAN, gen : Nat,
                endpoint : BOOLEAN, spec : SpecType, status : StatusType]
  BY DEF TypeOK, CRType
<1>2. CASE BackendHash \/ GlanceAPIRefreshFails
  <2>1. inst' = [inst EXCEPT !.status.storage = createHashOfBackendConfig(inst)]
    BY <1>2 DEF BackendHash, GlanceAPIRefreshFails
  <2> QED
    BY <1>1, <2>1 DEF StatusType
<1>3. CASE EnsureServiceTopology
  <2>1. UNCHANGED inst \/ inst' = [inst EXCEPT !.status.topology = inst.spec.topology]
    BY <1>3 DEF EnsureServiceTopology
  <2> QED
    BY <1>1, <2>1 DEF StatusType
<1>4. CASE ReleaseACSecret
  <2>1. PICK a, r : inst' = [inst EXCEPT !.status.ac = a, !.status.ready = r]
    BY <1>4 DEF ReleaseACSecret
  <2> QED
    BY <1>1, <2>1 DEF StatusType
<1> QED
  BY <1>2, <1>3, <1>4

\* The edits of the user.
LEMMA EditedFields ==
    ASSUME TypeOK, EditSpec \/ EditEndpoint \/ (DeleteGlanceAPI /\ cr.finalizer)
    PROVE  /\ cr'.exists = cr.exists
           /\ cr'.finalizer = cr.finalizer
           /\ cr'.status = cr.status
           /\ cr.deleting => cr'.deleting
           /\ cr'.gen \in Nat /\ cr.gen <= cr'.gen
<1> DEFINE n == cr.gen + 1
<1>1. cr \in CRType /\ cr.gen \in Nat
  BY DEF TypeOK, CRType
<1>2. n \in Nat /\ cr.gen <= n
  BY <1>1
<1> HIDE DEF n
<1>3. CASE EditSpec
  <2>1. PICK s : cr' = [cr EXCEPT !.spec = s, !.gen = n]
    BY <1>3 DEF EditSpec, n
  <2> QED
    BY <1>1, <1>2, <2>1 DEF CRType
<1>4. CASE EditEndpoint
  <2>1. PICK e : cr' = [cr EXCEPT !.endpoint = e]
    BY <1>4 DEF EditEndpoint
  <2> QED
    BY <1>1, <2>1 DEF CRType
<1>5. CASE DeleteGlanceAPI /\ cr.finalizer
  <2>1. cr' = [cr EXCEPT !.deleting = TRUE, !.gen = n]
    BY <1>5 DEF DeleteGlanceAPI, n
  <2> QED
    BY <1>1, <1>2, <2>1 DEF CRType
<1> QED
  BY <1>3, <1>4, <1>5

\* The merge patch of a pass.
LEMMA PatchedFields ==
    ASSUME TypeOK
    PROVE  /\ MergePatch.exists = cr.exists
           /\ MergePatch.deleting = cr.deleting
           /\ MergePatch.gen = cr.gen
           /\ MergePatch.finalizer = Patched(inst.finalizer, before.finalizer, cr.finalizer)
           /\ MergePatch.status.new = IF ConditionsChanged THEN inst.status.new
                                      ELSE cr.status.new
           /\ MergePatch.status.gen = Patched(inst.status.gen, before.status.gen,
                                              cr.status.gen)
           /\ MergePatch.status.ready \in BOOLEAN
  BY DEF TypeOK, CRType, StatusType, MergePatch

-----------------------------------------------------------------------------
(* The life cycle.                                                         *)

\* The types that the arguments below need.
LEMMA LifeCycleTypes ==
    ASSUME TypeOK
    PROVE  \A o \in {cr, cache, before, inst} :
               /\ o.exists \in BOOLEAN /\ o.deleting \in BOOLEAN /\ o.finalizer \in BOOLEAN
               /\ o.status.new \in BOOLEAN
               /\ o.gen \in Nat /\ o.status.gen \in Nat
  BY DEF TypeOK, CRType, StatusType

\* An object that is not there is neither held nor reported on.
LEMMA NoCRFields ==
    /\ ~NoCR.exists /\ ~NoCR.deleting /\ NoCR.finalizer = FALSE
    /\ NoCR.status.new = TRUE
    /\ NoCR.finalizer = ~NoCR.status.new
  BY DEF NoCR, NoStatus

\* Steps that leave alone the object, the cache and the worker, and do not create
\* a KeystoneEndpoint.
LEMMA LifeCycleElsewhere ==
    ASSUME TypeOK, LifeCycleInv, UNCHANGED <<cr, cache, pc, before, inst>>,
           ke' \in {"pending", "ready"} => ke \in {"pending", "ready"}
    PROVE  LifeCycleInv'
  BY DEF LifeCycleInv, DeletionSeen, Doomed, FinalizerWithStatus, HoldKept, LettingGoIsLast,
     LettingGo, PassCopy, ObservedInOrder, EndpointHeld

\* A step of reconcileNormal: the object is held, whatever the step does to the
\* KeystoneEndpoint.
LEMMA LifeCycleNormal ==
    ASSUME TypeOK, LifeCycleInv, UNCHANGED <<cr, cache, before>>,
           pc \in NormalSteps, pc' \in NormalSteps \cup {"patch"},
           inst'.finalizer = inst.finalizer,
           inst'.status.new = inst.status.new,
           inst'.status.gen = inst.status.gen
    PROVE  LifeCycleInv'
<1>1. inst.finalizer /\ cr.exists /\ cr.finalizer
  BY DEF LifeCycleInv, HoldKept, PassCopy, NormalSteps
<1> QED
  BY <1>1 DEF LifeCycleInv, DeletionSeen, Doomed, FinalizerWithStatus, HoldKept,
     LettingGoIsLast, LettingGo, PassCopy, ObservedInOrder, EndpointHeld, NormalSteps,
     DeleteSteps

\* A step of reconcileDelete: it gives up the GlanceAPI's finalizer at its end,
\* after the KeystoneEndpoint.
LEMMA LifeCycleDelete ==
    ASSUME TypeOK, LifeCycleInv, UNCHANGED <<cr, cache, before>>,
           pc \in DeleteSteps, pc' \in DeleteSteps \cup {"patch"},
           \/ UNCHANGED <<inst, ke>> /\ pc' \notin {"deleteSecrets", "deleteTopology"}
           \/ EnsureDeletedEndpoints
           \/ UNCHANGED <<inst, ke>> /\ pc \in {"deleteSecrets", "deleteTopology"}
           \/ EnsureDeletedTopologyRef
    PROVE  LifeCycleInv'
<1>1. /\ inst'.status.new = inst.status.new
      /\ inst'.status.gen = inst.status.gen
      /\ pc' \in DeleteSteps => inst'.finalizer
      /\ LettingGo' => EnsureDeletedTopologyRef
  <2>1. inst.finalizer
    BY DEF LifeCycleInv, PassCopy, DeleteSteps
  <2>2. CASE UNCHANGED inst
    BY <2>1, <2>2 DEF LettingGo
  <2>3. CASE EnsureDeletedTopologyRef
    BY <2>3 DEF EnsureDeletedTopologyRef, Return, TypeOK, CRType, DeleteSteps
  <2>4. CASE EnsureDeletedEndpoints
    BY <2>2, <2>4 DEF EnsureDeletedEndpoints
  <2> QED
    BY <2>2, <2>3, <2>4
<1>2. ke' \in {"pending", "ready"} => ke \in {"pending", "ready"} /\ ~EnsureDeletedEndpoints
                                       /\ ~EnsureDeletedTopologyRef
  BY DEF EnsureDeletedEndpoints, EnsureDeletedTopologyRef, LifeCycleInv, EndpointHeld
<1>3. EndpointHeld'
  BY <1>1, <1>2 DEF LifeCycleInv, EndpointHeld
<1> QED
  BY <1>1, <1>3 DEF LifeCycleInv, DeletionSeen, Doomed, FinalizerWithStatus, HoldKept,
     LettingGoIsLast, LettingGo, PassCopy, ObservedInOrder, NormalSteps, DeleteSteps

\* A pass starts.  It goes through reconcileNormal only for an object that the
\* cache shows held and not being deleted, and such an object is there.
LEMMA LifeCycleReconcile == TypeOK /\ LifeCycleInv /\ Reconcile => LifeCycleInv'
<1> SUFFICES ASSUME TypeOK, LifeCycleInv, Reconcile PROVE LifeCycleInv'
  OBVIOUS
<1>1. /\ UNCHANGED <<cr, cache, ke>> /\ before' = cache /\ pc = "idle" /\ cache.exists
      /\ pc' = IF (~cache.deleting /\ ~cache.finalizer) \/ cache.status.new THEN "patch"
               ELSE IF cache.deleting THEN "deleteEndpoints" ELSE "verifyInputs"
  BY DEF Reconcile, server
<1>2. /\ inst'.finalizer
      /\ ~inst'.status.new
      /\ inst'.status.gen = cache.gen
  BY ReconcileCopy DEF LifeCycleInv, FinalizerWithStatus
<1>3. /\ pc' \in NormalSteps => cache.finalizer /\ ~cache.deleting
      /\ pc' \in DeleteSteps => cache.deleting
      /\ pc' # "idle" /\ pc' \notin {"deleteSecrets", "deleteTopology"}
      /\ ~LettingGo'
  BY <1>1, <1>2, LifeCycleTypes DEF NormalSteps, DeleteSteps, LettingGo, LifeCycleInv,
     FinalizerWithStatus
<1>4. DeletionSeen'
  BY <1>1, <1>3 DEF LifeCycleInv, DeletionSeen, Doomed, DeleteSteps
<1>5. FinalizerWithStatus' /\ HoldKept'
  BY <1>1, <1>3 DEF LifeCycleInv, FinalizerWithStatus, HoldKept
<1>6. LettingGoIsLast'
  BY <1>1, <1>3 DEF LifeCycleInv, DeletionSeen, Doomed, LettingGoIsLast
<1>7. PassCopy' /\ EndpointHeld'
  BY <1>1, <1>2, <1>3 DEF LifeCycleInv, PassCopy, EndpointHeld
<1>8. ObservedInOrder'
  BY <1>1, LifeCycleTypes DEF LifeCycleInv, ObservedInOrder
<1> QED
  BY <1>4, <1>5, <1>6, <1>7, <1>8 DEF LifeCycleInv

\* The cache is brought up to date, by a watch or by the list of a new operator.
LEMMA LifeCycleSync ==
    ASSUME TypeOK, LifeCycleInv, cache' = cr, UNCHANGED <<cr, ke>>,
           UNCHANGED <<pc, before, inst>> \/ Idle
    PROVE  LifeCycleInv'
<1>1. CASE Idle
  <2>1. pc' = "idle" /\ before' = NoCR
    BY <1>1 DEF Idle
  <2>2. FinalizerWithStatus' /\ HoldKept'
    BY <2>1, NoCRFields DEF LifeCycleInv, FinalizerWithStatus, HoldKept, NormalSteps
  <2>3. ObservedInOrder'
    BY <2>1, LifeCycleTypes DEF LifeCycleInv, ObservedInOrder
  <2>4. DeletionSeen' /\ LettingGoIsLast' /\ PassCopy' /\ EndpointHeld'
    BY <2>1 DEF LifeCycleInv, DeletionSeen, Doomed, LettingGoIsLast, LettingGo, PassCopy,
       EndpointHeld, DeleteSteps
  <2> QED
    BY <2>2, <2>3, <2>4 DEF LifeCycleInv
<1>2. CASE UNCHANGED <<pc, before, inst>>
  <2>1. ObservedInOrder'
    BY <1>2, LifeCycleTypes DEF LifeCycleInv, ObservedInOrder
  <2> QED
    BY <1>2, <2>1 DEF LifeCycleInv, DeletionSeen, Doomed, FinalizerWithStatus, HoldKept,
       LettingGoIsLast, LettingGo, PassCopy, EndpointHeld
<1> QED
  BY <1>1, <1>2

\* The edits of the user.  Without the finalizer a deletion is immediate, and no
\* copy claims that the object is held.
LEMMA LifeCycleUser ==
    ASSUME TypeOK, LifeCycleInv, EditSpec \/ EditEndpoint \/ DeleteGlanceAPI
    PROVE  LifeCycleInv'
<1>1. UNCHANGED <<cache, pc, before, inst, ke>> /\ cr.exists /\ ~cr.deleting
  BY DEF EditSpec, EditEndpoint, DeleteGlanceAPI, UserMayEdit, UserMayAct, worker
<1>2. CASE DeleteGlanceAPI /\ ~cr.finalizer
  <2>1. cr' = NoCR
    BY <1>2 DEF DeleteGlanceAPI
  <2>2. FinalizerWithStatus' /\ HoldKept'
    BY <1>1, <1>2, <2>1, NoCRFields DEF LifeCycleInv, FinalizerWithStatus, HoldKept
  <2>3. DeletionSeen' /\ LettingGoIsLast' /\ PassCopy' /\ ObservedInOrder' /\ EndpointHeld'
    BY <1>1, <1>2, <2>1, NoCRFields DEF LifeCycleInv, DeletionSeen, Doomed,
       LettingGoIsLast, LettingGo, PassCopy, ObservedInOrder, EndpointHeld
  <2> QED
    BY <2>2, <2>3 DEF LifeCycleInv
<1>3. CASE EditSpec \/ EditEndpoint \/ (DeleteGlanceAPI /\ cr.finalizer)
  <2>1. /\ cr'.exists /\ cr'.finalizer = cr.finalizer /\ cr'.status = cr.status
        /\ cr'.gen \in Nat /\ cr.gen <= cr'.gen
    BY <1>1, <1>3, EditedFields
  <2>2. cr'.deleting => cr.finalizer
    BY <1>1, <1>3 DEF EditSpec, EditEndpoint, TypeOK, CRType
  <2>3. ObservedInOrder'
    BY <1>1, <2>1, LifeCycleTypes DEF LifeCycleInv, ObservedInOrder
  <2> QED
    BY <1>1, <2>1, <2>2, <2>3 DEF LifeCycleInv, DeletionSeen, Doomed, FinalizerWithStatus,
       HoldKept, LettingGoIsLast, LettingGo, PassCopy, EndpointHeld
<1> QED
  BY <1>2, <1>3

\* What the patch of a pass writes: an object that is being deleted is let go, and
\* any other is held and reported on, for a generation that is not older than the
\* one reported last.
LEMMA PatchReports ==
    ASSUME TypeOK, LifeCycleInv, pc = "patch", cr.exists
    PROVE  /\ MergePatch.exists /\ MergePatch.deleting = cr.deleting
           /\ MergePatch.gen = cr.gen
           /\ ~inst.finalizer => cr.deleting
           /\ inst.finalizer => MergePatch.finalizer
           /\ ~inst.finalizer /\ ~MergePatch.finalizer => cache.deleting \/ ~cache.exists
           /\ ~MergePatch.status.new
           /\ MergePatch.status.gen \in cr.status.gen .. before.gen
<1> USE LifeCycleTypes, PatchedFields
<1>1. ~inst.finalizer => cr.deleting /\ (cache.deleting \/ ~cache.exists)
  BY DEF LifeCycleInv, LettingGoIsLast, LettingGo, Doomed
<1>2. inst.finalizer => MergePatch.finalizer
  BY DEF Patched, LifeCycleInv, HoldKept
<1>3. ~MergePatch.status.new
  BY DEF ConditionsChanged, LifeCycleInv, PassCopy, HoldKept, FinalizerWithStatus
<1>4. MergePatch.status.gen \in cr.status.gen .. before.gen
  BY DEF Patched, LifeCycleInv, PassCopy, ObservedInOrder
<1> QED
  BY <1>1, <1>2, <1>3, <1>4

\* A pass ends, with or without its patch.
LEMMA LifeCycleEnd ==
    ASSUME TypeOK, LifeCycleInv, PatchInstance \/ PassLost
    PROVE  LifeCycleInv'
<1>1. pc' = "idle" /\ before' = NoCR /\ UNCHANGED <<cache, ke>>
  BY DEF PatchInstance, PassLost, Idle, server
<1>2. PassCopy' /\ LettingGoIsLast'
  BY <1>1 DEF PassCopy, LettingGoIsLast, LettingGo, DeleteSteps
<1>3. CASE UNCHANGED cr
  <2>1. FinalizerWithStatus' /\ HoldKept'
    BY <1>1, <1>3, NoCRFields DEF LifeCycleInv, FinalizerWithStatus, HoldKept, NormalSteps
  <2>2. DeletionSeen' /\ ObservedInOrder' /\ EndpointHeld'
    BY <1>1, <1>3 DEF LifeCycleInv, DeletionSeen, Doomed, ObservedInOrder, EndpointHeld,
       LettingGo
  <2> QED
    BY <1>2, <2>1, <2>2 DEF LifeCycleInv
<1>4. CASE PatchInstance /\ cr.exists /\ cr' = NoCR /\ cr.deleting /\ ~MergePatch.finalizer
  <2>1. pc = "patch" /\ LettingGo /\ (cache.deleting \/ ~cache.exists)
    BY <1>4, PatchReports DEF PatchInstance, LettingGo
  <2>2. FinalizerWithStatus' /\ HoldKept'
    BY <1>1, <1>4, <2>1, NoCRFields DEF LifeCycleInv, FinalizerWithStatus, HoldKept,
       NormalSteps
  <2>3. DeletionSeen' /\ ObservedInOrder' /\ EndpointHeld'
    BY <1>1, <1>4, <2>1, NoCRFields DEF DeletionSeen, Doomed, ObservedInOrder,
       LifeCycleInv, EndpointHeld
  <2> QED
    BY <1>2, <2>2, <2>3 DEF LifeCycleInv
<1>5. CASE PatchInstance /\ cr.exists /\ cr' = MergePatch
           /\ (MergePatch.deleting => MergePatch.finalizer)
  <2>1. pc = "patch"
    BY <1>5 DEF PatchInstance
  <2>2. /\ cr'.exists /\ cr'.deleting = cr.deleting /\ cr'.gen = cr.gen /\ cr'.finalizer
        /\ ~cr'.status.new
        /\ cr'.status.gen \in cr.status.gen .. before.gen
    BY <1>5, <2>1, PatchReports
  <2>3. cr'.finalizer = ~cr'.status.new
    BY <1>5, <2>2, MergePatchType DEF TypeOK, CRType, StatusType
  <2>4. FinalizerWithStatus'
    BY <1>1, <2>2, <2>3, NoCRFields DEF LifeCycleInv, FinalizerWithStatus
  <2>5. HoldKept' /\ DeletionSeen' /\ EndpointHeld'
    BY <1>1, <1>5, <2>2, NoCRFields DEF LifeCycleInv, HoldKept, NormalSteps, DeletionSeen,
       Doomed, EndpointHeld, LettingGo
  <2>6. ObservedInOrder'
    BY <1>1, <1>5, <2>1, <2>2, LifeCycleTypes DEF LifeCycleInv, ObservedInOrder
  <2> QED
    BY <1>2, <2>4, <2>5, <2>6 DEF LifeCycleInv
<1> QED
  BY <1>3, <1>4, <1>5, PatchReports DEF PatchInstance, PassLost, server

\* Every step keeps LifeCycleInv.
LEMMA LifeCycleStep == TypeOK /\ LifeCycleInv /\ [Next]_vars => LifeCycleInv'
<1> SUFFICES ASSUME TypeOK, LifeCycleInv, [Next]_vars PROVE LifeCycleInv'
  OBVIOUS
<1> USE DEF server, worker, env, Proceed, Return
<1>1. CASE UNCHANGED vars \/ ReconcileNotFound
  BY <1>1, LifeCycleElsewhere DEF vars, ReconcileNotFound
<1>2. CASE Reconcile
  BY <1>2, LifeCycleReconcile
<1>3. CASE VerifyInputs \/ VerifyBackends \/ ReconcileInit \/ GenerateServiceConfig
           \/ AddACFinalizer \/ CreateOrPatchStatefulSet \/ ReconcileJobs
  BY <1>3, LifeCycleNormal DEF VerifyInputs, VerifyBackends, ReconcileInit,
     GenerateServiceConfig, AddACFinalizer, CreateOrPatchStatefulSet, ReconcileJobs,
     NormalSteps
<1>4. CASE BackendHash \/ EnsureServiceTopology \/ ReleaseACSecret \/ GlanceAPIRefreshFails
  <2>1. /\ UNCHANGED <<cr, cache, before>>
        /\ pc \in NormalSteps /\ pc' \in NormalSteps \cup {"patch"}
    BY <1>4 DEF BackendHash, EnsureServiceTopology, ReleaseACSecret, GlanceAPIRefreshFails,
       NormalSteps
  <2> QED
    BY <1>4, <2>1, CopyKept, LifeCycleNormal
<1>5. CASE EnsureDeletedEndpoints \/ RemoveACFinalizers \/ EnsureDeletedTopologyRef
  BY <1>5, LifeCycleDelete DEF EnsureDeletedEndpoints, RemoveACFinalizers,
     EnsureDeletedTopologyRef, DeleteSteps
<1>6. CASE PatchInstance \/ PassLost
  BY <1>6, LifeCycleEnd
<1>7. CASE CacheSync \/ Crash
  BY <1>7, LifeCycleSync DEF CacheSync, Crash
<1>8. CASE CallFails
  <2>1. /\ UNCHANGED <<cr, cache, before, inst, ke>>
        /\ pc \in NormalSteps \cup DeleteSteps /\ pc' = "patch"
    BY <1>8 DEF CallFails, FaultySteps, Steps, NormalSteps, DeleteSteps
  <2> QED
    BY <2>1, LifeCycleNormal, LifeCycleDelete
<1>9. CASE EditSpec \/ EditEndpoint \/ DeleteGlanceAPI
  BY <1>9, LifeCycleUser
<1>10. CASE EndpointRegistered \/ EndpointRemoved \/ StsReportsStatus
  BY <1>10, LifeCycleElsewhere DEF EndpointRegistered, EndpointRemoved, StsReportsStatus
<1>11. ASSUME NEW i \in Pods,
              PodStarts(i) \/ PodBecomesReady(i) \/ PodRolls(i) \/ PodCollected(i)
       PROVE  LifeCycleInv'
  BY <1>11, LifeCycleElsewhere DEF PodStarts, PodBecomesReady, PodRolls, PodCollected
<1>12. ASSUME NEW i \in InputNames, InputAppears(i) \/ InputLost(i) PROVE LifeCycleInv'
  BY <1>12, LifeCycleElsewhere DEF InputAppears, InputLost
<1>13. ASSUME NEW c \in Creds, ACSecretCreated(c) \/ ACSecretRevoked(c) PROVE LifeCycleInv'
  BY <1>13, LifeCycleElsewhere DEF ACSecretCreated, ACSecretRevoked
<1> QED
  BY <1>1, <1>2, <1>3, <1>4, <1>5, <1>6, <1>7, <1>8, <1>9, <1>10, <1>11, <1>12, <1>13
     DEF Next, Worker, Cluster, Inputs, Failure, User

\* LifeCycleInv is an invariant of the controller: the finalizer and the first
\* status arrive together, generations are read and reported in their order, and
\* the object is let go last, for every number of edits, crashes and failed calls.
THEOREM LifeCycleInvariant == Spec => []LifeCycleInv
<1>1. Init => LifeCycleInv
  <2> SUFFICES ASSUME Init PROVE LifeCycleInv
    OBVIOUS
  <2>1. PICK s \in SpecType, e \in Endpoints : cr = NewCR(s, e)
    BY DEF Init
  <2>2. /\ cr.exists /\ ~cr.deleting /\ cr.finalizer = FALSE /\ cr.status.new = TRUE
        /\ cr.gen = 1 /\ cr.status.gen = 0
    BY <2>1 DEF NewCR, NoStatus
  <2>3. cache = NoCR /\ before = NoCR /\ pc = "idle" /\ ke = "absent" /\ NoCR.gen = 0
    BY DEF Init, NoCR
  <2>4. FinalizerWithStatus /\ HoldKept
    BY <2>2, <2>3, NoCRFields DEF FinalizerWithStatus, HoldKept, NormalSteps
  <2>5. DeletionSeen /\ LettingGoIsLast /\ PassCopy /\ ObservedInOrder /\ EndpointHeld
    BY <2>2, <2>3, NoCRFields DEF DeletionSeen, LettingGoIsLast, LettingGo, DeleteSteps,
       PassCopy, ObservedInOrder, EndpointHeld
  <2> QED
    BY <2>4, <2>5 DEF LifeCycleInv
<1>2. TypeOK /\ LifeCycleInv /\ [Next]_vars => LifeCycleInv'
  BY LifeCycleStep
<1> QED
  BY <1>1, <1>2, TypeCorrect, PTL DEF Spec

\* A GlanceAPI that is gone leaves no KeystoneEndpoint with its finalizer: the
\* endpoint is created only while the object is held, and the pass that lets go
\* of the object has released the endpoint before (reconcileDelete).
THEOREM EndpointReleased == Spec => []DeletionReleasesEndpoint
<1>1. LifeCycleInv => DeletionReleasesEndpoint
  BY DEF LifeCycleInv, EndpointHeld, DeletionReleasesEndpoint
<1> QED
  BY <1>1, LifeCycleInvariant, PTL

-----------------------------------------------------------------------------
(* The refinement.                                                         *)

\* The record that the contract is about, and its fields.
LEMMA ViewType ==
    ASSUME NEW o \in CRType
    PROVE  /\ View(o) \in ObjectType
           /\ View(o).exists = o.exists /\ View(o).deleting = o.deleting
           /\ View(o).new = o.status.new /\ View(o).gen = o.gen
           /\ View(o).observed = o.status.gen /\ View(o).ready = o.status.ready
  BY DEF View, ObjectType, CRType, StatusType

\* An object that is not there.
LEMMA ViewNoCR == View(NoCR) = Contract!Absent
  BY DEF View, NoCR, NoStatus, Contract!Absent

\* The contract is about one object here.
LEMMA ContractNext ==
    ASSUME Contract!Step(View(cr), View(cr')) PROVE Contract!Next
  BY DEF Contract!Next

\* A patch is a report, or the end of a deletion.
LEMMA PatchRefines ==
    ASSUME TypeOK, TypeOK', LifeCycleInv, PatchInstance
    PROVE  Contract!Step(View(cr), View(cr'))
<1>1. CASE UNCHANGED cr
  BY <1>1 DEF Contract!Step
<1>2. CASE cr.exists /\ cr.deleting /\ cr' = NoCR
  BY <1>2, ViewNoCR DEF Contract!Step, Contract!Finalized, View
<1>3. CASE cr.exists /\ cr' = MergePatch
  <2>1. cr \in CRType /\ cr' \in CRType
    BY DEF TypeOK
  <2> DEFINE a == View(cr)
             b == View(cr')
  <2>2. /\ cr'.exists = cr.exists /\ cr'.deleting = cr.deleting /\ cr'.gen = cr.gen
        /\ cr'.status.new = FALSE
        /\ cr'.status.gen \in cr.status.gen .. cr.gen
    <3>1. /\ cr'.exists /\ cr'.deleting = cr.deleting /\ cr'.gen = cr.gen
          /\ ~cr'.status.new
          /\ cr'.status.gen \in cr.status.gen .. before.gen
      BY <1>3, PatchReports DEF PatchInstance
    <3>2. cr'.exists = TRUE /\ cr.exists = TRUE /\ cr'.status.new = FALSE
      BY <1>3, <2>1, <3>1 DEF CRType, StatusType
    <3>3. cr'.status.gen \in cr.status.gen .. cr.gen
      BY <1>3, <3>1, LifeCycleTypes DEF PatchInstance, LifeCycleInv, ObservedInOrder
    <3> QED
      BY <3>1, <3>2, <3>3
  <2>3. /\ a \in ObjectType /\ b \in ObjectType
        /\ b.exists = a.exists /\ b.deleting = a.deleting /\ b.new = FALSE
        /\ b.gen = a.gen /\ b.observed \in a.observed .. a.gen /\ b.ready \in BOOLEAN
        /\ a.exists
    BY <1>3, <2>1, <2>2, ViewType DEF ObjectType
  <2> HIDE DEF a, b
  <2>4. b = [a EXCEPT !.new = FALSE, !.observed = b.observed, !.ready = b.ready]
    BY <2>3, RecordReported
  <2>5. b \in Contract!Reports(a)
    <3>1. \E g \in a.observed .. a.gen, r \in BOOLEAN :
              b = Contract!Report(a, g, r)
      BY <2>3, <2>4, Zenon DEF Contract!Report
    <3> QED
      BY <3>1 DEF Contract!Reports
  <2>6. Contract!Step(a, b)
    BY <2>3, <2>5 DEF Contract!Step, Contract!Reported
  <2> QED
    BY <2>6 DEF a, b
<1>4. cr.exists /\ cr' = NoCR /\ MergePatch.deleting => cr.deleting
  BY PatchReports DEF PatchInstance
<1> QED
  BY <1>1, <1>2, <1>3, <1>4 DEF PatchInstance

\* So are the edits of the user: an annotation is not part of the contract.
LEMMA UserRefines ==
    ASSUME TypeOK, TypeOK', LifeCycleInv, EditSpec \/ EditEndpoint \/ DeleteGlanceAPI
    PROVE  Contract!Step(View(cr), View(cr'))
<1> DEFINE a == View(cr)
           b == View(cr')
<1>1. cr \in CRType /\ cr' \in CRType /\ cr.exists /\ ~cr.deleting
  BY DEF TypeOK, EditSpec, EditEndpoint, DeleteGlanceAPI, UserMayEdit, UserMayAct
<1>2. a \in ObjectType /\ b \in ObjectType /\ a.exists /\ ~a.deleting
  BY <1>1, ViewType
<1>3. CASE EditSpec
  <2>1. PICK s : cr' = [cr EXCEPT !.spec = s, !.gen = @ + 1]
    BY <1>3 DEF EditSpec
  <2>2. /\ cr'.exists = cr.exists /\ cr'.deleting = cr.deleting /\ cr'.status = cr.status
        /\ cr'.gen = cr.gen + 1
    BY <1>1, <2>1 DEF CRType
  <2>3. /\ b.exists = a.exists /\ b.deleting = a.deleting /\ b.new = a.new
        /\ b.gen = a.gen + 1 /\ b.observed = a.observed /\ b.ready = a.ready
    BY <1>1, <2>2, ViewType
  <2> HIDE DEF a, b
  <2>4. b = [a EXCEPT !.gen = @ + 1]
    BY <1>2, <2>3, RecordEdited
  <2>5. Contract!Step(a, b)
    BY <1>2, <2>4 DEF Contract!Step, Contract!Edited
  <2> QED
    BY <2>5 DEF a, b
<1>4. CASE EditEndpoint
  <2>1. PICK e : cr' = [cr EXCEPT !.endpoint = e]
    BY <1>4 DEF EditEndpoint
  <2>2. View(cr') = View(cr)
    BY <1>1, <2>1 DEF View, CRType
  <2> QED
    BY <2>2 DEF Contract!Step
<1>5. CASE DeleteGlanceAPI /\ cr.finalizer
  <2>1. cr' = [cr EXCEPT !.deleting = TRUE, !.gen = @ + 1]
    BY <1>5 DEF DeleteGlanceAPI
  <2>2. /\ cr'.exists = cr.exists /\ cr'.deleting = TRUE /\ cr'.status = cr.status
        /\ cr'.gen = cr.gen + 1
    BY <1>1, <2>1 DEF CRType
  <2>3. /\ b.exists = a.exists /\ b.deleting = TRUE /\ b.new = a.new
        /\ b.gen = a.gen + 1 /\ b.observed = a.observed /\ b.ready = a.ready
    BY <1>1, <2>2, ViewType
  <2>4. ~a.new
    BY <1>1, <1>5, ViewType DEF LifeCycleInv, FinalizerWithStatus
  <2> HIDE DEF a, b
  <2>5. b = [a EXCEPT !.deleting = TRUE, !.gen = @ + 1]
    BY <1>2, <2>3, RecordMarked
  <2>6. Contract!Step(a, b)
    BY <1>2, <2>4, <2>5 DEF Contract!Step, Contract!Deleted
  <2> QED
    BY <2>6 DEF a, b
<1>6. CASE DeleteGlanceAPI /\ ~cr.finalizer
  <2>1. b = Contract!Absent
    BY <1>6, ViewNoCR DEF DeleteGlanceAPI
  <2>2. a.new
    BY <1>1, <1>6, ViewType DEF LifeCycleInv, FinalizerWithStatus
  <2> HIDE DEF a, b
  <2>3. Contract!Step(a, b)
    BY <1>2, <2>1, <2>2 DEF Contract!Step, Contract!Deleted
  <2> QED
    BY <2>3 DEF a, b
<1> QED
  BY <1>3, <1>4, <1>5, <1>6

\* The reconciler implements the contract on which the Glance controller relies,
\* for every value of the constants: a step of the reconciler, of the user, of a
\* failure or of the cluster is a step of the contract or leaves the object as it
\* is.
THEOREM ContractKept == Spec => KeepsContract
<1>1. Init => Contract!Init
  <2> SUFFICES ASSUME Init PROVE Contract!Init
    OBVIOUS
  <2>1. PICK s \in SpecType, e \in Endpoints : cr = NewCR(s, e)
    BY DEF Init
  <2>2. View(cr) \in ObjectType /\ Contract!Absent \in ObjectType
    BY InitType, ViewType DEF TypeOK, Contract!Absent, ObjectType
  <2>3. View(cr) = Contract!Fresh
    <3>1. /\ View(cr).exists = TRUE /\ View(cr).deleting = FALSE /\ View(cr).new = TRUE
          /\ View(cr).gen = 1 /\ View(cr).observed = 0 /\ View(cr).ready = FALSE
      BY <2>1 DEF View, NewCR, NoStatus
    <3>2. /\ Contract!Absent.deleting = FALSE /\ Contract!Absent.new = TRUE
          /\ Contract!Absent.observed = 0 /\ Contract!Absent.ready = FALSE
      BY DEF Contract!Absent
    <3> QED
      BY <2>2, <3>1, <3>2, RecordCreated DEF Contract!Fresh
  <2> QED
    BY <2>3 DEF Contract!Init
<1>2. TypeOK /\ TypeOK' /\ LifeCycleInv /\ [Next]_vars => Contract!Next
  <2> SUFFICES ASSUME TypeOK, TypeOK', LifeCycleInv, [Next]_vars
               PROVE  Contract!Step(View(cr), View(cr'))
    BY ContractNext
  <2>1. CASE UNCHANGED cr
    BY <2>1 DEF Contract!Step
  <2> QED
    BY <2>1, Writers, PatchRefines, UserRefines
<1> QED
  BY <1>1, <1>2, TypeCorrect, LifeCycleInvariant, PTL DEF Spec, KeepsContract, Contract!Spec

-----------------------------------------------------------------------------
(* The consumer finalizers stay on record.                                 *)

\* The types that the arguments below need.
LEMMA TrackingTypes ==
    ASSUME TypeOK
    PROVE  /\ \A o \in {cr, cache, before, inst} :
                  /\ o.exists \in BOOLEAN /\ o.deleting \in BOOLEAN /\ o.gen \in Nat
                  /\ o.spec \in SpecType /\ o.status \in StatusType
                  /\ o.status.new \in BOOLEAN /\ o.status.ready \in BOOLEAN
                  /\ o.status.gen \in Nat
           /\ acFin \subseteq Creds /\ None \notin acFin
  BY ConstantsAssumption DEF ConstantsAssumption, TypeOK, CRType, StatusType

\* Steps of a pass, and steps elsewhere, that leave alone the object, the cache,
\* the finalizers, and what the pass has recorded and will report.
LEMMA TrackingElsewhere ==
    ASSUME TypeOK, TrackingInv, UNCHANGED <<cr, cache, before, acFin>>,
           inst'.spec = inst.spec,
           inst'.status.ac = inst.status.ac, inst'.status.ready = inst.status.ready,
           pc' = "idle" <=> pc = "idle",
           pc = "patch" => pc' = "patch",
           pc' \in NormalSteps => pc \in NormalSteps,
           pc' \in DeleteSteps => pc \in DeleteSteps,
           pc' = "deleteTopology" \/ LettingGo' => pc = "deleteTopology" \/ LettingGo
    PROVE  TrackingInv'
<1>1. VersionsClose' /\ ReadyIsRecorded'
  BY DEF TrackingInv, VersionsClose, ReadyIsRecorded, Versions
<1>2. PassReads' /\ PassRecords'
  BY DEF TrackingInv, PassReads, PassRecords, Doomed
<1>3. FinalizersNamed'
  BY DEF TrackingInv, FinalizersNamed
<1> QED
  BY <1>1, <1>2, <1>3 DEF TrackingInv

\* The copy that Reconcile makes of the cached object, in what is recorded.
LEMMA ReconcileReads ==
    ASSUME TypeOK, Reconcile
    PROVE  /\ inst'.spec = cache.spec /\ inst'.status.ac = cache.status.ac
           /\ inst'.status.ready = FALSE
<1> DEFINE f == cache.finalizer \/ (~cache.deleting /\ ~cache.finalizer)
<1>1. inst' = [cache EXCEPT !.finalizer = f, !.status.new = FALSE,
                            !.status.ready = FALSE, !.status.gen = cache.gen]
  BY DEF Reconcile
<1>2. cache \in CRType
  BY DEF TypeOK
<1> HIDE DEF f
<1> QED
  BY <1>1, <1>2 DEF CRType, StatusType

\* A pass starts.
LEMMA TrackingReconcile ==
    ASSUME TypeOK, LifeCycleInv, TrackingInv, Reconcile PROVE TrackingInv'
<1>1. /\ UNCHANGED <<cr, cache, acFin>> /\ before' = cache /\ pc = "idle" /\ cache.exists
      /\ pc' # "idle" /\ pc' # "deleteTopology"
      /\ pc' \in NormalSteps => ~cache.status.new
      /\ pc' \in DeleteSteps => cache.deleting
  BY DEF Reconcile, server, NormalSteps, DeleteSteps
<1>2. /\ inst'.spec = cache.spec /\ inst'.status.ac = cache.status.ac
      /\ inst'.status.ready = FALSE
  BY ReconcileReads
<1>3. ~LettingGo'
  BY ReconcileCopy DEF LettingGo, LifeCycleInv, FinalizerWithStatus
<1>4. VersionsClose' /\ ReadyIsRecorded'
  BY <1>1 DEF TrackingInv, VersionsClose, ReadyIsRecorded, Versions
<1>5. PassReads'
  BY <1>1, <1>2 DEF PassReads, Doomed, LifeCycleInv, DeletionSeen
<1>6. PassRecords' /\ FinalizersNamed'
  BY <1>1, <1>2, <1>3 DEF TrackingInv, PassRecords, FinalizersNamed
<1> QED
  BY <1>4, <1>5, <1>6 DEF TrackingInv

\* A version of the current spec names every secret that holds the finalizer.
LEMMA CurrentNames ==
    ASSUME TypeOK, TrackingInv, cr.exists, pc # "idle", before.spec = cr.spec
    PROVE  acFin \subseteq {before.spec.ac, before.status.ac}
<1>1. before \in Versions
  BY DEF TrackingInv, PassReads, Versions
<1>2. cr.status.ac \in {before.status.ac, cr.spec.ac}
  BY <1>1 DEF TrackingInv, VersionsClose
<1> QED
  BY <1>2 DEF TrackingInv, FinalizersNamed

\* The secret of the spec gets the finalizer: the object names it as the one of its
\* spec or, if the pass is one edit behind, as the recorded one.
LEMMA TrackingAdd ==
    ASSUME TypeOK, LifeCycleInv, TrackingInv, AddACFinalizer PROVE TrackingInv'
<1>1. /\ UNCHANGED <<cr, cache, before, inst>> /\ pc = "acFinalizer"
      /\ pc' \in {"topology", "patch"}
      /\ UNCHANGED acFin \/ acFin' = acFin \cup {inst.spec.ac}
  BY DEF AddACFinalizer, Proceed, Return
<1>2. cr.exists /\ cr.finalizer /\ inst.finalizer
  BY <1>1 DEF LifeCycleInv, HoldKept, PassCopy, NormalSteps
<1>3. inst.spec.ac \in {cr.spec.ac, cr.status.ac}
  <2>1. before \in Versions /\ inst.spec = before.spec
    BY <1>1 DEF TrackingInv, PassReads, Versions
  <2> QED
    BY <1>2, <2>1 DEF TrackingInv, VersionsClose
<1>4. VersionsClose' /\ ReadyIsRecorded' /\ PassReads'
  BY <1>1 DEF TrackingInv, VersionsClose, ReadyIsRecorded, Versions, PassReads, Doomed,
     NormalSteps, DeleteSteps
<1>5. PassRecords'
  BY <1>1 DEF TrackingInv, PassRecords
<1>6. FinalizersNamed'
  BY <1>1, <1>2, <1>3 DEF TrackingInv, FinalizersNamed, LettingGo
<1> QED
  BY <1>4, <1>5, <1>6 DEF TrackingInv

\* The end of a pass: the secret of the spec is recorded when the one recorded
\* before has been released or was none.
LEMMA TrackingRelease ==
    ASSUME TypeOK, LifeCycleInv, TrackingInv, ReleaseACSecret PROVE TrackingInv'
<1> DEFINE old == inst.status.ac
           rotation == old # None /\ old # inst.spec.ac
           release == rotation /\ AllSubConditionIsTrue
           ac == IF rotation /\ ~release THEN old ELSE inst.spec.ac
           ready == AllSubConditionIsTrue
<1>1. /\ UNCHANGED <<cr, cache, before>> /\ pc = "acRelease" /\ pc' = "patch"
      /\ acFin' = IF release THEN acFin \ {old} ELSE acFin
      /\ inst' = [inst EXCEPT !.status.ac = ac, !.status.ready = ready]
      /\ ready \in BOOLEAN
  BY DEF ReleaseACSecret, Return, AllSubConditionIsTrue
<1>2. /\ inst'.spec = inst.spec /\ inst'.finalizer = inst.finalizer
      /\ inst'.status.ac = ac /\ inst'.status.ready = ready
  <2>1. inst \in CRType
    BY DEF TypeOK
  <2> HIDE DEF ac, ready
  <2> QED
    BY <1>1, <2>1 DEF CRType, StatusType
<1>3. /\ cr.exists /\ inst.finalizer /\ ~before.status.new
      /\ inst.spec = before.spec /\ old = before.status.ac
  BY <1>1 DEF LifeCycleInv, HoldKept, PassCopy, NormalSteps, TrackingInv, PassReads, PassRecords
<1>4. VersionsClose' /\ ReadyIsRecorded' /\ PassReads'
  BY <1>1, <1>2 DEF TrackingInv, VersionsClose, ReadyIsRecorded, Versions, PassReads, Doomed,
     NormalSteps, DeleteSteps
<1>5. PassRecords'
  <2>1. ac # old => ac = inst.spec.ac /\ (old = None \/ release)
    OBVIOUS
  <2>2. ASSUME ac # old, before.spec = cr.spec PROVE acFin' \subseteq {inst.spec.ac}
    <3>1. acFin \subseteq {inst.spec.ac, old}
      BY <1>1, <1>3, <2>2, CurrentNames
    <3> QED
      BY <1>1, <2>1, <2>2, <3>1, TrackingTypes
  <2>3. ready => ac = inst.spec.ac
    OBVIOUS
  <2> HIDE DEF ac, ready, release, rotation
  <2> QED
    BY <1>1, <1>2, <1>3, <2>1, <2>2, <2>3 DEF PassRecords
<1>6. FinalizersNamed'
  <2>1. acFin' \subseteq acFin
    BY <1>1
  <2> QED
    BY <1>1, <1>2, <1>3, <2>1 DEF TrackingInv, FinalizersNamed, LettingGo
<1> QED
  BY <1>4, <1>5, <1>6 DEF TrackingInv

\* reconcileDelete removes the finalizer from the secrets that its version names.
\* That version has the last spec, so that none is left.
LEMMA TrackingRemove ==
    ASSUME TypeOK, LifeCycleInv, TrackingInv, RemoveACFinalizers PROVE TrackingInv'
<1>1. /\ UNCHANGED <<cr, cache, before, inst>> /\ pc = "deleteSecrets"
      /\ pc' = "deleteTopology"
      /\ acFin' = acFin \ {inst.status.ac, inst.spec.ac}
  BY DEF RemoveACFinalizers, Proceed
<1>2. /\ before \in Versions /\ before.deleting
      /\ inst.spec = before.spec /\ inst.status.ac = before.status.ac
  BY <1>1 DEF TrackingInv, PassReads, PassRecords, Versions, DeleteSteps
<1>3. acFin' = {}
  <2>1. CASE cr.exists
    <3>1. before.spec = cr.spec
      BY <1>2, <2>1 DEF TrackingInv, VersionsClose
    <3> QED
      BY <1>1, <1>2, <2>1, <3>1, CurrentNames
  <2>2. CASE ~cr.exists
    BY <1>1, <2>2 DEF TrackingInv, FinalizersNamed
  <2> QED
    BY <2>1, <2>2
<1>4. VersionsClose' /\ ReadyIsRecorded' /\ PassReads'
  BY <1>1 DEF TrackingInv, VersionsClose, ReadyIsRecorded, Versions, PassReads, Doomed,
     NormalSteps, DeleteSteps
<1>5. PassRecords' /\ FinalizersNamed'
  BY <1>1, <1>3 DEF TrackingInv, PassRecords, FinalizersNamed
<1> QED
  BY <1>4, <1>5 DEF TrackingInv

\* The cache is brought up to date, by a watch or by the list of a new operator.
LEMMA TrackingSync ==
    ASSUME TypeOK, LifeCycleInv, TrackingInv, cache' = cr, UNCHANGED <<cr, acFin>>,
           UNCHANGED <<pc, before, inst>> \/ Idle
    PROVE  TrackingInv'
<1>1. before' = before \/ before' = NoCR
  BY DEF Idle
<1>2. VersionsClose'
  <2> SUFFICES ASSUME cr.exists, NEW o \in Versions'
               PROVE  /\ cr.gen > 0
                      /\ o.gen = cr.gen \/ o.deleting => o.spec = cr.spec
                      /\ o.status.new => ~o.status.ready /\ ~cr.status.ready
                      /\ o.spec # cr.spec => /\ cr.status.ac = o.spec.ac
                                             /\ o.status.ready \/ cr.status.ready
                      /\ o.spec = cr.spec =>
                           /\ cr.status.ac \in {o.status.ac, cr.spec.ac}
                           /\ cr.status.ready /\ ~o.status.ready => cr.status.ac = cr.spec.ac
    BY DEF TrackingInv, VersionsClose
  <2>1. o = cr \/ o \in Versions
    BY <1>1, NoCRFields DEF Versions
  <2>2. CASE o \in Versions
    BY <2>2 DEF TrackingInv, VersionsClose
  <2>3. CASE o = cr
    BY <2>3 DEF TrackingInv, VersionsClose
  <2> QED
    BY <2>1, <2>2, <2>3
<1>3. PassReads'
  BY <1>1, NoCRFields DEF TrackingInv, PassReads, Idle, Doomed, NormalSteps, DeleteSteps
<1>4. PassRecords' /\ ReadyIsRecorded' /\ FinalizersNamed'
  BY DEF TrackingInv, PassRecords, ReadyIsRecorded, FinalizersNamed, Idle, LettingGo
<1> QED
  BY <1>2, <1>3, <1>4 DEF TrackingInv

\* The versions at an edit, when the user has waited for Ready.
LEMMA EditedVersions ==
    ASSUME TypeOK, LifeCycleInv, TrackingInv, cr.exists, cr.status.gen = cr.gen,
           NEW o \in Versions
    PROVE  o.gen = cr.gen /\ o.spec = cr.spec
<1>1. o.gen = cr.gen
  <2>1. CASE o = cache
    BY <2>1, TrackingTypes DEF LifeCycleInv, ObservedInOrder
  <2>2. CASE o = before
    <3>1. pc # "idle"
      BY <2>2, NoCRFields DEF TrackingInv, PassReads, Versions
    <3> QED
      BY <2>2, <3>1, TrackingTypes DEF LifeCycleInv, ObservedInOrder
  <2> QED
    BY <2>1, <2>2 DEF Versions
<1> QED
  BY <1>1 DEF TrackingInv, VersionsClose

\* An edit.  The user has waited for Ready, so that the cache and the pass in
\* progress hold the spec that is replaced, and its secret is the recorded one.
LEMMA TrackingEdit ==
    ASSUME TypeOK, LifeCycleInv, TrackingInv, PatientUser, EditSpec PROVE TrackingInv'
<1> DEFINE n == cr.gen + 1
<1>1. /\ UNCHANGED <<cache, pc, before, inst, acFin>>
      /\ cr.exists /\ ~cr.deleting /\ cr.status.ready /\ cr.status.gen = cr.gen
  BY DEF EditSpec, UserMayEdit, UserMayAct, worker
<1>2. PICK s \in SpecType : s # cr.spec /\ cr' = [cr EXCEPT !.spec = s, !.gen = n]
  BY DEF EditSpec
<1>3. n \in Nat /\ n > cr.gen /\ cr.gen \in Nat
  BY TrackingTypes
<1> HIDE DEF n
<1>4. /\ cr'.exists /\ ~cr'.deleting /\ cr'.finalizer = cr.finalizer
      /\ cr'.status = cr.status /\ cr'.spec = s /\ cr'.gen = n
  BY <1>1, <1>2, <1>3 DEF TypeOK, CRType
<1>5. cr.status.ac = cr.spec.ac
  BY <1>1 DEF TrackingInv, ReadyIsRecorded
<1>6. ASSUME NEW o \in Versions PROVE o.spec = cr.spec /\ o.gen = cr.gen /\ ~o.deleting
  <2>1. o.gen = cr.gen /\ o.spec = cr.spec
    BY <1>1, EditedVersions
  <2>2. o.deleting => Doomed
    BY DEF Versions, TrackingInv, PassReads, LifeCycleInv, DeletionSeen
  <2> QED
    BY <1>1, <2>1, <2>2 DEF Doomed
<1>7. VersionsClose'
  <2>1. Versions' = Versions
    BY <1>1 DEF Versions
  <2>2. n > 0
    BY <1>3
  <2>3. \A o \in Versions : o.gen # n
    BY <1>3, <1>6
  <2>4. cr.status.new => ~cr.status.ready
    BY <1>1 DEF TrackingInv, VersionsClose
  <2>5. \A o \in Versions : o.status.new => ~o.status.ready /\ ~cr.status.ready
    BY <1>1 DEF TrackingInv, VersionsClose
  <2> QED
    BY <1>1, <1>2, <1>4, <1>5, <1>6, <2>1, <2>2, <2>3, <2>4, <2>5 DEF VersionsClose
<1>8. PassReads'
  <2>1. ASSUME pc # "idle" PROVE cache.spec \in {before.spec, s}
    <3>1. before \in Versions
      BY <2>1 DEF TrackingInv, PassReads, Versions
    <3>2. cache.spec \in {before.spec, cr.spec}
      BY <1>1, <2>1 DEF TrackingInv, PassReads
    <3> QED
      BY <1>6, <3>1, <3>2
  <2>2. ~before.deleting
    BY <1>1 DEF TrackingInv, PassReads, Doomed
  <2> QED
    BY <1>1, <1>4, <2>1, <2>2 DEF TrackingInv, PassReads
<1>9. PassRecords'
  <2>1. ASSUME pc # "idle" PROVE before.spec # s
    <3>1. before \in Versions
      BY <2>1 DEF TrackingInv, PassReads, Versions
    <3> QED
      BY <1>2, <1>6, <3>1
  <2> QED
    BY <1>1, <1>4, <2>1 DEF TrackingInv, PassRecords
<1>10. ReadyIsRecorded'
  BY <1>1, <1>3, <1>4 DEF ReadyIsRecorded
<1>11. FinalizersNamed'
  BY <1>1, <1>4, <1>5 DEF TrackingInv, FinalizersNamed, LettingGo
<1> QED
  BY <1>7, <1>8, <1>9, <1>10, <1>11 DEF TrackingInv

\* A change of the annotation, or the mark of a deletion, keeps the spec.
LEMMA SpecKept ==
    ASSUME TypeOK, EditEndpoint \/ (DeleteGlanceAPI /\ cr.finalizer)
    PROVE  cr'.spec = cr.spec
<1>1. cr \in CRType
  BY DEF TypeOK
<1>2. CASE EditEndpoint
  <2>1. PICK e : cr' = [cr EXCEPT !.endpoint = e]
    BY <1>2 DEF EditEndpoint
  <2> QED
    BY <1>1, <2>1 DEF CRType
<1>3. CASE DeleteGlanceAPI /\ cr.finalizer
  <2> DEFINE n == cr.gen + 1
  <2>1. cr' = [cr EXCEPT !.deleting = TRUE, !.gen = n]
    BY <1>3 DEF DeleteGlanceAPI
  <2> HIDE DEF n
  <2> QED
    BY <1>1, <2>1 DEF CRType
<1> QED
  BY <1>2, <1>3

\* A change of the annotation, or a deletion.
LEMMA TrackingDeletion ==
    ASSUME TypeOK, LifeCycleInv, TrackingInv, EditEndpoint \/ DeleteGlanceAPI
    PROVE  TrackingInv'
<1>1. UNCHANGED <<cache, pc, before, inst, acFin>> /\ cr.exists /\ ~cr.deleting
  BY DEF EditEndpoint, DeleteGlanceAPI, UserMayEdit, UserMayAct, worker
<1>2. CASE DeleteGlanceAPI /\ ~cr.finalizer
  <2>1. cr' = NoCR
    BY <1>2 DEF DeleteGlanceAPI
  <2>2. acFin = {}
    BY <1>2 DEF TrackingInv, FinalizersNamed
  <2>3. ~NoCR.status.ready
    BY DEF NoCR, NoStatus
  <2>4. VersionsClose' /\ ReadyIsRecorded' /\ FinalizersNamed'
    BY <1>1, <2>1, <2>2, <2>3, NoCRFields DEF VersionsClose, ReadyIsRecorded, FinalizersNamed
  <2>5. PassReads' /\ PassRecords'
    BY <1>1, <2>1, <2>2, NoCRFields DEF TrackingInv, PassReads, PassRecords, Doomed
  <2> QED
    BY <2>4, <2>5 DEF TrackingInv
<1>3. CASE EditEndpoint \/ (DeleteGlanceAPI /\ cr.finalizer)
  <2>1. /\ cr'.exists /\ cr'.finalizer = cr.finalizer /\ cr'.status = cr.status
        /\ cr'.gen \in Nat /\ cr.gen <= cr'.gen
    BY <1>1, <1>3, EditedFields
  <2>2. cr'.spec = cr.spec
    BY <1>1, <1>3, SpecKept
  <2>3. \A o \in Versions : o.gen = cr'.gen => o.gen = cr.gen
    <3> SUFFICES ASSUME NEW o \in Versions, o.gen = cr'.gen PROVE o.gen = cr.gen
      OBVIOUS
    <3>1. CASE o = cache
      BY <1>1, <2>1, <3>1, TrackingTypes DEF LifeCycleInv, ObservedInOrder
    <3>2. CASE o = before
      <4>1. pc # "idle"
        BY <3>2, NoCRFields DEF TrackingInv, PassReads, Versions
      <4> QED
        BY <1>1, <2>1, <3>2, <4>1, TrackingTypes DEF LifeCycleInv, ObservedInOrder
    <3> QED
      BY <3>1, <3>2 DEF Versions
  <2>4. VersionsClose'
    <3>1. Versions' = Versions /\ cr'.gen > 0
      BY <1>1, <2>1, TrackingTypes DEF Versions, TrackingInv, VersionsClose
    <3> QED
      BY <1>1, <2>1, <2>2, <2>3, <3>1 DEF TrackingInv, VersionsClose
  <2>5. PassReads'
    BY <1>1, <2>1, <2>2 DEF TrackingInv, PassReads, Doomed
  <2>6. PassRecords' /\ FinalizersNamed'
    BY <1>1, <2>1, <2>2 DEF TrackingInv, PassRecords, FinalizersNamed, LettingGo
  <2>7. ReadyIsRecorded'
    <3>1. cr.status.gen = cr'.gen => cr.status.gen = cr.gen
      BY <1>1, <2>1, TrackingTypes DEF LifeCycleInv, ObservedInOrder
    <3> QED
      BY <2>1, <2>2, <3>1 DEF TrackingInv, ReadyIsRecorded
  <2> QED
    BY <2>4, <2>5, <2>6, <2>7 DEF TrackingInv
<1> QED
  BY <1>2, <1>3

\* What the patch of a pass records: the secret of the object's spec, if the pass
\* has worked for that spec and no other secret is left, or what was recorded.  A
\* pass that is one edit behind has nothing to record and does not make the object
\* Ready.
LEMMA PatchRecords ==
    ASSUME TypeOK, LifeCycleInv, TrackingInv, pc = "patch", cr.exists
    PROVE  /\ MergePatch.spec = cr.spec
           /\ \/ MergePatch.status.ac = cr.status.ac
              \/ MergePatch.status.ac = cr.spec.ac /\ acFin \subseteq {cr.spec.ac}
           /\ before.spec = cr.spec /\ MergePatch.status.ready
                  => MergePatch.status.ac = cr.spec.ac
           /\ before.spec # cr.spec =>
                  /\ MergePatch.status.ac = cr.status.ac
                  /\ MergePatch.status.ready => cr.status.ready
                  /\ MergePatch.status.ready \/ before.status.ready
           /\ MergePatch.status.ready => cr.status.ready \/ ~before.status.new
<1>1. /\ MergePatch.status.ac = Patched(inst.status.ac, before.status.ac, cr.status.ac)
      /\ MergePatch.status.ready = IF ConditionsChanged THEN inst.status.ready
                                   ELSE cr.status.ready
      /\ MergePatch.spec = cr.spec
  BY DEF TypeOK, CRType, StatusType, MergePatch
<1>2. before \in Versions /\ inst.spec = before.spec
  BY DEF TrackingInv, PassReads, Versions
<1>3. /\ inst.status.ac # before.status.ac =>
             /\ inst.status.ac = inst.spec.ac
             /\ before.spec = cr.spec => acFin \subseteq {inst.spec.ac}
      /\ inst.status.ready => inst.status.ac = inst.spec.ac /\ ~before.status.new
      /\ ~inst.status.new
  BY DEF TrackingInv, PassRecords, LifeCycleInv, PassCopy
<1>4. /\ before.status.new => ~before.status.ready /\ ~cr.status.ready
      /\ before.spec # cr.spec => /\ cr.status.ac = before.spec.ac
                                  /\ before.status.ready \/ cr.status.ready
      /\ before.spec = cr.spec =>
           /\ cr.status.ac \in {before.status.ac, cr.spec.ac}
           /\ cr.status.ready /\ ~before.status.ready => cr.status.ac = cr.spec.ac
  BY <1>2 DEF TrackingInv, VersionsClose
<1>5. CASE before.spec = cr.spec
  <2>1. \/ MergePatch.status.ac = cr.status.ac
        \/ MergePatch.status.ac = cr.spec.ac /\ acFin \subseteq {cr.spec.ac}
    BY <1>1, <1>2, <1>3, <1>5 DEF Patched
  <2>2. inst.status.ready => MergePatch.status.ac = cr.spec.ac
    BY <1>1, <1>2, <1>3, <1>4, <1>5 DEF Patched
  <2>3. MergePatch.status.ready => MergePatch.status.ac = cr.spec.ac
    BY <1>1, <1>2, <1>3, <1>4, <1>5, <2>1, <2>2, TrackingTypes DEF ConditionsChanged
  <2> QED
    BY <1>1, <1>3, <1>5, <2>1, <2>3
<1>6. CASE before.spec # cr.spec
  <2>1. MergePatch.status.ac = cr.status.ac
    BY <1>1, <1>2, <1>3, <1>4, <1>6 DEF Patched
  <2>2. /\ MergePatch.status.ready => cr.status.ready
        /\ MergePatch.status.ready \/ before.status.ready
    BY <1>1, <1>3, <1>4, <1>6, TrackingTypes DEF ConditionsChanged
  <2> QED
    BY <1>1, <1>3, <1>6, <2>1, <2>2
<1> QED
  BY <1>5, <1>6

\* A pass ends without an effect on the object.
LEMMA TrackingLost ==
    ASSUME TypeOK, TrackingInv, UNCHANGED <<cr, cache, acFin>>, Idle
    PROVE  TrackingInv'
<1>1. pc' = "idle" /\ before' = NoCR
  BY DEF Idle
<1>2. VersionsClose'
  <2>1. Versions' \subseteq Versions
    BY <1>1, NoCRFields DEF Versions
  <2> QED
    BY <2>1 DEF TrackingInv, VersionsClose
<1>3. PassReads' /\ PassRecords'
  BY <1>1, NoCRFields DEF PassReads, PassRecords, NormalSteps, DeleteSteps
<1>4. ReadyIsRecorded' /\ FinalizersNamed'
  BY <1>1 DEF TrackingInv, ReadyIsRecorded, FinalizersNamed, LettingGo
<1> QED
  BY <1>2, <1>3, <1>4 DEF TrackingInv

\* The deferred patch.
LEMMA TrackingPatch ==
    ASSUME TypeOK, LifeCycleInv, TrackingInv, PatchInstance PROVE TrackingInv'
<1>1. /\ UNCHANGED <<cache, acFin>> /\ Idle /\ pc = "patch"
      /\ pc' = "idle" /\ before' = NoCR
  BY DEF PatchInstance, Idle
<1>2. CASE ~cr.exists
  BY <1>1, <1>2, TrackingLost DEF PatchInstance
<1>3. CASE cr.exists /\ cr' = NoCR /\ ~MergePatch.finalizer
  <2>1. acFin = {}
    BY <1>1, <1>3, PatchReports DEF TrackingInv, FinalizersNamed, LettingGo
  <2>2. ~NoCR.status.ready
    BY DEF NoCR, NoStatus
  <2>3. VersionsClose' /\ ReadyIsRecorded' /\ FinalizersNamed'
    BY <1>1, <1>3, <2>1, <2>2, NoCRFields DEF VersionsClose, ReadyIsRecorded,
       FinalizersNamed
  <2>4. PassReads' /\ PassRecords'
    BY <1>1, NoCRFields DEF PassReads, PassRecords, NormalSteps, DeleteSteps
  <2> QED
    BY <2>3, <2>4 DEF TrackingInv
<1>4. CASE cr.exists /\ cr' = MergePatch
  <2>1. /\ cr'.exists /\ cr'.gen = cr.gen /\ ~cr'.status.new
        /\ inst.finalizer => cr'.finalizer
        /\ cr'.status.gen \in cr.status.gen .. before.gen
    BY <1>1, <1>4, PatchReports
  <2>2. /\ cr'.spec = cr.spec
        /\ \/ cr'.status.ac = cr.status.ac
           \/ cr'.status.ac = cr.spec.ac /\ acFin \subseteq {cr.spec.ac}
        /\ before.spec = cr.spec /\ cr'.status.ready => cr'.status.ac = cr.spec.ac
        /\ before.spec # cr.spec => /\ cr'.status.ac = cr.status.ac
                                    /\ cr'.status.ready => cr.status.ready
                                    /\ cr'.status.ready \/ before.status.ready
        /\ cr'.status.ready => cr.status.ready \/ ~before.status.new
    BY <1>1, <1>4, PatchRecords
  <2>3. before \in Versions
    BY <1>1 DEF TrackingInv, PassReads, Versions
  <2>4. VersionsClose'
    <3> SUFFICES ASSUME cache.exists
                 PROVE  /\ cache.gen = cr.gen \/ cache.deleting => cache.spec = cr.spec
                        /\ cache.status.new => ~cache.status.ready /\ ~cr'.status.ready
                        /\ cache.spec # cr.spec =>
                             /\ cr'.status.ac = cache.spec.ac
                             /\ cache.status.ready \/ cr'.status.ready
                        /\ cache.spec = cr.spec =>
                             /\ cr'.status.ac \in {cache.status.ac, cr.spec.ac}
                             /\ cr'.status.ready /\ ~cache.status.ready
                                    => cr'.status.ac = cr.spec.ac
      <4>1. cr'.gen > 0
        BY <1>4, <2>1 DEF TrackingInv, VersionsClose
      <4>2. \A o \in Versions' : o = cache /\ cache.exists
        BY <1>1, NoCRFields DEF Versions
      <4> QED
        BY <1>1, <2>1, <2>2, <4>1, <4>2 DEF VersionsClose
    <3>1. /\ cache.gen = cr.gen \/ cache.deleting => cache.spec = cr.spec
          /\ cache.status.new => ~cache.status.ready /\ ~cr.status.ready
          /\ cache.spec # cr.spec => /\ cr.status.ac = cache.spec.ac
                                     /\ cache.status.ready \/ cr.status.ready
          /\ cache.spec = cr.spec =>
               /\ cr.status.ac \in {cache.status.ac, cr.spec.ac}
               /\ cr.status.ready /\ ~cache.status.ready => cr.status.ac = cr.spec.ac
      BY <1>4 DEF TrackingInv, VersionsClose, Versions
    <3>2. /\ cache = before \/ cache.status = cr.status
          /\ cache.spec \in {before.spec, cr.spec}
      BY <1>1, <1>4 DEF TrackingInv, PassReads
    <3>3. ~before.status.new => ~cr.status.new
      BY <1>4, TrackingTypes DEF LifeCycleInv, FinalizerWithStatus, HoldKept
    <3>4. cache.status.new => ~cr'.status.ready
      BY <2>2, <3>1, <3>2, <3>3
    <3>5. cache.spec # cr.spec => /\ cr'.status.ac = cache.spec.ac
                                  /\ cache.status.ready \/ cr'.status.ready
      BY <2>2, <3>1, <3>2
    <3>6. cache.spec = cr.spec =>
            /\ cr'.status.ac \in {cache.status.ac, cr.spec.ac}
            /\ cr'.status.ready /\ ~cache.status.ready => cr'.status.ac = cr.spec.ac
      BY <2>2, <3>1
    <3> QED
      BY <3>1, <3>4, <3>5, <3>6
  <2>5. PassReads' /\ PassRecords'
    BY <1>1, NoCRFields DEF PassReads, PassRecords, NormalSteps, DeleteSteps
  <2>6. ReadyIsRecorded'
    <3>1. before.spec # cr.spec => before.gen # cr.gen
      BY <1>4, <2>3 DEF TrackingInv, VersionsClose
    <3>2. before.gen <= cr.gen
      BY <1>1, <1>4, TrackingTypes DEF LifeCycleInv, ObservedInOrder
    <3>3. cr'.status.gen = cr.gen => before.spec = cr.spec
      BY <2>1, <3>1, <3>2, TrackingTypes
    <3> QED
      BY <2>1, <2>2, <3>3 DEF ReadyIsRecorded
  <2>7. FinalizersNamed'
    BY <1>1, <1>4, <2>1, <2>2 DEF TrackingInv, FinalizersNamed, LettingGo
  <2> QED
    BY <2>4, <2>5, <2>6, <2>7 DEF TrackingInv
<1> QED
  BY <1>2, <1>3, <1>4 DEF PatchInstance

\* The steps of a pass keep what it has recorded until its end.
LEMMA RecordsKept ==
    ASSUME TypeOK, BackendHash \/ EnsureServiceTopology \/ GlanceAPIRefreshFails
                       \/ EnsureDeletedTopologyRef
    PROVE  /\ inst'.spec = inst.spec
           /\ inst'.status.ac = inst.status.ac /\ inst'.status.ready = inst.status.ready
<1>1. inst \in CRType
  BY DEF TypeOK
<1>2. CASE BackendHash \/ GlanceAPIRefreshFails
  <2>1. inst' = [inst EXCEPT !.status.storage = createHashOfBackendConfig(inst)]
    BY <1>2 DEF BackendHash, GlanceAPIRefreshFails
  <2> QED
    BY <1>1, <2>1 DEF CRType, StatusType
<1>3. CASE EnsureServiceTopology
  <2>1. UNCHANGED inst \/ inst' = [inst EXCEPT !.status.topology = inst.spec.topology]
    BY <1>3 DEF EnsureServiceTopology
  <2> QED
    BY <1>1, <2>1 DEF CRType, StatusType
<1>4. CASE EnsureDeletedTopologyRef
  <2>1. inst' = [inst EXCEPT !.finalizer = FALSE]
    BY <1>4 DEF EnsureDeletedTopologyRef
  <2> QED
    BY <1>1, <2>1 DEF CRType, StatusType
<1> QED
  BY <1>2, <1>3, <1>4

\* Every step keeps TrackingInv, if the user waits for Ready.
LEMMA TrackingStep ==
    ASSUME PatientUser, TypeOK, LifeCycleInv, TrackingInv, [Next]_vars PROVE TrackingInv'
<1> USE DEF server, worker, env, Proceed, Return
<1>0. pc \in NormalSteps \cup DeleteSteps => inst.finalizer
  BY DEF LifeCycleInv, PassCopy, NormalSteps, DeleteSteps
<1>1. CASE UNCHANGED vars \/ ReconcileNotFound
  BY <1>1, TrackingElsewhere DEF vars, ReconcileNotFound, LettingGo
<1>2. CASE Reconcile
  BY <1>2, TrackingReconcile
<1>3. CASE VerifyInputs \/ VerifyBackends \/ ReconcileInit \/ GenerateServiceConfig
           \/ CreateOrPatchStatefulSet \/ ReconcileJobs
  BY <1>0, <1>3, TrackingElsewhere DEF VerifyInputs, VerifyBackends, ReconcileInit,
     GenerateServiceConfig, CreateOrPatchStatefulSet, ReconcileJobs, NormalSteps, DeleteSteps,
     LettingGo
<1>4. CASE BackendHash \/ EnsureServiceTopology \/ GlanceAPIRefreshFails
  <2>1. /\ UNCHANGED <<cr, cache, before, acFin>>
        /\ pc \in NormalSteps /\ pc' \in NormalSteps \cup {"patch"}
    BY <1>4 DEF BackendHash, EnsureServiceTopology, GlanceAPIRefreshFails, NormalSteps
  <2>2. inst'.finalizer
    BY <1>0, <1>4, <2>1, CopyKept
  <2>3. /\ inst'.spec = inst.spec
        /\ inst'.status.ac = inst.status.ac /\ inst'.status.ready = inst.status.ready
    BY <1>4, RecordsKept
  <2> QED
    BY <2>1, <2>2, <2>3, TrackingElsewhere DEF NormalSteps, DeleteSteps, LettingGo
<1>5. CASE EnsureDeletedEndpoints
  BY <1>0, <1>5, TrackingElsewhere DEF EnsureDeletedEndpoints, NormalSteps, DeleteSteps,
     LettingGo
<1>6. CASE EnsureDeletedTopologyRef
  <2>1. /\ UNCHANGED <<cr, cache, before, acFin>> /\ pc = "deleteTopology" /\ pc' = "patch"
    BY <1>6 DEF EnsureDeletedTopologyRef
  <2>2. /\ inst'.spec = inst.spec
        /\ inst'.status.ac = inst.status.ac /\ inst'.status.ready = inst.status.ready
    BY <1>6, RecordsKept
  <2> QED
    BY <2>1, <2>2, TrackingElsewhere DEF NormalSteps, DeleteSteps
<1>7. CASE AddACFinalizer
  BY <1>7, TrackingAdd
<1>8. CASE ReleaseACSecret
  BY <1>8, TrackingRelease
<1>9. CASE RemoveACFinalizers
  BY <1>9, TrackingRemove
<1>10. CASE PatchInstance
  BY <1>10, TrackingPatch
<1>11. CASE PassLost
  BY <1>11, TrackingLost DEF PassLost
<1>12. CASE CacheSync \/ Crash
  BY <1>12, TrackingSync DEF CacheSync, Crash
<1>13. CASE CallFails
  <2>1. /\ UNCHANGED <<cr, cache, before, inst, acFin>>
        /\ pc \in NormalSteps \cup DeleteSteps /\ pc' = "patch"
    BY <1>13 DEF CallFails, FaultySteps, Steps, NormalSteps, DeleteSteps
  <2> QED
    BY <1>0, <2>1, TrackingElsewhere DEF NormalSteps, DeleteSteps, LettingGo
<1>14. CASE EditSpec
  BY <1>14, TrackingEdit
<1>15. CASE EditEndpoint \/ DeleteGlanceAPI
  BY <1>15, TrackingDeletion
<1>16. CASE EndpointRegistered \/ EndpointRemoved \/ StsReportsStatus
  BY <1>16, TrackingElsewhere DEF EndpointRegistered, EndpointRemoved, StsReportsStatus,
     LettingGo
<1>17. ASSUME NEW i \in Pods,
              PodStarts(i) \/ PodBecomesReady(i) \/ PodRolls(i) \/ PodCollected(i)
       PROVE  TrackingInv'
  BY <1>17, TrackingElsewhere DEF PodStarts, PodBecomesReady, PodRolls, PodCollected,
     LettingGo
<1>18. ASSUME NEW i \in InputNames, InputAppears(i) \/ InputLost(i) PROVE TrackingInv'
  BY <1>18, TrackingElsewhere DEF InputAppears, InputLost, LettingGo
<1>19. ASSUME NEW c \in Creds, ACSecretCreated(c) \/ ACSecretRevoked(c) PROVE TrackingInv'
  BY <1>19, TrackingElsewhere DEF ACSecretCreated, ACSecretRevoked, LettingGo
<1> QED
  BY <1>1, <1>2, <1>3, <1>4, <1>5, <1>6, <1>7, <1>8, <1>9, <1>10, <1>11, <1>12, <1>13,
     <1>14, <1>15, <1>16, <1>17, <1>18, <1>19
     DEF Next, Worker, Cluster, Inputs, Failure, User

\* TrackingInv is an invariant of the controller when the user waits for Ready
\* before an edit: over rotations, crashes, lost patches and stale reads, the object
\* names every secret that carries the consumer finalizer.  (Without the wait two
\* edits may overtake a pass, and the secret between them is forgotten.)
THEOREM TrackingInvariant ==
    ASSUME PatientUser
    PROVE  Spec => []TrackingInv
<1>1. Init => TrackingInv
  <2> SUFFICES ASSUME Init PROVE TrackingInv
    OBVIOUS
  <2>1. PICK s \in SpecType, e \in Endpoints : cr = NewCR(s, e)
    BY DEF Init
  <2>2. /\ cr.exists /\ cr.gen = 1 /\ ~cr.status.ready
        /\ cache = NoCR /\ before = NoCR /\ pc = "idle" /\ acFin = {}
    BY <2>1 DEF Init, NewCR, NoStatus
  <2>3. VersionsClose
    BY <2>2, NoCRFields DEF VersionsClose, Versions
  <2>4. PassReads /\ PassRecords /\ ReadyIsRecorded /\ FinalizersNamed
    BY <2>2, NoCRFields DEF PassReads, PassRecords, ReadyIsRecorded, FinalizersNamed,
       NormalSteps, DeleteSteps
  <2> QED
    BY <2>3, <2>4 DEF TrackingInv
<1>2. TypeOK /\ LifeCycleInv /\ TrackingInv /\ [Next]_vars => TrackingInv'
  BY TrackingStep
<1> QED
  BY <1>1, <1>2, TypeCorrect, LifeCycleInvariant, PTL DEF Spec

\* A later rotation or reconcileDelete finds every consumer finalizer by the names
\* in the status and in the spec.
THEOREM FinalizersStayTracked ==
    ASSUME PatientUser
    PROVE  Spec => []FinalizersTracked
<1>1. TrackingInv => FinalizersTracked
  BY DEF TrackingInv, FinalizersNamed, FinalizersTracked
<1> QED
  BY <1>1, TrackingInvariant, PTL

\* A GlanceAPI that is gone has left its consumer finalizer on no secret, although a
\* crash may have come between adding one and recording it, at any rotation.
THEOREM SecretsReleased ==
    ASSUME PatientUser
    PROVE  Spec => []DeletionReleasesSecrets
<1>1. TrackingInv => DeletionReleasesSecrets
  BY DEF TrackingInv, FinalizersNamed, DeletionReleasesSecrets
<1> QED
  BY <1>1, TrackingInvariant, PTL

-----------------------------------------------------------------------------
(* The finalizer of the Topology in use.                                   *)

\* Topology t carries the finalizer, as far as it matters.
Holds(t) == Doomed \/ t \in topoFin \cup {None}

\* The object has recorded the Topology of its spec and holds it.
TopologySet == cr.status.topology = cr.spec.topology /\ Holds(cr.spec.topology)

\* The steps that follow EnsureServiceTopology.
AfterTopology == {"statefulset", "jobs", "acRelease"}

\* What the versions, the pass in progress and the object itself say of the
\* Topology, as TrackingInv does of the credential.  A pass records the Topology as
\* soon as it holds it, and a pass that fails later saves the record.
TopologyVersions ==
    cr.exists => \A o \in Versions :
        /\ o.spec # cr.spec => cr.status.topology = o.spec.topology
        /\ o.spec = cr.spec =>
             /\ cr.status.topology \in {o.status.topology, cr.spec.topology}
             /\ cr.status.ready /\ ~o.status.ready => TopologySet

TopologyPass ==
    pc # "idle" =>
        /\ inst.status.topology # before.status.topology =>
             /\ pc \in AfterTopology \cup {"patch"}
             /\ inst.status.topology = inst.spec.topology
             /\ cr.exists /\ before.spec = cr.spec => topoFin \subseteq {inst.spec.topology}
        /\ pc \in AfterTopology \/ inst.status.ready =>
             inst.status.topology = inst.spec.topology /\ Holds(inst.spec.topology)

TopologyNamed ==
    /\ cr.exists => topoFin \subseteq {cr.spec.topology, cr.status.topology}
    /\ cr.exists /\ cr.status.ready /\ cr.status.gen = cr.gen => TopologySet

TopologyInv == TopologyVersions /\ TopologyPass /\ TopologyNamed

\* Steps that leave alone the object, the versions and the finalizers, and what the
\* pass has recorded.
LEMMA TopologyElsewhere ==
    ASSUME TypeOK, TopologyInv, UNCHANGED <<cr, cache, before, topoFin>>,
           inst'.spec = inst.spec, inst'.status.topology = inst.status.topology,
           pc' = "idle" <=> pc = "idle",
           pc \in AfterTopology \cup {"patch"} => pc' \in AfterTopology \cup {"patch"},
           pc' \in AfterTopology \/ inst'.status.ready => pc \in AfterTopology \/ inst.status.ready
    PROVE  TopologyInv'
<1>1. TopologyVersions' /\ TopologyNamed'
  BY DEF TopologyInv, TopologyVersions, TopologyNamed, TopologySet, Holds, Doomed, Versions
<1>2. TopologyPass'
  BY DEF TopologyInv, TopologyPass, Holds, Doomed
<1> QED
  BY <1>1, <1>2 DEF TopologyInv

\* A pass starts.
LEMMA TopologyReconcile == ASSUME TypeOK, TopologyInv, Reconcile PROVE TopologyInv'
<1>1. /\ UNCHANGED <<cr, cache, topoFin>> /\ before' = cache /\ cache.exists
      /\ pc' \notin AfterTopology
  BY DEF Reconcile, server, AfterTopology
<1>2. inst'.status.topology = cache.status.topology /\ inst'.status.ready = FALSE
  <2> DEFINE f == cache.finalizer \/ (~cache.deleting /\ ~cache.finalizer)
  <2>1. inst' = [cache EXCEPT !.finalizer = f, !.status.new = FALSE,
                              !.status.ready = FALSE, !.status.gen = cache.gen]
    BY DEF Reconcile
  <2>2. cache \in CRType
    BY DEF TypeOK
  <2> HIDE DEF f
  <2> QED
    BY <2>1, <2>2 DEF CRType, StatusType
<1>3. TopologyVersions' /\ TopologyNamed'
  BY <1>1 DEF TopologyInv, TopologyVersions, TopologyNamed, TopologySet, Holds, Doomed, Versions
<1>4. TopologyPass'
  BY <1>1, <1>2 DEF TopologyPass
<1> QED
  BY <1>3, <1>4 DEF TopologyInv

\* EnsureServiceTopology.  A pass for the current spec gives up the Topology that
\* was recorded, if it is another one, and no other is left; a pass that is one
\* edit behind takes the one that the object has recorded.
LEMMA TopologyEnsure ==
    ASSUME TypeOK, LifeCycleInv, TrackingInv, TopologyInv, EnsureServiceTopology
    PROVE  TopologyInv'
<1> DEFINE ref  == inst.spec.topology
           last == inst.status.topology
           kept == IF last # ref THEN topoFin \ {last} ELSE topoFin
           done == IF ref = None THEN kept ELSE kept \cup {ref}
<1>1. /\ UNCHANGED <<cr, cache, before>> /\ pc = "topology"
      /\ \/ pc' = "patch" /\ topoFin' = kept /\ UNCHANGED inst /\ ref # None
         \/ /\ pc' = "statefulset" /\ topoFin' = done
            /\ inst' = [inst EXCEPT !.status.topology = ref]
  BY DEF EnsureServiceTopology, Proceed, Return
<1>2. /\ cr.exists /\ before \in Versions /\ inst.spec = before.spec
      /\ ~inst.status.ready /\ last = before.status.topology
  BY <1>1 DEF LifeCycleInv, HoldKept, NormalSteps, TrackingInv, PassReads, PassRecords,
     Versions, TopologyInv, TopologyPass, AfterTopology
<1>3. /\ inst'.spec = inst.spec /\ inst'.status.ready = inst.status.ready
      /\ inst'.status.topology = last \/ inst'.status.topology = ref
      /\ pc' = "statefulset" => inst'.status.topology = ref
      /\ pc' = "patch" => inst'.status.topology = last
  <2>1. inst \in CRType
    BY DEF TypeOK
  <2> HIDE DEF ref
  <2> QED
    BY <1>1, <2>1 DEF CRType, StatusType
<1>4. topoFin' \subseteq topoFin \cup {ref} /\ (ref \in topoFin => ref \in topoFin')
  BY <1>1
<1>5. CASE before.spec = cr.spec
  <2>1. topoFin \subseteq {ref, last}
    <3>1. cr.status.topology \in {before.status.topology, cr.spec.topology}
      BY <1>2, <1>5 DEF TopologyInv, TopologyVersions
    <3> QED
      BY <1>2, <1>5, <3>1 DEF TopologyInv, TopologyNamed
  <2>2. last # ref => topoFin' \subseteq {ref}
    BY <1>1, <2>1
  <2>3. TopologySet => TopologySet'
    BY <1>1, <1>2, <1>4, <1>5 DEF TopologySet, Holds, Doomed
  <2>4. TopologyVersions'
    BY <1>1, <2>3 DEF TopologyInv, TopologyVersions, Versions
  <2>5. TopologyNamed'
    BY <1>1, <1>2, <1>4, <1>5, <2>3 DEF TopologyInv, TopologyNamed
  <2>6. ref \in topoFin' \cup {None} \/ pc' = "patch"
    BY <1>1
  <2>7. TopologyPass'
    BY <1>1, <1>2, <1>3, <1>5, <2>2, <2>6 DEF TopologyPass, AfterTopology, Holds
  <2> QED
    BY <2>4, <2>5, <2>7 DEF TopologyInv
<1>6. CASE before.spec # cr.spec
  <2>1. ref = cr.status.topology
    BY <1>2, <1>6 DEF TopologyInv, TopologyVersions
  <2>2. cr.status.gen # cr.gen
    <3>1. before.gen # cr.gen
      BY <1>2, <1>6 DEF TrackingInv, VersionsClose
    <3>2. cr.status.gen <= before.gen /\ before.gen <= cache.gen /\ cache.gen <= cr.gen
      BY <1>1, <1>2 DEF LifeCycleInv, ObservedInOrder
    <3> QED
      BY <3>1, <3>2, TrackingTypes
  <2>3. TopologyNamed'
    BY <1>1, <1>2, <1>4, <2>1, <2>2 DEF TopologyInv, TopologyNamed
  <2>4. TopologyVersions'
    <3>1. cache.spec = cr.spec => cache.status = cr.status
      BY <1>1, <1>2, <1>6 DEF TrackingInv, PassReads
    <3> QED
      BY <1>1, <1>6, <3>1 DEF TopologyInv, TopologyVersions, Versions
  <2>5. ref \in topoFin' \cup {None} \/ pc' = "patch"
    BY <1>1
  <2>6. TopologyPass'
    BY <1>1, <1>2, <1>3, <1>6, <2>5 DEF TopologyPass, AfterTopology, Holds
  <2> QED
    BY <2>3, <2>4, <2>6 DEF TopologyInv
<1> QED
  BY <1>5, <1>6

\* The end of reconcileDelete, for an object that is being deleted.
LEMMA TopologyRemove ==
    ASSUME TypeOK, LifeCycleInv, TopologyInv, EnsureDeletedTopologyRef PROVE TopologyInv'
<1>1. /\ UNCHANGED <<cr, cache, before>> /\ pc = "deleteTopology" /\ pc' = "patch"
      /\ topoFin' = topoFin \ {inst.status.topology}
      /\ inst' = [inst EXCEPT !.finalizer = FALSE]
  BY DEF EnsureDeletedTopologyRef, Return
<1>2. /\ inst'.spec = inst.spec /\ inst'.status = inst.status
  BY <1>1 DEF TypeOK, CRType
<1>3. Doomed /\ Doomed'
  BY <1>1 DEF LifeCycleInv, DeletionSeen, Doomed
<1>4. TopologyVersions' /\ TopologyNamed'
  BY <1>1, <1>3 DEF TopologyInv, TopologyVersions, TopologyNamed, TopologySet, Holds, Versions
<1>5. TopologyPass'
  BY <1>1, <1>2, <1>3 DEF TopologyInv, TopologyPass, Holds, AfterTopology
<1> QED
  BY <1>4, <1>5 DEF TopologyInv

\* The cache is brought up to date, or a pass ends without an effect on the object.
LEMMA TopologySync ==
    ASSUME TypeOK, TopologyInv, cache' = cr \/ UNCHANGED cache, UNCHANGED <<cr, topoFin>>,
           UNCHANGED <<pc, before, inst>> \/ Idle
    PROVE  TopologyInv'
<1>1. \A o \in Versions' : o = cr \/ o \in Versions
  BY NoCRFields DEF Versions, Idle
<1>2. (TopologySet => TopologySet') /\ (Doomed => Doomed')
  BY DEF TopologySet, Holds, Doomed
<1>3. TopologyVersions'
  BY <1>1, <1>2 DEF TopologyInv, TopologyVersions
<1>4. TopologyNamed'
  BY <1>2 DEF TopologyInv, TopologyNamed
<1>5. TopologyPass'
  BY DEF TopologyInv, TopologyPass, Holds, Doomed, Idle
<1> QED
  BY <1>3, <1>4, <1>5 DEF TopologyInv

\* An edit by a user who has waited for Ready.
LEMMA TopologyEdit ==
    ASSUME TypeOK, LifeCycleInv, TrackingInv, TopologyInv, PatientUser, EditSpec
    PROVE  TopologyInv'
<1> DEFINE n == cr.gen + 1
<1>1. /\ UNCHANGED <<cache, pc, before, inst, topoFin>>
      /\ cr.exists /\ cr.status.ready /\ cr.status.gen = cr.gen
  BY DEF EditSpec, UserMayEdit, UserMayAct, worker
<1>2. PICK s \in SpecType : s # cr.spec /\ cr' = [cr EXCEPT !.spec = s, !.gen = n]
  BY DEF EditSpec
<1>3. n \in Nat /\ n > cr.gen /\ cr.gen \in Nat
  BY TrackingTypes
<1> HIDE DEF n
<1>4. /\ cr'.exists = cr.exists /\ cr'.deleting = cr.deleting
      /\ cr'.status = cr.status /\ cr'.spec = s /\ cr'.gen = n
  BY <1>2, <1>3 DEF TypeOK, CRType
<1>5. cr.status.topology = cr.spec.topology
  BY <1>1 DEF TopologyInv, TopologyNamed, TopologySet
<1>6. \A o \in Versions : o.spec = cr.spec
  BY <1>1, EditedVersions
<1>7. TopologyVersions'
  <2>1. Versions' = Versions
    BY <1>1 DEF Versions
  <2> QED
    BY <1>2, <1>4, <1>5, <1>6, <2>1 DEF TopologyVersions
<1>8. TopologyNamed'
  <2>1. cr'.status.gen # cr'.gen
    BY <1>1, <1>3, <1>4
  <2> QED
    BY <1>1, <1>4, <1>5, <2>1 DEF TopologyInv, TopologyNamed
<1>9. TopologyPass'
  <2>1. pc # "idle" => before.spec # s
    BY <1>2, <1>6 DEF TrackingInv, PassReads, Versions
  <2>2. \A t : Holds(t) => Holds(t)'
    BY <1>1, <1>4 DEF Holds, Doomed
  <2> QED
    BY <1>1, <1>4, <2>1, <2>2 DEF TopologyInv, TopologyPass, Holds
<1> QED
  BY <1>7, <1>8, <1>9 DEF TopologyInv

\* A change of the annotation, or a deletion.
LEMMA TopologyDeletion ==
    ASSUME TypeOK, LifeCycleInv, TrackingInv, TopologyInv, EditEndpoint \/ DeleteGlanceAPI
    PROVE  TopologyInv'
<1>1. UNCHANGED <<cache, pc, before, inst, topoFin>> /\ cr.exists /\ ~cr.deleting
  BY DEF EditEndpoint, DeleteGlanceAPI, UserMayEdit, UserMayAct, worker
<1>2. CASE DeleteGlanceAPI /\ ~cr.finalizer
  <2>1. cr' = NoCR
    BY <1>2 DEF DeleteGlanceAPI
  <2>2. TopologyVersions' /\ TopologyNamed'
    BY <2>1, NoCRFields DEF TopologyVersions, TopologyNamed
  <2>3. TopologyPass'
    BY <1>1, <2>1, NoCRFields DEF TopologyInv, TopologyPass, Holds, Doomed
  <2> QED
    BY <2>2, <2>3 DEF TopologyInv
<1>3. CASE EditEndpoint \/ (DeleteGlanceAPI /\ cr.finalizer)
  <2>1. /\ cr'.exists /\ cr'.status = cr.status
        /\ cr'.gen \in Nat /\ cr.gen <= cr'.gen
    BY <1>1, <1>3, EditedFields
  <2>2. cr'.spec = cr.spec
    BY <1>1, <1>3, SpecKept
  <2>3. TopologySet => TopologySet'
    BY <1>1, <2>1, <2>2 DEF TopologySet, Holds, Doomed
  <2>4. TopologyVersions'
    BY <1>1, <2>1, <2>2, <2>3 DEF TopologyInv, TopologyVersions, Versions
  <2>5. TopologyNamed'
    <3>1. cr.status.gen = cr'.gen => cr.status.gen = cr.gen
      BY <1>1, <2>1, TrackingTypes DEF LifeCycleInv, ObservedInOrder
    <3> QED
      BY <1>1, <2>1, <2>2, <2>3, <3>1 DEF TopologyInv, TopologyNamed
  <2>6. TopologyPass'
    BY <1>1, <2>1, <2>2 DEF TopologyInv, TopologyPass, Holds, Doomed
  <2> QED
    BY <2>4, <2>5, <2>6 DEF TopologyInv
<1> QED
  BY <1>2, <1>3

\* The deferred patch.
LEMMA TopologyPatch ==
    ASSUME TypeOK, LifeCycleInv, TrackingInv, TopologyInv, PatchInstance PROVE TopologyInv'
<1>1. /\ UNCHANGED <<cache, topoFin>> /\ Idle /\ pc = "patch" /\ pc' = "idle" /\ before' = NoCR
  BY DEF PatchInstance, Idle
<1>2. CASE ~cr.exists
  BY <1>1, <1>2, TopologySync DEF PatchInstance
<1>3. CASE cr' = NoCR
  <2>1. TopologyVersions' /\ TopologyNamed' /\ TopologyPass'
    BY <1>1, <1>3, NoCRFields DEF TopologyVersions, TopologyNamed, TopologyPass
  <2> QED
    BY <2>1 DEF TopologyInv
<1>4. CASE cr.exists /\ cr' = MergePatch
  <2>1. /\ cr'.exists = cr.exists /\ cr'.deleting = cr.deleting
        /\ cr'.gen = cr.gen /\ cr'.spec = cr.spec
        /\ cr'.status.gen \in cr.status.gen .. before.gen
        /\ cr'.status.ready = IF ConditionsChanged THEN inst.status.ready ELSE cr.status.ready
        /\ cr'.status.topology = Patched(inst.status.topology, before.status.topology,
                                         cr.status.topology)
    <3>1. cr'.gen = cr.gen /\ cr'.status.gen \in cr.status.gen .. before.gen
      BY <1>1, <1>4, PatchReports
    <3> QED
      BY <1>4, <3>1 DEF TypeOK, CRType, StatusType, MergePatch
  <2>2. before \in Versions /\ inst.spec = before.spec
    BY <1>1 DEF TrackingInv, PassReads, Versions
  <2>3. /\ before.spec # cr.spec => cr.status.topology = before.spec.topology
        /\ before.spec = cr.spec =>
             /\ cr.status.topology \in {before.status.topology, cr.spec.topology}
             /\ cr.status.ready /\ ~before.status.ready => TopologySet
    BY <1>4, <2>2 DEF TopologyInv, TopologyVersions
  <2>4. /\ inst.status.topology # before.status.topology =>
             /\ inst.status.topology = inst.spec.topology
             /\ before.spec = cr.spec => topoFin \subseteq {inst.spec.topology}
        /\ inst.status.ready =>
             inst.status.topology = inst.spec.topology /\ Holds(inst.spec.topology)
    BY <1>1, <1>4 DEF TopologyInv, TopologyPass
  <2>5. \/ cr'.status.topology = cr.status.topology
        \/ cr'.status.topology = cr.spec.topology /\ topoFin \subseteq {cr.spec.topology}
    BY <2>1, <2>2, <2>3, <2>4 DEF Patched
  <2>6. /\ Holds(cr.spec.topology) => Holds(cr.spec.topology)'
        /\ TopologySet => TopologySet'
    BY <1>1, <2>1, <2>5 DEF Holds, Doomed, TopologySet
  <2>7. before.spec = cr.spec /\ cr'.status.ready => TopologySet'
    <3>1. before.spec = cr.spec /\ inst.status.ready => TopologySet'
      <4>1. before.spec = cr.spec /\ inst.status.ready =>
              cr'.status.topology = cr.spec.topology /\ Holds(cr.spec.topology)
        BY <2>1, <2>2, <2>3, <2>4 DEF Patched
      <4> QED
        BY <2>1, <2>6, <4>1 DEF TopologySet
    <3>2. ConditionsChanged \/ inst.status.ready = before.status.ready
      BY DEF ConditionsChanged
    <3> QED
      BY <2>1, <2>3, <2>6, <3>1, <3>2, TrackingTypes
  <2>8. before.spec # cr.spec => /\ cr'.status.topology = cr.status.topology
                                 /\ cr'.status.ready => cr.status.ready
    BY <1>1, <1>4, <2>1, <2>2, <2>3, <2>4, PatchRecords DEF Patched
  <2>9. TopologyVersions'
    <3> SUFFICES ASSUME cache.exists
                 PROVE  /\ cache.spec # cr.spec => cr'.status.topology = cache.spec.topology
                        /\ cache.spec = cr.spec =>
                             /\ cr'.status.topology \in {cache.status.topology, cr.spec.topology}
                             /\ cr'.status.ready /\ ~cache.status.ready => TopologySet'
      <4>1. \A o \in Versions' : o = cache /\ cache.exists
        BY <1>1, NoCRFields DEF Versions
      <4> QED
        BY <1>1, <2>1, <4>1 DEF TopologyVersions
    <3>1. /\ cache.spec # cr.spec => cr.status.topology = cache.spec.topology
          /\ cache.spec = cr.spec =>
               /\ cr.status.topology \in {cache.status.topology, cr.spec.topology}
               /\ cr.status.ready /\ ~cache.status.ready => TopologySet
      BY <1>4 DEF TopologyInv, TopologyVersions, Versions
    <3>2. cache.spec \in {before.spec, cr.spec}
      BY <1>1, <1>4 DEF TrackingInv, PassReads
    <3> QED
      BY <2>5, <2>6, <2>7, <2>8, <3>1, <3>2
  <2>10. TopologyNamed'
    <3>1. before.spec # cr.spec => before.gen # cr.gen
      BY <1>4, <2>2 DEF TrackingInv, VersionsClose
    <3>2. before.gen <= cr.gen
      BY <1>1, <1>4, TrackingTypes DEF LifeCycleInv, ObservedInOrder
    <3>3. cr'.status.gen = cr.gen => before.spec = cr.spec
      BY <2>1, <3>1, <3>2, TrackingTypes
    <3>4. topoFin \subseteq {cr.spec.topology, cr.status.topology}
      BY <1>4 DEF TopologyInv, TopologyNamed
    <3> QED
      BY <1>1, <2>1, <2>5, <2>7, <3>3, <3>4 DEF TopologyNamed
  <2>11. TopologyPass'
    BY <1>1 DEF TopologyPass
  <2> QED
    BY <2>9, <2>10, <2>11 DEF TopologyInv
<1> QED
  BY <1>2, <1>3, <1>4 DEF PatchInstance

\* Every step keeps TopologyInv, if the user waits for Ready.
LEMMA TopologyStep ==
    ASSUME PatientUser, TypeOK, LifeCycleInv, TrackingInv, TopologyInv, [Next]_vars
    PROVE  TopologyInv'
<1> USE DEF server, worker, env, Proceed, Return
<1>1. CASE UNCHANGED vars \/ ReconcileNotFound
  BY <1>1, TopologyElsewhere DEF vars, ReconcileNotFound
<1>2. CASE Reconcile
  BY <1>2, TopologyReconcile
<1>3. CASE VerifyInputs \/ VerifyBackends \/ ReconcileInit \/ GenerateServiceConfig
           \/ AddACFinalizer \/ CreateOrPatchStatefulSet \/ ReconcileJobs
           \/ EnsureDeletedEndpoints \/ RemoveACFinalizers
  BY <1>3, TopologyElsewhere DEF VerifyInputs, VerifyBackends, ReconcileInit,
     GenerateServiceConfig, AddACFinalizer, CreateOrPatchStatefulSet, ReconcileJobs,
     EnsureDeletedEndpoints, RemoveACFinalizers, AfterTopology
<1>4. CASE BackendHash \/ GlanceAPIRefreshFails
  <2>1. /\ UNCHANGED <<cr, cache, before, topoFin>>
        /\ pc = "backendHash" /\ pc' \in {"verifyBackends", "patch"}
        /\ inst' = [inst EXCEPT !.status.storage = createHashOfBackendConfig(inst)]
    BY <1>4 DEF BackendHash, GlanceAPIRefreshFails
  <2>2. /\ inst'.spec = inst.spec /\ inst'.status.topology = inst.status.topology
        /\ inst'.status.ready = inst.status.ready
    BY <2>1 DEF TypeOK, CRType, StatusType
  <2> QED
    BY <2>1, <2>2, TopologyElsewhere DEF AfterTopology
<1>5. CASE ReleaseACSecret
  <2>1. /\ UNCHANGED <<cr, cache, before, topoFin>> /\ pc = "acRelease" /\ pc' = "patch"
    BY <1>5 DEF ReleaseACSecret
  <2>2. PICK a, r : inst' = [inst EXCEPT !.status.ac = a, !.status.ready = r]
    BY <1>5 DEF ReleaseACSecret
  <2>3. inst'.spec = inst.spec /\ inst'.status.topology = inst.status.topology
    BY <2>2 DEF TypeOK, CRType, StatusType
  <2> QED
    BY <2>1, <2>3, TopologyElsewhere DEF AfterTopology
<1>6. CASE EnsureServiceTopology
  BY <1>6, TopologyEnsure
<1>7. CASE EnsureDeletedTopologyRef
  BY <1>7, TopologyRemove
<1>8. CASE PatchInstance
  BY <1>8, TopologyPatch
<1>9. CASE PassLost \/ CacheSync \/ Crash
  BY <1>9, TopologySync DEF PassLost, CacheSync, Crash
<1>10. CASE CallFails
  BY <1>10, TopologyElsewhere DEF CallFails, FaultySteps, Steps, AfterTopology
<1>11. CASE EditSpec
  BY <1>11, TopologyEdit
<1>12. CASE EditEndpoint \/ DeleteGlanceAPI
  BY <1>12, TopologyDeletion
<1>13. CASE EndpointRegistered \/ EndpointRemoved \/ StsReportsStatus
  BY <1>13, TopologyElsewhere DEF EndpointRegistered, EndpointRemoved, StsReportsStatus
<1>14. ASSUME NEW i \in Pods,
              PodStarts(i) \/ PodBecomesReady(i) \/ PodRolls(i) \/ PodCollected(i)
       PROVE  TopologyInv'
  BY <1>14, TopologyElsewhere DEF PodStarts, PodBecomesReady, PodRolls, PodCollected
<1>15. ASSUME NEW i \in InputNames, InputAppears(i) \/ InputLost(i) PROVE TopologyInv'
  BY <1>15, TopologyElsewhere DEF InputAppears, InputLost
<1>16. ASSUME NEW c \in Creds, ACSecretCreated(c) \/ ACSecretRevoked(c) PROVE TopologyInv'
  BY <1>16, TopologyElsewhere DEF ACSecretCreated, ACSecretRevoked
<1> QED
  BY <1>1, <1>2, <1>3, <1>4, <1>5, <1>6, <1>7, <1>8, <1>9, <1>10, <1>11, <1>12, <1>13,
     <1>14, <1>15, <1>16 DEF Next, Worker, Cluster, Inputs, Failure, User

\* A GlanceAPI that is Ready holds the finalizer of the Topology it uses and of no
\* other, over crashes, failed passes and stale reads, for any number of Topologies,
\* when the user waits for Ready before an edit.
THEOREM TopologyStaysTracked ==
    ASSUME PatientUser
    PROVE  Spec => []TopologyTracked
<1>1. Init => TopologyInv
  <2> SUFFICES ASSUME Init PROVE TopologyInv
    OBVIOUS
  <2>1. PICK s \in SpecType, e \in Endpoints : cr = NewCR(s, e)
    BY DEF Init
  <2>2. /\ ~cr.status.ready /\ cache = NoCR /\ before = NoCR /\ pc = "idle" /\ topoFin = {}
    BY <2>1 DEF Init, NewCR, NoStatus
  <2> QED
    BY <2>2, NoCRFields DEF TopologyInv, TopologyVersions, TopologyPass, TopologyNamed, Versions
<1>2. TypeOK /\ LifeCycleInv /\ TrackingInv /\ TopologyInv /\ [Next]_vars => TopologyInv'
  BY TopologyStep
<1>3. TypeOK /\ TopologyInv => TopologyTracked
  <2> SUFFICES ASSUME TypeOK, TopologyInv, Settled, ReadyNow
               PROVE  topoFin = {cr.spec.topology} \ {None}
    BY DEF TopologyTracked
  <2>1. /\ cr.status.topology = cr.spec.topology
        /\ cr.spec.topology \in topoFin \cup {None}
        /\ topoFin \subseteq {cr.spec.topology, cr.status.topology}
    BY DEF TopologyInv, TopologyNamed, TopologySet, Holds, Doomed, ReadyNow
  <2>2. None \notin topoFin
    BY ConstantsAssumption DEF ConstantsAssumption, TypeOK
  <2> QED
    BY <2>1, <2>2
<1> QED
  BY <1>1, <1>2, <1>3, TypeCorrect, LifeCycleInvariant, TrackingInvariant, PTL DEF Spec

-----------------------------------------------------------------------------
(* The volumes of the StatefulSet.                                         *)

\* The object has recorded the storage of its spec and runs on its volumes.
VolumesSet ==
    cr.status.storage = cr.spec.storage /\ sts.exists /\ sts.volumes = cr.spec.storage

\* The steps between the comparison of the backend hash and CreateOrPatch, and the
\* ones after it.
Refreshed == {"verifyBackends", "reconcileInit", "generateServiceConfig", "acFinalizer",
              "topology", "statefulset"}
Created   == {"jobs", "acRelease"}

\* What the versions say of the storage.  When the object has become Ready, every
\* version of its spec has the hash on record: a pass over one that has not deletes
\* the StatefulSet, or finds none, and does not report Ready.
VolumeVersions ==
    cr.exists => \A o \in Versions :
        /\ o.spec # cr.spec => /\ cr.status.storage = o.spec.storage
                               /\ sts.exists => sts.volumes = o.spec.storage
        /\ o.spec = cr.spec =>
             /\ cr.status.storage \in {o.status.storage, cr.spec.storage}
             /\ cr.status.ready /\ (~o.status.ready \/ cr.status.gen = cr.gen) =>
                  VolumesSet /\ o.status.storage = cr.spec.storage

\* What the pass in progress has recorded and done.
VolumePass ==
    pc # "idle" =>
        /\ inst.status.storage # before.status.storage =>
             /\ pc \notin {"verifyInputs", "backendHash"}
             /\ inst.status.storage = inst.spec.storage
             /\ cr.exists /\ before.spec = cr.spec /\ sts.exists =>
                  sts.volumes = inst.spec.storage
        /\ pc \in Refreshed \cup Created => inst.status.storage = inst.spec.storage
        /\ pc \in Refreshed /\ sts.exists =>
             sts.volumes = inst.spec.storage /\ before.status.storage = inst.spec.storage
        /\ pc \in Created \/ inst.status.ready =>
             sts.exists /\ sts.volumes = inst.spec.storage
        /\ "DeploymentReady" \in conds \/ inst.status.ready =>
             before.status.storage = inst.spec.storage

VolumeNamed ==
    cr.exists => /\ sts.exists => sts.volumes \in {cr.spec.storage, cr.status.storage}
                 /\ cr.status.ready /\ cr.status.gen = cr.gen => VolumesSet

VolumeInv == VolumeVersions /\ VolumePass /\ VolumeNamed

\* Steps that leave alone the object, the versions and the volumes, and what the
\* pass has recorded.
LEMMA VolumeElsewhere ==
    ASSUME TypeOK, VolumeInv, UNCHANGED <<cr, cache, before>>,
           sts'.exists = sts.exists, sts'.volumes = sts.volumes,
           inst'.spec = inst.spec, inst'.status.storage = inst.status.storage,
           conds' \subseteq conds \cup {"KeystoneEndpointReady"},
           pc' = "idle" <=> pc = "idle",
           pc' \in {"verifyInputs", "backendHash"} => pc \in {"verifyInputs", "backendHash"},
           pc' \in Refreshed => pc \in Refreshed,
           pc' \in Created => pc \in Created,
           inst'.status.ready => \/ inst.status.ready
                                 \/ pc \in Created /\ "DeploymentReady" \in conds
    PROVE  VolumeInv'
<1>1. VolumeVersions' /\ VolumeNamed'
  BY DEF VolumeInv, VolumeVersions, VolumeNamed, VolumesSet, Versions
<1>2. VolumePass'
  BY DEF VolumeInv, VolumePass
<1> QED
  BY <1>1, <1>2 DEF VolumeInv

\* A pass starts.
LEMMA VolumeReconcile == ASSUME TypeOK, VolumeInv, Reconcile PROVE VolumeInv'
<1>1. /\ UNCHANGED <<cr, cache, sts>> /\ before' = cache /\ cache.exists
      /\ pc' \notin Refreshed \cup Created /\ conds' = {}
  BY DEF Reconcile, server, Refreshed, Created
<1>2. inst'.status.storage = cache.status.storage /\ inst'.status.ready = FALSE
  <2> DEFINE f == cache.finalizer \/ (~cache.deleting /\ ~cache.finalizer)
  <2>1. inst' = [cache EXCEPT !.finalizer = f, !.status.new = FALSE,
                              !.status.ready = FALSE, !.status.gen = cache.gen]
    BY DEF Reconcile
  <2>2. cache \in CRType
    BY DEF TypeOK
  <2> HIDE DEF f
  <2> QED
    BY <2>1, <2>2 DEF CRType, StatusType
<1>3. VolumeVersions' /\ VolumeNamed'
  BY <1>1 DEF VolumeInv, VolumeVersions, VolumeNamed, VolumesSet, Versions
<1>4. VolumePass'
  BY <1>1, <1>2 DEF VolumePass
<1> QED
  BY <1>3, <1>4 DEF VolumeInv

\* The pass in progress and the cache, for a pass over an object that is there.
LEMMA PassAndCache ==
    ASSUME TypeOK, LifeCycleInv, TrackingInv, pc \in NormalSteps
    PROVE  /\ cr.exists /\ before \in Versions /\ inst.spec = before.spec
           /\ ~inst.status.ready
           /\ cr.status.gen = cr.gen => before.spec = cr.spec
           /\ cache = before \/ cache.status = cr.status
           /\ cache.spec \in {before.spec, cr.spec}
<1>1. pc # "idle" /\ pc # "patch"
  BY DEF NormalSteps
<1>2. /\ cr.exists /\ before \in Versions /\ inst.spec = before.spec /\ ~inst.status.ready
      /\ cache = before \/ cache.status = cr.status
      /\ cache.spec \in {before.spec, cr.spec}
  BY <1>1 DEF LifeCycleInv, HoldKept, TrackingInv, PassReads, PassRecords, Versions
<1> QED
  BY <1>2, EditedVersions

\* The comparison of the backend hash.  A pass that deletes the StatefulSet has read
\* a version without the hash on record, so that the object is not Ready.
LEMMA VolumeRefresh ==
    ASSUME TypeOK, LifeCycleInv, TrackingInv, VolumeInv, BackendHash PROVE VolumeInv'
<1> DEFINE s == inst.spec.storage
<1>1. /\ UNCHANGED <<cr, cache, before, conds>> /\ pc = "backendHash" /\ pc' = "verifyBackends"
      /\ inst' = [inst EXCEPT !.status.storage = s]
      /\ inst.status.storage # s /\ sts.exists => ~sts'.exists
      /\ ~(inst.status.storage # s /\ sts.exists) => UNCHANGED sts
  <2>1. ~NoSts.exists
    BY DEF NoSts
  <2> QED
    BY <2>1 DEF BackendHash, Proceed, createHashOfBackendConfig, DeleteStatefulSet
<1>2. /\ cr.exists /\ before \in Versions /\ inst.spec = before.spec
      /\ ~inst.status.ready
      /\ cr.status.gen = cr.gen => before.spec = cr.spec
      /\ cache = before \/ cache.status = cr.status
      /\ cache.spec \in {before.spec, cr.spec}
  BY <1>1, PassAndCache DEF NormalSteps
<1>3. inst.status.storage = before.status.storage
  BY <1>1 DEF VolumeInv, VolumePass
<1>4. /\ inst'.spec = inst.spec /\ inst'.status.ready = inst.status.ready
      /\ inst'.status.storage = s
  <2> HIDE DEF s
  <2> QED
    BY <1>1 DEF TypeOK, CRType, StatusType
<1>5. CASE inst.status.storage # s /\ sts.exists
  <2>1. ~sts'.exists
    BY <1>1, <1>5
  <2>2. before.spec = cr.spec => before.status.storage # cr.spec.storage
    BY <1>2, <1>3, <1>5
  <2>3. ~(cr.status.ready /\ cr.status.gen = cr.gen)
    BY <1>2, <2>2 DEF VolumeInv, VolumeVersions
  <2>4. \A o \in Versions : o.spec = cr.spec /\ cr.status.ready => o.status.ready
    <3>1. before.spec = cr.spec /\ cr.status.ready => before.status.ready
      BY <1>2, <2>2 DEF VolumeInv, VolumeVersions
    <3> QED
      BY <1>2, <3>1 DEF Versions
  <2>5. VolumeVersions' /\ VolumeNamed'
    BY <1>1, <2>1, <2>3, <2>4 DEF VolumeInv, VolumeVersions, VolumeNamed, Versions
  <2>6. VolumePass'
    BY <1>1, <1>2, <1>4, <2>1 DEF VolumeInv, VolumePass, Refreshed, Created
  <2> QED
    BY <2>5, <2>6 DEF VolumeInv
<1>6. CASE ~(inst.status.storage # s /\ sts.exists)
  <2>1. UNCHANGED sts /\ (sts.exists => before.status.storage = s)
    BY <1>1, <1>3, <1>6
  <2>2. sts.exists => sts.volumes = s
    <3>1. before.spec = cr.spec /\ sts.exists => sts.volumes = s
      <4>1. before.spec = cr.spec => cr.status.storage \in {before.status.storage, s}
        BY <1>2 DEF VolumeInv, VolumeVersions
      <4>2. sts.exists => sts.volumes \in {cr.spec.storage, cr.status.storage}
        BY <1>2 DEF VolumeInv, VolumeNamed
      <4> QED
        BY <1>2, <2>1, <4>1, <4>2
    <3>2. before.spec # cr.spec /\ sts.exists => sts.volumes = s
      BY <1>2 DEF VolumeInv, VolumeVersions
    <3> QED
      BY <3>1, <3>2
  <2>3. VolumeVersions' /\ VolumeNamed'
    BY <1>1, <2>1 DEF VolumeInv, VolumeVersions, VolumeNamed, VolumesSet, Versions
  <2>4. VolumePass'
    BY <1>1, <1>2, <1>4, <2>1, <2>2 DEF VolumeInv, VolumePass, Refreshed, Created
  <2> QED
    BY <2>3, <2>4 DEF VolumeInv
<1> QED
  BY <1>5, <1>6

\* CreateOrPatch: a StatefulSet that it finds has the volumes of the pass's spec, and
\* one that it creates gets them and is not ready yet.
LEMMA VolumeCreate ==
    ASSUME TypeOK, LifeCycleInv, TrackingInv, VolumeInv, CreateOrPatchStatefulSet
    PROVE  VolumeInv'
<1> DEFINE t == StatefulSetTemplate(inst)
           s == inst.spec.storage
<1>1. /\ UNCHANGED <<cr, cache, before, inst>> /\ pc = "statefulset" /\ pc' = "jobs"
      /\ conds' = IF sts'.observed /\ sts'.ready = Replicas
                  THEN conds \cup {"DeploymentReady"} ELSE conds
  BY DEF CreateOrPatchStatefulSet, Proceed
<1>2. /\ cr.exists /\ before \in Versions /\ inst.spec = before.spec
      /\ ~inst.status.ready
      /\ cache.spec \in {before.spec, cr.spec}
  BY <1>1, PassAndCache DEF NormalSteps
<1>3. /\ inst.status.storage = s
      /\ sts.exists => sts.volumes = s /\ before.status.storage = s
  BY <1>1 DEF VolumeInv, VolumePass, Refreshed
<1>4. sts'.exists /\ sts'.volumes = s /\ (sts'.observed => sts.exists)
  <2>1. CASE ~sts.exists
    BY <2>1 DEF CreateOrPatchStatefulSet
  <2>2. CASE sts.exists /\ sts.template # t
    <3>1. sts' = [sts EXCEPT !.template = t, !.observed = FALSE] /\ sts \in StsType
      BY <2>2 DEF CreateOrPatchStatefulSet, TypeOK
    <3> HIDE DEF t, s
    <3> QED
      BY <1>3, <2>2, <3>1 DEF StsType
  <2>3. CASE sts.exists /\ sts.template = t
    BY <1>3, <2>3 DEF CreateOrPatchStatefulSet
  <2> QED
    BY <2>1, <2>2, <2>3
<1>5. VolumesSet => VolumesSet'
  BY <1>1, <1>3, <1>4 DEF VolumesSet
<1>6. VolumeVersions'
  <2>1. \A o \in Versions : o.spec # cr.spec => o.spec = inst.spec
    BY <1>2 DEF Versions
  <2> QED
    BY <1>1, <1>4, <1>5, <2>1 DEF VolumeInv, VolumeVersions, Versions
<1>7. VolumeNamed'
  <2>1. s \in {cr.spec.storage, cr.status.storage}
    BY <1>2 DEF VolumeInv, VolumeVersions
  <2> QED
    BY <1>1, <1>4, <1>5, <2>1 DEF VolumeInv, VolumeNamed
<1>8. VolumePass'
  <2>1. "DeploymentReady" \in conds' => before.status.storage = s
    BY <1>1, <1>3, <1>4 DEF VolumeInv, VolumePass
  <2> QED
    BY <1>1, <1>2, <1>3, <1>4, <2>1 DEF VolumePass, Refreshed, Created
<1> QED
  BY <1>6, <1>7, <1>8 DEF VolumeInv

\* The cache is brought up to date, or a pass ends without an effect on the object.
LEMMA VolumeSync ==
    ASSUME TypeOK, VolumeInv, cache' = cr \/ UNCHANGED cache, UNCHANGED <<cr, sts>>,
           UNCHANGED <<pc, before, inst, conds>> \/ Idle
    PROVE  VolumeInv'
<1>1. \A o \in Versions' : o = cr \/ o \in Versions
  BY NoCRFields DEF Versions, Idle
<1>2. VolumesSet => VolumesSet'
  BY DEF VolumesSet
<1>3. VolumeVersions'
  <2>1. cr.exists => /\ cr.status.ready /\ (~cr.status.ready \/ cr.status.gen = cr.gen) =>
                          VolumesSet /\ cr.status.storage = cr.spec.storage
    BY DEF VolumeInv, VolumeNamed, VolumesSet
  <2> QED
    BY <1>1, <1>2, <2>1 DEF VolumeInv, VolumeVersions
<1>4. VolumeNamed'
  BY <1>2 DEF VolumeInv, VolumeNamed
<1>5. VolumePass'
  BY DEF VolumeInv, VolumePass, Idle
<1> QED
  BY <1>3, <1>4, <1>5 DEF VolumeInv

\* An edit by a user who has waited for Ready.
LEMMA VolumeEdit ==
    ASSUME TypeOK, LifeCycleInv, TrackingInv, VolumeInv, PatientUser, EditSpec
    PROVE  VolumeInv'
<1> DEFINE n == cr.gen + 1
<1>1. /\ UNCHANGED <<cache, pc, before, inst, conds, sts>>
      /\ cr.exists /\ cr.status.ready /\ cr.status.gen = cr.gen
  BY DEF EditSpec, UserMayEdit, UserMayAct, worker
<1>2. PICK s \in SpecType : s # cr.spec /\ cr' = [cr EXCEPT !.spec = s, !.gen = n]
  BY DEF EditSpec
<1>3. n \in Nat /\ n > cr.gen /\ cr.gen \in Nat
  BY TrackingTypes
<1> HIDE DEF n
<1>4. /\ cr'.exists = cr.exists /\ cr'.status = cr.status /\ cr'.spec = s /\ cr'.gen = n
  BY <1>2, <1>3 DEF TypeOK, CRType
<1>5. VolumesSet
  BY <1>1 DEF VolumeInv, VolumeNamed
<1>6. \A o \in Versions : o.spec = cr.spec
  BY <1>1, EditedVersions
<1>7. VolumeVersions'
  <2>1. Versions' = Versions
    BY <1>1 DEF Versions
  <2> QED
    BY <1>1, <1>2, <1>4, <1>5, <1>6, <2>1 DEF VolumeVersions, VolumesSet
<1>8. VolumeNamed'
  <2>1. cr'.status.gen # cr'.gen
    BY <1>1, <1>3, <1>4
  <2> QED
    BY <1>1, <1>4, <1>5, <2>1 DEF VolumeNamed, VolumesSet
<1>9. VolumePass'
  <2>1. pc # "idle" => before.spec # s
    BY <1>2, <1>6 DEF TrackingInv, PassReads, Versions
  <2> QED
    BY <1>1, <1>4, <2>1 DEF VolumeInv, VolumePass
<1> QED
  BY <1>7, <1>8, <1>9 DEF VolumeInv

\* A change of the annotation, or a deletion.
LEMMA VolumeDeletion ==
    ASSUME TypeOK, LifeCycleInv, TrackingInv, VolumeInv, EditEndpoint \/ DeleteGlanceAPI
    PROVE  VolumeInv'
<1>1. UNCHANGED <<cache, pc, before, inst, conds, sts>> /\ cr.exists /\ ~cr.deleting
  BY DEF EditEndpoint, DeleteGlanceAPI, UserMayEdit, UserMayAct, worker
<1>2. CASE DeleteGlanceAPI /\ ~cr.finalizer
  <2>1. cr' = NoCR
    BY <1>2 DEF DeleteGlanceAPI
  <2>2. VolumeVersions' /\ VolumeNamed'
    BY <2>1, NoCRFields DEF VolumeVersions, VolumeNamed
  <2>3. VolumePass'
    BY <1>1, <2>1, NoCRFields DEF VolumeInv, VolumePass
  <2> QED
    BY <2>2, <2>3 DEF VolumeInv
<1>3. CASE EditEndpoint \/ (DeleteGlanceAPI /\ cr.finalizer)
  <2>1. cr'.exists /\ cr'.status = cr.status /\ cr'.gen \in Nat /\ cr.gen <= cr'.gen
    BY <1>1, <1>3, EditedFields
  <2>2. cr'.spec = cr.spec
    BY <1>1, <1>3, SpecKept
  <2>3. VolumesSet => VolumesSet'
    BY <1>1, <2>1, <2>2 DEF VolumesSet
  <2>4. cr.status.gen = cr'.gen => cr.status.gen = cr.gen
    BY <1>1, <2>1, TrackingTypes DEF LifeCycleInv, ObservedInOrder
  <2>5. VolumeVersions' /\ VolumeNamed'
    BY <1>1, <2>1, <2>2, <2>3, <2>4 DEF VolumeInv, VolumeVersions, VolumeNamed, Versions
  <2>6. VolumePass'
    BY <1>1, <2>1, <2>2 DEF VolumeInv, VolumePass
  <2> QED
    BY <2>5, <2>6 DEF VolumeInv
<1> QED
  BY <1>2, <1>3

\* The deferred patch.  It makes the object Ready for its generation only after a
\* pass over a version with the hash on record.
LEMMA VolumePatch ==
    ASSUME TypeOK, LifeCycleInv, TrackingInv, VolumeInv, PatchInstance PROVE VolumeInv'
<1>1. UNCHANGED cache /\ Idle /\ pc = "patch" /\ pc' = "idle" /\ before' = NoCR
  BY DEF PatchInstance, Idle
<1>2. CASE ~cr.exists
  BY <1>1, <1>2, VolumeSync DEF PatchInstance
<1>3. CASE cr' = NoCR
  <2>1. VolumeVersions' /\ VolumeNamed' /\ VolumePass'
    BY <1>1, <1>3, NoCRFields DEF VolumeVersions, VolumeNamed, VolumePass
  <2> QED
    BY <2>1 DEF VolumeInv
<1>4. CASE cr.exists /\ cr' = MergePatch /\ UNCHANGED sts
  <2>1. /\ cr'.exists /\ cr'.gen = cr.gen /\ cr'.spec = cr.spec
        /\ cr'.status.gen \in cr.status.gen .. before.gen
        /\ cr'.status.ready = IF ConditionsChanged THEN inst.status.ready ELSE cr.status.ready
        /\ cr'.status.storage = Patched(inst.status.storage, before.status.storage,
                                        cr.status.storage)
    <3>1. cr'.exists /\ cr'.gen = cr.gen /\ cr'.status.gen \in cr.status.gen .. before.gen
      BY <1>1, <1>4, PatchReports
    <3> QED
      BY <1>4, <3>1 DEF TypeOK, CRType, StatusType, MergePatch
  <2>2. /\ before \in Versions /\ inst.spec = before.spec
        /\ cache = before \/ cache.status = cr.status
        /\ cache.spec \in {before.spec, cr.spec}
    BY <1>1, <1>4 DEF TrackingInv, PassReads, Versions
  <2>3. /\ inst.status.storage # before.status.storage =>
             /\ inst.status.storage = inst.spec.storage
             /\ before.spec = cr.spec /\ sts.exists => sts.volumes = inst.spec.storage
        /\ inst.status.ready => /\ sts.exists /\ sts.volumes = inst.spec.storage
                                /\ before.status.storage = inst.spec.storage
    BY <1>1, <1>4 DEF VolumeInv, VolumePass
  <2>4. /\ before.spec # cr.spec => cr.status.storage = before.spec.storage
        /\ before.spec = cr.spec =>
             /\ cr.status.storage \in {before.status.storage, cr.spec.storage}
             /\ cr.status.ready /\ ~before.status.ready =>
                  VolumesSet /\ before.status.storage = cr.spec.storage
    BY <1>4, <2>2 DEF VolumeInv, VolumeVersions
  <2>5. /\ cr'.status.storage \in {cr.status.storage, cr.spec.storage}
        /\ before.spec # cr.spec => cr'.status.storage = cr.status.storage
        /\ cr'.status.storage # cr.status.storage /\ sts.exists =>
             sts.volumes = cr.spec.storage
    BY <2>1, <2>2, <2>3, <2>4 DEF Patched
  <2>6. VolumesSet => VolumesSet'
    BY <1>4, <2>1, <2>5 DEF VolumesSet
  <2>7. before.spec = cr.spec /\ cr'.status.ready =>
          VolumesSet' /\ before.status.storage = cr.spec.storage
    <3>1. before.spec = cr.spec /\ inst.status.ready =>
            VolumesSet' /\ before.status.storage = cr.spec.storage
      BY <1>4, <2>1, <2>2, <2>3, <2>4 DEF Patched, VolumesSet
    <3>2. inst.status.ready \in BOOLEAN /\ before.status.ready \in BOOLEAN
      BY TrackingTypes
    <3> QED
      BY <2>1, <2>4, <2>6, <3>1, <3>2 DEF ConditionsChanged
  <2>8. before.spec # cr.spec => cr'.status.gen # cr.gen /\ (cr'.status.ready => cr.status.ready)
    <3>1. before.spec # cr.spec => before.gen # cr.gen
      BY <1>4, <2>2 DEF TrackingInv, VersionsClose
    <3>2. before.gen <= cr.gen
      BY <1>1, <1>4, TrackingTypes DEF LifeCycleInv, ObservedInOrder
    <3>3. before.spec # cr.spec /\ cr'.status.ready => cr.status.ready
      BY <1>1, <1>4, PatchRecords
    <3> QED
      BY <2>1, <3>1, <3>2, <3>3, TrackingTypes
  <2>9. VolumeVersions'
    <3> SUFFICES ASSUME cache.exists
                 PROVE  /\ cache.spec # cr.spec =>
                             /\ cr'.status.storage = cache.spec.storage
                             /\ sts.exists => sts.volumes = cache.spec.storage
                        /\ cache.spec = cr.spec =>
                             /\ cr'.status.storage \in {cache.status.storage, cr.spec.storage}
                             /\ /\ cr'.status.ready
                                /\ ~cache.status.ready \/ cr'.status.gen = cr.gen
                                => VolumesSet' /\ cache.status.storage = cr.spec.storage
      <4>1. \A o \in Versions' : o = cache /\ cache.exists
        BY <1>1, NoCRFields DEF Versions
      <4> QED
        BY <1>1, <1>4, <2>1, <4>1 DEF VolumeVersions
    <3>1. /\ cache.spec # cr.spec => /\ cr.status.storage = cache.spec.storage
                                     /\ sts.exists => sts.volumes = cache.spec.storage
          /\ cache.spec = cr.spec =>
               cr.status.storage \in {cache.status.storage, cr.spec.storage}
      BY <1>4 DEF VolumeInv, VolumeVersions, Versions
    <3>2. CASE cache.spec # cr.spec
      BY <2>2, <2>5, <3>1, <3>2
    <3>3. CASE cache.spec = cr.spec /\ before.spec = cr.spec
      <4>1. before.status.storage = cr.spec.storage => cache.status.storage = cr.spec.storage
        BY <2>2, <2>4, <3>3
      <4> QED
        BY <2>5, <2>7, <3>1, <3>3, <4>1
    <3>4. CASE cache.spec = cr.spec /\ before.spec # cr.spec
      BY <2>2, <2>5, <2>8, <3>1, <3>4
    <3> QED
      BY <3>2, <3>3, <3>4
  <2>10. VolumeNamed'
    <3>1. sts.exists => sts.volumes \in {cr.spec.storage, cr.status.storage}
      BY <1>4 DEF VolumeInv, VolumeNamed
    <3> QED
      BY <1>4, <2>1, <2>5, <2>7, <2>8, <3>1 DEF VolumeNamed
  <2>11. VolumePass'
    BY <1>1 DEF VolumePass
  <2> QED
    BY <2>9, <2>10, <2>11 DEF VolumeInv
<1> QED
  BY <1>2, <1>3, <1>4 DEF PatchInstance

\* Every step but a failing glanceAPIRefresh keeps VolumeInv, if the user waits for
\* Ready.
LEMMA VolumeStep ==
    ASSUME PatientUser, TypeOK, LifeCycleInv, TrackingInv, VolumeInv, [Next]_vars,
           ~GlanceAPIRefreshFails
    PROVE  VolumeInv'
<1> USE DEF server, worker, env, Proceed, Return
<1>1. CASE UNCHANGED vars \/ ReconcileNotFound
  BY <1>1, VolumeElsewhere DEF vars, ReconcileNotFound
<1>2. CASE Reconcile
  BY <1>2, VolumeReconcile
<1>3. CASE VerifyInputs \/ VerifyBackends \/ GenerateServiceConfig
           \/ AddACFinalizer \/ ReconcileJobs \/ EnsureDeletedEndpoints \/ RemoveACFinalizers
  BY <1>3, VolumeElsewhere DEF VerifyInputs, VerifyBackends, GenerateServiceConfig,
     AddACFinalizer, ReconcileJobs, EnsureDeletedEndpoints, RemoveACFinalizers,
     Refreshed, Created
<1>4. CASE ReconcileInit
  <2>1. /\ UNCHANGED <<cr, cache, before, inst, sts>>
        /\ pc = "reconcileInit" /\ pc' = "generateServiceConfig"
        /\ conds' \subseteq conds \cup {"KeystoneEndpointReady"}
    BY <1>4 DEF ReconcileInit, EnsureKeystoneEndpoints
  <2> QED
    BY <2>1, VolumeElsewhere DEF Refreshed, Created
<1>5. CASE BackendHash
  BY <1>5, VolumeRefresh
<1>6. CASE CreateOrPatchStatefulSet
  BY <1>6, VolumeCreate
<1>7. CASE EnsureServiceTopology \/ EnsureDeletedTopologyRef
  <2>1. /\ UNCHANGED <<cr, cache, before, conds, sts>>
        /\ \/ pc = "topology" /\ pc' \in {"statefulset", "patch"}
           \/ pc = "deleteTopology" /\ pc' = "patch"
        /\ \/ UNCHANGED inst
           \/ inst' = [inst EXCEPT !.status.topology = inst.spec.topology]
           \/ inst' = [inst EXCEPT !.finalizer = FALSE]
    BY <1>7 DEF EnsureServiceTopology, EnsureDeletedTopologyRef
  <2>2. /\ inst'.spec = inst.spec /\ inst'.status.storage = inst.status.storage
        /\ inst'.status.ready = inst.status.ready
    BY <2>1 DEF TypeOK, CRType, StatusType
  <2> QED
    BY <2>1, <2>2, VolumeElsewhere DEF Refreshed, Created
<1>8. CASE ReleaseACSecret
  <2>1. /\ UNCHANGED <<cr, cache, before, conds, sts>> /\ pc = "acRelease" /\ pc' = "patch"
    BY <1>8 DEF ReleaseACSecret
  <2>2. PICK a, r : /\ inst' = [inst EXCEPT !.status.ac = a, !.status.ready = r]
                    /\ r => "DeploymentReady" \in conds
    BY <1>8 DEF ReleaseACSecret, AllSubConditionIsTrue
  <2>3. /\ inst'.spec = inst.spec /\ inst'.status.storage = inst.status.storage
        /\ inst'.status.ready = r
    BY <2>2 DEF TypeOK, CRType, StatusType
  <2> QED
    BY <2>1, <2>2, <2>3, VolumeElsewhere DEF Refreshed, Created
<1>9. CASE PatchInstance
  BY <1>9, VolumePatch
<1>10. CASE PassLost \/ CacheSync \/ Crash
  BY <1>10, VolumeSync DEF PassLost, CacheSync, Crash
<1>11. CASE CallFails
  BY <1>11, VolumeElsewhere DEF CallFails, FaultySteps, Steps, Refreshed, Created
<1>12. CASE EditSpec
  BY <1>12, VolumeEdit
<1>13. CASE EditEndpoint \/ DeleteGlanceAPI
  BY <1>13, VolumeDeletion
<1>14. CASE EndpointRegistered \/ EndpointRemoved
  BY <1>14, VolumeElsewhere DEF EndpointRegistered, EndpointRemoved
<1>15. CASE StsReportsStatus
  <2>1. /\ UNCHANGED <<cr, cache, before, inst, conds, pc>>
        /\ sts'.exists = sts.exists /\ sts'.volumes = sts.volumes
    BY <1>15 DEF StsReportsStatus, TypeOK, StsType
  <2> QED
    BY <2>1, VolumeElsewhere
<1>16. ASSUME NEW i \in Pods,
              PodStarts(i) \/ PodBecomesReady(i) \/ PodRolls(i) \/ PodCollected(i)
       PROVE  VolumeInv'
  BY <1>16, VolumeElsewhere DEF PodStarts, PodBecomesReady, PodRolls, PodCollected
<1>17. ASSUME NEW i \in InputNames, InputAppears(i) \/ InputLost(i) PROVE VolumeInv'
  BY <1>17, VolumeElsewhere DEF InputAppears, InputLost
<1>18. ASSUME NEW c \in Creds, ACSecretCreated(c) \/ ACSecretRevoked(c) PROVE VolumeInv'
  BY <1>18, VolumeElsewhere DEF ACSecretCreated, ACSecretRevoked
<1> QED
  BY <1>1, <1>2, <1>3, <1>4, <1>5, <1>6, <1>7, <1>8, <1>9, <1>10, <1>11, <1>12, <1>13,
     <1>14, <1>15, <1>16, <1>17, <1>18 DEF Next, Worker, Cluster, Inputs, Failure, User

\* A GlanceAPI that is Ready for its generation runs on the volumes of its spec, over
\* crashes, lost patches and stale reads, when the user waits for Ready before an edit
\* and the call that deletes the StatefulSet in glanceAPIRefresh does not fail.  (When
\* it fails the StatefulSet keeps its old volumes: the run v_refresh.)
THEOREM ReadyVolumes ==
    ASSUME PatientUser
    PROVE  Spec /\ [][~GlanceAPIRefreshFails]_vars => []ReadyHasVolumes
<1>1. Init => VolumeInv
  <2> SUFFICES ASSUME Init PROVE VolumeInv
    OBVIOUS
  <2>1. PICK s \in SpecType, e \in Endpoints : cr = NewCR(s, e)
    BY DEF Init
  <2>2. /\ ~cr.status.ready /\ cache = NoCR /\ before = NoCR /\ pc = "idle" /\ ~sts.exists
    BY <2>1 DEF Init, NewCR, NoStatus, NoSts
  <2> QED
    BY <2>2, NoCRFields DEF VolumeInv, VolumeVersions, VolumePass, VolumeNamed, Versions
<1>2. /\ TypeOK /\ LifeCycleInv /\ TrackingInv /\ VolumeInv
      /\ [Next]_vars /\ [~GlanceAPIRefreshFails]_vars
      => VolumeInv'
  <2> SUFFICES ASSUME TypeOK, LifeCycleInv, TrackingInv, VolumeInv, [Next]_vars,
                      [~GlanceAPIRefreshFails]_vars
               PROVE  VolumeInv'
    OBVIOUS
  <2>1. CASE UNCHANGED vars
    BY <2>1, VolumeElsewhere DEF vars
  <2>2. CASE ~GlanceAPIRefreshFails
    BY <2>2, VolumeStep
  <2> QED
    BY <2>1, <2>2
<1>3. VolumeInv => ReadyHasVolumes
  BY DEF VolumeInv, VolumeNamed, VolumesSet, ReadyHasVolumes, ReadyNow
<1> QED
  BY <1>1, <1>2, <1>3, TypeCorrect, LifeCycleInvariant, TrackingInvariant, PTL DEF Spec

=============================================================================
