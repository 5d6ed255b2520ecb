------------------------ MODULE ImageCacheJobsProofs ------------------------
(***************************************************************************)
(* Proofs about ImageCacheJobs, for any number of replicas, edits and      *)
(* faults.                                                                 *)
(***************************************************************************)
EXTENDS ImageCacheJobs, TLAPS

\* Jobs are created for claims only, whatever the caches show.
LEMMA EnsuredForClaims ==
    ASSUME TypeOK, NEW t \in JobTypes, NEW S, S \subseteq Missing(t)
    PROVE  jobs \cup {ImageCacheJob(i, t) : i \in S} \subseteq claims \X JobTypes
  BY DEF TypeOK, Missing, ImageCacheJob

\* A step of a pass.
LEMMA WorkerTyped == TypeOK /\ Worker => TypeOK'
<1> SUFFICES ASSUME TypeOK, Worker PROVE TypeOK'
  OBVIOUS
<1> USE DEF TypeOK, cluster, caches
<1>1. CASE Reconcile
  BY <1>1 DEF Reconcile
<1>2. CASE Deploy
  <2>1. sts' \in StsType
    BY <1>2 DEF Deploy, SpecType, StsType
  <2> QED
    BY <1>2, <2>1 DEF Deploy
<1>3. CASE reconcilePVCLabels
  BY <1>3 DEF reconcilePVCLabels, AfterLabels
<1>4. ASSUME NEW t \in JobTypes, ensureImageCacheJob(t) PROVE TypeOK'
  <2> DEFINE S == {k \in Missing(t) : \A c \in Conflicts(t) : k < c}
  <2>1. jobs' = jobs \cup {ImageCacheJob(i, t) : i \in S} /\ S \subseteq Missing(t)
    BY <1>4 DEF ensureImageCacheJob
  <2> HIDE DEF S
  <2>2. jobs' \subseteq claims \X JobTypes
    BY <2>1, EnsuredForClaims
  <2>3. UNCHANGED <<spec, inst, sts, pod, claims, local, labelled, caches, edits, faults>>
        /\ pc' \in {"idle", "pruner", "cleanup"} /\ queued' \in BOOLEAN
    BY <1>4 DEF ensureImageCacheJob, Retry
  <2> QED
    BY <2>2, <2>3
<1>5. CASE cleanupImageCacheJob
  BY <1>5 DEF cleanupImageCacheJob, deleteJobs, Done
<1> QED
  BY <1>1, <1>2, <1>3, <1>4, <1>5 DEF Worker

\* A failure: the part of the loop that was done.
LEMMA FailureTyped == TypeOK /\ Failure => TypeOK'
<1> SUFFICES ASSUME TypeOK, Failure PROVE TypeOK'
  OBVIOUS
<1> USE ConstantsAssumption DEF ConstantsAssumption, TypeOK, cluster, caches, Retry
<1>0. Fault => faults' \in 0 .. MaxFaults
  BY DEF Fault
<1>1. CASE LabelsFail
  BY <1>0, <1>1 DEF LabelsFail
<1>2. CASE CleanupFails
  <2>1. jobs' \subseteq jobs
    BY <1>2 DEF CleanupFails
  <2> QED
    BY <1>0, <1>2, <2>1 DEF CleanupFails
<1>3. CASE GetPvcListFails
  BY <1>0, <1>3 DEF GetPvcListFails
<1>4. ASSUME NEW t \in JobTypes, EnsureFails(t) PROVE TypeOK'
  <2>1. PICK n \in Ordinals :
            jobs' = jobs \cup {ImageCacheJob(i, t) : i \in {k \in Missing(t) : k < n}}
    BY <1>4 DEF EnsureFails
  <2> DEFINE S == {k \in Missing(t) : k < n}
  <2>2. S \subseteq Missing(t)
    OBVIOUS
  <2>3. jobs' = jobs \cup {ImageCacheJob(i, t) : i \in S}
    BY <2>1
  <2> HIDE DEF S
  <2>4. jobs' \subseteq claims \X JobTypes
    BY <2>2, <2>3, EnsuredForClaims
  <2>5. UNCHANGED <<spec, inst, sts, pod, claims, local, labelled, caches, edits>>
        /\ pc' = "idle" /\ queued' = TRUE /\ faults' \in 0 .. MaxFaults
    BY <1>0, <1>4 DEF EnsureFails
  <2> QED
    BY <2>4, <2>5
<1> QED
  BY <1>1, <1>2, <1>3, <1>4 DEF Failure

\* The rest of the cluster and the user.
LEMMA OthersTyped ==
    ASSUME TypeOK,
           \/ EditSpec \/ PodCacheSync \/ JobCacheSync \/ Resync
           \/ \E i \in Ordinals : PodStarts(i) \/ PodStops(i)
    PROVE  TypeOK'
<1> USE DEF TypeOK, cluster, caches
<1>1. CASE EditSpec
  <2>1. edits' \in 0 .. MaxEdits
    BY <1>1, ConstantsAssumption DEF EditSpec, ConstantsAssumption
  <2> QED
    BY <1>1, <2>1 DEF EditSpec
<1>2. CASE PodCacheSync
  BY <1>2 DEF PodCacheSync, Running
<1>3. CASE JobCacheSync
  BY <1>3 DEF JobCacheSync
<1>4. CASE Resync
  BY <1>4 DEF Resync
<1>5. ASSUME NEW i \in Ordinals, PodStarts(i) PROVE TypeOK'
  <2>1. pod' \in [Ordinals -> {"none", "plain", "cached"}]
    BY <1>5 DEF PodStarts, Kind
  <2>2. /\ claims \subseteq claims' /\ claims' \subseteq Ordinals
        /\ local' \subseteq Ordinals /\ labelled' \subseteq local'
    BY <1>5 DEF PodStarts
  <2>3. jobs' \subseteq claims' \X JobTypes
    BY <1>5, <2>2 DEF PodStarts
  <2> QED
    BY <1>5, <2>1, <2>2, <2>3 DEF PodStarts
<1>6. ASSUME NEW i \in Ordinals, PodStops(i) PROVE TypeOK'
  BY <1>6 DEF PodStops
<1> QED
  BY <1>1, <1>2, <1>3, <1>4, <1>5, <1>6

\* Every state is typed: labels are on local claims only, and there is no job
\* without its claim, although jobs are created and deleted from caches that may be
\* behind, by passes that fail half-way.
THEOREM TypeCorrect == FairSpec => []TypeOK
<1>1. Init => TypeOK
  <2> SUFFICES ASSUME Init PROVE TypeOK
    OBVIOUS
  <2>1. spec \in SpecType /\ spec.replicas \in 0 .. MaxReplicas /\ spec.cache \in BOOLEAN
    BY DEF Init, SpecType
  <2>2. sts \in StsType /\ pod \in [Ordinals -> {"none", "plain", "cached"}]
    <3>1. CASE sts = [exists |-> FALSE, replicas |-> 0, cache |-> FALSE, labels |-> FALSE]
      BY <3>1, ConstantsAssumption DEF Init, StsType, ConstantsAssumption
    <3>2. CASE sts = [exists |-> TRUE, replicas |-> spec.replicas, cache |-> spec.cache,
                      labels |-> FALSE]
      BY <2>1, <3>2 DEF Init, StsType
    <3>3. pod \in [Ordinals -> {"none", "plain", "cached"}]
      BY DEF Init
    <3> QED
      BY <3>1, <3>2, <3>3 DEF Init
  <2>3. Running \subseteq Ordinals /\ claims \subseteq Ordinals /\ local \subseteq Ordinals
    BY DEF Init, Running
  <2>4. edits \in 0 .. MaxEdits /\ faults \in 0 .. MaxFaults
    BY ConstantsAssumption DEF Init, ConstantsAssumption
  <2> QED
    BY <2>1, <2>2, <2>3, <2>4 DEF Init, TypeOK
<1>2. TypeOK /\ [Next]_vars => TypeOK'
  <2> SUFFICES ASSUME TypeOK, [Next]_vars PROVE TypeOK'
    OBVIOUS
  <2>1. CASE UNCHANGED vars
    BY <2>1 DEF vars, TypeOK
  <2> QED
    BY <2>1, WorkerTyped, FailureTyped, OthersTyped DEF Next
<1> QED
  BY <1>1, <1>2, PTL DEF FairSpec

-----------------------------------------------------------------------------
(* The backup labels.                                                      *)

\* With external storage there are no local claims, and that does not change.
StorageStays == spec.external = inst.external /\ (spec.external => local = {})

\* From the end of reconcilePVCLabels on the labels are complete, unless a claim has
\* come since and has asked for another pass.
LabelsInv ==
    /\ StorageStays
    /\ pc \in {"idle", "cleaner", "pruner", "cleanup"} /\ ~queued => labelled = local

\* Steps that leave the claims alone and neither end a pass before the labels are
\* done nor take a request from the queue.
LEMMA LabelsElsewhere ==
    ASSUME LabelsInv, UNCHANGED <<local, labelled>>, spec'.external = spec.external,
           inst'.external = inst.external, queued => queued',
           \/ queued' \/ pc' \in {"deploy", "labels"}
           \/ pc \in {"idle", "cleaner", "pruner", "cleanup"}
    PROVE  LabelsInv'
  BY DEF LabelsInv, StorageStays

\* Every step keeps LabelsInv.
LEMMA LabelsStep == ASSUME TypeOK, LabelsInv, [Next]_vars PROVE LabelsInv'
<1> USE DEF cluster, caches, Done, Retry
<1>0. queued \in BOOLEAN /\ labelled \subseteq local
  BY DEF TypeOK
<1>1. CASE UNCHANGED vars
  BY <1>1 DEF vars, LabelsInv, StorageStays
<1>2. CASE Reconcile
  BY <1>2 DEF Reconcile, LabelsInv, StorageStays
<1>3. CASE Deploy
  BY <1>3, LabelsElsewhere DEF Deploy
<1>4. CASE reconcilePVCLabels
  BY <1>0, <1>4 DEF reconcilePVCLabels, AfterLabels, LabelsInv, StorageStays
<1>5. CASE cleanupImageCacheJob \/ CleanupFails \/ GetPvcListFails
  BY <1>5, LabelsElsewhere DEF cleanupImageCacheJob, CleanupFails, GetPvcListFails
<1>6. ASSUME NEW t \in JobTypes, ensureImageCacheJob(t) \/ EnsureFails(t) PROVE LabelsInv'
  BY <1>6, LabelsElsewhere DEF JobTypes, ensureImageCacheJob, EnsureFails
<1>7. CASE LabelsFail
  <2>1. PICK S \in SUBSET local : labelled' = labelled \cup S
    BY <1>7 DEF LabelsFail
  <2> QED
    BY <1>7, <2>1 DEF LabelsFail, LabelsInv, StorageStays
<1>8. ASSUME NEW i \in Ordinals, PodStarts(i) PROVE LabelsInv'
  BY <1>8 DEF PodStarts, LabelsInv, StorageStays
<1>9. ASSUME NEW i \in Ordinals, PodStops(i) PROVE LabelsInv'
  BY <1>0, <1>9 DEF PodStops, LabelsInv, StorageStays
<1>10. CASE PodCacheSync \/ JobCacheSync \/ Resync
  BY <1>10 DEF PodCacheSync, JobCacheSync, Resync, LabelsInv, StorageStays
<1>11. CASE EditSpec
  BY <1>11 DEF EditSpec, LabelsInv, StorageStays
<1> QED
  BY <1>1, <1>2, <1>3, <1>4, <1>5, <1>6, <1>7, <1>8, <1>9, <1>10, <1>11
     DEF Next, Worker, Failure

\* When no pass is running or asked for, every local claim has its backup labels, for
\* any number of replicas, failures and changes of the spec.
THEOREM ClaimsLabelled == FairSpec => []QuietIsLabelled
<1>1. Init => LabelsInv
  BY DEF Init, LabelsInv, StorageStays
<1>2. TypeOK /\ LabelsInv /\ [Next]_vars => LabelsInv'
  BY LabelsStep
<1>3. LabelsInv => QuietIsLabelled
  BY DEF LabelsInv, QuietIsLabelled
<1> QED
  BY <1>1, <1>2, <1>3, TypeCorrect, PTL DEF FairSpec

=============================================================================
