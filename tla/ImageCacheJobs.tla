--------------------------- MODULE ImageCacheJobs ---------------------------
(***************************************************************************)
(* The last part of a pass over a GlanceAPI: backup labels on its local    *)
(* volume claims, and two cron jobs (cleaner and pruner) for every claim   *)
(* of the image cache.  Module GlanceAPI has the pass as a whole; here are *)
(* the claims, the pods and the cron jobs behind it, one per ordinal of    *)
(* the StatefulSet.                                                        *)
(*                                                                         *)
(* Claims outlive their pods, so that the claims do not tell which jobs    *)
(* are needed: a pass creates the jobs of every claim, and deletes those   *)
(* of claims without a pod.  Claims are listed in the API server, pods and *)
(* cron jobs in caches that may be behind; neither is watched.  What       *)
(* brings the next pass is a change of the spec, a change of the           *)
(* StatefulSet's status, an error, or the periodic resync.                 *)
(*                                                                         *)
(* Simplifications:                                                        *)
(*  - the StatefulSet is deployed in one step, with new claim templates if *)
(*    the cache is turned on or off (the refresh is in module GlanceAPI);  *)
(*  - the copy of the GlanceAPI that a pass reads is the current one;      *)
(*  - the content of the jobs is left out: a job that is there is not      *)
(*    patched.                                                             *)
(***************************************************************************)
EXTENDS Naturals

CONSTANTS
    MaxReplicas,   \* largest number of replicas
    MaxEdits, MaxFaults

ASSUME ConstantsAssumption ==
    MaxReplicas \in Nat /\ MaxEdits \in Nat /\ MaxFaults \in Nat

Ordinals == 0 .. MaxReplicas - 1
JobTypes == {"cleaner", "pruner"}

VARIABLES
    spec,       \* replicas, imageCache.size is set, storage is external
    queued,     \* the work queue holds a request
    pc, inst,   \* where the worker is; the spec it has read
    sts,        \* the StatefulSet: replicas, and what its claim templates have
    pod,        \* the pod of each ordinal: "none", with or without a cache claim
    seenPods,   \* ordinals whose pods are in the informer cache
    claims,     \* ordinals that have a claim of the image cache
    local,      \* ordinals that have a claim of local storage
    labelled,   \* those of them that have the backup labels
    jobs,       \* the cron jobs in the API server
    seenJobs,   \* the cron jobs in the informer cache
    edits, faults

cluster == <<sts, pod, claims, local, labelled, jobs>>
caches  == <<seenPods, seenJobs>>
vars    == <<spec, queued, pc, inst, sts, pod, seenPods, claims, local, labelled, jobs,
             seenJobs, edits, faults>>

SpecType == [replicas : 0 .. MaxReplicas, cache : BOOLEAN, external : BOOLEAN]
StsType  == [exists : BOOLEAN, replicas : 0 .. MaxReplicas, cache : BOOLEAN,
             labels : BOOLEAN]

TypeOK ==
    /\ spec \in SpecType /\ inst \in SpecType
    /\ queued \in BOOLEAN
    /\ pc \in {"idle", "deploy", "labels", "cleaner", "pruner", "cleanup"}
    /\ sts \in StsType
    /\ pod \in [Ordinals -> {"none", "plain", "cached"}]
    /\ seenPods \subseteq Ordinals /\ claims \subseteq Ordinals
    /\ labelled \subseteq local /\ local \subseteq Ordinals
    /\ jobs \subseteq claims \X JobTypes /\ seenJobs \subseteq Ordinals \X JobTypes
    /\ edits \in 0 .. MaxEdits /\ faults \in 0 .. MaxFaults

Running == {i \in Ordinals : pod[i] # "none"}

\* Nothing is deployed yet, or the operator has been upgraded: the StatefulSet of
\* the old one is there, whose claim templates have no backup labels.
Init ==
    /\ spec \in SpecType
    /\ \/ /\ sts = [exists |-> FALSE, replicas |-> 0, cache |-> FALSE, labels |-> FALSE]
          /\ pod = [i \in Ordinals |-> "none"]
       \/ /\ sts = [exists |-> TRUE, replicas |-> spec.replicas, cache |-> spec.cache,
                    labels |-> FALSE]
          /\ pod = [i \in Ordinals |-> IF i >= spec.replicas THEN "none"
                                       ELSE IF spec.cache THEN "cached" ELSE "plain"]
    /\ local = IF spec.external THEN {} ELSE Running
    /\ claims = {i \in Ordinals : pod[i] = "cached"}
    /\ labelled = {}
    /\ jobs = claims \X JobTypes
    /\ seenPods = Running /\ seenJobs = jobs
    /\ queued = TRUE /\ pc = "idle" /\ inst = spec
    /\ edits = 0 /\ faults = 0

-----------------------------------------------------------------------------
(* A pass.                                                                 *)

\* The pass ends: normally, or with an error that brings the next one.
Done  == pc' = "idle" /\ UNCHANGED queued
Retry == pc' = "idle" /\ queued' = TRUE

Reconcile ==
    /\ pc = "idle" /\ queued
    /\ queued' = FALSE /\ pc' = "deploy" /\ inst' = spec
    /\ UNCHANGED <<spec, cluster, caches, edits, faults>>

\* The claim templates of a StatefulSet are those it was created with.
Deploy ==
    /\ pc = "deploy"
    /\ sts' = [exists |-> TRUE, replicas |-> inst.replicas, cache |-> inst.cache,
               labels |-> IF sts.exists /\ sts.cache = inst.cache THEN sts.labels ELSE TRUE]
    /\ pc' = "labels" /\ UNCHANGED queued
    /\ UNCHANGED <<spec, inst, pod, claims, local, labelled, jobs, caches, edits, faults>>

\* With an image cache, jobs are ensured before others are cleaned up.
AfterLabels == pc' = IF inst.cache THEN "cleaner" ELSE "cleanup"

\* Mutated reconcilePVCLabels: the first claim of the cache ends the loop.
reconcilePVCLabelsStops ==
    /\ pc = "labels"
    /\ labelled' = IF inst.external \/ claims # {} THEN labelled ELSE local
    /\ AfterLabels
    /\ UNCHANGED <<spec, queued, inst, sts, pod, claims, local, jobs, caches, edits, faults>>

\* Unless storage is external, the claims that are not of the cache are labelled.
reconcilePVCLabels ==
    /\ pc = "labels"
    /\ labelled' = IF inst.external THEN labelled ELSE local
    /\ AfterLabels
    /\ UNCHANGED <<spec, queued, inst, sts, pod, claims, local, jobs, caches, edits, faults>>

\* A job is named after the pod of its claim, whose node it shares, and its type.
ImageCacheJob(i, t) == <<i, t>>

\* Mutated Missing: the replicas are gone through, not the claims.
MissingByReplicas(t) == {i \in Ordinals : i < inst.replicas /\ ImageCacheJob(i, t) \notin seenJobs}

\* CreateOrPatch of one type of job for every claim, in the order of their names:
\* nothing for a job in the cache, else it is created, which fails if the API
\* server has it.
Missing(t) == {i \in claims : ImageCacheJob(i, t) \notin seenJobs}
Conflicts(t) == {i \in Missing(t) : ImageCacheJob(i, t) \in jobs}

ensureImageCacheJob(t) ==
    /\ pc = t
    /\ jobs' = jobs \cup {ImageCacheJob(i, t) :
                             i \in {k \in Missing(t) : \A c \in Conflicts(t) : k < c}}
    /\ IF Conflicts(t) # {} THEN Retry
       ELSE pc' = (IF t = "cleaner" THEN "pruner" ELSE "cleanup") /\ UNCHANGED queued
    /\ UNCHANGED <<spec, inst, sts, pod, claims, local, labelled, caches, edits, faults>>

\* The claims whose jobs are not needed: without a pod, or without a cache.
Unused == {i \in claims : i \notin seenPods \/ ~inst.cache}

\* deleteJob: a job that is not in the cache is passed over.
deleteJobs(S) == jobs' = jobs \ {j \in seenJobs : j[1] \in S}

\* Mutated cleanupImageCacheJob: only claims without a pod are looked at.
cleanupImageCacheJobByPod ==
    /\ pc = "cleanup"
    /\ deleteJobs(claims \ seenPods)
    /\ Done
    /\ UNCHANGED <<spec, inst, sts, pod, claims, local, labelled, caches, edits, faults>>

\* Mutated cleanupImageCacheJob: jobs are deleted whether or not there is a pod.
cleanupImageCacheJobAll ==
    /\ pc = "cleanup"
    /\ deleteJobs(claims)
    /\ Done
    /\ UNCHANGED <<spec, inst, sts, pod, claims, local, labelled, caches, edits, faults>>

cleanupImageCacheJob ==
    /\ pc = "cleanup"
    /\ deleteJobs(Unused)
    /\ Done
    /\ UNCHANGED <<spec, inst, sts, pod, claims, local, labelled, caches, edits, faults>>

-----------------------------------------------------------------------------
(* Failures: a call fails after some of the loop is done, and the pass     *)
(* returns the error; or the claims cannot be listed, which is not looked  *)
(* at before the list is used, and the pass panics.                        *)

Fault == faults < MaxFaults /\ faults' = faults + 1

LabelsFail ==
    /\ pc = "labels" /\ ~inst.external /\ Fault
    /\ \E S \in SUBSET local : labelled' = labelled \cup S
    /\ Retry
    /\ UNCHANGED <<spec, inst, sts, pod, claims, local, jobs, caches, edits>>

EnsureFails(t) ==
    /\ pc = t /\ Fault
    /\ \E n \in Ordinals : jobs' = jobs \cup {ImageCacheJob(i, t) :
                                              i \in {k \in Missing(t) : k < n}}
    /\ Retry
    /\ UNCHANGED <<spec, inst, sts, pod, claims, local, labelled, caches, edits>>

\* Claims in the order of their names, of each claim the pruner first.
CleanupFails ==
    /\ pc = "cleanup" /\ Fault
    /\ \E n \in Ordinals, half \in SUBSET {"pruner"} :
         LET before(j) == j[1] < n \/ (j[1] = n /\ j[2] \in half)
         IN jobs' = jobs \ {j \in seenJobs : j[1] \in Unused /\ before(j)}
    /\ Retry
    /\ UNCHANGED <<spec, inst, sts, pod, claims, local, labelled, caches, edits>>

GetPvcListFails ==
    /\ pc \in {"cleaner", "pruner", "cleanup"} /\ Fault
    /\ Retry
    /\ UNCHANGED <<spec, inst, cluster, caches, edits>>

-----------------------------------------------------------------------------
(* The rest of the cluster.                                                *)

Kind == IF sts.cache THEN "cached" ELSE "plain"
Due(i) == sts.exists /\ i < sts.replicas

\* The StatefulSet controller creates the claims and the pod of an ordinal, or
\* deletes the pod; the status of the StatefulSet shows it, but not the end of a
\* pod of an earlier StatefulSet.
PodStarts(i) ==
    /\ Due(i) /\ pod[i] = "none"
    /\ pod' = [pod EXCEPT ![i] = Kind]
    /\ claims' = IF sts.cache THEN claims \cup {i} ELSE claims
    /\ local' = IF spec.external THEN local ELSE local \cup {i}
    /\ labelled' = IF i \notin local /\ sts.labels /\ ~spec.external
                   THEN labelled \cup {i} ELSE labelled
    /\ queued' = TRUE
    /\ UNCHANGED <<spec, pc, inst, sts, jobs, caches, edits, faults>>

PodStops(i) ==
    /\ pod[i] # "none" /\ ~(Due(i) /\ pod[i] = Kind)
    /\ pod' = [pod EXCEPT ![i] = "none"]
    /\ queued' = (queued \/ pod[i] = Kind)
    /\ UNCHANGED <<spec, pc, inst, sts, claims, local, labelled, jobs, caches, edits, faults>>

\* Watch events bring a cache up to date; they queue nothing.
PodCacheSync ==
    /\ seenPods # Running /\ seenPods' = Running
    /\ UNCHANGED <<spec, queued, pc, inst, cluster, seenJobs, edits, faults>>

JobCacheSync ==
    /\ seenJobs # jobs /\ seenJobs' = jobs
    /\ UNCHANGED <<spec, queued, pc, inst, cluster, seenPods, edits, faults>>

\* The informers report every object again from time to time.
Resync ==
    /\ ~queued /\ queued' = TRUE
    /\ UNCHANGED <<spec, pc, inst, cluster, caches, edits, faults>>

\* The user scales the GlanceAPI, or turns its image cache on or off.
EditSpec ==
    /\ edits < MaxEdits /\ edits' = edits + 1
    /\ \E s \in SpecType : s # spec /\ s.external = spec.external /\ spec' = s
    /\ queued' = TRUE
    /\ UNCHANGED <<pc, inst, cluster, caches, faults>>

-----------------------------------------------------------------------------
(* The specification.                                                      *)

Worker == \/ Reconcile \/ Deploy \/ reconcilePVCLabels
          \/ \E t \in JobTypes : ensureImageCacheJob(t)
          \/ cleanupImageCacheJob

Failure == \/ LabelsFail \/ CleanupFails \/ GetPvcListFails
           \/ \E t \in JobTypes : EnsureFails(t)

Next == \/ Worker \/ Failure \/ EditSpec
        \/ \E i \in Ordinals : PodStarts(i) \/ PodStops(i)
        \/ PodCacheSync \/ JobCacheSync \/ Resync

\* The worker goes on, pods come and go as the StatefulSet says, caches follow,
\* and resyncs do not cease.
Fairness == /\ WF_vars(Worker) /\ WF_vars(Resync)
            /\ WF_vars(PodCacheSync) /\ WF_vars(JobCacheSync)
            /\ \A i \in Ordinals : WF_vars(PodStarts(i)) /\ WF_vars(PodStops(i))

FairSpec == Init /\ [][Next]_vars /\ Fairness

-----------------------------------------------------------------------------
(* Properties.                                                             *)

\* The jobs that are needed: for each pod with a cache.
Needed == IF spec.cache THEN {i \in Ordinals : pod[i] = "cached"} \X JobTypes ELSE {}

\* In the end every pod with an image cache has its cleaner and its pruner, and
\* keeps them, although a pass may have looked for the pod too early and deleted
\* them, or taken a job that is gone for one that is there.
PodsKeepJobs == <>[](Needed \subseteq jobs)

\* No job that is not needed (any more) stays: it is deleted in the end, also after
\* a scale-down, whose claims remain, and when the cache is turned off ("Cleanup
\* existing (but not required anymore) ImageCache cronJob").  It may come back: as
\* long as there is the claim, every pass creates the job and deletes it again, or
\* leaves that to the next pass if the cache does not show the job yet.
UnneededJobsGo == \A j \in Ordinals \X JobTypes : []<>(j \in jobs => j \in Needed)

\* When no pass is running or asked for, every local claim has the backup labels: a
\* failure half-way through reconcilePVCLabels, and a claim that comes after it, have
\* brought another pass ("for upgrades where VolumeClaimTemplate labels were not set at
\* creation time").
QuietIsLabelled == pc = "idle" /\ ~queued => labelled = local

\* In the end all local claims have the backup labels, also those that were
\* created from claim templates without them.
LocalClaimsLabelled == <>[](labelled = local)

=============================================================================
