------------------------- MODULE GlanceSettledProofs -------------------------
(***************************************************************************)
(* Proofs about what a Glance is once nothing is left to do, for any       *)
(* number of APIs, edits, crashes and faults.  PassInv says what a pass    *)
(* has done that nothing has overtaken; it rests on LifeCycleInv and on    *)
(* APIsInContract.  Two invariants of their own follow: the registered     *)
(* limits are held by the finalizer (LimitsHeld), and the condition that a *)
(* pass mirrors is that of a GlanceAPI it has seen (MirrorInv).            *)
(***************************************************************************)
EXTENDS GlanceContractProofs

-----------------------------------------------------------------------------
(* What one step does to one GlanceAPI, seen from the cache.               *)

Change(o) ==
    \/ api'[o] = api[o]
    \/ ~seen[o].exists /\ ~api[o].exists /\ api'[o].exists /\ ~api'[o].deleting
    \/ /\ seen[o] = api[o] /\ seen[o].exists
       /\ api'[o].exists /\ api'[o].deleting = api[o].deleting /\ api'[o].gen >= api[o].gen
    \/ (seen[o].exists \/ ~glance.exists) /\ api'[o] = Deleted(api[o])
    \/ /\ api'[o].exists = api[o].exists /\ api'[o].deleting = api[o].deleting
       /\ api'[o].gen = api[o].gen /\ api'[o].endpoint = api[o].endpoint
    \/ api[o].deleting /\ api'[o] = NoAPI

LEMMA APITypes ==
    ASSUME TypeOK, NEW o \in APIs
    PROVE  /\ api[o] \in APIType /\ seen[o] \in APIType /\ NoAPI \in APIType
           /\ api[o].exists \in BOOLEAN /\ seen[o].exists \in BOOLEAN
           /\ api[o].deleting \in BOOLEAN /\ seen[o].deleting \in BOOLEAN
           /\ api[o].endpoint \in BOOLEAN /\ seen[o].endpoint \in BOOLEAN
           /\ api[o].gen \in Nat /\ seen[o].gen \in Nat
  BY ImagesExist, NothingTyped DEF TypeOK, APIType

\* The loop over the APIs: a write is made from the current version.
LEMMA DeploymentChange ==
    ASSUME TypeOK, DeployingWanted, APIDeployment, NEW o \in APIs PROVE Change(o)
<1> DEFINE p == First(todo)
<1>1. /\ api' = IF UpToDate(p) THEN api ELSE [api EXCEPT ![p] = Written(p)]
      /\ ~WriteFails(p) /\ pc = "apiDeployment"
  BY DEF APIDeployment
<1>2. p \in APIs /\ inst.spec \in SpecType
  BY <1>1, Deploying DEF TypeOK, GlanceType
<1> HIDE DEF p
<1>3. CASE UpToDate(p) \/ o # p
  <2>1. api'[o] = api[o]
    BY <1>1, <1>2, <1>3 DEF TypeOK
  <2> QED
    BY <2>1 DEF Change
<1>4. CASE ~UpToDate(p) /\ o = p
  <2>1. api'[o] = Written(o)
    BY <1>1, <1>2, <1>4 DEF TypeOK
  <2>2. CASE seen[o].exists
    <3>1. seen[o] = api[o]
      BY <1>1, <1>4, <2>2 DEF WriteFails
    <3>2. api'[o] = Desired(o, inst.spec, api[o])
      BY <1>4, <2>1, <2>2, <3>1 DEF Written
    <3>3. /\ api'[o].exists = api[o].exists /\ api'[o].deleting = api[o].deleting
          /\ api'[o].gen \in {api[o].gen, api[o].gen + 1}
      BY <1>2, <3>2, APITypes, DesiredTyped
    <3>4. api'[o].gen >= api[o].gen
      BY <3>3, APITypes
    <3> QED
      BY <2>2, <3>1, <3>3, <3>4 DEF Change
  <2>3. CASE ~seen[o].exists
    <3>1. ~api[o].exists
      BY <1>1, <1>4, <2>3 DEF WriteFails
    <3>2. api'[o] = Created(o, inst.spec)
      BY <1>4, <2>1, <2>3 DEF Written
    <3>3. api'[o].exists /\ ~api'[o].deleting
      BY <1>2, <3>2, APITypes, CreatedTyped
    <3> QED
      BY <2>3, <3>1, <3>3 DEF Change
  <2> QED
    BY <2>2, <2>3
<1> QED
  BY <1>3, <1>4

\* The GlanceAPI controller and the garbage collector.
LEMMA ClusterChange ==
    ASSUME TypeOK, NEW p \in APIs, APIController(p) \/ APICollected(p) \/ APIReports(p),
           NEW o \in APIs
    PROVE  Change(o)
<1>1. api[o] \in APIType
  BY APITypes
<1>2. CASE o # p
  <2>1. PICK b : api' = [api EXCEPT ![p] = b]
    BY APIStepTyped
  <2>2. api'[o] = api[o]
    BY <1>2, <2>1 DEF TypeOK
  <2> QED
    BY <2>2 DEF Change
<1>3. ASSUME NEW a \in APIType, api' = [api EXCEPT ![o] = a],
             a.exists = api[o].exists, a.deleting = api[o].deleting, a.gen = api[o].gen,
             a.endpoint = api[o].endpoint
      PROVE  Change(o)
  <2>1. api'[o] = a
    BY <1>3 DEF TypeOK
  <2> QED
    BY <1>3, <2>1 DEF Change
<1>4. CASE o = p /\ APIObserves(p)
  <2>1. PICK r \in BOOLEAN :
            api' = [api EXCEPT ![o] = [api[o] EXCEPT !.new = FALSE,
                                                     !.observed = api[o].gen, !.ready = r]]
    BY <1>4 DEF APIObserves
  <2> DEFINE a == [api[o] EXCEPT !.new = FALSE, !.observed = api[o].gen, !.ready = r]
  <2>2. /\ a \in APIType /\ a.exists = api[o].exists /\ a.deleting = api[o].deleting
        /\ a.gen = api[o].gen /\ a.endpoint = api[o].endpoint
    BY <1>1 DEF APIType
  <2>3. api' = [api EXCEPT ![o] = a]
    BY <2>1
  <2> HIDE DEF a
  <2> QED
    BY <1>3, <2>2, <2>3
<1>5. CASE o = p /\ APIBecomesReady(p)
  <2> DEFINE a == [api[o] EXCEPT !.ready = TRUE]
  <2>1. api' = [api EXCEPT ![o] = a]
    BY <1>5 DEF APIBecomesReady
  <2>2. /\ a \in APIType /\ a.exists = api[o].exists /\ a.deleting = api[o].deleting
        /\ a.gen = api[o].gen /\ a.endpoint = api[o].endpoint
    BY <1>1 DEF APIType
  <2> HIDE DEF a
  <2> QED
    BY <1>3, <2>1, <2>2
<1>6. CASE o = p /\ APIReports(p)
  <2>1. PICK a \in Contract!Reports(api[o]) : api' = [api EXCEPT ![o] = a]
    BY <1>6 DEF APIReports
  <2> QED
    BY <1>1, <1>3, <2>1, ReportTyped
<1>7. CASE o = p /\ APIFinalized(p)
  BY <1>7 DEF APIFinalized, Change, TypeOK
<1>8. CASE o = p /\ APICollected(p)
  BY <1>8 DEF APICollected, Change, TypeOK
<1> QED
  BY <1>2, <1>4, <1>5, <1>6, <1>7, <1>8 DEF APIController

\* All steps.
LEMMA AnyChange ==
    ASSUME TypeOK, DeployingWanted, [Next]_vars, NEW o \in APIs PROVE Change(o)
<1>1. CASE APIDeployment
  BY <1>1, DeploymentChange
<1>2. CASE GlanceAPICleanup \/ GlanceAPICleanupFails
  <2>1. PICK S \in SUBSET Removed : Cleanup(S)
    BY <1>2 DEF GlanceAPICleanup, GlanceAPICleanupFails
  <2>2. api'[o] = IF o \in S THEN Deleted(api[o]) ELSE api[o]
    BY <2>1 DEF Cleanup
  <2>3. o \in S => seen[o].exists
    BY DEF Removed
  <2> QED
    BY <2>2, <2>3 DEF Change
<1>3. ASSUME NEW p \in APIs, APIController(p) \/ APICollected(p) \/ APIReports(p)
      PROVE  Change(o)
  BY <1>3, ClusterChange
<1>4. CASE UNCHANGED api
  BY <1>4 DEF Change
<1>5. CASE Worker
  BY <1>1, <1>2, <1>4, <1>5 DEF Worker, server, ReconcileNotFound, Reconcile, VerifyInputs,
     EnsureDB, ReconcileInit, APIDeploymentFails, Finish, DeleteDBFinalizer,
     DeleteServiceFinalizer, DeleteLimits, PatchInstance
<1>6. CASE Cluster
  BY <1>3, <1>4, <1>6 DEF Cluster, server, CacheSync, APICacheSync, InputAppears
<1>7. CASE Failure
  BY <1>2, <1>3, <1>4, <1>7 DEF Failure, server, CallFails, PatchFails, Crash
<1>8. CASE User
  BY <1>4, <1>8 DEF User, EditSpec, DeleteGlance
<1>9. CASE UNCHANGED vars
  BY <1>4, <1>9 DEF vars
<1> QED
  BY <1>5, <1>6, <1>7, <1>8, <1>9 DEF Next

-----------------------------------------------------------------------------
(* What stays visible.                                                     *)

\* The fields of a GlanceAPI that is deleted.
LEMMA DeletedFields ==
    ASSUME NEW a \in APIType
    PROVE  \/ ~Deleted(a).exists /\ Deleted(a).deleting = FALSE
           \/ a.exists /\ a.deleting /\ Deleted(a) = a
           \/ /\ a.exists /\ Deleted(a).exists = a.exists /\ Deleted(a).deleting = TRUE
              /\ Deleted(a).gen = a.gen + 1
<1> DEFINE g == a.gen + 1
           m == [a EXCEPT !.deleting = TRUE, !.gen = g]
<1>1. g \in Nat
  BY DEF APIType
<1>2. m.exists = a.exists /\ m.deleting = TRUE /\ m.gen = g
  <2> HIDE DEF g
  <2> QED
    BY <1>1 DEF APIType
<1>3. \/ Deleted(a) = NoAPI
      \/ a.exists /\ a.deleting /\ Deleted(a) = a
      \/ a.exists /\ Deleted(a) = m
  BY DEF Deleted
<1>4. ~NoAPI.exists /\ NoAPI.deleting = FALSE
  BY DEF NoAPI
<1> HIDE DEF m
<1> QED
  BY <1>2, <1>3, <1>4

\* A GlanceAPI that has moved away from the cached version does not come back to it.
LEMMA AheadKept ==
    ASSUME TypeOK, TypeOK', VersionsInOrder, glance.exists, NEW o \in APIs, Change(o),
           seen'[o] = seen[o], Ahead(o)
    PROVE  Ahead(o)'
<1> DEFINE a == api[o]
           b == api'[o]
           c == seen[o]
<1>1. /\ a \in APIType /\ a.exists \in BOOLEAN /\ b.exists \in BOOLEAN /\ c.exists \in BOOLEAN
      /\ a.deleting \in BOOLEAN /\ b.deleting \in BOOLEAN /\ c.deleting \in BOOLEAN
      /\ a.gen \in Nat /\ b.gen \in Nat /\ c.gen \in Nat
  BY DEF TypeOK, APIType
<1>2. c.exists /\ a.exists => c.gen <= a.gen
  BY DEF VersionsInOrder
<1>3. a.deleting => c.exists
  BY DEF VersionsInOrder
<1>4. \/ a.exists # c.exists
      \/ c.exists /\ (a.gen > c.gen \/ a.endpoint # c.endpoint \/ a.deleting # c.deleting)
  BY DEF Ahead
<1>5. \/ b = a
      \/ ~c.exists /\ ~a.exists
      \/ c = a
      \/ c.exists /\ b = Deleted(a)
      \/ /\ b.exists = a.exists /\ b.deleting = a.deleting
         /\ b.gen = a.gen /\ b.endpoint = a.endpoint
      \/ a.deleting /\ b = NoAPI
  BY DEF Change
<1>6. ~NoAPI.exists
  BY DEF NoAPI
<1>7. \/ b.exists # c.exists
      \/ c.exists /\ (b.gen > c.gen \/ b.endpoint # c.endpoint \/ b.deleting # c.deleting)
  <2> HIDE DEF a, b, c
  <2>1. CASE c.exists /\ b = Deleted(a)
    <3>1. \/ ~b.exists
          \/ a.deleting /\ b = a
          \/ a.exists /\ b.gen = a.gen + 1
      BY <1>1, <2>1, DeletedFields
    <3>2. a.exists /\ b.gen = a.gen + 1 => b.gen > c.gen
      BY <1>1, <1>2, <2>1
    <3>3. CASE b = a
      BY <1>4, <3>3
    <3> QED
      BY <2>1, <3>1, <3>2, <3>3
  <2>2. CASE c = a
    BY <1>1, <1>4, <2>2
  <2> QED
    BY <1>1, <1>3, <1>4, <1>5, <1>6, <2>1, <2>2
<1> QED
  BY <1>7 DEF Ahead

\* The order of versions is kept.
LEMMA VersionsKept ==
    ASSUME TypeOK, TypeOK', APIsInContract', VersionsInOrder,
           \A o \in APIs : Change(o), glance'.exists => glance.exists,
           \A o \in APIs : seen'[o] = seen[o] \/ (seen'[o] = api[o] /\ api'[o] = api[o])
    PROVE  VersionsInOrder'
<1> SUFFICES ASSUME NEW o \in APIs
             PROVE  /\ seen'[o].exists /\ api'[o].exists => seen'[o].gen <= api'[o].gen
                    /\ glance'.exists /\ api'[o].deleting => seen'[o].exists
  BY DEF VersionsInOrder
<1> DEFINE a == api[o]
           b == api'[o]
           c == seen[o]
<1>1. /\ a \in APIType /\ a.exists \in BOOLEAN /\ b.exists \in BOOLEAN /\ c.exists \in BOOLEAN
      /\ a.deleting \in BOOLEAN /\ b.deleting \in BOOLEAN /\ c.deleting \in BOOLEAN
      /\ a.gen \in Nat /\ b.gen \in Nat /\ c.gen \in Nat
  BY DEF TypeOK, APIType
<1>2. CASE seen'[o] = api[o] /\ api'[o] = api[o]
  <2>1. b.deleting => b.exists
    BY DEF APIsInContract, InContract, NoAPI
  <2> QED
    BY <1>1, <1>2, <2>1
<1>3. CASE seen'[o] = c
  <2>1. /\ c.exists /\ a.exists => c.gen <= a.gen
        /\ glance'.exists /\ a.deleting => c.exists
    BY DEF VersionsInOrder
  <2>2. \/ b = a
        \/ ~c.exists /\ ~b.deleting
        \/ c = a /\ c.exists /\ b.gen >= a.gen
        \/ (c.exists \/ ~glance'.exists) /\ b = Deleted(a)
        \/ b.exists = a.exists /\ b.deleting = a.deleting /\ b.gen = a.gen
        \/ b = NoAPI
    BY DEF Change
  <2>3. ~NoAPI.exists /\ ~NoAPI.deleting
    BY DEF NoAPI
  <2>4. /\ c.exists /\ b.exists => c.gen <= b.gen
        /\ glance'.exists /\ b.deleting => c.exists
    <3> HIDE DEF a, b, c
    <3>1. CASE (c.exists \/ ~glance'.exists) /\ b = Deleted(a)
      <4>1. \/ ~b.exists
            \/ b = a
            \/ a.exists /\ b.gen = a.gen + 1
        BY <1>1, DeletedFields, <3>1
      <4>2. c.exists /\ b.exists => c.gen <= b.gen
        BY <1>1, <2>1, <4>1
      <4> QED
        BY <3>1, <4>2, <2>1
    <3> QED
      BY <1>1, <2>1, <2>2, <2>3, <3>1
  <2> QED
    BY <1>3, <2>4
<1> QED
  BY <1>2, <1>3

\* What a pass has dealt with stays dealt with.
LEMMA DealtKept ==
    ASSUME TypeOK, TypeOK', VersionsInOrder, glance.exists, UNCHANGED seen,
           \A o \in APIs : Change(o)
    PROVE  /\ \A o \in APIs : \A s : Dealt(o, s) => Dealt(o, s)'
           /\ \A s : Deployed(s) => Deployed(s)'
           /\ \A s : CleanedUp(s) => CleanedUp(s)'
<1>1. \A o \in APIs : Ahead(o) => Ahead(o)'
  BY AheadKept
<1>2. \A o \in APIs : \A s : Dealt(o, s) => Dealt(o, s)'
  BY <1>1 DEF Dealt
<1>3. ASSUME NEW s, Deployed(s) PROVE Deployed(s)'
  BY <1>2, <1>3 DEF Deployed, Wanted
<1>4. ASSUME NEW s, CleanedUp(s) PROVE CleanedUp(s)'
  BY <1>1, <1>4 DEF CleanedUp
<1> QED
  BY <1>2, <1>3, <1>4

-----------------------------------------------------------------------------
(* The steps of a pass.                                                    *)

PassStep == \/ VerifyInputs \/ EnsureDB \/ ReconcileInit \/ APIDeployment
            \/ APIDeploymentFails \/ GlanceAPICleanup \/ GlanceAPICleanupFails \/ Finish
            \/ DeleteDBFinalizer \/ DeleteServiceFinalizer \/ DeleteLimits \/ CallFails

\* What the steps of a pass have in common: they keep the version that was read and
\* its spec, and set the Ready condition last.
LEMMA PassStepFacts ==
    ASSUME TypeOK, PassStep
    PROVE  /\ pc \notin {"idle", "patch"} /\ pc' # "idle"
           /\ UNCHANGED <<glance, gcache, seen, before>>
           /\ queued => queued'
           /\ inst'.spec = inst.spec
           /\ inst'.status.ready = inst.status.ready \/ (Finish /\ pc' = "patch")
           /\ pc' = "cleanup" => todo' = {}
           /\ pc' = "finish" => pc = "cleanup" /\ UNCHANGED todo
<1> USE DEF server, caches
<1>1. inst \in GlanceType /\ queued \in BOOLEAN
  BY DEF TypeOK
<1>2. CASE VerifyInputs \/ EnsureDB \/ ReconcileInit \/ APIDeploymentFails
           \/ DeleteDBFinalizer \/ DeleteServiceFinalizer \/ CallFails
  <2>1. CASE VerifyInputs \/ EnsureDB
    BY <1>1, <2>1 DEF VerifyInputs, EnsureDB, Proceed, Return
  <2>2. CASE ReconcileInit \/ APIDeploymentFails
    BY <1>1, <2>2 DEF ReconcileInit, APIDeploymentFails, DeployNext, Proceed, Return
  <2>3. CASE DeleteDBFinalizer \/ DeleteServiceFinalizer \/ CallFails
    BY <2>3 DEF DeleteDBFinalizer, DeleteServiceFinalizer, CallFails, Proceed, Return, Steps
  <2> QED
    BY <1>2, <2>1, <2>2, <2>3
<1>3. ASSUME NEW k, inst' = [inst EXCEPT !.status.keys = k]
      PROVE  inst'.spec = inst.spec /\ inst'.status.ready = inst.status.ready
  BY <1>1, <1>3 DEF GlanceType, StatusType
<1>4. CASE APIDeployment
  <2>1. inst'.spec = inst.spec /\ inst'.status.ready = inst.status.ready
    BY <1>3, <1>4 DEF APIDeployment
  <2> QED
    BY <1>4, <2>1 DEF APIDeployment, DeployNext, Proceed
<1>5. CASE GlanceAPICleanup \/ GlanceAPICleanupFails
  <2>1. PICK S : Cleanup(S)
    BY <1>5, Zenon DEF GlanceAPICleanup, GlanceAPICleanupFails
  <2>2. inst'.spec = inst.spec /\ inst'.status.ready = inst.status.ready
    BY <1>3, <2>1, Zenon DEF Cleanup
  <2> QED
    BY <1>5, <2>2 DEF GlanceAPICleanup, GlanceAPICleanupFails, Proceed, Return
<1>6. CASE Finish
  <2>1. inst'.spec = inst.spec
    BY <1>1, <1>6, SpecKept DEF Finish
  <2> QED
    BY <1>6, <2>1 DEF Finish, Return
<1>7. CASE DeleteLimits
  <2>1. inst'.spec = inst.spec /\ inst'.status.ready = inst.status.ready
    BY <1>1, <1>7 DEF DeleteLimits, GlanceType
  <2> QED
    BY <1>7, <2>1 DEF DeleteLimits, Return
<1> QED
  BY <1>2, <1>4, <1>5, <1>6, <1>7 DEF PassStep

\* What the other steps do to the worker and to the caches.
Elsewhere ==
    /\ UNCHANGED <<glance, gcache, seen, worker>>
    /\ queued => queued' \/ (pc = "idle" /\ ~gcache.exists)
    /\ "badSecret" \in missing /\ "badSecret" \notin missing' => queued'

\* Every step is one of these.
LEMMA KindsOfSteps ==
    ASSUME TypeOK, [Next]_vars
    PROVE  \/ PassStep \/ Reconcile \/ PatchInstance \/ PatchFails \/ Crash
           \/ CacheSync \/ (\E o \in APIs : APICacheSync(o))
           \/ EditSpec \/ DeleteGlance
           \/ Elsewhere
<1> USE DEF server, caches, worker, env
<1>1. ASSUME NEW o \in APIs, APIController(o) \/ APICollected(o) \/ APIReports(o)
      PROVE  Elsewhere
  BY <1>1, APIStepTyped DEF Elsewhere
<1>2. ASSUME NEW i \in InputNames, InputAppears(i) PROVE Elsewhere
  BY <1>2 DEF InputAppears, Elsewhere
<1>3. CASE UNCHANGED vars \/ ReconcileNotFound
  BY <1>3 DEF vars, ReconcileNotFound, Elsewhere
<1>4. CASE Worker
  BY <1>3, <1>4, Zenon DEF Worker, PassStep
<1>5. CASE Cluster
  BY <1>1, <1>2, <1>5, Zenon DEF Cluster
<1>6. CASE Failure
  BY <1>1, <1>6, Zenon DEF Failure, PassStep
<1> QED
  BY <1>3, <1>4, <1>5, <1>6 DEF Next, User

-----------------------------------------------------------------------------
(* The order of versions and of passes.                                    *)

\* What the user does makes a new version, or ends the object.
LEMMA UserVersion ==
    ASSUME TypeOK, EditSpec \/ DeleteGlance
    PROVE  /\ glance.exists
           /\ glance'.exists => glance'.gen = glance.gen + 1
           /\ UNCHANGED <<gcache, seen, pc, before, inst, todo, exit, queued, missing>>
<1> DEFINE n == glance.gen + 1
<1>1. glance \in GlanceType /\ n \in Nat
  BY DEF TypeOK, GlanceType
<1>2. /\ \A s : [glance EXCEPT !.spec = s, !.gen = n].gen = n
      /\ [glance EXCEPT !.deleting = TRUE, !.gen = n].gen = n
  <2> HIDE DEF n
  <2> QED
    BY <1>1 DEF GlanceType
<1>3. EditSpec => glance'.gen = n
  BY <1>2 DEF EditSpec
<1>4. DeleteGlance => glance'.gen = n \/ ~glance'.exists
  BY <1>2, NoGlanceFields DEF DeleteGlance
<1> QED
  BY <1>3, <1>4 DEF EditSpec, DeleteGlance, UserMayEdit, UserMayAct, caches, worker

\* A Glance that is gone does not come back, and its generation grows; the caches
\* take over versions of the API server.
LEMMA VersionSteps ==
    ASSUME TypeOK, [Next]_vars
    PROVE  /\ glance'.exists => glance.exists /\ glance.gen <= glance'.gen
           /\ \A o \in APIs : seen'[o] = seen[o] \/ (seen'[o] = api[o] /\ api'[o] = api[o])
           /\ UNCHANGED gcache \/ (gcache' = glance /\ UNCHANGED glance)
<1> USE DEF server, caches
<1>1. glance.gen \in Nat /\ gcache.gen \in Nat
  BY DEF TypeOK, GlanceType
<1>2. CASE PassStep \/ Reconcile \/ Elsewhere \/ PatchFails
  <2>1. UNCHANGED <<glance, gcache, seen>>
    BY <1>2, PassStepFacts DEF Reconcile, Elsewhere, PatchFails
  <2> QED
    BY <1>1, <2>1
<1>3. CASE EditSpec \/ DeleteGlance
  BY <1>1, <1>3, UserVersion
<1>4. CASE PatchInstance
  <2>1. UNCHANGED <<gcache, seen>>
    BY <1>4 DEF PatchInstance
  <2>2. glance' \in {glance, NoGlance, MergePatch}
    BY <1>4 DEF PatchInstance
  <2>3. MergePatch.exists = glance.exists /\ MergePatch.gen = glance.gen
    BY MergePatchTyped DEF TypeOK
  <2> QED
    BY <1>1, <2>1, <2>2, <2>3, NoGlanceFields
<1>5. CASE Crash \/ CacheSync
  BY <1>1, <1>5 DEF Crash, CacheSync
<1>6. ASSUME NEW p \in APIs, APICacheSync(p)
      PROVE  /\ UNCHANGED <<glance, gcache, api>>
             /\ \A o \in APIs : seen'[o] = seen[o] \/ seen'[o] = api[o]
  BY <1>6 DEF APICacheSync, TypeOK
<1> QED
  BY <1>1, <1>2, <1>3, <1>4, <1>5, <1>6, KindsOfSteps

LEMMA VersionsStep ==
    TypeOK /\ TypeOK' /\ DeployingWanted /\ APIsInContract' /\ VersionsInOrder /\ [Next]_vars
        => VersionsInOrder'
<1> SUFFICES ASSUME TypeOK, TypeOK', DeployingWanted, APIsInContract', VersionsInOrder,
                    [Next]_vars
             PROVE  VersionsInOrder'
  OBVIOUS
<1>1. \A o \in APIs : Change(o)
  BY AnyChange
<1>2. /\ glance'.exists => glance.exists
      /\ \A o \in APIs : seen'[o] = seen[o] \/ (seen'[o] = api[o] /\ api'[o] = api[o])
  BY VersionSteps
<1> QED
  BY <1>1, <1>2, VersionsKept

\* A pass that is not overtaken works on the version in the cache.
LEMMA NothingMissedStep ==
    TypeOK /\ TypeOK' /\ LifeCycleInv /\ NothingMissed /\ [Next]_vars => NothingMissed'
<1> SUFFICES ASSUME TypeOK, TypeOK', LifeCycleInv, NothingMissed, [Next]_vars
             PROVE  NothingMissed'
  OBVIOUS
<1> USE DEF server, caches, worker
<1>1. glance'.exists => gcache'.gen <= glance'.gen
  <2>1. /\ glance.gen \in Nat /\ gcache.gen \in Nat /\ glance'.gen \in Nat
        /\ gcache'.gen \in Nat
    BY DEF TypeOK, GlanceType
  <2>2. glance.exists => gcache.gen <= glance.gen
    BY DEF NothingMissed
  <2> QED
    BY <2>1, <2>2, VersionSteps
<1> DEFINE Rest == /\ pc # "idle" => /\ inst.spec = before.spec
                                     /\ ~queued => before = gcache
                   /\ pc \notin {"idle", "patch"} => ~inst.status.ready
                   /\ pc \in {"cleanup", "finish"} => todo = {}
<1>2. Rest
  BY DEF NothingMissed
<1>3. SUFFICES Rest'
  BY <1>1 DEF NothingMissed
<1>4. CASE PassStep
  BY <1>2, <1>4, PassStepFacts
<1>5. CASE Reconcile
  <2> DEFINE f == ~gcache.deleting /\ ~gcache.finalizer
  <2>1. f \in BOOLEAN /\ gcache \in GlanceType
    BY DEF TypeOK
  <2>2. /\ inst' = Started(f) /\ before' = gcache /\ UNCHANGED gcache
        /\ pc' \in {"patch", "deleteDB", "inputs"}
    BY <1>5 DEF Reconcile
  <2>3. inst'.spec = gcache.spec /\ inst'.status.ready = FALSE
    <3> HIDE DEF f
    <3> QED
      BY <2>1, <2>2, StartedTyped
  <2> QED
    BY <2>2, <2>3
<1>6. CASE PatchInstance \/ PatchFails \/ Crash
  <2>1. pc' = "idle"
    BY <1>6 DEF PatchInstance, PatchFails, Crash, Idle
  <2> QED
    BY <2>1
<1>7. CASE CacheSync \/ \E o \in APIs : APICacheSync(o)
  <2>1. queued' /\ UNCHANGED <<pc, before, inst, todo>>
    BY <1>7 DEF CacheSync, APICacheSync
  <2> QED
    BY <1>2, <2>1
<1>8. CASE EditSpec \/ DeleteGlance
  BY <1>2, <1>8, UserVersion
<1>9. CASE Elsewhere
  BY <1>2, <1>9 DEF Elsewhere
<1> QED
  BY <1>4, <1>5, <1>6, <1>7, <1>8, <1>9, KindsOfSteps

-----------------------------------------------------------------------------
(* What the steps of a pass have done.                                     *)

\* The parts of WorkDone.
LoopDone    == pc \in {"apiDeployment", "cleanup", "finish"} =>
                   \A o \in Wanted(inst.spec) \ todo : Dealt(o, inst.spec)
CleanupDone == pc = "finish" => CleanedUp(inst.spec)
PassDone    == pc = "patch" /\ glance.exists =>
                   /\ inst.status.ready => Deployed(inst.spec)
                   /\ exit = "done" /\ before.finalizer /\ ~before.deleting =>
                          CleanedUp(inst.spec) \/ "badSecret" \in missing
SavedDone   == pc = "idle" /\ gcache = glance /\ glance.exists =>
                   /\ glance.status.ready => Deployed(glance.spec)
                   /\ ~glance.deleting => CleanedUp(glance.spec) \/ "badSecret" \in missing

LEMMA WorkDoneParts ==
    WorkDone = (~queued => LoopDone /\ CleanupDone /\ PassDone /\ SavedDone)
  BY DEF WorkDone, LoopDone, CleanupDone, PassDone, SavedDone

\* A GlanceAPI that is not as desired gets a new generation or another annotation.
LEMMA DesiredDiffers ==
    ASSUME NEW o \in APIs, NEW s \in SpecType, NEW a \in APIType, Desired(o, s, a) # a
    PROVE  Desired(o, s, a).gen > a.gen \/ Desired(o, s, a).endpoint # a.endpoint
<1> DEFINE e == (s.endpoint = o[1])
           n == a.gen + 1
<1>1. n \in Nat /\ n > a.gen /\ e \in BOOLEAN
  BY DEF APIType
<1>2. CASE a.image = s.image /\ a.quota = s.quota
  <2>1. Desired(o, s, a) = [a EXCEPT !.image = a.image, !.quota = a.quota, !.endpoint = e,
                                     !.gen = a.gen]
    BY <1>2 DEF Desired
  <2> HIDE DEF e
  <2>2. Desired(o, s, a).endpoint = e
    BY <1>1, <2>1 DEF APIType
  <2>3. e = a.endpoint => Desired(o, s, a) = a
    BY <1>1, <2>1 DEF APIType
  <2> QED
    BY <2>2, <2>3
<1>3. CASE ~(a.image = s.image /\ a.quota = s.quota)
  <2>1. Desired(o, s, a) = [a EXCEPT !.image = s.image, !.quota = s.quota, !.endpoint = e,
                                     !.gen = n]
    BY <1>3 DEF Desired
  <2> HIDE DEF e, n
  <2>2. Desired(o, s, a).gen = n
    BY <1>1, <2>1 DEF APIType
  <2> QED
    BY <1>1, <2>2
<1> QED
  BY <1>2, <1>3

\* A GlanceAPI that the loop writes differs from the cache.
LEMMA DeploymentAhead ==
    ASSUME TypeOK, DeployingWanted, APIDeployment, NEW p, p = First(todo), ~UpToDate(p)
    PROVE  Ahead(p)'
<1>1. /\ api' = [api EXCEPT ![p] = Written(p)] /\ UNCHANGED seen
      /\ ~WriteFails(p) /\ pc = "apiDeployment"
  BY DEF APIDeployment, caches
<1>2. p \in APIs /\ inst.spec \in SpecType
  BY <1>1, Deploying DEF TypeOK, GlanceType
<1>3. api'[p] = Written(p)
  BY <1>1, <1>2 DEF TypeOK
<1>4. CASE ~seen[p].exists
  <2>1. api'[p] = Created(p, inst.spec)
    BY <1>3, <1>4 DEF Written
  <2>2. api'[p].exists
    BY <1>2, <2>1, APITypes, CreatedTyped
  <2> QED
    BY <1>1, <1>4, <2>2 DEF Ahead
<1>5. CASE seen[p].exists
  <2>1. /\ api'[p] = Desired(p, inst.spec, seen[p])
        /\ Desired(p, inst.spec, seen[p]) # seen[p]
    BY <1>3, <1>5 DEF Written, UpToDate
  <2>2. seen[p] \in APIType
    BY <1>2, APITypes
  <2>3. \/ Desired(p, inst.spec, seen[p]).gen > seen[p].gen
        \/ Desired(p, inst.spec, seen[p]).endpoint # seen[p].endpoint
    BY <1>2, <2>1, <2>2, DesiredDiffers
  <2> QED
    BY <1>1, <1>5, <2>1, <2>3 DEF Ahead
<1> QED
  BY <1>4, <1>5

\* After a GlanceAPI of the loop: it is as desired, or it differs from the cache.
LEMMA DeploymentDone ==
    ASSUME TypeOK, TypeOK', LifeCycleInv, VersionsInOrder, LoopDone, APIDeployment
    PROVE  LoopDone'
<1>0. PICK p, s : p = First(todo) /\ s = inst.spec
  OBVIOUS
<1>1. /\ pc = "apiDeployment" /\ todo' = todo \ {p} /\ UNCHANGED seen /\ inst'.spec = s
      /\ DeployingWanted
  BY <1>0, PassStepFacts DEF APIDeployment, DeployNext, caches, PassStep, LifeCycleInv
<1>2. p \in APIs /\ s \in SpecType /\ glance.exists
  BY <1>0, <1>1, Deploying DEF TypeOK, GlanceType, LifeCycleInv, HoldKept, NormalSteps
<1>3. ASSUME NEW o \in APIs, Dealt(o, s) PROVE Dealt(o, s)'
  <2>1. \A q \in APIs : Change(q)
    BY <1>1, DeploymentChange
  <2> QED
    BY <1>1, <1>2, <1>3, <2>1, DealtKept
<1>4. Dealt(p, s)'
  <2>1. CASE UpToDate(p)
    BY <1>0, <1>1, <2>1 DEF UpToDate, Dealt
  <2>2. CASE ~UpToDate(p)
    BY <1>0, <1>1, <2>2, DeploymentAhead DEF Dealt
  <2> QED
    BY <2>1, <2>2
<1>5. \A o \in Wanted(s) \ todo : o \in APIs /\ Dealt(o, s)
  BY <1>0, <1>1 DEF LoopDone, Wanted
<1> QED
  <2>1. \A o \in Wanted(s) \ todo' : Dealt(o, s)'
    BY <1>1, <1>3, <1>4, <1>5
  <2> QED
    BY <1>1, <2>1 DEF LoopDone, Dealt

\* After the cleanup: every GlanceAPI in the cache whose API is gone from the spec is
\* marked there, or differs from the cache.
LEMMA CleanupStepDone ==
    ASSUME TypeOK, TypeOK', LifeCycleInv, VersionsInOrder, NothingMissed, LoopDone,
           GlanceAPICleanup
    PROVE  LoopDone' /\ CleanupDone'
<1>0. PICK s : s = inst.spec
  OBVIOUS
<1>1. /\ Cleanup(Removed) /\ pc = "cleanup" /\ UNCHANGED <<seen, todo>> /\ inst'.spec = s
      /\ glance.exists /\ s = inst.spec
  <2>1. glance.exists
    BY DEF GlanceAPICleanup, LifeCycleInv, HoldKept, NormalSteps
  <2> QED
    BY <1>0, <2>1, PassStepFacts DEF GlanceAPICleanup, caches, PassStep
<1>2. \A o \in APIs : Change(o)
  <2>1. [Next]_vars
    BY DEF Next, Worker
  <2> QED
    BY <2>1, AnyChange DEF LifeCycleInv
<1>3. \A o \in Wanted(s) \ todo' : Dealt(o, s)'
  <2>1. \A o \in Wanted(s) \ todo : o \in APIs /\ Dealt(o, s)
    BY <1>1 DEF LoopDone, Wanted
  <2> QED
    BY <1>1, <1>2, <2>1, DealtKept
<1>4. ASSUME NEW o \in APIs, s.apis[o[1]] = "absent", seen[o].exists, ~seen[o].deleting
      PROVE  Ahead(o)'
  <2>1. api'[o] = Deleted(api[o])
    BY <1>1, <1>4 DEF Cleanup, Removed
  <2>2. api[o] \in APIType /\ (api[o].exists => seen[o].gen <= api[o].gen)
        /\ seen[o].gen \in Nat /\ api[o].gen \in Nat
    BY <1>4, APITypes DEF VersionsInOrder
  <2>3. \/ ~api'[o].exists
        \/ api'[o].deleting
    BY <2>1, <2>2, DeletedFields
  <2> QED
    BY <1>1, <1>4, <2>3 DEF Ahead
<1>5. CleanedUp(s)'
  BY <1>1, <1>4 DEF CleanedUp
<1> QED
  <2>1. LoopDone'
    BY <1>1, <1>3 DEF LoopDone, Dealt
  <2>2. CleanupDone'
    BY <1>1, <1>5 DEF CleanupDone, CleanedUp
  <2> QED
    BY <2>1, <2>2

\* The steps of a pass.
LEMMA PassStepDone ==
    ASSUME TypeOK, TypeOK', LifeCycleInv, VersionsInOrder, NothingMissed, WorkDone,
           PassStep, ~queued'
    PROVE  LoopDone' /\ CleanupDone' /\ PassDone' /\ SavedDone'
<1>1. /\ pc \notin {"idle", "patch"} /\ pc' # "idle" /\ ~queued
      /\ UNCHANGED <<glance, gcache, seen, before>>
      /\ inst'.spec = inst.spec
      /\ inst'.status.ready \/ inst.status.ready => Finish /\ pc' = "patch"
  <2>1. ~inst.status.ready
    BY PassStepFacts DEF NothingMissed
  <2> QED
    BY <2>1, PassStepFacts
<1>2. SavedDone'
  BY <1>1 DEF SavedDone
<1>3. LoopDone /\ CleanupDone
  BY <1>1, WorkDoneParts
<1>4. CASE APIDeployment
  <2>1. LoopDone'
    BY <1>3, <1>4, DeploymentDone
  <2>2. pc' \in {"apiDeployment", "cleanup"}
    BY <1>4 DEF APIDeployment, DeployNext, Proceed
  <2> QED
    BY <1>2, <2>1, <2>2 DEF CleanupDone, PassDone
<1>5. CASE GlanceAPICleanup
  <2>1. LoopDone' /\ CleanupDone'
    BY <1>3, <1>5, CleanupStepDone
  <2>2. pc' = "finish"
    BY <1>5 DEF GlanceAPICleanup, Proceed
  <2> QED
    BY <1>2, <2>1, <2>2 DEF PassDone
<1>6. CASE ReconcileInit /\ pc' # "patch"
  <2>1. pc' \in {"apiDeployment", "cleanup"} /\ todo' = Wanted(inst.spec)
    BY <1>6 DEF ReconcileInit, DeployNext, Proceed, Return
  <2> QED
    BY <1>1, <1>2, <2>1 DEF LoopDone, CleanupDone, PassDone
<1>7. CASE (VerifyInputs \/ EnsureDB) /\ pc' # "patch"
  <2>1. pc' \in {"ensureDB", "reconcileInit"}
    BY <1>7 DEF VerifyInputs, EnsureDB, Proceed, Return
  <2> QED
    BY <1>2, <2>1 DEF LoopDone, CleanupDone, PassDone
<1>8. CASE DeleteDBFinalizer \/ DeleteServiceFinalizer
  <2>1. pc' \in {"deleteService", "deleteLimits"}
    BY <1>8 DEF DeleteDBFinalizer, DeleteServiceFinalizer, Proceed
  <2> QED
    BY <1>2, <2>1 DEF LoopDone, CleanupDone, PassDone
<1>9. ASSUME pc' = "patch", ~Finish,
             exit' # "done" \/ "badSecret" \in missing' \/ ~before.finalizer
                 \/ before.deleting
      PROVE  LoopDone' /\ CleanupDone' /\ PassDone' /\ SavedDone'
  BY <1>1, <1>2, <1>9 DEF LoopDone, CleanupDone, PassDone
<1>10. CASE (VerifyInputs \/ EnsureDB \/ ReconcileInit) /\ pc' = "patch"
  <2>1. exit' # "done" \/ "badSecret" \in missing'
    BY <1>10 DEF VerifyInputs, EnsureDB, ReconcileInit, DeployNext, Proceed, Return,
       verifyServiceSecret, env
  <2>2. ~Finish
    BY <1>10 DEF VerifyInputs, EnsureDB, ReconcileInit, Finish
  <2> QED
    BY <1>9, <1>10, <2>1, <2>2
<1>11. CASE APIDeploymentFails \/ GlanceAPICleanupFails \/ CallFails
  <2>1. pc' = "patch" /\ exit' = "error"
    BY <1>11 DEF APIDeploymentFails, GlanceAPICleanupFails, CallFails, Return
  <2>2. ~Finish
    BY <2>1 DEF Finish, Return
  <2> QED
    BY <1>9, <2>1, <2>2
<1>12. CASE DeleteLimits
  <2>1. pc' = "patch" /\ pc = "deleteLimits" /\ ~Finish
    BY <1>12 DEF DeleteLimits, Finish, Return
  <2>2. gcache.deleting \/ ~gcache.exists
    BY <2>1 DEF LifeCycleInv, LettingGoIsLast, DeleteSteps
  <2>3. before = gcache
    BY <1>1 DEF NothingMissed
  <2>4. ~before.finalizer \/ before.deleting
    BY <2>2, <2>3 DEF LifeCycleInv, FinalizerWithStatus
  <2> QED
    BY <1>9, <2>1, <2>4
<1>13. CASE Finish
  <2>1. /\ pc = "finish" /\ pc' = "patch" /\ todo = {} /\ UNCHANGED <<api, seen>>
        /\ inst'.status.ready => checkGlanceAPIsGeneration
    <3>1. pc = "finish" /\ pc' = "patch" /\ UNCHANGED <<api, seen>>
      BY <1>13 DEF Finish, Return, server, caches
    <3>2. \A r : [inst EXCEPT !.status.ready = r].status.ready = r
      BY DEF TypeOK, GlanceType, StatusType
    <3>3. inst'.status.ready => checkGlanceAPIsGeneration
      BY <1>13, <3>2 DEF Finish
    <3> QED
      BY <3>1, <3>3 DEF NothingMissed
  <2>2. checkGlanceAPIsGeneration => Deployed(inst.spec)
    BY <1>3, <2>1 DEF LoopDone, Deployed, checkGlanceAPIsGeneration, Wanted
  <2>3. CleanedUp(inst.spec)
    BY <1>3, <2>1 DEF CleanupDone
  <2>4. (inst'.status.ready => Deployed(inst.spec)') /\ CleanedUp(inst.spec)'
    BY <1>1, <2>1, <2>2, <2>3 DEF Deployed, Dealt, Ahead, CleanedUp
  <2>5. PassDone'
    BY <2>4 DEF PassDone
  <2> QED
    BY <1>2, <2>1, <2>5 DEF LoopDone, CleanupDone
<1> QED
  BY <1>4, <1>5, <1>6, <1>7, <1>8, <1>10, <1>11, <1>12, <1>13, Zenon DEF PassStep

\* A pass starts: if it does nothing but save the finalizer, there was none before.
LEMMA ReconcileDone ==
    ASSUME TypeOK, LifeCycleInv, Reconcile
    PROVE  LoopDone' /\ CleanupDone' /\ PassDone' /\ SavedDone'
<1> DEFINE f == ~gcache.deleting /\ ~gcache.finalizer
<1>1. f \in BOOLEAN /\ gcache \in GlanceType
  BY DEF TypeOK
<1>2. /\ inst' = Started(f) /\ before' = gcache
      /\ pc' = IF f \/ gcache.status.new THEN "patch"
               ELSE IF gcache.deleting THEN "deleteDB" ELSE "inputs"
  BY DEF Reconcile
<1>3. inst'.status.ready = FALSE
  <2> HIDE DEF f
  <2> QED
    BY <1>1, <1>2, StartedTyped
<1>4. pc' = "patch" => ~before'.finalizer \/ before'.deleting
  BY <1>2 DEF LifeCycleInv, FinalizerWithStatus
<1> QED
  BY <1>2, <1>3, <1>4 DEF LoopDone, CleanupDone, PassDone, SavedDone

\* A pass ends: if its patch leaves the cached version, the pass had started from it
\* and says the same.
LEMMA PatchSays ==
    ASSUME TypeOK, LifeCycleInv, NothingMissed, PatchInstance, ~queued', gcache = glance',
           glance'.exists
    PROVE  /\ exit = "done" /\ glance.exists
           /\ before = glance' /\ before.finalizer
           /\ inst.spec = glance'.spec
           /\ glance'.status.ready => inst.status.ready
<1>1. /\ pc = "patch" /\ ~queued /\ exit = "done" /\ glance.exists
      /\ glance' \in {NoGlance, MergePatch}
  BY DEF PatchInstance
<1>2. before = gcache /\ inst.spec = before.spec
  BY <1>1 DEF NothingMissed
<1>3. glance' = MergePatch
  BY <1>1, NoGlanceFields
<1>4. /\ glance'.status.new = IF inst.status.new # before.status.new
                                    \/ inst.status.ready # before.status.ready
                              THEN inst.status.new ELSE glance.status.new
      /\ glance'.status.ready = IF inst.status.new # before.status.new
                                      \/ inst.status.ready # before.status.ready
                                THEN inst.status.ready ELSE glance.status.ready
  BY <1>3, MergePatchTyped DEF TypeOK
<1>5. glance'.status.ready => inst.status.ready
  BY <1>2, <1>4
<1>6. before.finalizer
  <2>1. ~inst.status.new
    BY <1>1 DEF LifeCycleInv, HoldKept
  <2>2. ~before.status.new
    BY <1>2, <1>4, <2>1
  <2> QED
    BY <2>2 DEF LifeCycleInv, FinalizerWithStatus
<1> QED
  BY <1>1, <1>2, <1>5, <1>6

LEMMA PatchDone ==
    ASSUME TypeOK, LifeCycleInv, NothingMissed, WorkDone, PatchInstance, ~queued'
    PROVE  LoopDone' /\ CleanupDone' /\ PassDone' /\ SavedDone'
<1>1. /\ pc = "patch" /\ pc' = "idle" /\ UNCHANGED <<api, seen, gcache, missing>> /\ ~queued
  BY DEF PatchInstance, Idle, caches, env
<1>2. PassDone
  BY <1>1, WorkDoneParts
<1>3. SUFFICES ASSUME gcache = glance', glance'.exists PROVE SavedDone'
  BY <1>1 DEF LoopDone, CleanupDone, PassDone, SavedDone
<1>4. /\ exit = "done" /\ glance.exists
      /\ before = glance' /\ before.finalizer
      /\ inst.spec = glance'.spec
      /\ glance'.status.ready => inst.status.ready
  BY <1>3, PatchSays
<1>5. /\ glance'.status.ready => Deployed(inst.spec)
      /\ ~glance'.deleting => CleanedUp(inst.spec) \/ "badSecret" \in missing
  BY <1>1, <1>2, <1>4 DEF PassDone
<1> QED
  BY <1>1, <1>4, <1>5 DEF SavedDone, Deployed, Dealt, Ahead, CleanedUp

\* Steps of the GlanceAPI controller, of the garbage collector and of the inputs.
LEMMA ElsewhereDone ==
    ASSUME TypeOK, TypeOK', LifeCycleInv, VersionsInOrder, WorkDone, Elsewhere, ~queued',
           \A o \in APIs : Change(o)
    PROVE  LoopDone' /\ CleanupDone' /\ PassDone' /\ SavedDone'
<1>1. /\ UNCHANGED <<glance, gcache, seen, pc, before, inst, todo, exit>>
      /\ ~queued \/ (pc = "idle" /\ ~gcache.exists)
      /\ "badSecret" \in missing => "badSecret" \in missing'
  BY DEF Elsewhere, worker
<1>2. CASE pc = "idle" /\ ~gcache.exists
  BY <1>1, <1>2 DEF LoopDone, CleanupDone, PassDone, SavedDone
<1>3. CASE ~queued
  <2>1. LoopDone /\ CleanupDone /\ PassDone /\ SavedDone
    BY <1>3, WorkDoneParts
  <2>2. CASE ~glance.exists
    <3>1. pc \notin NormalSteps
      BY <2>2 DEF LifeCycleInv, HoldKept
    <3> QED
      BY <1>1, <2>2, <3>1 DEF LoopDone, CleanupDone, PassDone, SavedDone, NormalSteps
  <2>3. CASE glance.exists
    <3>1. PICK s, g : s = inst.spec /\ g = glance.spec
      OBVIOUS
    <3>2. /\ \A o \in APIs : Dealt(o, s) => Dealt(o, s)'
          /\ Deployed(s) => Deployed(s)'
          /\ Deployed(g) => Deployed(g)'
          /\ CleanedUp(s) => CleanedUp(s)'
          /\ CleanedUp(g) => CleanedUp(g)'
      BY <1>1, <2>3, DealtKept
    <3>3. /\ CleanedUp(s)' => CleanedUp(inst.spec)'
          /\ CleanedUp(g)' => CleanedUp(glance.spec)'
      BY <1>1, <3>1 DEF CleanedUp
    <3>4. /\ Deployed(s)' => Deployed(inst.spec)'
          /\ Deployed(g)' => Deployed(glance.spec)'
      BY <1>1, <3>1 DEF Deployed, Dealt
    <3>5. LoopDone'
      <4>1. pc \in {"apiDeployment", "cleanup", "finish"} =>
                \A o \in Wanted(s) \ todo : o \in APIs /\ Dealt(o, s)'
        BY <2>1, <3>1, <3>2 DEF LoopDone, Wanted
      <4> QED
        BY <1>1, <3>1, <4>1 DEF LoopDone, Dealt
    <3>6. CleanupDone'
      BY <1>1, <2>1, <3>1, <3>2, <3>3, <3>4 DEF CleanupDone
    <3>7. PassDone'
      BY <1>1, <2>1, <3>1, <3>2, <3>3, <3>4 DEF PassDone
    <3>8. SavedDone'
      BY <1>1, <2>1, <3>1, <3>2, <3>3, <3>4 DEF SavedDone
    <3> QED
      BY <3>5, <3>6, <3>7, <3>8
  <2> QED
    BY <2>2, <2>3
<1> QED
  BY <1>1, <1>2, <1>3

\* The user makes a version that is not in the cache.
LEMMA UserDone ==
    ASSUME TypeOK, TypeOK', NothingMissed, WorkDone, EditSpec \/ DeleteGlance, ~queued'
    PROVE  LoopDone' /\ CleanupDone' /\ PassDone' /\ SavedDone'
<1>1. /\ UNCHANGED <<gcache, seen, pc, before, inst, todo, exit, queued, missing, api>>
      /\ glance.exists
      /\ glance'.exists => glance'.gen = glance.gen + 1
  BY UserVersion DEF EditSpec, DeleteGlance
<1>2. glance'.exists => gcache # glance'
  <2>1. glance.gen \in Nat /\ gcache.gen \in Nat /\ gcache.gen <= glance.gen
    BY <1>1 DEF TypeOK, GlanceType, NothingMissed
  <2> QED
    BY <1>1, <2>1
<1>3. LoopDone /\ CleanupDone /\ PassDone
  BY <1>1, WorkDoneParts
<1>4. SavedDone'
  BY <1>1, <1>2 DEF SavedDone
<1> QED
  BY <1>1, <1>3, <1>4 DEF LoopDone, CleanupDone, PassDone, Deployed, Dealt, Ahead, CleanedUp

LEMMA WorkDoneStep ==
    /\ TypeOK /\ TypeOK' /\ LifeCycleInv /\ LifeCycleInv'
    /\ VersionsInOrder /\ NothingMissed /\ WorkDone /\ [Next]_vars
    => WorkDone'
<1> SUFFICES ASSUME TypeOK, TypeOK', LifeCycleInv, LifeCycleInv', VersionsInOrder,
                    NothingMissed, WorkDone, [Next]_vars, ~queued'
             PROVE  LoopDone' /\ CleanupDone' /\ PassDone' /\ SavedDone'
  BY DEF WorkDone, LoopDone, CleanupDone, PassDone, SavedDone
<1>1. CASE PassStep
  BY <1>1, PassStepDone
<1>2. CASE Reconcile
  BY <1>2, ReconcileDone
<1>3. CASE PatchInstance
  BY <1>3, PatchDone
<1>4. CASE PatchFails \/ Crash \/ CacheSync \/ \E o \in APIs : APICacheSync(o)
  BY <1>4 DEF PatchFails, Crash, CacheSync, APICacheSync
<1>5. CASE EditSpec \/ DeleteGlance
  BY <1>5, UserDone
<1>6. CASE Elsewhere
  <2>1. \A o \in APIs : Change(o)
    BY AnyChange DEF LifeCycleInv
  <2> QED
    BY <1>6, <2>1, ElsewhereDone
<1> QED
  BY <1>1, <1>2, <1>3, <1>4, <1>5, <1>6, KindsOfSteps

\* PassInv is an invariant of the controller: whatever overtakes a pass brings
\* another one, and a pass that nothing has overtaken has deployed and cleaned up
\* what it reports on, for every number of APIs, edits, crashes and failures.
THEOREM PassInvariant == Spec => []PassInv
<1>1. Init => PassInv
  <2> SUFFICES ASSUME Init PROVE PassInv
    OBVIOUS
  <2>1. /\ gcache = NoGlance /\ pc = "idle" /\ glance \in GlanceType
        /\ api = [o \in APIs |-> NoAPI] /\ seen = [o \in APIs |-> NoAPI]
    BY InitTyped DEF Init, TypeOK
  <2>2. VersionsInOrder
    BY <2>1 DEF VersionsInOrder, NoAPI
  <2>3. NothingMissed
    <3>1. gcache.gen = 0 /\ glance.gen \in Nat
      BY <2>1 DEF NoGlance, GlanceType
    <3> QED
      BY <2>1, <3>1 DEF NothingMissed
  <2>4. WorkDone
    BY <2>1, NoGlanceFields DEF WorkDone
  <2> QED
    BY <2>2, <2>3, <2>4 DEF PassInv
<1>2. /\ TypeOK /\ TypeOK' /\ LifeCycleInv /\ LifeCycleInv' /\ APIsInContract'
      /\ PassInv /\ [Next]_vars
      => PassInv'
  BY VersionsStep, NothingMissedStep, WorkDoneStep DEF PassInv, LifeCycleInv
<1> QED
  BY <1>1, <1>2, TypeCorrect, LifeCycleInvariant, APIsStayInContract, PTL DEF Spec

\* A Glance that settles as Ready is deployed: every GlanceAPI of its spec is there,
\* with the inherited fields and the annotation of that spec, and reconciled at its
\* generation, however stale the caches were that the passes read.
THEOREM SettledDeployed == Spec => []SettledReadyIsDeployed
<1>1. TypeOK /\ PassInv => SettledReadyIsDeployed
  <2> SUFFICES ASSUME TypeOK, PassInv, Settled, ReadyNow, NEW o \in Wanted(glance.spec)
               PROVE  /\ api[o].exists
                      /\ Desired(o, glance.spec, api[o]) = api[o]
                      /\ api[o].observed = api[o].gen
    BY DEF SettledReadyIsDeployed
  <2>1. o \in APIs
    BY DEF Wanted
  <2>2. Deployed(glance.spec) /\ seen = api
    BY DEF PassInv, WorkDone, Settled, ReadyNow
  <2>3. ~Ahead(o)
    BY <2>1, <2>2, APITypes DEF Ahead
  <2> QED
    BY <2>2, <2>3 DEF Deployed, Dealt
<1> QED
  BY <1>1, TypeCorrect, PassInvariant, PTL

\* The layouts in the spec of the Glance are those that the user asks for.
LayoutsAskedFor == \A n \in Names : glance.spec.apis[n] \in Layouts \cup {"absent"}

LEMMA LayoutsStep ==
    TypeOK /\ LayoutsAskedFor /\ [Next]_vars => LayoutsAskedFor'
<1> SUFFICES ASSUME TypeOK, LayoutsAskedFor, [Next]_vars PROVE LayoutsAskedFor'
  OBVIOUS
<1> USE DEF server, caches, worker
<1>1. glance \in GlanceType
  BY DEF TypeOK
<1>2. CASE glance'.spec = glance.spec
  BY <1>2 DEF LayoutsAskedFor
<1>3. CASE glance' = NoGlance
  <2>1. NoGlance.spec.apis = [n \in Names |-> "absent"]
    BY DEF NoGlance
  <2> QED
    BY <1>3, <2>1 DEF LayoutsAskedFor
<1>4. CASE EditSpec
  <2>1. PICK s \in UserSpecs : glance' = [glance EXCEPT !.spec = s, !.gen = @ + 1]
    BY <1>4 DEF EditSpec
  <2>2. glance'.spec = s
    BY <1>1, <2>1 DEF GlanceType
  <2>3. s.apis \in [Names -> Layouts \cup {"absent"}]
    BY DEF UserSpecs
  <2> QED
    BY <2>2, <2>3 DEF LayoutsAskedFor
<1>5. CASE DeleteGlance
  <2>1. [glance EXCEPT !.deleting = TRUE, !.gen = @ + 1].spec = glance.spec
    BY <1>1 DEF GlanceType
  <2> QED
    BY <1>2, <1>3, <1>5, <2>1 DEF DeleteGlance
<1>6. CASE PatchInstance
  <2>1. MergePatch.spec = glance.spec
    BY MergePatchTyped DEF TypeOK
  <2>2. glance' \in {glance, NoGlance, MergePatch}
    BY <1>6 DEF PatchInstance
  <2> QED
    BY <1>2, <1>3, <2>1, <2>2
<1>7. CASE PassStep
  BY <1>2, <1>7, PassStepFacts
<1>8. CASE \/ Reconcile \/ Elsewhere \/ PatchFails \/ Crash \/ CacheSync
           \/ \E o \in APIs : APICacheSync(o)
  BY <1>2, <1>8 DEF Reconcile, Elsewhere, PatchFails, Crash, CacheSync, APICacheSync
<1> QED
  BY <1>4, <1>5, <1>6, <1>7, <1>8, KindsOfSteps

\* With one layout in use, no GlanceAPI outlives its API: when all inputs are there
\* and nothing is left to do, what is not in the spec is gone or on its way out.
\* (An API that is removed and comes back with another layout keeps the GlanceAPIs
\* of the old one, which glanceAPICleanup finds by the name of the API.)
THEOREM NoneForeign ==
    ASSUME \A t, u \in Layouts : t = u
    PROVE  Spec => []NoForeignAPI
<1>1. Init => LayoutsAskedFor
  <2> SUFFICES ASSUME Init PROVE LayoutsAskedFor
    OBVIOUS
  <2>1. PICK s \in UserSpecs : glance = [NoGlance EXCEPT !.exists = TRUE, !.gen = 1, !.spec = s]
    BY DEF Init
  <2>2. glance.spec = s
    BY <2>1 DEF NoGlance
  <2>3. s.apis \in [Names -> Layouts \cup {"absent"}]
    BY DEF UserSpecs
  <2> QED
    BY <2>2, <2>3 DEF LayoutsAskedFor
<1>2. TypeOK /\ LayoutsAskedFor /\ PassInv => NoForeignAPI
  <2> SUFFICES ASSUME TypeOK, LayoutsAskedFor, PassInv, Settled, missing = {},
                      glance.exists, ~glance.deleting,
                      NEW o \in APIs, o \notin Wanted(glance.spec)
               PROVE  ~api[o].exists \/ api[o].deleting
    BY DEF NoForeignAPI
  <2>1. CleanedUp(glance.spec) /\ seen = api
    BY DEF PassInv, WorkDone, Settled
  <2>2. ~Ahead(o)
    BY <2>1, APITypes DEF Ahead
  <2>3. glance.spec.apis[o[1]] = "absent"
    <3>1. PICK t \in Layouts : o[2] \in LayoutRoles(t)
      <4> DEFINE X == UNION {LayoutRoles(t) : t \in Layouts}
      <4>1. o[2] \in X
        <5>1. APIs = Names \X X
          BY DEF APIs
        <5> HIDE DEF X
        <5> QED
          BY <5>1
      <4> QED
        BY <4>1, Zenon
    <3>2. o[1] \in Names /\ o[2] \notin LayoutRoles(glance.spec.apis[o[1]])
      BY APIPairs DEF Wanted
    <3> QED
      BY <3>1, <3>2 DEF LayoutsAskedFor
  <2> QED
    BY <2>1, <2>2, <2>3 DEF CleanedUp
<1> QED
  BY <1>1, <1>2, LayoutsStep, TypeCorrect, PassInvariant, PTL DEF Spec

-----------------------------------------------------------------------------
(* The registered limits.                                                  *)

\* Every copy of the Glance has a setting of the quotas that the user asks for.
QuotasAskedFor == \A o \in {glance, gcache, before, inst} : o.exists => o.spec.quota \in Quotas

\* A pass works on a copy of an object that was there.
WorksOnGlance == pc # "idle" => inst.exists

\* Limits are registered for a Glance that is held, in a keystone that is there, and
\* reconcileDelete has deleted them when it lets go.
LimitsHeld ==
    /\ limits => /\ TRUE \in Quotas /\ "keystone" \notin missing
                 /\ glance.exists /\ glance.finalizer
    /\ LettingGo => ~limits

\* The steps of a pass keep what its copy says of the object, and the finalizer up
\* to the end of reconcileDelete.
LEMMA CopyOfPass ==
    ASSUME TypeOK, PassStep
    PROVE  /\ inst'.exists = inst.exists
           /\ ~DeleteLimits => inst'.finalizer = inst.finalizer
<1>1. \/ \E k : inst' = [inst EXCEPT !.status.keys = k]
      \/ \E r : inst' = [inst EXCEPT !.status.ready = r]
      \/ inst' = inst
      \/ DeleteLimits /\ inst' = [inst EXCEPT !.finalizer = FALSE]
  <2>1. APIDeployment => \E k : inst' = [inst EXCEPT !.status.keys = k]
    BY Zenon DEF APIDeployment
  <2>2. GlanceAPICleanup \/ GlanceAPICleanupFails => \E S : Cleanup(S)
    BY Zenon DEF GlanceAPICleanup, GlanceAPICleanupFails
  <2>3. ASSUME NEW S, Cleanup(S) PROVE \E k : inst' = [inst EXCEPT !.status.keys = k]
    BY <2>3, Zenon DEF Cleanup
  <2>4. Finish => \E r : inst' = [inst EXCEPT !.status.ready = r]
    BY Zenon DEF Finish
  <2>5. DeleteLimits => inst' = [inst EXCEPT !.finalizer = FALSE]
    BY DEF DeleteLimits
  <2>6. VerifyInputs \/ EnsureDB \/ ReconcileInit \/ APIDeploymentFails
            \/ DeleteDBFinalizer \/ DeleteServiceFinalizer \/ CallFails => inst' = inst
    BY DEF VerifyInputs, EnsureDB, ReconcileInit, APIDeploymentFails, DeleteDBFinalizer,
       DeleteServiceFinalizer, CallFails
  <2> QED
    BY <2>1, <2>2, <2>3, <2>4, <2>5, <2>6, Zenon DEF PassStep
<1> QED
  BY <1>1 DEF TypeOK, GlanceType

\* A copy of the Glance keeps what it says of quotas.
LEMMA QuotasStep ==
    TypeOK /\ QuotasAskedFor /\ WorksOnGlance /\ [Next]_vars
        => QuotasAskedFor' /\ WorksOnGlance'
<1> SUFFICES ASSUME TypeOK, QuotasAskedFor, WorksOnGlance, [Next]_vars
             PROVE  QuotasAskedFor' /\ WorksOnGlance'
  OBVIOUS
<1> USE DEF server, caches, worker
<1>1. /\ glance \in GlanceType /\ gcache \in GlanceType /\ inst \in GlanceType
      /\ ~NoGlance.exists
  BY NoGlanceFields DEF TypeOK
<1>2. CASE PassStep
  <2>1. UNCHANGED <<glance, gcache, before>> /\ inst'.spec = inst.spec /\ pc # "idle"
    BY <1>2, PassStepFacts
  <2>2. inst'.exists = inst.exists
    BY <1>2, CopyOfPass
  <2> QED
    BY <2>1, <2>2 DEF QuotasAskedFor, WorksOnGlance
<1>3. CASE Reconcile
  <2> DEFINE f == ~gcache.deleting /\ ~gcache.finalizer
             b == gcache.finalizer \/ f
             s == [new |-> FALSE, ready |-> FALSE, gen |-> gcache.gen,
                   keys |-> gcache.status.keys]
  <2>1. /\ UNCHANGED <<glance, gcache>> /\ before' = gcache /\ gcache.exists
        /\ inst' = [gcache EXCEPT !.finalizer = b, !.status = s]
    BY <1>3 DEF Reconcile, Started
  <2>2. inst'.spec = gcache.spec /\ inst'.exists = gcache.exists
    <3> HIDE DEF b, s
    <3> QED
      BY <1>1, <2>1 DEF GlanceType
  <2> QED
    BY <2>1, <2>2 DEF QuotasAskedFor, WorksOnGlance
<1>4. CASE PatchInstance
  <2>1. /\ UNCHANGED gcache /\ before' = NoGlance /\ inst' = NoGlance /\ pc' = "idle"
        /\ glance' \in {glance, NoGlance, MergePatch}
    BY <1>4 DEF PatchInstance, Idle
  <2>2. MergePatch.spec = glance.spec /\ MergePatch.exists = glance.exists
    BY MergePatchTyped DEF TypeOK
  <2> QED
    BY <1>1, <2>1, <2>2 DEF QuotasAskedFor, WorksOnGlance
<1>5. CASE PatchFails \/ Crash
  <2>1. /\ gcache' \in {gcache, glance} /\ UNCHANGED glance
        /\ before' = NoGlance /\ inst' = NoGlance /\ pc' = "idle"
    BY <1>5 DEF PatchFails, Crash, Idle
  <2> QED
    BY <1>1, <2>1 DEF QuotasAskedFor, WorksOnGlance
<1>6. CASE CacheSync \/ Elsewhere \/ \E o \in APIs : APICacheSync(o)
  BY <1>6 DEF CacheSync, APICacheSync, Elsewhere, QuotasAskedFor, WorksOnGlance
<1>7. CASE EditSpec
  <2>1. PICK s \in UserSpecs : glance' = [glance EXCEPT !.spec = s, !.gen = @ + 1]
    BY <1>7 DEF EditSpec
  <2>2. glance'.spec.quota \in Quotas
    <3>1. glance'.spec = s
      BY <1>1, <2>1 DEF GlanceType
    <3> QED
      BY <3>1 DEF UserSpecs
  <2> QED
    BY <1>7, <2>2, UserVersion DEF QuotasAskedFor, WorksOnGlance
<1>8. CASE DeleteGlance
  <2>1. [glance EXCEPT !.deleting = TRUE, !.gen = @ + 1].spec = glance.spec
    BY <1>1 DEF GlanceType
  <2>2. glance'.exists => glance'.spec = glance.spec /\ glance.exists
    BY <1>1, <1>8, <2>1, UserVersion DEF DeleteGlance
  <2> QED
    BY <1>8, <2>2, UserVersion DEF QuotasAskedFor, WorksOnGlance
<1> QED
  BY <1>2, <1>3, <1>4, <1>5, <1>6, <1>7, <1>8, KindsOfSteps

\* Who registers and deletes limits; inputs do not go away.
LEMMA LimitsSteps ==
    ASSUME [Next]_vars
    PROVE  /\ UNCHANGED limits \/ APIDeployment \/ APIDeploymentFails \/ DeleteLimits
           /\ missing' \subseteq missing
<1> USE DEF server, env
<1>1. CASE Worker
  BY <1>1 DEF Worker, ReconcileNotFound, Reconcile, VerifyInputs, EnsureDB, ReconcileInit,
     APIDeployment, APIDeploymentFails, GlanceAPICleanup, Finish, DeleteDBFinalizer,
     DeleteServiceFinalizer, DeleteLimits, PatchInstance
<1>2. CASE Cluster
  BY <1>2 DEF Cluster, CacheSync, APICacheSync, APIController, APIObserves, APIBecomesReady,
     APIFinalized, APICollected, InputAppears
<1>3. CASE Failure
  BY <1>3 DEF Failure, GlanceAPICleanupFails, CallFails, PatchFails, Crash, APIReports
<1>4. CASE User
  BY <1>4 DEF User, EditSpec, DeleteGlance
<1>5. CASE UNCHANGED vars
  BY <1>5 DEF vars
<1> QED
  BY <1>1, <1>2, <1>3, <1>4, <1>5 DEF Next

\* Every step keeps LimitsHeld, if the quotas are not switched on or off.
LEMMA LimitsStep ==
    ASSUME \A q, r \in Quotas : q = r,
           TypeOK, LifeCycleInv, QuotasAskedFor, WorksOnGlance, LimitsHeld, [Next]_vars
    PROVE  LimitsHeld'
<1> USE DEF server, caches, worker
<1>1. missing' \subseteq missing /\ glance \in GlanceType /\ limits \in BOOLEAN
  BY LimitsSteps DEF TypeOK
<1>2. CASE APIDeployment \/ APIDeploymentFails
  <2>1. /\ pc = "apiDeployment" /\ UNCHANGED glance
        /\ limits' => limits \/ (inst.spec.quota /\ "keystone" \notin missing)
    BY <1>1, <1>2 DEF APIDeployment, APIDeploymentFails, ensureRegisteredLimits, NoKeystone
  <2>2. inst.spec.quota \in Quotas /\ inst.spec.quota \in BOOLEAN
    BY <2>1 DEF QuotasAskedFor, WorksOnGlance, TypeOK, GlanceType, SpecType
  <2>3. inst.finalizer /\ glance.exists /\ glance.finalizer
    BY <2>1 DEF LifeCycleInv, HoldKept, NormalSteps
  <2>4. inst'.finalizer = inst.finalizer
    <3>1. ~DeleteLimits
      BY <2>1 DEF DeleteLimits
    <3> QED
      BY <1>2, <3>1, CopyOfPass DEF PassStep
  <2>5. inst.spec.quota => TRUE \in Quotas
    BY <2>2
  <2> QED
    BY <1>1, <2>1, <2>3, <2>4, <2>5 DEF LimitsHeld, LettingGo
<1>3. CASE DeleteLimits
  <2>1. inst.spec.quota \in Quotas /\ inst.spec.quota \in BOOLEAN
    BY <1>3 DEF DeleteLimits, QuotasAskedFor, WorksOnGlance, TypeOK, GlanceType, SpecType
  <2>2. limits => inst.spec.quota /\ "keystone" \notin missing
    BY <2>1 DEF LimitsHeld
  <2>3. ~limits'
    BY <1>3, <2>2 DEF DeleteLimits, registeredLimitsDelete
  <2> QED
    BY <2>3 DEF LimitsHeld
<1>4. ASSUME UNCHANGED limits, limits => glance'.exists /\ glance'.finalizer,
             LettingGo' => LettingGo
      PROVE  LimitsHeld'
  BY <1>1, <1>4 DEF LimitsHeld
<1>5. CASE PassStep /\ ~DeleteLimits /\ UNCHANGED limits
  <2>1. UNCHANGED glance /\ inst'.finalizer = inst.finalizer /\ pc \notin {"idle", "patch"}
    BY <1>5, PassStepFacts, CopyOfPass
  <2>2. inst.finalizer
    BY <2>1 DEF LifeCycleInv, HoldKept
  <2> QED
    BY <1>4, <1>5, <2>1, <2>2 DEF LettingGo, LimitsHeld
<1>6. CASE Reconcile
  <2> DEFINE f == ~gcache.deleting /\ ~gcache.finalizer
  <2>1. f \in BOOLEAN /\ gcache \in GlanceType
    BY DEF TypeOK
  <2>2. UNCHANGED <<glance, limits>> /\ inst' = Started(f)
    BY <1>6 DEF Reconcile
  <2>3. inst'.finalizer = (gcache.finalizer \/ f)
    <3> HIDE DEF f
    <3> QED
      BY <2>1, <2>2, StartedTyped
  <2>4. inst'.finalizer
    BY <2>3 DEF LifeCycleInv, FinalizerWithStatus
  <2> QED
    BY <1>4, <2>2, <2>4 DEF LettingGo, LimitsHeld
<1>7. CASE PatchInstance
  <2>1. UNCHANGED limits /\ pc = "patch" /\ pc' = "idle"
    BY <1>7 DEF PatchInstance, Idle
  <2>2. limits => glance'.exists /\ glance'.finalizer
    <3> SUFFICES ASSUME limits PROVE glance'.exists /\ glance'.finalizer
      OBVIOUS
    <3>1. glance.exists /\ ~LettingGo
      BY DEF LimitsHeld
    <3>2. MergePatch.exists /\ MergePatch.finalizer
      BY <2>1, <3>1, PatchHolds DEF LettingGo
    <3> QED
      BY <1>7, <3>1, <3>2 DEF PatchInstance
  <2> QED
    BY <1>4, <2>1, <2>2 DEF LettingGo
<1>8. CASE PatchFails \/ Crash
  <2>1. UNCHANGED <<glance, limits>> /\ pc' = "idle"
    BY <1>8 DEF PatchFails, Crash, Idle
  <2> QED
    BY <1>4, <2>1 DEF LettingGo, LimitsHeld
<1>9. CASE \/ CacheSync \/ (Elsewhere /\ UNCHANGED limits)
           \/ \E o \in APIs : APICacheSync(o)
  <2>1. UNCHANGED <<glance, limits, pc, inst>>
    BY <1>9 DEF CacheSync, Elsewhere, APICacheSync
  <2> QED
    BY <1>4, <2>1 DEF LettingGo, LimitsHeld
<1>10. CASE EditSpec \/ DeleteGlance
  <2>1. UNCHANGED <<limits, pc, inst>>
    BY <1>10 DEF EditSpec, DeleteGlance
  <2>2. /\ \A s, g : [glance EXCEPT !.spec = s, !.gen = g].exists = glance.exists
        /\ \A s, g : [glance EXCEPT !.spec = s, !.gen = g].finalizer = glance.finalizer
        /\ \A g : [glance EXCEPT !.deleting = TRUE, !.gen = g].exists = glance.exists
        /\ \A g : [glance EXCEPT !.deleting = TRUE, !.gen = g].finalizer = glance.finalizer
    BY <1>1 DEF GlanceType
  <2>3. glance.finalizer =>
            glance'.exists = glance.exists /\ glance'.finalizer = glance.finalizer
    <3>1. CASE EditSpec
      <4>1. PICK s : glance' = [glance EXCEPT !.spec = s, !.gen = glance.gen + 1]
        BY <3>1 DEF EditSpec
      <4> QED
        BY <2>2, <4>1
    <3>2. CASE DeleteGlance /\ glance.finalizer
      <4>1. glance' = [glance EXCEPT !.deleting = TRUE, !.gen = glance.gen + 1]
        BY <3>2 DEF DeleteGlance
      <4> QED
        BY <2>2, <4>1
    <3> QED
      BY <1>10, <3>1, <3>2
  <2> QED
    BY <1>4, <2>1, <2>3 DEF LettingGo, LimitsHeld
<1> QED
  <2>1. UNCHANGED limits \/ APIDeployment \/ APIDeploymentFails \/ DeleteLimits
    BY LimitsSteps
  <2> QED
    BY <1>2, <1>3, <1>5, <1>6, <1>7, <1>8, <1>9, <1>10, <2>1, KindsOfSteps

\* A Glance that is gone has left no registered limits in keystone, over crashes and
\* failures, when its quotas are not switched on or off: reconcileDelete asks the
\* setting of the copy that it works on.
THEOREM LimitsRemoved ==
    ASSUME \A q, r \in Quotas : q = r
    PROVE  Spec => []DeletionRemovesLimits
<1>1. Init => QuotasAskedFor /\ WorksOnGlance /\ LimitsHeld
  <2> SUFFICES ASSUME Init PROVE QuotasAskedFor /\ WorksOnGlance /\ LimitsHeld
    OBVIOUS
  <2>1. PICK s \in UserSpecs : glance = [NoGlance EXCEPT !.exists = TRUE, !.gen = 1, !.spec = s]
    BY DEF Init
  <2>2. glance.spec = s
    BY <2>1 DEF NoGlance
  <2>3. glance.spec.quota \in Quotas
    BY <2>2 DEF UserSpecs
  <2> QED
    BY <2>3, NoGlanceFields DEF Init, QuotasAskedFor, WorksOnGlance, LimitsHeld, LettingGo
<1>2. TypeOK /\ LifeCycleInv /\ QuotasAskedFor /\ WorksOnGlance /\ LimitsHeld /\ [Next]_vars
          => QuotasAskedFor' /\ WorksOnGlance' /\ LimitsHeld'
  BY QuotasStep, LimitsStep
<1>3. LimitsHeld => DeletionRemovesLimits
  BY DEF LimitsHeld, DeletionRemovesLimits
<1> QED
  BY <1>1, <1>2, <1>3, TypeCorrect, LifeCycleInvariant, PTL DEF Spec

-----------------------------------------------------------------------------
(* The mirrored condition.                                                 *)

\* The cached GlanceAPIs are of the contract too.
CacheInContract == \A o \in APIs : InContract(seen[o])

\* The GlanceAPI is Ready, or the cache is behind.
ReadySeen(o) == Ahead(o) \/ seen[o].ready

\* The same, or it was never reported on, which the generation gives away.
NoFailureSeen(o) == ReadySeen(o) \/ seen[o].new

\* What the condition that a pass mirrors says of the GlanceAPIs of a single API:
\* it is that of the last one in the loop, together with that of the external half.
MirrorInv ==
    ~queued =>
        /\ pc \in {"inputs", "ensureDB", "reconcileInit", "apiDeployment"} =>
               "GlanceAPIReady" \notin conds
        /\ pc = "apiDeployment" =>
               \A o \in Wanted(inst.spec) \ todo :
                   o[2] = "external" /\ (mirror # "False" => NoFailureSeen(o))
        /\ pc \in {"cleanup", "finish"} /\ "GlanceAPIReady" \in conds =>
               \A o \in Wanted(inst.spec) : NoFailureSeen(o)
        /\ pc = "patch" /\ glance.exists /\ inst.status.ready =>
               \A o \in Wanted(inst.spec) : ReadySeen(o)
        /\ pc = "idle" /\ gcache = glance /\ glance.exists /\ glance.status.ready =>
               \A o \in Wanted(glance.spec) : ReadySeen(o)

\* What has been seen stays seen, or the cache is behind.
LEMMA SeenKept ==
    ASSUME TypeOK, TypeOK', VersionsInOrder, glance.exists, UNCHANGED seen,
           \A o \in APIs : Change(o), NEW o \in APIs
    PROVE  /\ ReadySeen(o) => ReadySeen(o)'
           /\ NoFailureSeen(o) => NoFailureSeen(o)'
  BY AheadKept DEF ReadySeen, NoFailureSeen

\* The loop, for a single API: the half that comes last decides.
LEMMA DeploymentMirrors ==
    ASSUME \A m, n \in Names : m = n,
           TypeOK, TypeOK', LifeCycleInv, VersionsInOrder, MirrorInv, APIDeployment, ~queued
    PROVE  /\ pc' = "apiDeployment" => "GlanceAPIReady" \notin conds'
           /\ pc' = "apiDeployment" =>
                  \A o \in Wanted(inst'.spec) \ todo' :
                      o[2] = "external" /\ (mirror' # "False" => NoFailureSeen(o)')
           /\ pc' = "cleanup" /\ "GlanceAPIReady" \in conds' =>
                  \A o \in Wanted(inst'.spec) : NoFailureSeen(o)'
<1>0. PICK p, s, c : p = First(todo) /\ s = inst.spec /\ c = Mirror(Written(p))
  OBVIOUS
<1>1. /\ pc = "apiDeployment" /\ todo' = todo \ {p} /\ UNCHANGED seen /\ inst'.spec = s
      /\ MirrorCondition(p, c)
      /\ pc' = IF todo' = {} THEN "cleanup" ELSE "apiDeployment"
      /\ DeployingWanted
  BY <1>0, PassStepFacts DEF APIDeployment, DeployNext, Proceed, caches, PassStep, LifeCycleInv
<1>2. /\ p \in APIs /\ s \in SpecType /\ glance.exists
      /\ p \in todo /\ todo \subseteq Wanted(s) /\ Wanted(s) \subseteq APIs
  BY <1>0, <1>1, Deploying DEF TypeOK, GlanceType, LifeCycleInv, HoldKept, NormalSteps,
     DeployingWanted, Wanted
<1>3. \A o \in APIs : NoFailureSeen(o) => NoFailureSeen(o)'
  <2>1. \A q \in APIs : Change(q)
    BY <1>1, DeploymentChange
  <2> QED
    BY <1>1, <1>2, <2>1, SeenKept
<1>4. c # "False" => NoFailureSeen(p)'
  <2>1. CASE UpToDate(p)
    <3>1. c = Mirror(seen[p])
      BY <1>0, <2>1 DEF Written
    <3> QED
      BY <1>1, <3>1 DEF Mirror, NoFailureSeen, ReadySeen
  <2>2. CASE ~UpToDate(p)
    BY <1>0, <1>1, <2>2, DeploymentAhead DEF NoFailureSeen, ReadySeen
  <2> QED
    BY <2>1, <2>2
<1>5. /\ "GlanceAPIReady" \notin conds
      /\ \A o \in Wanted(s) \ todo :
             o[2] = "external" /\ (mirror # "False" => NoFailureSeen(o)')
  BY <1>0, <1>1, <1>2, <1>3 DEF MirrorInv
<1>6. \A o, q \in Wanted(s) : o # q => {o[2], q[2]} = {"external", "internal"}
  <2>1. \A o \in Wanted(s) : o[1] \in Names
    BY <1>2, APIPairs
  <2> QED
    BY <1>2, <2>1, OneLayout
<1>7. CASE p[2] = "external"
  <2>1. mirror' = c /\ UNCHANGED conds
    BY <1>1, <1>7 DEF MirrorCondition
  <2>2. Wanted(s) \ todo = {}
    BY <1>2, <1>5, <1>6, <1>7
  <2>3. Wanted(s) \ todo' \subseteq {p}
    BY <1>1, <2>2
  <2>4. \A o \in Wanted(s) \ todo' :
            o[2] = "external" /\ (mirror' # "False" => NoFailureSeen(o)')
    BY <1>4, <1>7, <2>1, <2>3
  <2> QED
    BY <1>1, <1>5, <2>1, <2>4
<1>8. CASE p[2] # "external"
  <2>1. conds' = CASE HigherPrio(c, mirror) = "True"  -> conds \cup {"GlanceAPIReady"}
                   [] HigherPrio(c, mirror) = "False" -> conds \ {"GlanceAPIReady"}
                   [] OTHER                           -> conds
    BY <1>1, <1>8 DEF MirrorCondition, SetGlanceAPIReady
  <2>2. "GlanceAPIReady" \in conds' => c # "False" /\ mirror # "False"
    BY <1>5, <2>1 DEF HigherPrio
  <2>3. todo' = {}
    <3> SUFFICES ASSUME NEW q \in todo, q # p PROVE FALSE
      BY <1>1
    <3>1. q[1] = p[1] /\ q[1] \in Nat
      BY <1>2, APIPairs
    <3>2. q[2] = "external"
      BY <1>2, <1>6, <1>8
    <3>3. p[1] < q[1] \/ (p[1] = q[1] /\ q[2] = "internal")
      <4>1. todo \in SUBSET Wanted(s) /\ todo # {} /\ q \in todo \ {First(todo)}
        BY <1>0, <1>2
      <4> QED
        BY <1>0, <1>2, <4>1, FirstIn
    <3> QED
      BY <3>1, <3>2, <3>3
  <2>4. Wanted(s) \subseteq {p} \cup (Wanted(s) \ todo)
    BY <1>1, <2>3
  <2>5. "GlanceAPIReady" \in conds' => \A o \in Wanted(s) : NoFailureSeen(o)'
    BY <1>4, <1>5, <2>2, <2>4
  <2> QED
    BY <1>1, <2>3, <2>5
<1> QED
  BY <1>7, <1>8

\* The end of a pass: a GlanceAPI that was never reported on is not reconciled at its
\* generation.
LEMMA FinishMirrors ==
    ASSUME TypeOK, LifeCycleInv, NothingMissed, WorkDone, CacheInContract, MirrorInv,
           Finish, ~queued, inst'.status.ready
    PROVE  \A o \in Wanted(inst.spec) : ReadySeen(o)
<1>1. pc = "finish" /\ todo = {}
  BY DEF Finish, NothingMissed
<1>2. conds = {"KeystoneServiceReady", "GlanceAPIReady"} /\ checkGlanceAPIsGeneration
  <2>1. \A r : [inst EXCEPT !.status.ready = r].status.ready = r
    BY DEF TypeOK, GlanceType, StatusType
  <2> QED
    BY <2>1 DEF Finish
<1>3. LoopDone
  BY WorkDoneParts
<1> SUFFICES ASSUME NEW o \in Wanted(inst.spec) PROVE ReadySeen(o)
  OBVIOUS
<1>4. o \in APIs
  BY DEF Wanted
<1>5. NoFailureSeen(o)
  BY <1>1, <1>2 DEF MirrorInv
<1>6. Ahead(o) \/ seen[o].exists
  BY <1>1, <1>3 DEF LoopDone, Dealt
<1>7. seen[o].exists => ~seen[o].new
  <2>1. seen[o].gen \in Nat /\ InContract(seen[o])
    BY <1>4, APITypes DEF CacheInContract
  <2> QED
    BY <1>2, <1>4, <2>1 DEF checkGlanceAPIsGeneration, InContract
<1> QED
  BY <1>5, <1>6, <1>7 DEF NoFailureSeen, ReadySeen

LEMMA PassStepMirrors ==
    ASSUME \A m, n \in Names : m = n,
           TypeOK, TypeOK', LifeCycleInv, VersionsInOrder, NothingMissed, WorkDone,
           CacheInContract, MirrorInv, PassStep, \A o \in APIs : Change(o)
    PROVE  MirrorInv'
<1>1. /\ pc \notin {"idle", "patch"} /\ pc' # "idle" /\ (queued => queued')
      /\ UNCHANGED <<glance, gcache, seen, before>>
      /\ inst'.spec = inst.spec
      /\ inst'.status.ready => Finish /\ pc' = "patch"
  <2>1. ~inst.status.ready
    BY PassStepFacts DEF NothingMissed
  <2> QED
    BY <2>1, PassStepFacts
<1>2. CASE (pc' = "patch" /\ ~Finish) \/ pc' \in DeleteSteps
  BY <1>1, <1>2 DEF MirrorInv, DeleteSteps
<1>3. CASE APIDeployment
  <2>1. pc' \in {"apiDeployment", "cleanup"} /\ pc = "apiDeployment" /\ UNCHANGED queued
    BY <1>3 DEF APIDeployment, DeployNext, Proceed
  <2> QED
    <3> SUFFICES ASSUME ~queued' PROVE MirrorInv'
      BY DEF MirrorInv
    <3>1. /\ pc' = "apiDeployment" => "GlanceAPIReady" \notin conds'
          /\ pc' = "apiDeployment" =>
                 \A o \in Wanted(inst'.spec) \ todo' :
                     o[2] = "external" /\ (mirror' # "False" => NoFailureSeen(o)')
          /\ pc' = "cleanup" /\ "GlanceAPIReady" \in conds' =>
                 \A o \in Wanted(inst'.spec) : NoFailureSeen(o)'
      BY <1>3, <2>1, DeploymentMirrors
    <3> QED
      BY <2>1, <3>1 DEF MirrorInv
<1>4. CASE GlanceAPICleanup
  <2>1. pc = "cleanup" /\ pc' = "finish" /\ UNCHANGED <<queued, conds>>
    BY <1>4 DEF GlanceAPICleanup, Proceed
  <2>2. glance.exists
    BY <2>1 DEF LifeCycleInv, HoldKept, NormalSteps
  <2>3. ~queued /\ "GlanceAPIReady" \in conds =>
            \A o \in Wanted(inst.spec) : o \in APIs /\ NoFailureSeen(o)
    BY <2>1 DEF MirrorInv, Wanted
  <2>4. ~queued /\ "GlanceAPIReady" \in conds =>
            \A o \in Wanted(inst.spec) : NoFailureSeen(o)'
    BY <1>1, <2>2, <2>3, SeenKept
  <2> QED
    BY <1>1, <2>1, <2>4 DEF MirrorInv
<1>5. CASE Finish
  <2>1. pc' = "patch" /\ UNCHANGED <<queued, api>>
    BY <1>5 DEF Finish, Return, server
  <2>2. ~queued /\ inst'.status.ready => \A o \in Wanted(inst.spec) : ReadySeen(o)'
    <3>1. ~queued /\ inst'.status.ready => \A o \in Wanted(inst.spec) : ReadySeen(o)
      BY <1>5, FinishMirrors
    <3> QED
      BY <1>1, <2>1, <3>1 DEF ReadySeen, Ahead
  <2> QED
    BY <1>1, <2>1, <2>2 DEF MirrorInv
<1>6. CASE VerifyInputs \/ EnsureDB \/ ReconcileInit
  <2>1. CASE pc' = "patch"
    <3>1. ~Finish
      BY <1>6 DEF VerifyInputs, EnsureDB, ReconcileInit, Finish
    <3> QED
      BY <1>2, <2>1, <3>1
  <2>2. CASE pc' # "patch"
    <3>1. /\ pc \in {"inputs", "ensureDB", "reconcileInit"}
          /\ pc' \in {"ensureDB", "reconcileInit", "apiDeployment", "cleanup"}
          /\ pc' \in {"apiDeployment", "cleanup"} => todo' = Wanted(inst.spec)
          /\ conds' \subseteq conds \cup {"KeystoneServiceReady"}
      BY <1>6, <2>2 DEF VerifyInputs, EnsureDB, ReconcileInit, DeployNext, Proceed, Return
    <3> QED
      BY <1>1, <3>1 DEF MirrorInv
  <2> QED
    BY <2>1, <2>2
<1>7. CASE \/ APIDeploymentFails \/ GlanceAPICleanupFails \/ CallFails \/ DeleteLimits
           \/ DeleteDBFinalizer \/ DeleteServiceFinalizer
  <2>1. pc' = "patch" \/ pc' \in DeleteSteps
    BY <1>7 DEF APIDeploymentFails, GlanceAPICleanupFails, CallFails, DeleteLimits,
       DeleteDBFinalizer, DeleteServiceFinalizer, Return, Proceed, DeleteSteps
  <2>2. ~Finish
    <3>1. pc' = "patch" /\ pc = "finish" => exit' = "error"
      BY <1>7 DEF APIDeploymentFails, GlanceAPICleanupFails, CallFails, DeleteLimits,
         DeleteDBFinalizer, DeleteServiceFinalizer, Return, Proceed
    <3> QED
      BY <3>1 DEF Finish, Return
  <2> QED
    BY <1>2, <2>1, <2>2
<1> QED
  BY <1>3, <1>4, <1>5, <1>6, <1>7, Zenon DEF PassStep

LEMMA MirrorStep ==
    ASSUME \A m, n \in Names : m = n,
           TypeOK, TypeOK', LifeCycleInv, VersionsInOrder, NothingMissed, WorkDone,
           CacheInContract, MirrorInv, [Next]_vars
    PROVE  MirrorInv'
<1> USE DEF server, caches, worker
<1>1. \A o \in APIs : Change(o)
  BY AnyChange DEF LifeCycleInv
<1>2. CASE PassStep
  BY <1>1, <1>2, PassStepMirrors
<1>3. CASE Reconcile
  <2> DEFINE f == ~gcache.deleting /\ ~gcache.finalizer
  <2>1. f \in BOOLEAN /\ gcache \in GlanceType
    BY DEF TypeOK
  <2>2. /\ inst' = Started(f) /\ conds' = {}
        /\ pc' \in {"patch", "deleteDB", "inputs"}
    BY <1>3 DEF Reconcile
  <2>3. inst'.status.ready = FALSE
    <3> HIDE DEF f
    <3> QED
      BY <2>1, <2>2, StartedTyped
  <2> QED
    BY <2>2, <2>3 DEF MirrorInv
<1>4. CASE PatchInstance
  <2>1. pc = "patch" /\ pc' = "idle" /\ UNCHANGED <<api, seen, gcache>> /\ (~queued' => ~queued)
    BY <1>4 DEF PatchInstance, Idle
  <2>2. ASSUME ~queued', gcache = glance', glance'.exists, glance'.status.ready
        PROVE  \A o \in Wanted(glance'.spec) : ReadySeen(o)'
    <3>1. inst.status.ready /\ inst.spec = glance'.spec /\ glance.exists
      BY <1>4, <2>2, PatchSays
    <3>2. \A o \in Wanted(inst.spec) : ReadySeen(o)
      BY <2>1, <2>2, <3>1 DEF MirrorInv
    <3> QED
      BY <2>1, <3>1, <3>2 DEF ReadySeen, Ahead
  <2> QED
    BY <2>1, <2>2 DEF MirrorInv
<1>5. CASE PatchFails \/ Crash
  <2>1. pc' = "idle" /\ queued'
    BY <1>5 DEF PatchFails, Crash, Idle
  <2> QED
    BY <2>1 DEF MirrorInv
<1>6. CASE CacheSync \/ \E o \in APIs : APICacheSync(o)
  <2>1. queued' /\ UNCHANGED <<pc, conds>>
    BY <1>6 DEF CacheSync, APICacheSync
  <2> QED
    BY <2>1 DEF MirrorInv
<1>7. CASE EditSpec \/ DeleteGlance
  <2>1. /\ UNCHANGED <<gcache, seen, pc, inst, todo, queued, api, conds, mirror>>
        /\ glance.exists
        /\ glance'.exists => glance'.gen = glance.gen + 1
    BY <1>7, UserVersion DEF EditSpec, DeleteGlance
  <2>2. glance'.exists => gcache # glance'
    <3>1. glance.gen \in Nat /\ gcache.gen \in Nat /\ gcache.gen <= glance.gen
      BY <2>1 DEF TypeOK, GlanceType, NothingMissed
    <3> QED
      BY <2>1, <3>1
  <2> QED
    BY <2>1, <2>2 DEF MirrorInv, ReadySeen, NoFailureSeen, Ahead
<1>8. CASE Elsewhere /\ UNCHANGED <<conds, mirror>>
  <2>1. /\ UNCHANGED <<glance, gcache, seen, pc, inst, todo, conds, mirror>>
        /\ ~queued' => ~queued \/ (pc = "idle" /\ ~gcache.exists)
    BY <1>8 DEF Elsewhere
  <2>2. CASE ~glance.exists
    <3>1. pc \notin NormalSteps
      BY <2>2 DEF LifeCycleInv, HoldKept
    <3> QED
      BY <2>1, <2>2, <3>1 DEF MirrorInv, NormalSteps
  <2>3. CASE glance.exists
    <3>1. \A o \in APIs : /\ ReadySeen(o) => ReadySeen(o)'
                          /\ NoFailureSeen(o) => NoFailureSeen(o)'
      BY <1>1, <2>1, <2>3, SeenKept
    <3>2. \A s : Wanted(s) \subseteq APIs
      BY DEF Wanted
    <3> QED
      BY <2>1, <3>1, <3>2 DEF MirrorInv
  <2> QED
    BY <2>2, <2>3
<1>9. Elsewhere => UNCHANGED <<conds, mirror>>
  BY DEF Elsewhere
<1> QED
  BY <1>2, <1>3, <1>4, <1>5, <1>6, <1>7, <1>8, <1>9, KindsOfSteps

\* A Glance of a single API that settles as Ready consists of GlanceAPIs that are
\* Ready, both halves of a split API included.  (With several APIs the condition of
\* the last one replaces those of the others.)
THEOREM SingleAPIWhole ==
    ASSUME \A m, n \in Names : m = n
    PROVE  Spec => []ReadyIsWhole
<1>1. Init => CacheInContract /\ MirrorInv
  <2> SUFFICES ASSUME Init PROVE CacheInContract /\ MirrorInv
    OBVIOUS
  <2>1. /\ gcache = NoGlance /\ pc = "idle" /\ seen = [o \in APIs |-> NoAPI]
    BY DEF Init
  <2> QED
    BY <2>1, NoGlanceFields, APIViewNoAPI DEF CacheInContract, MirrorInv
<1>2. TypeOK /\ APIsInContract /\ CacheInContract /\ [Next]_vars => CacheInContract'
  <2> SUFFICES ASSUME TypeOK, APIsInContract, CacheInContract, [Next]_vars, NEW o \in APIs
               PROVE  InContract(seen'[o])
    BY DEF CacheInContract
  <2>1. seen'[o] = seen[o] \/ seen'[o] = api[o]
    BY VersionSteps
  <2> QED
    BY <2>1 DEF CacheInContract, APIsInContract
<1>3. /\ TypeOK /\ TypeOK' /\ LifeCycleInv /\ PassInv /\ CacheInContract /\ MirrorInv
      /\ [Next]_vars
      => MirrorInv'
  BY MirrorStep DEF PassInv
<1>4. TypeOK /\ MirrorInv => ReadyIsWhole
  <2> SUFFICES ASSUME TypeOK, MirrorInv, Settled, ReadyNow, NEW o \in Wanted(glance.spec)
               PROVE  api[o].ready
    BY DEF ReadyIsWhole
  <2>1. o \in APIs /\ seen = api
    BY DEF Wanted, Settled
  <2>2. ReadySeen(o)
    BY DEF MirrorInv, Settled, ReadyNow
  <2>3. ~Ahead(o)
    BY <2>1, APITypes DEF Ahead
  <2> QED
    BY <2>1, <2>2, <2>3 DEF ReadySeen
<1> QED
  BY <1>1, <1>2, <1>3, <1>4, TypeCorrect, LifeCycleInvariant, APIsStayInContract,
     PassInvariant, PTL DEF Spec

=============================================================================
