------------------------ MODULE GlanceContractProofs ------------------------
(***************************************************************************)
(* The Glance controller keeps its side of GlanceAPIContract, for any      *)
(* number of APIs, edits, crashes and faults.  The argument is in two      *)
(* parts: what a step of the specification does to one GlanceAPI           *)
(* (ObjectStep), and that this is a step of the contract.                  *)
(***************************************************************************)
EXTENDS GlanceProofs, ContractRecords

\* What happens to GlanceAPI o in one step: the Glance controller creates, updates
\* or deletes it; the GlanceAPI controller reports on it or lets go of it.
ObjectStep(o, a, b) ==
    \/ b = a
    \/ ~a.exists /\ \E s \in SpecType : b = Created(o, s)
    \/ a.exists /\ \E s \in SpecType : b = Desired(o, s, a)
    \/ b = Deleted(a)
    \/ /\ a.exists /\ b.exists = a.exists /\ b.deleting = a.deleting /\ b.new = FALSE
       /\ b.gen = a.gen /\ b.observed \in a.observed .. a.gen
    \/ a.deleting /\ b = NoAPI

-----------------------------------------------------------------------------
(* Every step is one of these for every GlanceAPI.                         *)

\* The loop over the APIs writes from the cache, but never over a version that it
\* has not seen.
LEMMA DeploymentStep ==
    ASSUME TypeOK, DeployingWanted, APIDeployment, NEW o \in APIs
    PROVE  ObjectStep(o, api[o], api'[o])
<1> DEFINE p == First(todo)
<1>1. /\ api' = IF UpToDate(p) THEN api ELSE [api EXCEPT ![p] = Written(p)]
      /\ ~WriteFails(p) /\ pc = "apiDeployment"
  BY DEF APIDeployment
<1>2. p \in APIs /\ inst.spec \in SpecType
  BY <1>1, Deploying DEF TypeOK, GlanceType
<1> HIDE DEF p
<1>3. CASE UpToDate(p) \/ o # p
  <2>1. api'[o] = api[o]
    BY <1>1, <1>2, <1>3 DEF TypeOK
  <2> QED
    BY <2>1 DEF ObjectStep
<1>4. CASE ~UpToDate(p) /\ o = p
  <2>1. api'[o] = Written(o)
    BY <1>1, <1>2, <1>4 DEF TypeOK
  <2>2. CASE seen[o].exists
    <3>1. seen[o] = api[o]
      BY <1>1, <1>4, <2>2 DEF WriteFails
    <3>2. api'[o] = Desired(o, inst.spec, api[o]) /\ api[o].exists
      BY <1>4, <2>1, <2>2, <3>1 DEF Written
    <3> QED
      BY <1>2, <3>2, Zenon DEF ObjectStep
  <2>3. CASE ~seen[o].exists
    <3>1. ~api[o].exists
      BY <1>1, <1>4, <2>3 DEF WriteFails
    <3>2. api'[o] = Created(o, inst.spec)
      BY <1>4, <2>1, <2>3 DEF Written
    <3> QED
      BY <1>2, <3>1, <3>2, Zenon DEF ObjectStep
  <2> QED
    BY <2>2, <2>3
<1> QED
  BY <1>3, <1>4

\* glanceAPICleanup deletes what its cache shows, whatever has become of it.
LEMMA CleanupStep ==
    ASSUME TypeOK, NEW S \in SUBSET APIs, Cleanup(S), NEW o \in APIs
    PROVE  ObjectStep(o, api[o], api'[o])
<1>1. api'[o] = IF o \in S THEN Deleted(api[o]) ELSE api[o]
  BY DEF Cleanup
<1> QED
  BY <1>1 DEF ObjectStep

\* The GlanceAPI controller and the garbage collector.
LEMMA ClusterStep ==
    ASSUME TypeOK, APIsInContract,
           NEW p \in APIs, APIController(p) \/ APICollected(p) \/ APIReports(p),
           NEW o \in APIs
    PROVE  ObjectStep(o, api[o], api'[o])
<1> DEFINE a == api[o]
<1>1. a \in APIType /\ a.gen \in Nat /\ a.observed \in Nat /\ a.observed <= a.gen
  BY DEF TypeOK, APIType, APIsInContract, InContract
<1>2. CASE o # p
  <2>1. PICK b : api' = [api EXCEPT ![p] = b]
    BY APIStepTyped
  <2>2. api'[o] = api[o]
    BY <1>2, <2>1 DEF TypeOK
  <2> QED
    BY <2>2 DEF ObjectStep
<1>3. CASE o = p /\ APIObserves(p)
  <2>1. PICK r \in BOOLEAN :
            api' = [api EXCEPT ![o] = [a EXCEPT !.new = FALSE, !.observed = a.gen, !.ready = r]]
    BY <1>3 DEF APIObserves
  <2> DEFINE b == [a EXCEPT !.new = FALSE, !.observed = a.gen, !.ready = r]
  <2>2. api'[o] = b /\ a.exists
    BY <1>3, <2>1 DEF TypeOK, APIObserves
  <2>3. /\ b.exists = a.exists /\ b.deleting = a.deleting /\ b.new = FALSE
        /\ b.gen = a.gen /\ b.observed = a.gen
    BY <1>1 DEF APIType
  <2>4. b.observed \in a.observed .. a.gen
    <3> HIDE DEF a, b
    <3> QED
      BY <1>1, <2>3
  <2>5. ObjectStep(o, a, b)
    <3> HIDE DEF a, b
    <3> QED
      BY <2>2, <2>3, <2>4 DEF ObjectStep
  <2> QED
    BY <2>2, <2>5
<1>4. CASE o = p /\ APIBecomesReady(p)
  <2> DEFINE b == [a EXCEPT !.ready = TRUE]
  <2>1. /\ api' = [api EXCEPT ![o] = b]
        /\ a.exists /\ ~a.new
    BY <1>4 DEF APIBecomesReady
  <2>2. api'[o] = b /\ a.new = FALSE
    BY <1>1, <2>1 DEF TypeOK, APIType
  <2>3. /\ b.exists = a.exists /\ b.deleting = a.deleting /\ b.new = FALSE
        /\ b.gen = a.gen /\ b.observed = a.observed
    BY <1>1, <2>2 DEF APIType
  <2>4. b.observed \in a.observed .. a.gen
    <3> HIDE DEF a, b
    <3> QED
      BY <1>1, <2>3
  <2>5. ObjectStep(o, a, b)
    <3> HIDE DEF a, b
    <3> QED
      BY <2>1, <2>3, <2>4 DEF ObjectStep
  <2> QED
    BY <2>2, <2>5
<1>5. CASE o = p /\ APIReports(p)
  <2>1. PICK b \in Contract!Reports(a) : api' = [api EXCEPT ![o] = b]
    BY <1>5 DEF APIReports
  <2>2. api'[o] = b /\ a.exists
    BY <1>5, <2>1 DEF TypeOK, APIReports
  <2>3. /\ b.exists = a.exists /\ b.deleting = a.deleting /\ b.gen = a.gen
        /\ b.new = FALSE /\ b.observed \in a.observed .. a.gen
    BY <1>1, ReportTyped
  <2>4. ObjectStep(o, a, b)
    <3> HIDE DEF a
    <3> QED
      BY <2>2, <2>3 DEF ObjectStep
  <2> QED
    BY <2>2, <2>4
<1>6. CASE o = p /\ APIFinalized(p)
  BY <1>6 DEF APIFinalized, ObjectStep, TypeOK
<1>7. CASE o = p /\ APICollected(p)
  BY <1>7 DEF APICollected, ObjectStep, TypeOK
<1> QED
  BY <1>2, <1>3, <1>4, <1>5, <1>6, <1>7 DEF APIController

\* All steps.
LEMMA AnyStep ==
    ASSUME TypeOK, DeployingWanted, APIsInContract, [Next]_vars, NEW o \in APIs
    PROVE  ObjectStep(o, api[o], api'[o])
<1>1. CASE APIDeployment
  BY <1>1, DeploymentStep
<1>2. CASE GlanceAPICleanup \/ GlanceAPICleanupFails
  <2>1. PICK S \in SUBSET Removed : Cleanup(S)
    BY <1>2 DEF GlanceAPICleanup, GlanceAPICleanupFails
  <2>2. S \in SUBSET APIs
    BY DEF Removed
  <2> QED
    BY <2>1, <2>2, CleanupStep
<1>3. ASSUME NEW p \in APIs, APIController(p) \/ APICollected(p) \/ APIReports(p)
      PROVE  ObjectStep(o, api[o], api'[o])
  BY <1>3, ClusterStep
<1>4. CASE UNCHANGED api
  BY <1>4 DEF ObjectStep
<1>5. CASE Worker
  BY <1>1, <1>2, <1>4, <1>5 DEF Worker, server, ReconcileNotFound, Reconcile, VerifyInputs,
     EnsureDB, ReconcileInit, APIDeploymentFails, Finish, DeleteDBFinalizer,
     DeleteServiceFinalizer, DeleteLimits, PatchInstance
<1>6. CASE Cluster
  BY <1>3, <1>4, <1>6 DEF Cluster, server, CacheSync, APICacheSync, InputAppears
<1>7. CASE Failure
  BY <1>2, <1>3, <1>4, <1>7 DEF Failure, server, CallFails, PatchFails, Crash
<1>8. CASE User
  BY <1>4, <1>8 DEF User, EditSpec, DeleteGlance
<1>9. CASE UNCHANGED vars
  BY <1>4, <1>9 DEF vars
<1> QED
  BY <1>5, <1>6, <1>7, <1>8, <1>9 DEF Next

-----------------------------------------------------------------------------
(* These are steps of the contract.                                        *)

\* What the contract says of a GlanceAPI.
LEMMA APIViewTyped ==
    ASSUME NEW a \in APIType
    PROVE  /\ APIView(a) \in ObjectType
           /\ APIView(a).exists = a.exists /\ APIView(a).deleting = a.deleting
           /\ APIView(a).new = a.new /\ APIView(a).gen = a.gen
           /\ APIView(a).observed = a.observed /\ APIView(a).ready = a.ready
  BY DEF APIView, ObjectType, APIType

\* A GlanceAPI that is not there.
LEMMA APIViewNoAPI == /\ APIView(NoAPI) = Contract!Absent
                      /\ InContract(NoAPI)
  BY DEF APIView, NoAPI, InContract, Contract!Absent

\* A deletion: the object disappears at once unless the GlanceAPI controller holds
\* it.
LEMMA DeletedInContract ==
    ASSUME NEW a \in APIType, InContract(a), NoAPI \in APIType
    PROVE  InContract(Deleted(a)) /\ Contract!Step(APIView(a), APIView(Deleted(a)))
<1>1. CASE ~a.exists
  <2>1. Deleted(a) = a
    BY <1>1 DEF Deleted, InContract
  <2> QED
    BY <2>1 DEF Contract!Step
<1>2. CASE a.exists /\ a.deleting
  <2>1. Deleted(a) = a
    BY <1>2 DEF Deleted, InContract
  <2> QED
    BY <2>1 DEF Contract!Step
<1>3. CASE a.exists /\ ~a.deleting /\ a.new
  <2>1. Deleted(a) = NoAPI
    BY <1>3 DEF Deleted
  <2>2. Contract!Deleted(APIView(a), Contract!Absent)
    BY <1>3, APIViewTyped DEF Contract!Deleted
  <2> QED
    BY <2>1, <2>2, APIViewNoAPI DEF Contract!Step
<1>4. CASE a.exists /\ ~a.deleting /\ ~a.new
  <2> DEFINE g == a.gen + 1
             b == [a EXCEPT !.deleting = TRUE, !.gen = g]
             u == APIView(a)
             v == APIView(b)
  <2>1. g \in Nat /\ g > 0 /\ a.gen \in Nat /\ a.observed \in Nat /\ a.observed <= g
    BY DEF APIType, InContract
  <2>2. /\ b \in APIType /\ b.exists = a.exists /\ b.deleting = TRUE /\ b.new = a.new
        /\ b.gen = g /\ b.observed = a.observed /\ b.ready = a.ready
    <3> HIDE DEF g
    <3> QED
      BY <2>1 DEF APIType
  <2>3. Deleted(a) = b
    BY <1>4 DEF Deleted
  <2>4. InContract(b)
    <3> HIDE DEF b, g
    <3> QED
      BY <1>4, <2>1, <2>2 DEF InContract
  <2> HIDE DEF b
  <2>5. /\ u \in ObjectType /\ v \in ObjectType
        /\ v.exists = u.exists /\ v.deleting = TRUE /\ v.new = u.new
        /\ v.gen = u.gen + 1 /\ v.observed = u.observed /\ v.ready = u.ready
        /\ u.exists /\ ~u.deleting /\ ~u.new
    BY <1>4, <2>2, APIViewTyped
  <2> HIDE DEF u, v
  <2>6. v = [u EXCEPT !.deleting = TRUE, !.gen = @ + 1]
    BY <2>5, RecordMarked
  <2>7. Contract!Step(u, v)
    BY <2>5, <2>6 DEF Contract!Step, Contract!Deleted
  <2> QED
    BY <2>3, <2>4, <2>7 DEF u, v
<1> QED
  BY <1>1, <1>2, <1>3, <1>4

\* An update: a new generation, or only the annotation, which is not part of the
\* contract.
LEMMA DesiredInContract ==
    ASSUME NEW o \in APIs, NEW s \in SpecType, NEW a \in APIType, InContract(a), a.exists
    PROVE  /\ InContract(Desired(o, s, a))
           /\ Contract!Step(APIView(a), APIView(Desired(o, s, a)))
<1> DEFINE b == Desired(o, s, a)
           u == APIView(a)
           v == APIView(b)
<1>1. /\ b \in APIType /\ b.exists = a.exists /\ b.deleting = a.deleting
      /\ b.new = a.new /\ b.ready = a.ready /\ b.observed = a.observed
      /\ b.gen \in {a.gen, a.gen + 1}
  BY DesiredTyped
<1> HIDE DEF b
<1>2. InContract(b)
  BY <1>1 DEF InContract, APIType
<1>3. /\ u \in ObjectType /\ v \in ObjectType
      /\ v.exists = u.exists /\ v.deleting = u.deleting /\ v.new = u.new
      /\ v.observed = u.observed /\ v.ready = u.ready /\ v.gen \in {u.gen, u.gen + 1}
      /\ u.exists
  BY <1>1, APIViewTyped
<1> HIDE DEF u, v
<1>4. CASE v.gen = u.gen
  <2>1. v = u
    BY <1>3, <1>4, RecordSame
  <2> QED
    BY <1>2, <2>1 DEF Contract!Step, u, v, b
<1>5. CASE v.gen = u.gen + 1
  <2>1. v = [u EXCEPT !.gen = @ + 1]
    BY <1>3, <1>5, RecordEdited
  <2>2. Contract!Step(u, v)
    BY <1>3, <2>1 DEF Contract!Step, Contract!Edited
  <2> QED
    BY <1>2, <2>2 DEF u, v, b
<1> QED
  BY <1>3, <1>4, <1>5

\* A creation: the new GlanceAPI has nothing of an earlier one of its name.
LEMMA CreatedInContract ==
    ASSUME NEW o \in APIs, NEW s \in SpecType, NEW a \in APIType, ~a.exists,
           NoAPI \in APIType
    PROVE  /\ InContract(Created(o, s))
           /\ Contract!Step(APIView(a), APIView(Created(o, s)))
<1> DEFINE b == Created(o, s)
           v == APIView(b)
           z == Contract!Absent
<1>1. /\ b \in APIType /\ b.exists = TRUE /\ b.deleting = FALSE /\ b.new = TRUE
      /\ b.ready = FALSE /\ b.gen = 1 /\ b.observed = 0
  BY CreatedTyped
<1> HIDE DEF b
<1>2. InContract(b)
  BY <1>1 DEF InContract
<1>3. /\ v \in ObjectType /\ v.exists = TRUE /\ v.deleting = FALSE /\ v.new = TRUE
      /\ v.ready = FALSE /\ v.gen = 1 /\ v.observed = 0
  BY <1>1, APIViewTyped
<1>4. /\ z \in ObjectType /\ z.deleting = FALSE /\ z.new = TRUE /\ z.ready = FALSE
      /\ z.observed = 0
  BY DEF Contract!Absent, ObjectType
<1>5. v = Contract!Fresh
  <2> HIDE DEF v, z
  <2>1. v = [z EXCEPT !.exists = TRUE, !.gen = 1]
    BY <1>3, <1>4, RecordCreated
  <2> QED
    BY <2>1 DEF Contract!Fresh, z
<1>6. Contract!Created(APIView(a), v)
  BY <1>5, APIViewTyped DEF Contract!Created
<1> QED
  BY <1>2, <1>6 DEF Contract!Step, b

\* A report is about a generation between the last one reported and the last one.
LEMMA ReportInContract ==
    ASSUME NEW a \in APIType, NEW b \in APIType, InContract(a),
           a.exists, b.exists = a.exists, b.deleting = a.deleting, b.new = FALSE,
           b.gen = a.gen, b.observed \in a.observed .. a.gen
    PROVE  InContract(b) /\ Contract!Step(APIView(a), APIView(b))
<1> DEFINE u == APIView(a)
           v == APIView(b)
<1>1. /\ u \in ObjectType /\ v \in ObjectType
      /\ v.exists = u.exists /\ v.deleting = u.deleting /\ v.new = FALSE
      /\ v.gen = u.gen /\ v.observed \in u.observed .. u.gen /\ v.ready \in BOOLEAN
      /\ u.exists
  BY APIViewTyped DEF APIType
<1>2. InContract(b)
  BY DEF InContract, APIType
<1> HIDE DEF u, v
<1>3. v = [u EXCEPT !.new = FALSE, !.observed = v.observed, !.ready = v.ready]
  BY <1>1, RecordReported
<1>4. \E g \in u.observed .. u.gen, r \in BOOLEAN : v = Contract!Report(u, g, r)
  BY <1>1, <1>3, Zenon DEF Contract!Report
<1>5. v \in Contract!Reports(u)
  BY <1>4 DEF Contract!Reports
<1>6. Contract!Step(u, v)
  BY <1>1, <1>5 DEF Contract!Step, Contract!Reported
<1> QED
  BY <1>2, <1>6 DEF u, v

\* What happens to a GlanceAPI in one step is a step of the contract.
LEMMA ObjectStepInContract ==
    ASSUME NEW o \in APIs, NEW a \in APIType, NEW b \in APIType, NoAPI \in APIType,
           InContract(a), ObjectStep(o, a, b)
    PROVE  InContract(b) /\ Contract!Step(APIView(a), APIView(b))
<1>1. CASE b = a
  BY <1>1 DEF Contract!Step
<1>2. ASSUME ~a.exists, NEW s \in SpecType, b = Created(o, s)
      PROVE  InContract(b) /\ Contract!Step(APIView(a), APIView(b))
  BY <1>2, CreatedInContract
<1>3. ASSUME a.exists, NEW s \in SpecType, b = Desired(o, s, a)
      PROVE  InContract(b) /\ Contract!Step(APIView(a), APIView(b))
  BY <1>3, DesiredInContract
<1>4. CASE b = Deleted(a)
  BY <1>4, DeletedInContract
<1>5. CASE /\ a.exists /\ b.exists = a.exists /\ b.deleting = a.deleting /\ b.new = FALSE
           /\ b.gen = a.gen /\ b.observed \in a.observed .. a.gen
  BY <1>5, ReportInContract
<1>6. CASE a.deleting /\ b = NoAPI
  <2>1. Contract!Finalized(APIView(a), APIView(b))
    BY <1>6, APIViewNoAPI, APIViewTyped DEF Contract!Finalized
  <2> QED
    BY <1>6, <2>1, APIViewNoAPI DEF Contract!Step
<1> QED
  BY <1>1, <1>2, <1>3, <1>4, <1>5, <1>6 DEF ObjectStep

-----------------------------------------------------------------------------
(* The theorems.                                                           *)

\* One step, for all GlanceAPIs.
LEMMA ContractStep ==
    ASSUME TypeOK, DeployingWanted, TypeOK', APIsInContract, [Next]_vars
    PROVE  APIsInContract' /\ Contract!Next
<1>1. \A o \in APIs : /\ api[o] \in APIType /\ api'[o] \in APIType /\ NoAPI \in APIType
                      /\ InContract(api[o])
  BY ImagesExist, NothingTyped DEF TypeOK, APIsInContract
<1>2. ASSUME NEW o \in APIs
      PROVE  InContract(api'[o]) /\ Contract!Step(APIView(api[o]), APIView(api'[o]))
  BY <1>1, AnyStep, ObjectStepInContract
<1>3. APIsInContract'
  BY <1>2 DEF APIsInContract
<1>4. Contract!Next
  BY <1>2 DEF Contract!Next
<1> QED
  BY <1>3, <1>4

\* At the start there is no GlanceAPI.
LEMMA ContractInit == Init => APIsInContract /\ Contract!Init
<1> SUFFICES ASSUME Init PROVE APIsInContract /\ Contract!Init
  OBVIOUS
<1>1. api = [o \in APIs |-> NoAPI]
  BY DEF Init
<1>2. [o \in APIs |-> APIView(api[o])] = [o \in APIs |-> Contract!Absent]
  BY <1>1, APIViewNoAPI
<1> QED
  BY <1>1, <1>2, APIViewNoAPI DEF APIsInContract, Contract!Init

\* Every GlanceAPI stays one of the contract: what is gone has left nothing, what
\* was never reported on is neither marked nor observed, and no report is ahead of
\* the spec, although the Glance controller writes from caches that may be behind.
THEOREM APIsStayInContract == Spec => []APIsInContract
<1>1. Init => APIsInContract
  BY ContractInit
<1>2. TypeOK /\ DeployingWanted /\ TypeOK' /\ APIsInContract /\ [Next]_vars => APIsInContract'
  BY ContractStep
<1> QED
  BY <1>1, <1>2, TypeCorrect, PTL DEF Spec

\* The Glance controller implements its side of the contract, and assumes of the
\* GlanceAPI controller no more than the contract: every step of the specification
\* is for every GlanceAPI a step of the contract or leaves it as it is.
THEOREM ContractKept == Spec => KeepsContract
<1>1. Init => Contract!Init
  BY ContractInit
<1>2. TypeOK /\ DeployingWanted /\ TypeOK' /\ APIsInContract /\ [Next]_vars => Contract!Next
  BY ContractStep
<1> QED
  BY <1>1, <1>2, TypeCorrect, APIsStayInContract, PTL DEF Spec, KeepsContract, Contract!Spec

=============================================================================
