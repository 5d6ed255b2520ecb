---------------------------- MODULE GlanceProofs ----------------------------
(***************************************************************************)
(* Proofs about Glance, for any number of APIs, layouts, values of the     *)
(* inherited fields, edits, crashes and faults.                            *)
(***************************************************************************)
EXTENDS Glance, WellFoundedInduction, TLAPS

-----------------------------------------------------------------------------
(* What the operators return.                                              *)

\* The names of the APIs are sorted: a set of them has a least one.
LEMMA LeastName ==
    ASSUME NEW T \in SUBSET Nat, T # {}
    PROVE  \E n \in T : \A m \in T : n <= m
<1> DEFINE R == OpToRel(<, Nat)
<1>1. PICK n \in T : \A m \in T : ~(<<m, n>> \in R)
  <2>1. IsWellFoundedOn(R, Nat)
    BY NatLessThanWellFounded
  <2> HIDE DEF R
  <2> QED
    BY <2>1, WFMin
<1>2. ASSUME NEW m \in T PROVE n <= m
  <2>1. ~(m < n)
    BY <1>1 DEF OpToRel
  <2> QED
    BY <2>1
<1> QED
  BY <1>2

\* A GlanceAPI object is a pair of a name and a role.
LEMMA APIPairs ==
    /\ Names \subseteq Nat
    /\ \A o \in APIs : o[1] \in Names /\ o = <<o[1], o[2]>>
<1> DEFINE X == UNION {LayoutRoles(t) : t \in Layouts}
<1>1. APIs = Names \X X
  BY DEF APIs
<1> HIDE DEF X
<1>2. \A o \in APIs : o[1] \in Names /\ o = <<o[1], o[2]>>
  BY <1>1
<1> QED
  BY <1>2, ConstantsAssumption DEF ConstantsAssumption

\* The objects of one API: a single one, or the two halves of a split API.
LEMMA OneLayout ==
    ASSUME NEW s \in SpecType, NEW o \in Wanted(s), NEW p \in Wanted(s),
           o[1] = p[1], o # p
    PROVE  {o[2], p[2]} = {"external", "internal"}
<1>1. o = <<o[1], o[2]>> /\ p = <<p[1], p[2]>>
  BY APIPairs DEF Wanted
<1>2. o[2] # p[2]
  BY <1>1
<1>3. o[2] \in LayoutRoles(s.apis[o[1]]) /\ p[2] \in LayoutRoles(s.apis[o[1]])
  BY DEF Wanted
<1>4. s.apis[o[1]] \in {"split", "single", "edge", "absent"}
  BY APIPairs DEF Wanted, SpecType
<1> QED
  BY <1>2, <1>3, <1>4 DEF LayoutRoles

\* The loop of apiDeployment takes an object that is still to be deployed.
LEMMA FirstIn ==
    ASSUME NEW s \in SpecType, NEW S \in SUBSET Wanted(s), S # {}
    PROVE  /\ First(S) \in S
           /\ \A p \in S \ {First(S)} :
                  First(S)[1] < p[1] \/ (First(S)[1] = p[1] /\ p[2] = "internal")
<1> DEFINE Least(o) == \A p \in S \ {o} : o[1] < p[1] \/ (o[1] = p[1] /\ p[2] = "internal")
<1>1. \A o \in S : o \in APIs /\ o[1] \in Nat /\ o = <<o[1], o[2]>>
  BY APIPairs DEF Wanted
<1> DEFINE T == {o[1] : o \in S}
<1>2. PICK n \in T : \A m \in T : n <= m
  <2>1. T \in SUBSET Nat /\ T # {}
    BY <1>1
  <2> HIDE DEF T
  <2> QED
    BY <2>1, LeastName
<1>3. PICK o \in S : o[1] = n
  BY <1>2
<1>4. n \in Nat /\ \A p \in S : n <= p[1] /\ p[1] \in Nat
  BY <1>1, <1>2
<1>5. \E q \in S : Least(q)
  <2>1. CASE \E e \in S : e[1] = n /\ e[2] = "external"
    <3>1. PICK e \in S : e[1] = n /\ e[2] = "external"
      BY <2>1
    <3>2. ASSUME NEW p \in S \ {e}, p[1] = n PROVE p[2] = "internal"
      BY <3>1, <3>2, OneLayout
    <3> QED
      BY <1>4, <3>1, <3>2
  <2>2. CASE ~ \E e \in S : e[1] = n /\ e[2] = "external"
    <3>1. ASSUME NEW p \in S \ {o}, p[1] = n PROVE FALSE
      BY <1>3, <2>2, <3>1, OneLayout
    <3> QED
      BY <1>3, <1>4, <3>1
  <2> QED
    BY <2>1, <2>2
<1> HIDE DEF Least
<1> DEFINE f == CHOOSE q \in S : Least(q)
<1>6. f \in S /\ Least(f)
  BY <1>5
<1>7. f = First(S)
  BY DEF First, Least
<1> HIDE DEF f
<1> QED
  BY <1>6, <1>7 DEF Least

\* Values of the inherited fields exist where a Glance does, so that the objects
\* that are not there are typed.
LEMMA NothingTyped ==
    ASSUME Images # {} PROVE NoGlance \in GlanceType /\ NoAPI \in APIType
<1>1. AnyImage \in Images
  BY DEF AnyImage
<1>2. AnyName \in Names
  BY ConstantsAssumption DEF ConstantsAssumption, AnyName
<1>3. NoAPI \in APIType
  BY <1>1 DEF NoAPI, APIType
<1>4. [apis |-> [n \in Names |-> "absent"], image |-> AnyImage, quota |-> FALSE,
       endpoint |-> AnyName] \in SpecType
  BY <1>1, <1>2 DEF SpecType
<1>5. NoStatus \in StatusType
  BY DEF NoStatus, StatusType
<1> QED
  BY <1>3, <1>4, <1>5 DEF NoGlance, GlanceType

\* There is a value of the inherited fields in every typed state.
LEMMA ImagesExist == TypeOK => Images # {}
  BY DEF TypeOK, GlanceType, SpecType

\* What the user may ask for is a spec.
LEMMA UserSpecsTyped == UserSpecs \subseteq SpecType
<1> SUFFICES ASSUME NEW s \in UserSpecs PROVE s \in SpecType
  OBVIOUS
<1>1. /\ s \in [apis : [Names -> Layouts \cup {"absent"}], image : Images, quota : Quotas,
                endpoint : Endpoints]
      /\ Layouts \cup {"absent"} \subseteq {"split", "single", "edge", "absent"}
      /\ Quotas \subseteq BOOLEAN /\ Endpoints \subseteq Names
  BY ConstantsAssumption DEF ConstantsAssumption, UserSpecs
<1>2. s.apis \in [Names -> {"split", "single", "edge", "absent"}]
  BY <1>1
<1> QED
  BY <1>1, <1>2 DEF SpecType

\* The GlanceAPI that a Glance spec asks for.
LEMMA DesiredTyped ==
    ASSUME NEW o \in APIs, NEW s \in SpecType, NEW a \in APIType
    PROVE  /\ Desired(o, s, a) \in APIType
           /\ Desired(o, s, a).exists = a.exists /\ Desired(o, s, a).deleting = a.deleting
           /\ Desired(o, s, a).new = a.new /\ Desired(o, s, a).ready = a.ready
           /\ Desired(o, s, a).observed = a.observed
           /\ Desired(o, s, a).gen \in {a.gen, a.gen + 1}
<1> DEFINE e == (s.endpoint = o[1])
           g == IF a.image = s.image /\ a.quota = s.quota THEN a.gen ELSE a.gen + 1
<1>1. g \in Nat /\ g \in {a.gen, a.gen + 1} /\ e \in BOOLEAN
  BY DEF APIType
<1>2. Desired(o, s, a) = [a EXCEPT !.image = s.image, !.quota = s.quota, !.endpoint = e,
                                   !.gen = g]
  BY DEF Desired
<1> HIDE DEF e, g
<1>3. s.image \in Images /\ s.quota \in BOOLEAN
  BY DEF SpecType
<1>4. /\ Desired(o, s, a) \in APIType
      /\ Desired(o, s, a).exists = a.exists /\ Desired(o, s, a).deleting = a.deleting
      /\ Desired(o, s, a).new = a.new /\ Desired(o, s, a).ready = a.ready
      /\ Desired(o, s, a).observed = a.observed
      /\ Desired(o, s, a).gen = g
  <2>1. g \in Nat /\ e \in BOOLEAN
    BY <1>1
  <2> QED
    BY <1>2, <1>3, <2>1 DEF APIType
<1> QED
  BY <1>1, <1>4

\* A GlanceAPI that is created: new, unmarked, at its first generation.
LEMMA CreatedTyped ==
    ASSUME NEW o \in APIs, NEW s \in SpecType, NoAPI \in APIType
    PROVE  /\ Created(o, s) \in APIType
           /\ Created(o, s).exists = TRUE /\ Created(o, s).deleting = FALSE
           /\ Created(o, s).new = TRUE /\ Created(o, s).ready = FALSE
           /\ Created(o, s).gen = 1 /\ Created(o, s).observed = 0
<1> DEFINE d == Desired(o, s, NoAPI)
<1>1. /\ d \in APIType /\ d.deleting = FALSE /\ d.new = TRUE /\ d.ready = FALSE
      /\ d.observed = 0
  <2>1. /\ NoAPI.deleting = FALSE /\ NoAPI.new = TRUE /\ NoAPI.ready = FALSE
        /\ NoAPI.observed = 0
    BY DEF NoAPI
  <2> QED
    BY <2>1, DesiredTyped
<1> DEFINE c == [d EXCEPT !.exists = TRUE, !.gen = 1]
<1> HIDE DEF d
<1>2. c \in APIType
  BY <1>1 DEF APIType
<1>3. c.exists = TRUE /\ c.gen = 1
  BY <1>1 DEF APIType
<1>4. c.deleting = d.deleting /\ c.new = d.new /\ c.ready = d.ready /\ c.observed = d.observed
  BY <1>1 DEF APIType
<1>5. Created(o, s) = c
  BY DEF Created, d
<1> HIDE DEF c
<1> QED
  BY <1>1, <1>2, <1>3, <1>4, <1>5

\* A GlanceAPI that is deleted: gone, as it was, or marked.
LEMMA DeletedTyped ==
    ASSUME NEW a \in APIType, NoAPI \in APIType
    PROVE  /\ Deleted(a) \in APIType
           /\ Deleted(a).exists => a.exists
<1> DEFINE g == a.gen + 1
           m == [a EXCEPT !.deleting = TRUE, !.gen = g]
<1>1. g \in Nat
  BY DEF APIType
<1>2. m \in APIType /\ m.exists = a.exists
  <2> HIDE DEF g
  <2> QED
    BY <1>1 DEF APIType
<1>3. Deleted(a) \in {NoAPI, a, m}
  BY DEF Deleted
<1>4. ~NoAPI.exists
  BY DEF NoAPI
<1> HIDE DEF m
<1> QED
  BY <1>2, <1>3, <1>4

\* The patch of a Glance with what a pass has changed is a Glance with the same
\* spec and life cycle.
LEMMA MergePatchTyped ==
    ASSUME glance \in GlanceType, inst \in GlanceType, before \in GlanceType
    PROVE  /\ MergePatch \in GlanceType
           /\ MergePatch.exists = glance.exists
           /\ MergePatch.deleting = glance.deleting
           /\ MergePatch.gen = glance.gen
           /\ MergePatch.spec = glance.spec
           /\ MergePatch.finalizer = Patched(inst.finalizer, before.finalizer,
                                             glance.finalizer)
           /\ MergePatch.status.new =
                  IF inst.status.new # before.status.new
                        \/ inst.status.ready # before.status.ready
                  THEN inst.status.new ELSE glance.status.new
           /\ MergePatch.status.ready =
                  IF inst.status.new # before.status.new
                        \/ inst.status.ready # before.status.ready
                  THEN inst.status.ready ELSE glance.status.ready
<1> DEFINE f == Patched(inst.finalizer, before.finalizer, glance.finalizer)
           changed == inst.status.new # before.status.new
                          \/ inst.status.ready # before.status.ready
           s == [new   |-> IF changed THEN inst.status.new ELSE glance.status.new,
                 ready |-> IF changed THEN inst.status.ready ELSE glance.status.ready,
                 gen   |-> Patched(inst.status.gen, before.status.gen, glance.status.gen),
                 keys  |-> (glance.status.keys \cup (inst.status.keys \ before.status.keys))
                               \ (before.status.keys \ inst.status.keys)]
<1>1. f \in BOOLEAN
  BY DEF GlanceType, Patched
<1>2. /\ inst.status \in StatusType /\ before.status \in StatusType
      /\ glance.status \in StatusType
  BY DEF GlanceType
<1>3. s \in StatusType
  BY <1>2 DEF StatusType, Patched
<1>4. /\ s.new = IF changed THEN inst.status.new ELSE glance.status.new
      /\ s.ready = IF changed THEN inst.status.ready ELSE glance.status.ready
  OBVIOUS
<1>5. MergePatch = [glance EXCEPT !.finalizer = f, !.status = s]
  BY DEF MergePatch
<1> HIDE DEF f, s, changed
<1>6. /\ MergePatch \in GlanceType
      /\ MergePatch.exists = glance.exists
      /\ MergePatch.deleting = glance.deleting
      /\ MergePatch.gen = glance.gen
      /\ MergePatch.spec = glance.spec
      /\ MergePatch.finalizer = f /\ MergePatch.status = s
  BY <1>1, <1>3, <1>5 DEF GlanceType
<1> QED
  BY <1>4, <1>6 DEF f, changed

\* The copies of a Glance that the passes and the user make.
LEMMA CopiesTyped ==
    ASSUME NEW g \in GlanceType
    PROVE  /\ \A k \in SUBSET Names : [g EXCEPT !.status.keys = k] \in GlanceType
           /\ \A r \in BOOLEAN : [g EXCEPT !.status.ready = r] \in GlanceType
           /\ [g EXCEPT !.finalizer = FALSE] \in GlanceType
           /\ \A s \in SpecType : [g EXCEPT !.spec = s, !.gen = @ + 1] \in GlanceType
           /\ [g EXCEPT !.deleting = TRUE, !.gen = @ + 1] \in GlanceType
<1> DEFINE n == g.gen + 1
<1>1. n \in Nat
  BY DEF GlanceType
<1>2. /\ \A k \in SUBSET Names : [g EXCEPT !.status.keys = k] \in GlanceType
      /\ \A r \in BOOLEAN : [g EXCEPT !.status.ready = r] \in GlanceType
      /\ [g EXCEPT !.finalizer = FALSE] \in GlanceType
  BY DEF GlanceType, StatusType
<1>3. /\ \A s \in SpecType : [g EXCEPT !.spec = s, !.gen = n] \in GlanceType
      /\ [g EXCEPT !.deleting = TRUE, !.gen = n] \in GlanceType
  <2> HIDE DEF n
  <2> QED
    BY <1>1 DEF GlanceType
<1> QED
  BY <1>2, <1>3

\* They keep the spec.
LEMMA SpecKept ==
    ASSUME NEW g \in GlanceType
    PROVE  /\ \A k : [g EXCEPT !.status.keys = k].spec = g.spec
           /\ \A r : [g EXCEPT !.status.ready = r].spec = g.spec
           /\ [g EXCEPT !.finalizer = FALSE].spec = g.spec
  BY DEF GlanceType

\* The worker's copy at the start of a pass.
LEMMA StartedTyped ==
    ASSUME gcache \in GlanceType, NEW f \in BOOLEAN
    PROVE  /\ Started(f) \in GlanceType
           /\ Started(f).finalizer = (gcache.finalizer \/ f)
           /\ Started(f).status.new = FALSE /\ Started(f).status.ready = FALSE
           /\ Started(f).spec = gcache.spec
<1> DEFINE b == gcache.finalizer \/ f
           s == [new |-> FALSE, ready |-> FALSE, gen |-> gcache.gen,
                 keys |-> gcache.status.keys]
<1>1. b \in BOOLEAN /\ s \in StatusType /\ s.new = FALSE /\ s.ready = FALSE
  BY DEF GlanceType, StatusType
<1>2. Started(f) = [gcache EXCEPT !.finalizer = b, !.status = s]
  BY DEF Started
<1> HIDE DEF b, s
<1>3. /\ Started(f) \in GlanceType /\ Started(f).finalizer = b /\ Started(f).status = s
      /\ Started(f).spec = gcache.spec
  BY <1>1, <1>2 DEF GlanceType
<1> QED
  BY <1>1, <1>3 DEF b

-----------------------------------------------------------------------------
(* Type correctness.                                                       *)

LEMMA InitTyped == Init => TypeOK /\ DeployingWanted
<1> SUFFICES ASSUME Init PROVE TypeOK /\ DeployingWanted
  OBVIOUS
<1>1. PICK s \in UserSpecs :
          s.image = AnyImage /\ glance = [NoGlance EXCEPT !.exists = TRUE, !.gen = 1, !.spec = s]
  BY DEF Init
<1>2. s \in SpecType /\ Images # {}
  BY UserSpecsTyped DEF SpecType
<1>3. NoGlance \in GlanceType /\ NoAPI \in APIType
  BY <1>2, NothingTyped
<1>4. glance \in GlanceType
  BY <1>1, <1>2, <1>3 DEF GlanceType
<1>5. missing \subseteq InputNames
  BY ConstantsAssumption DEF Init, ConstantsAssumption
<1> QED
  BY <1>3, <1>4, <1>5 DEF Init, TypeOK, DeployingWanted

\* The step of the loop takes one of the GlanceAPIs that are left.
LEMMA Deploying ==
    ASSUME TypeOK, DeployingWanted, pc = "apiDeployment"
    PROVE  First(todo) \in todo /\ First(todo) \in APIs /\ First(todo)[1] \in Names
<1>1. inst.spec \in SpecType /\ todo \in SUBSET Wanted(inst.spec) /\ todo # {}
  BY DEF TypeOK, GlanceType, DeployingWanted
<1>2. First(todo) \in todo
  BY <1>1, FirstIn
<1> QED
  BY <1>2, APIPairs DEF TypeOK

\* What the loop writes is a GlanceAPI.
LEMMA WrittenTyped ==
    ASSUME TypeOK, NEW o \in APIs PROVE Written(o) \in APIType
<1>1. NoAPI \in APIType /\ seen[o] \in APIType /\ inst.spec \in SpecType
  BY ImagesExist, NothingTyped DEF TypeOK, GlanceType
<1> QED
  BY <1>1, DesiredTyped, CreatedTyped DEF Written

\* So is what is left of the GlanceAPIs that are deleted.
LEMMA CleanupTyped ==
    ASSUME TypeOK, NEW S \in SUBSET APIs, Cleanup(S)
    PROVE  /\ api' \in [APIs -> APIType] /\ inst' \in GlanceType
           /\ inst'.spec = inst.spec
           /\ \A o \in APIs : api'[o].exists => api[o].exists
<1>1. NoAPI \in APIType /\ api \in [APIs -> APIType] /\ inst \in GlanceType
  BY ImagesExist, NothingTyped DEF TypeOK
<1>2. \A o \in APIs : Deleted(api[o]) \in APIType /\ (Deleted(api[o]).exists => api[o].exists)
  BY <1>1, DeletedTyped
<1>3. /\ api' = [o \in APIs |-> IF o \in S THEN Deleted(api[o]) ELSE api[o]]
      /\ inst' = [inst EXCEPT !.status.keys = @ \ {o[1] : o \in S}]
  BY DEF Cleanup
<1>4. inst.status.keys \ {o[1] : o \in S} \in SUBSET Names
  BY <1>1 DEF GlanceType, StatusType
<1>5. inst' \in GlanceType /\ inst'.spec = inst.spec
  BY <1>1, <1>3, <1>4, CopiesTyped, SpecKept
<1> QED
  BY <1>1, <1>2, <1>3, <1>5

\* A step of a reconcile pass keeps the types, and the loop deploys what the spec
\* asks for.
LEMMA WorkerTyped == TypeOK /\ DeployingWanted /\ Worker => TypeOK' /\ DeployingWanted'
<1> SUFFICES ASSUME TypeOK, DeployingWanted, Worker PROVE TypeOK' /\ DeployingWanted'
  OBVIOUS
<1> USE DEF TypeOK, DeployingWanted, server, caches, worker, env, Proceed, Return, Steps
<1>1. CASE ReconcileNotFound
  BY <1>1 DEF ReconcileNotFound
<1>2. CASE Reconcile
  <2>1. inst' \in GlanceType
    BY <1>2, StartedTyped DEF Reconcile
  <2> QED
    BY <1>2, <2>1 DEF Reconcile
<1>3. CASE VerifyInputs
  BY <1>3 DEF VerifyInputs
<1>4. CASE EnsureDB
  BY <1>4 DEF EnsureDB
<1>5. CASE ReconcileInit
  <2>1. Wanted(inst.spec) \subseteq APIs
    BY DEF Wanted
  <2> QED
    BY <1>5, <2>1 DEF ReconcileInit, DeployNext
<1>6. CASE APIDeployment
  <2> DEFINE o == First(todo)
  <2>1. o \in todo /\ o \in APIs /\ o[1] \in Names
    BY <1>6, Deploying DEF APIDeployment
  <2>2. Written(o) \in APIType
    BY <2>1, WrittenTyped
  <2>3. inst' = [inst EXCEPT !.status.keys = @ \cup {o[1]}]
    BY <1>6 DEF APIDeployment
  <2>4. inst.status.keys \cup {o[1]} \in SUBSET Names
    BY <2>1 DEF GlanceType, StatusType
  <2>5. inst' \in GlanceType /\ inst'.spec = inst.spec
    BY <2>3, <2>4, CopiesTyped, SpecKept
  <2>6. api' \in [APIs -> APIType] /\ limits' \in BOOLEAN
    BY <1>6, <2>1, <2>2 DEF APIDeployment, ensureRegisteredLimits
  <2>7. mirror' \in {"nil", "True", "False"} /\ conds' \subseteq {"KeystoneServiceReady", "GlanceAPIReady"}
    BY <1>6 DEF APIDeployment, MirrorCondition, Mirror, SetGlanceAPIReady
  <2> HIDE DEF o
  <2>8. /\ UNCHANGED <<glance, claimed, gcache, seen, queued, before, env, exit>>
        /\ todo' = todo \ {o}
        /\ pc' = IF todo' = {} THEN "cleanup" ELSE "apiDeployment"
        /\ pc = "apiDeployment"
    BY <1>6 DEF APIDeployment, DeployNext, o
  <2> QED
    BY <2>5, <2>6, <2>7, <2>8
<1>7. CASE APIDeploymentFails
  BY <1>7 DEF APIDeploymentFails, ensureRegisteredLimits
<1>8. CASE GlanceAPICleanup
  <2>1. Removed \in SUBSET APIs
    BY DEF Removed
  <2>2. api' \in [APIs -> APIType] /\ inst' \in GlanceType
    BY <1>8, <2>1, CleanupTyped DEF GlanceAPICleanup
  <2> QED
    BY <1>8, <2>2 DEF GlanceAPICleanup
<1>9. CASE Finish
  <2>1. inst' \in GlanceType
    BY <1>9, CopiesTyped DEF Finish
  <2> QED
    BY <1>9, <2>1 DEF Finish
<1>10. CASE DeleteDBFinalizer \/ DeleteServiceFinalizer
  BY <1>10 DEF DeleteDBFinalizer, DeleteServiceFinalizer
<1>11. CASE DeleteLimits
  <2>1. inst' \in GlanceType
    BY <1>11, CopiesTyped DEF DeleteLimits
  <2> QED
    BY <1>11, <2>1 DEF DeleteLimits, registeredLimitsDelete
<1>12. CASE PatchInstance
  <2>1. NoGlance \in GlanceType
    BY ImagesExist, NothingTyped
  <2>2. glance' \in GlanceType
    BY <1>12, <2>1, MergePatchTyped DEF PatchInstance
  <2> QED
    BY <1>12, <2>1, <2>2 DEF PatchInstance, Idle
<1> QED
  BY <1>1, <1>2, <1>3, <1>4, <1>5, <1>6, <1>7, <1>8, <1>9, <1>10, <1>11, <1>12 DEF Worker

\* A report of the GlanceAPI controller changes what it is about and no more.
LEMMA ReportTyped ==
    ASSUME NEW a \in APIType, NEW b \in Contract!Reports(a)
    PROVE  /\ b \in APIType
           /\ b.exists = a.exists /\ b.deleting = a.deleting /\ b.gen = a.gen
           /\ b.new = FALSE /\ b.endpoint = a.endpoint
           /\ b.observed \in a.observed .. a.gen
<1>1. PICK g \in a.observed .. a.gen, r \in BOOLEAN : b = Contract!Report(a, g, r)
  BY DEF Contract!Reports
<1>2. g \in Nat
  BY DEF APIType
<1>3. b = [a EXCEPT !.new = FALSE, !.observed = g, !.ready = r]
  BY <1>1 DEF Contract!Report
<1>4. /\ b \in APIType
      /\ b.exists = a.exists /\ b.deleting = a.deleting /\ b.gen = a.gen
      /\ b.new = FALSE /\ b.endpoint = a.endpoint
      /\ b.observed = g
  BY <1>2, <1>3 DEF APIType
<1> QED
  BY <1>1, <1>4

\* The steps of the GlanceAPI controller and of the garbage collector, each on one
\* object: none brings an object into existence.
LEMMA APIStepTyped ==
    ASSUME TypeOK, NEW o \in APIs,
           APIController(o) \/ APICollected(o) \/ APIReports(o)
    PROVE  /\ \E a \in APIType : /\ api' = [api EXCEPT ![o] = a]
                                 /\ a.exists => api[o].exists
           /\ UNCHANGED <<glance, claimed, limits, caches, queued, worker, missing, edits,
                          crashes>>
           /\ faults' \in Nat
<1>1. api[o] \in APIType /\ NoAPI \in APIType /\ ~NoAPI.exists
  BY ImagesExist, NothingTyped DEF TypeOK, NoAPI
<1>2. /\ UNCHANGED <<glance, claimed, limits, caches, queued, worker, missing, edits, crashes>>
      /\ faults' \in Nat
  <2>1. CASE APIReports(o)
    BY <2>1 DEF APIReports, Fails, TypeOK
  <2>2. CASE APIController(o) \/ APICollected(o)
    BY <2>2 DEF APIController, APIObserves, APIBecomesReady, APIFinalized, APICollected, env,
       TypeOK
  <2> QED
    BY <2>1, <2>2
<1>3. \E a \in APIType : api' = [api EXCEPT ![o] = a] /\ (a.exists => api[o].exists)
  <2>1. CASE APIObserves(o)
    <3>1. PICK r \in BOOLEAN :
              api' = [api EXCEPT ![o] = [api[o] EXCEPT !.new = FALSE,
                                                       !.observed = api[o].gen, !.ready = r]]
      BY <2>1 DEF APIObserves
    <3>2. [api[o] EXCEPT !.new = FALSE, !.observed = api[o].gen, !.ready = r] \in APIType
      BY <1>1 DEF APIType
    <3> QED
      BY <2>1, <3>1, <3>2 DEF APIObserves
  <2>2. CASE APIBecomesReady(o)
    <3>1. api' = [api EXCEPT ![o] = [api[o] EXCEPT !.ready = TRUE]]
      BY <2>2 DEF APIBecomesReady
    <3>2. [api[o] EXCEPT !.ready = TRUE] \in APIType
      BY <1>1 DEF APIType
    <3> QED
      BY <2>2, <3>1, <3>2 DEF APIBecomesReady
  <2>3. CASE APIFinalized(o)
    BY <1>1, <2>3 DEF APIFinalized
  <2>4. CASE APICollected(o)
    <3>1. api' = [api EXCEPT ![o] = Deleted(api[o])]
      BY <2>4 DEF APICollected
    <3> QED
      BY <1>1, <3>1, DeletedTyped
  <2>5. CASE APIReports(o)
    <3>1. PICK a \in Contract!Reports(api[o]) : api' = [api EXCEPT ![o] = a]
      BY <2>5 DEF APIReports
    <3> QED
      BY <1>1, <2>5, <3>1, ReportTyped DEF APIReports
  <2> QED
    BY <2>1, <2>2, <2>3, <2>4, <2>5 DEF APIController
<1> QED
  BY <1>2, <1>3

\* The rest of the cluster, failures and the user keep the types, and leave the
\* loop alone or end it.
LEMMA OthersTyped ==
    TypeOK /\ DeployingWanted /\ (Cluster \/ Failure \/ User) => TypeOK' /\ DeployingWanted'
<1> SUFFICES ASSUME TypeOK, DeployingWanted, Cluster \/ Failure \/ User
             PROVE  TypeOK' /\ DeployingWanted'
  OBVIOUS
<1>0. NoGlance \in GlanceType
  BY ImagesExist, NothingTyped
<1> USE DEF TypeOK, DeployingWanted, server, caches, worker, env
<1>1. CASE CacheSync
  BY <1>1 DEF CacheSync
<1>2. ASSUME NEW o \in APIs, APICacheSync(o) PROVE TypeOK' /\ DeployingWanted'
  BY <1>2 DEF APICacheSync
<1>3. ASSUME NEW o \in APIs, APIController(o) \/ APICollected(o) \/ APIReports(o)
      PROVE  TypeOK' /\ DeployingWanted'
  <2>1. PICK a \in APIType : api' = [api EXCEPT ![o] = a]
    BY <1>3, APIStepTyped
  <2>2. api' \in [APIs -> APIType]
    BY <2>1
  <2>3. /\ UNCHANGED <<glance, claimed, limits, caches, queued, worker, missing, edits,
                       crashes>>
        /\ faults' \in Nat
    BY <1>3, APIStepTyped
  <2> QED
    BY <2>2, <2>3
<1>4. ASSUME NEW i \in InputNames, InputAppears(i) PROVE TypeOK' /\ DeployingWanted'
  BY <1>4 DEF InputAppears
<1>5. CASE GlanceAPICleanupFails
  <2>1. PICK S \in SUBSET Removed : Cleanup(S)
    BY <1>5 DEF GlanceAPICleanupFails
  <2>2. S \in SUBSET APIs
    BY DEF Removed
  <2>3. api' \in [APIs -> APIType] /\ inst' \in GlanceType
    BY <2>1, <2>2, CleanupTyped
  <2> QED
    BY <1>5, <2>3 DEF GlanceAPICleanupFails, Fails, Return, Steps
<1>6. CASE CallFails
  BY <1>6 DEF CallFails, Fails, Return, Steps
<1>7. CASE PatchFails
  BY <1>0, <1>7 DEF PatchFails, Fails, Idle
<1>8. CASE Crash
  BY <1>0, <1>8 DEF Crash, Idle
<1>9. CASE EditSpec
  <2>1. PICK s \in SpecType : glance' = [glance EXCEPT !.spec = s, !.gen = @ + 1]
    BY <1>9, UserSpecsTyped DEF EditSpec
  <2>2. glance' \in GlanceType
    BY <2>1, CopiesTyped
  <2> QED
    BY <1>9, <2>2 DEF EditSpec
<1>10. CASE DeleteGlance
  <2>1. glance' \in GlanceType
    BY <1>0, <1>10, CopiesTyped DEF DeleteGlance
  <2> QED
    BY <1>10, <2>1 DEF DeleteGlance
<1> QED
  BY <1>1, <1>2, <1>3, <1>4, <1>5, <1>6, <1>7, <1>8, <1>9, <1>10 DEF Cluster, Failure, User

\* Every state of the Glance controller is typed; in particular the sorted loop
\* over the APIs never takes an object that is not there.
THEOREM TypeCorrect == Spec => [](TypeOK /\ DeployingWanted)
<1>1. TypeOK /\ DeployingWanted /\ [Next]_vars => TypeOK' /\ DeployingWanted'
  <2> SUFFICES ASSUME TypeOK, DeployingWanted, [Next]_vars PROVE TypeOK' /\ DeployingWanted'
    OBVIOUS
  <2>1. CASE UNCHANGED vars
    BY <2>1 DEF vars, TypeOK, DeployingWanted
  <2> QED
    BY <2>1, WorkerTyped, OthersTyped DEF Next
<1> QED
  BY <1>1, InitTyped, PTL DEF Spec

-----------------------------------------------------------------------------
(* The life cycle.                                                         *)

\* The types that the arguments below need.
LEMMA LifeCycleTypes ==
    ASSUME TypeOK
    PROVE  \A o \in {glance, gcache, before, inst} :
               /\ o.exists \in BOOLEAN /\ o.deleting \in BOOLEAN /\ o.finalizer \in BOOLEAN
               /\ o.status.new \in BOOLEAN
  BY DEF TypeOK, GlanceType, StatusType

\* A Glance that is not there is neither held nor reported on.
LEMMA NoGlanceFields ==
    /\ ~NoGlance.exists /\ ~NoGlance.deleting /\ NoGlance.finalizer = FALSE
    /\ NoGlance.status.new = TRUE
    /\ NoGlance.finalizer = ~NoGlance.status.new
  BY DEF NoGlance, NoStatus

\* Steps that leave alone the Glance, the cache, the worker and the claims.
LEMMA LifeCycleElsewhere ==
    ASSUME LifeCycleInv, DeployingWanted',
           UNCHANGED <<glance, gcache, pc, before, inst, claimed>>
    PROVE  LifeCycleInv'
  BY DEF LifeCycleInv, Doomed, FinalizerWithStatus, HoldKept, LettingGoIsLast, LettingGo,
     ClaimsHeld

\* A step of reconcileNormal: the Glance is held, so that it may claim the
\* database and the KeystoneService.
LEMMA LifeCycleNormal ==
    ASSUME LifeCycleInv, DeployingWanted', UNCHANGED <<glance, gcache, before>>,
           pc \in NormalSteps, pc' \in NormalSteps \cup {"patch"},
           inst'.finalizer = inst.finalizer, inst'.status.new = inst.status.new
    PROVE  LifeCycleInv'
<1>1. inst.finalizer /\ glance.exists /\ glance.finalizer
  BY DEF LifeCycleInv, HoldKept, NormalSteps
<1> QED
  BY <1>1 DEF LifeCycleInv, Doomed, FinalizerWithStatus, HoldKept, LettingGoIsLast,
     LettingGo, ClaimsHeld, NormalSteps, DeleteSteps

\* A step of reconcileDelete, or its failure: the finalizer of the Glance is given
\* up last.
LEMMA LifeCycleDelete ==
    ASSUME TypeOK, LifeCycleInv, DeployingWanted',
           \/ DeleteDBFinalizer \/ DeleteServiceFinalizer \/ DeleteLimits
           \/ (CallFails /\ pc \in DeleteSteps)
    PROVE  LifeCycleInv'
<1>1. /\ UNCHANGED <<glance, gcache, before>>
      /\ pc \in DeleteSteps /\ pc' \in DeleteSteps \cup {"patch"}
      /\ claimed' \subseteq claimed
      /\ pc' = "deleteService" => "db" \notin claimed'
      /\ pc' = "deleteLimits" => pc = "deleteService" /\ claimed' = claimed \ {"service"}
  BY DEF DeleteDBFinalizer, DeleteServiceFinalizer, DeleteLimits, CallFails, Proceed, Return,
     server, caches, DeleteSteps
<1>2. /\ inst.finalizer
      /\ inst'.status.new = inst.status.new
      /\ UNCHANGED inst \/ DeleteLimits
  <2>1. inst.finalizer
    BY <1>1 DEF LifeCycleInv, HoldKept, DeleteSteps
  <2>2. UNCHANGED inst \/ DeleteLimits
    BY DEF DeleteDBFinalizer, DeleteServiceFinalizer, CallFails
  <2>3. DeleteLimits => inst'.status.new = inst.status.new
    BY DEF DeleteLimits, TypeOK, GlanceType
  <2> QED
    BY <2>1, <2>2, <2>3
<1>3. /\ DeleteLimits => pc = "deleteLimits" /\ UNCHANGED claimed /\ pc' = "patch"
      /\ pc' \in DeleteSteps => UNCHANGED inst
  BY <1>2 DEF DeleteLimits, Return, DeleteSteps
<1>4. pc' = "deleteLimits" \/ LettingGo' => claimed' = {}
  <2>1. CASE pc' = "deleteLimits"
    BY <1>1, <2>1 DEF LifeCycleInv, ClaimsHeld, TypeOK
  <2>2. CASE LettingGo'
    BY <1>2, <1>3, <2>2 DEF LettingGo, LifeCycleInv, ClaimsHeld
  <2> QED
    BY <2>1, <2>2
<1>5. ClaimsHeld'
  BY <1>1, <1>4 DEF LifeCycleInv, ClaimsHeld
<1> QED
  BY <1>1, <1>2, <1>3, <1>5 DEF LifeCycleInv, Doomed, FinalizerWithStatus, HoldKept,
     LettingGoIsLast, NormalSteps, DeleteSteps

\* A pass starts.
LEMMA LifeCycleReconcile ==
    ASSUME TypeOK, LifeCycleInv, DeployingWanted', Reconcile PROVE LifeCycleInv'
<1> DEFINE f == ~gcache.deleting /\ ~gcache.finalizer
<1>1. /\ UNCHANGED <<glance, gcache, claimed>> /\ before' = gcache /\ pc = "idle"
      /\ gcache.exists
      /\ pc' = IF f \/ gcache.status.new THEN "patch"
               ELSE IF gcache.deleting THEN "deleteDB" ELSE "inputs"
      /\ inst' = Started(f)
  BY DEF Reconcile, server, caches
<1>2. inst'.finalizer /\ ~inst'.status.new
  <2>1. gcache \in GlanceType /\ f \in BOOLEAN
    BY DEF TypeOK
  <2>2. inst'.finalizer = (gcache.finalizer \/ f) /\ ~inst'.status.new
    <3> HIDE DEF f
    <3> QED
      BY <1>1, <2>1, StartedTyped
  <2> QED
    BY <2>2 DEF LifeCycleInv, FinalizerWithStatus
<1>3. /\ pc' \in NormalSteps => gcache.finalizer /\ ~gcache.deleting
      /\ pc' \in DeleteSteps => gcache.deleting
      /\ pc' # "idle" /\ pc' \notin {"deleteService", "deleteLimits"}
      /\ ~LettingGo'
  BY <1>1, <1>2, LifeCycleTypes DEF NormalSteps, DeleteSteps, LettingGo, LifeCycleInv,
     FinalizerWithStatus
<1>4. FinalizerWithStatus' /\ HoldKept'
  BY <1>1, <1>2, <1>3 DEF LifeCycleInv, FinalizerWithStatus, HoldKept
<1>5. LettingGoIsLast' /\ ClaimsHeld'
  BY <1>1, <1>3 DEF LifeCycleInv, LettingGoIsLast, Doomed, ClaimsHeld
<1> QED
  BY <1>4, <1>5 DEF LifeCycleInv

\* The cache is brought up to date, by a watch or by the list of a new operator.
LEMMA LifeCycleSync ==
    ASSUME LifeCycleInv, DeployingWanted', gcache' = glance, UNCHANGED <<glance, claimed>>,
           UNCHANGED <<pc, before, inst>> \/ Idle
    PROVE  LifeCycleInv'
<1>1. CASE Idle
  <2>1. pc' = "idle" /\ before' = NoGlance
    BY <1>1 DEF Idle
  <2>2. FinalizerWithStatus' /\ HoldKept'
    BY <2>1, NoGlanceFields DEF LifeCycleInv, FinalizerWithStatus, HoldKept, NormalSteps
  <2>3. LettingGoIsLast' /\ ClaimsHeld'
    BY <2>1 DEF LifeCycleInv, LettingGoIsLast, LettingGo, Doomed, ClaimsHeld, DeleteSteps
  <2> QED
    BY <2>2, <2>3 DEF LifeCycleInv
<1>2. CASE UNCHANGED <<pc, before, inst>>
  BY <1>2 DEF LifeCycleInv, Doomed, FinalizerWithStatus, HoldKept, LettingGoIsLast,
     LettingGo, ClaimsHeld
<1> QED
  BY <1>1, <1>2

\* The user edits or deletes the Glance.
LEMMA LifeCycleUser ==
    ASSUME TypeOK, LifeCycleInv, DeployingWanted', EditSpec \/ DeleteGlance
    PROVE  LifeCycleInv'
<1>1. UNCHANGED <<gcache, pc, before, inst, claimed>> /\ glance.exists /\ ~glance.deleting
  BY DEF EditSpec, DeleteGlance, UserMayEdit, UserMayAct, worker, caches
<1>2. CASE DeleteGlance /\ ~glance.finalizer
  <2>1. glance' = NoGlance
    BY <1>2 DEF DeleteGlance
  <2>2. FinalizerWithStatus' /\ HoldKept'
    BY <1>1, <1>2, <2>1, NoGlanceFields DEF LifeCycleInv, FinalizerWithStatus, HoldKept
  <2>3. LettingGoIsLast' /\ ClaimsHeld'
    BY <1>1, <1>2, <2>1, NoGlanceFields DEF LifeCycleInv, LettingGoIsLast, LettingGo, Doomed,
       ClaimsHeld
  <2> QED
    BY <2>2, <2>3 DEF LifeCycleInv
<1>3. CASE EditSpec \/ (DeleteGlance /\ glance.finalizer)
  <2>1. /\ glance'.exists /\ glance'.finalizer = glance.finalizer
        /\ glance'.status = glance.status
        /\ glance'.deleting => glance.finalizer
    <3>1. CASE EditSpec
      BY <1>1, <3>1 DEF EditSpec, TypeOK, GlanceType
    <3>2. CASE DeleteGlance /\ glance.finalizer
      BY <1>1, <3>2 DEF DeleteGlance, TypeOK, GlanceType
    <3> QED
      BY <1>3, <3>1, <3>2
  <2> QED
    BY <1>1, <2>1 DEF LifeCycleInv, Doomed, FinalizerWithStatus, HoldKept,
       LettingGoIsLast, LettingGo, ClaimsHeld
<1> QED
  BY <1>2, <1>3

\* The patch of a pass keeps the finalizer that the pass has kept, and the first
\* status; only that of a Glance that is being deleted does not.
LEMMA PatchHolds ==
    ASSUME TypeOK, LifeCycleInv, pc = "patch", glance.exists
    PROVE  /\ MergePatch.exists /\ MergePatch.deleting = glance.deleting
           /\ ~inst.finalizer => LettingGo /\ glance.deleting
           /\ inst.finalizer => MergePatch.finalizer
           /\ MergePatch.finalizer \in BOOLEAN
           /\ MergePatch.status.new = FALSE
<1>1. glance \in GlanceType /\ inst \in GlanceType /\ before \in GlanceType
  BY DEF TypeOK
<1>2. /\ MergePatch.exists = glance.exists /\ MergePatch.deleting = glance.deleting
      /\ MergePatch.finalizer = Patched(inst.finalizer, before.finalizer, glance.finalizer)
      /\ MergePatch.status.new =
             IF inst.status.new # before.status.new
                   \/ inst.status.ready # before.status.ready
             THEN inst.status.new ELSE glance.status.new
      /\ MergePatch \in GlanceType
  BY <1>1, MergePatchTyped
<1>3. ~inst.finalizer => LettingGo /\ glance.deleting
  BY DEF LettingGo, LifeCycleInv, LettingGoIsLast, Doomed
<1>4. inst.finalizer => MergePatch.finalizer
  BY <1>2, LifeCycleTypes DEF Patched, LifeCycleInv, HoldKept
<1>5. ~MergePatch.status.new
  BY <1>2, LifeCycleTypes DEF LifeCycleInv, HoldKept, FinalizerWithStatus
<1> QED
  BY <1>2, <1>3, <1>4, <1>5 DEF GlanceType, StatusType

\* A pass ends, with or without its patch.  The patch of a Glance that is being
\* deleted lets go of it, any other keeps it held.
LEMMA LifeCycleEnd ==
    ASSUME TypeOK, LifeCycleInv, DeployingWanted', PatchInstance \/ PatchFails
    PROVE  LifeCycleInv'
<1>1. pc = "patch" /\ pc' = "idle" /\ before' = NoGlance /\ UNCHANGED <<gcache, claimed>>
  BY DEF PatchInstance, PatchFails, Idle, server, caches
<1>2. CASE UNCHANGED glance
  <2>1. FinalizerWithStatus' /\ HoldKept'
    BY <1>1, <1>2, NoGlanceFields DEF LifeCycleInv, FinalizerWithStatus, HoldKept,
       NormalSteps
  <2>2. LettingGoIsLast' /\ ClaimsHeld'
    BY <1>1, <1>2 DEF LifeCycleInv, LettingGoIsLast, LettingGo, Doomed, ClaimsHeld,
       DeleteSteps
  <2> QED
    BY <2>1, <2>2 DEF LifeCycleInv
<1>3. ASSUME PatchInstance, glance.exists
      PROVE  /\ MergePatch.exists /\ MergePatch.deleting = glance.deleting
             /\ ~inst.finalizer => LettingGo /\ glance.deleting
             /\ inst.finalizer => MergePatch.finalizer
             /\ MergePatch.finalizer \in BOOLEAN
             /\ MergePatch.status.new = FALSE
  BY <1>1, <1>3, PatchHolds
<1>4. CASE PatchInstance /\ glance.exists /\ glance' = NoGlance /\ glance.deleting
           /\ ~MergePatch.finalizer
  <2>1. LettingGo
    BY <1>3, <1>4
  <2>2. FinalizerWithStatus' /\ HoldKept'
    BY <1>1, <1>4, <2>1, NoGlanceFields DEF LifeCycleInv, FinalizerWithStatus, HoldKept,
       LettingGoIsLast, NormalSteps
  <2>3. LettingGoIsLast' /\ ClaimsHeld'
    BY <1>1, <1>4, <2>1, NoGlanceFields DEF LifeCycleInv, LettingGoIsLast, LettingGo, Doomed,
       ClaimsHeld, DeleteSteps
  <2> QED
    BY <2>2, <2>3 DEF LifeCycleInv
<1>5. CASE PatchInstance /\ glance.exists /\ glance' = MergePatch
           /\ (MergePatch.deleting => MergePatch.finalizer)
  <2>1. /\ glance'.exists /\ glance'.deleting = glance.deleting
        /\ glance'.finalizer /\ glance'.finalizer \in BOOLEAN
        /\ glance'.status.new = FALSE
    BY <1>3, <1>5
  <2>2. FinalizerWithStatus'
    BY <1>1, <2>1, NoGlanceFields DEF LifeCycleInv, FinalizerWithStatus
  <2>3. HoldKept'
    BY <1>1, <2>1, NoGlanceFields DEF LifeCycleInv, HoldKept, NormalSteps
  <2>4. LettingGoIsLast' /\ ClaimsHeld'
    BY <1>1, <1>5, <2>1 DEF LifeCycleInv, LettingGoIsLast, LettingGo, Doomed, ClaimsHeld,
       DeleteSteps
  <2> QED
    BY <2>2, <2>3, <2>4 DEF LifeCycleInv
<1> QED
  BY <1>2, <1>3, <1>4, <1>5 DEF PatchInstance, PatchFails, server

\* What reconcileNormal writes into its copy touches neither the finalizer nor
\* the first status.
LEMMA CopyKept ==
    ASSUME TypeOK,
           \/ \E k : inst' = [inst EXCEPT !.status.keys = k]
           \/ \E r : inst' = [inst EXCEPT !.status.ready = r]
           \/ UNCHANGED inst
    PROVE  inst'.finalizer = inst.finalizer /\ inst'.status.new = inst.status.new
<1>1. ASSUME NEW k, inst' = [inst EXCEPT !.status.keys = k]
      PROVE  inst'.finalizer = inst.finalizer /\ inst'.status.new = inst.status.new
  BY <1>1 DEF TypeOK, GlanceType, StatusType
<1>2. ASSUME NEW r, inst' = [inst EXCEPT !.status.ready = r]
      PROVE  inst'.finalizer = inst.finalizer /\ inst'.status.new = inst.status.new
  BY <1>2 DEF TypeOK, GlanceType, StatusType
<1> QED
  BY <1>1, <1>2

\* Every step keeps LifeCycleInv.
LEMMA LifeCycleStep ==
    TypeOK /\ DeployingWanted' /\ LifeCycleInv /\ [Next]_vars => LifeCycleInv'
<1> SUFFICES ASSUME TypeOK, DeployingWanted', LifeCycleInv, [Next]_vars PROVE LifeCycleInv'
  OBVIOUS
<1> USE DEF server, caches, worker, env
<1>1. CASE UNCHANGED vars \/ ReconcileNotFound
  BY <1>1, LifeCycleElsewhere DEF vars, ReconcileNotFound
<1>2. CASE Reconcile
  BY <1>2, LifeCycleReconcile
<1>3. CASE VerifyInputs \/ EnsureDB \/ ReconcileInit \/ APIDeploymentFails
           \/ (CallFails /\ pc \in NormalSteps)
  <2>1. /\ UNCHANGED <<glance, gcache, before, inst>>
        /\ pc \in NormalSteps /\ pc' \in NormalSteps \cup {"patch"}
    BY <1>3 DEF VerifyInputs, EnsureDB, ReconcileInit, APIDeploymentFails, CallFails,
       DeployNext, Proceed, Return, NormalSteps
  <2> QED
    BY <2>1, LifeCycleNormal
<1>4. CASE APIDeployment \/ GlanceAPICleanup \/ Finish \/ GlanceAPICleanupFails
  <2>1. /\ UNCHANGED <<glance, gcache, before>>
        /\ pc \in NormalSteps /\ pc' \in NormalSteps \cup {"patch"}
    BY <1>4 DEF APIDeployment, GlanceAPICleanup, Finish, GlanceAPICleanupFails,
       DeployNext, Proceed, Return, NormalSteps
  <2>2. \/ \E k : inst' = [inst EXCEPT !.status.keys = k]
        \/ \E r : inst' = [inst EXCEPT !.status.ready = r]
    <3>1. APIDeployment => \E k : inst' = [inst EXCEPT !.status.keys = k]
      BY Zenon DEF APIDeployment
    <3>2. GlanceAPICleanup \/ GlanceAPICleanupFails => \E S : Cleanup(S)
      BY Zenon DEF GlanceAPICleanup, GlanceAPICleanupFails
    <3>3. ASSUME NEW S, Cleanup(S) PROVE \E k : inst' = [inst EXCEPT !.status.keys = k]
      BY <3>3, Zenon DEF Cleanup
    <3>4. Finish => \E r : inst' = [inst EXCEPT !.status.ready = r]
      BY Zenon DEF Finish
    <3> QED
      BY <1>4, <3>1, <3>2, <3>3, <3>4, Zenon
  <2>3. inst'.finalizer = inst.finalizer /\ inst'.status.new = inst.status.new
    BY <2>2, CopyKept
  <2> QED
    BY <2>1, <2>3, LifeCycleNormal
<1>5. CASE DeleteDBFinalizer \/ DeleteServiceFinalizer \/ DeleteLimits
           \/ (CallFails /\ pc \in DeleteSteps)
  BY <1>5, LifeCycleDelete
<1>6. CASE PatchInstance \/ PatchFails
  BY <1>6, LifeCycleEnd
<1>7. CASE CacheSync \/ Crash
  BY <1>7, LifeCycleSync DEF CacheSync, Crash
<1>8. CASE EditSpec \/ DeleteGlance
  BY <1>8, LifeCycleUser
<1>9. ASSUME NEW o \in APIs, APIController(o) \/ APICollected(o) \/ APIReports(o)
      PROVE  LifeCycleInv'
  BY <1>9, APIStepTyped, LifeCycleElsewhere
<1>10. ASSUME NEW o \in APIs, APICacheSync(o) PROVE LifeCycleInv'
  BY <1>10, LifeCycleElsewhere DEF APICacheSync
<1>11. ASSUME NEW i \in InputNames, InputAppears(i) PROVE LifeCycleInv'
  BY <1>11, LifeCycleElsewhere DEF InputAppears
<1>12. CallFails => (CallFails /\ pc \in NormalSteps) \/ (CallFails /\ pc \in DeleteSteps)
  BY DEF CallFails, Steps, NormalSteps, DeleteSteps
<1>13. CASE Worker
  BY <1>1, <1>2, <1>3, <1>4, <1>5, <1>6, <1>13, Zenon DEF Worker
<1>14. CASE Cluster
  BY <1>7, <1>9, <1>10, <1>11, <1>14, Zenon DEF Cluster
<1>15. CASE Failure
  BY <1>3, <1>4, <1>5, <1>6, <1>7, <1>9, <1>12, <1>15, Zenon DEF Failure
<1>16. CASE User
  BY <1>8, <1>16 DEF User
<1> QED
  BY <1>1, <1>13, <1>14, <1>15, <1>16 DEF Next

\* LifeCycleInv is an invariant of the controller: the worker deploys only for a
\* Glance that is held, and lets go of it last, for every number of edits, crashes
\* and failures.
THEOREM LifeCycleInvariant == Spec => []LifeCycleInv
<1>1. Init => LifeCycleInv
  <2> SUFFICES ASSUME Init PROVE LifeCycleInv
    OBVIOUS
  <2>1. DeployingWanted
    BY InitTyped
  <2>2. PICK s : glance = [NoGlance EXCEPT !.exists = TRUE, !.gen = 1, !.spec = s]
    BY DEF Init
  <2>3. /\ glance.exists /\ ~glance.deleting /\ glance.finalizer = FALSE
        /\ glance.status.new = TRUE
    BY <2>2 DEF NoGlance, NoStatus
  <2>4. gcache = NoGlance /\ before = NoGlance /\ pc = "idle" /\ claimed = {}
    BY DEF Init
  <2>5. FinalizerWithStatus /\ HoldKept
    BY <2>3, <2>4, NoGlanceFields DEF FinalizerWithStatus, HoldKept, NormalSteps
  <2>6. LettingGoIsLast /\ ClaimsHeld
    BY <2>3, <2>4, NoGlanceFields DEF LettingGoIsLast, LettingGo, DeleteSteps, ClaimsHeld
  <2> QED
    BY <2>1, <2>5, <2>6 DEF LifeCycleInv
<1>2. TypeOK /\ DeployingWanted' /\ LifeCycleInv /\ [Next]_vars => LifeCycleInv'
  BY LifeCycleStep
<1> QED
  BY <1>1, <1>2, TypeCorrect, PTL DEF Spec

\* A Glance that is gone has left its finalizer neither on the database nor on the
\* KeystoneService: both are claimed only while the Glance is held, and
\* reconcileDelete releases them before the finalizer of the Glance.
THEOREM ClaimsReleased == Spec => []DeletionReleasesClaims
<1>1. LifeCycleInv => DeletionReleasesClaims
  BY DEF LifeCycleInv, ClaimsHeld, DeletionReleasesClaims
<1> QED
  BY <1>1, LifeCycleInvariant, PTL

\* Only the loop over the APIs creates a GlanceAPI.
LEMMA Creators ==
    ASSUME TypeOK, [Next]_vars, pc # "apiDeployment", NEW o \in APIs, api'[o].exists
    PROVE  api[o].exists
<1>1. CASE GlanceAPICleanup \/ GlanceAPICleanupFails
  <2>1. PICK S \in SUBSET Removed : Cleanup(S)
    BY <1>1 DEF GlanceAPICleanup, GlanceAPICleanupFails
  <2>2. S \in SUBSET APIs
    BY DEF Removed
  <2> QED
    BY <2>1, <2>2, CleanupTyped
<1>2. ASSUME NEW p \in APIs, APIController(p) \/ APICollected(p) \/ APIReports(p)
      PROVE  api[o].exists
  <2>1. PICK a \in APIType : api' = [api EXCEPT ![p] = a] /\ (a.exists => api[p].exists)
    BY <1>2, APIStepTyped
  <2> QED
    BY <2>1 DEF TypeOK
<1>3. CASE UNCHANGED api
  BY <1>3
<1> QED
  BY <1>1, <1>2, <1>3 DEF Next, Worker, Cluster, Failure, User, vars, server, ReconcileNotFound,
     Reconcile, VerifyInputs, EnsureDB, ReconcileInit, APIDeployment, APIDeploymentFails, Finish,
     DeleteDBFinalizer, DeleteServiceFinalizer, DeleteLimits, PatchInstance, CallFails,
     PatchFails, Crash, CacheSync, APICacheSync, InputAppears, EditSpec, DeleteGlance

\* No GlanceAPI is created for a Glance that is gone: the pass that deploys has read
\* the finalizer, and what holds the finalizer is not gone before a later pass lets
\* go of it.
THEOREM NoneCreatedAfterDeletion == Spec => NoAPIAfterDeletion
<1>1. TypeOK /\ LifeCycleInv /\ [Next]_vars
          => [~glance.exists => \A o \in APIs : api'[o].exists => api[o].exists]_vars
  <2> SUFFICES ASSUME TypeOK, LifeCycleInv, [Next]_vars, ~glance.exists,
                      NEW o \in APIs, api'[o].exists
               PROVE  api[o].exists
    OBVIOUS
  <2>1. pc # "apiDeployment"
    BY DEF LifeCycleInv, HoldKept, NormalSteps
  <2> QED
    BY <2>1, Creators
<1> QED
  BY <1>1, TypeCorrect, LifeCycleInvariant, PTL DEF Spec, NoAPIAfterDeletion

=============================================================================
