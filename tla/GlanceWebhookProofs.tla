------------------------- MODULE GlanceWebhookProofs -------------------------
(***************************************************************************)
(* Proofs about GlanceWebhook, for any names, configurations, timeouts and *)
(* number of edits.                                                        *)
(***************************************************************************)
EXTENDS GlanceWebhook, TLAPS

-----------------------------------------------------------------------------
(* Types as sets.                                                          *)

APIMaps  == UNION {[S -> APIType] : S \in SUBSET Names}
SpecType == [apis : APIMaps, endpoint : Names \cup {NoName},
             config : Configs \cup {GetTemplateBackend}, timeout : Nat,
             request : BOOLEAN, external : BOOLEAN]
GlanceType == [exists : BOOLEAN, deleting : BOOLEAN, finalizer : BOOLEAN, spec : SpecType]

\* A map of APIs has names for keys.
LEMMA APIMapDef == \A f : f \in APIMaps <=> \E S \in SUBSET Names : f \in [S -> APIType]
  BY Zenon DEF APIMaps

LEMMA APIMapFacts ==
    ASSUME NEW f \in APIMaps
    PROVE  /\ DOMAIN f \subseteq Names
           /\ \A n \in DOMAIN f : f[n] \in APIType
           /\ f = [n \in DOMAIN f |-> f[n]]
<1>1. PICK S \in SUBSET Names : f \in [S -> APIType]
  BY APIMapDef
<1> QED
  BY <1>1

\* The map without keys is the only one with an empty domain.
LEMMA NoAPIsFacts ==
    /\ NoAPIs \in APIMaps /\ DOMAIN NoAPIs = {}
    /\ \A f \in APIMaps : DOMAIN f = {} => f = NoAPIs
<1>1. DOMAIN NoAPIs = {} /\ NoAPIs \in [{} -> APIType]
  BY DEF NoAPIs
<1>2. NoAPIs \in APIMaps
  BY <1>1, APIMapDef
<1>3. ASSUME NEW f \in APIMaps, DOMAIN f = {} PROVE f = NoAPIs
  BY <1>3, APIMapFacts DEF NoAPIs
<1> QED
  BY <1>1, <1>2, <1>3

\* An entry is set, or removed.
LEMMA WithTyped ==
    ASSUME NEW f \in APIMaps, NEW n \in Names, NEW a \in APIType
    PROVE  With(f, n, a) \in APIMaps
<1>1. With(f, n, a) \in [DOMAIN f \cup {n} -> APIType] /\ DOMAIN f \cup {n} \in SUBSET Names
  BY APIMapFacts DEF With
<1> QED
  BY <1>1, APIMapDef

LEMMA WithoutTyped ==
    ASSUME NEW f \in APIMaps, NEW n PROVE Without(f, n) \in APIMaps
<1>1. Without(f, n) \in [DOMAIN f \ {n} -> APIType] /\ DOMAIN f \ {n} \in SUBSET Names
  BY APIMapFacts DEF Without
<1> QED
  BY <1>1, APIMapDef

-----------------------------------------------------------------------------
(* Requests.                                                               *)

LEMMA APIRequestTyped ==
    ASSUME NEW t \in Types, NEW r \in {0, 1}, NEW c \in Configs
    PROVE  APIRequest(t, r, c) \in APIType
  BY DEF APIRequest, APIType

LEMMA APIRequestsTyped == APIRequests \subseteq APIType
  BY APIRequestTyped DEF APIRequests

LEMMA NoSpecTyped == NoSpec \in SpecType /\ NoGlance \in GlanceType
<1>1. NoSpec \in SpecType
  BY NoAPIsFacts, ConstantsAssumption DEF NoSpec, SpecType, ConstantsAssumption
<1> QED
  BY <1>1 DEF NoGlance, GlanceType

\* A creation.
LEMMA CreateTyped == CreateRequests \subseteq SpecType
<1> SUFFICES ASSUME NEW f \in {NoAPIs} \cup [{"default"} -> APIRequests], NEW c \in Configs,
                    NEW q \in BOOLEAN
             PROVE  CreateRequest(f, c, q) \in SpecType
  BY DEF CreateRequests
<1>1. f \in APIMaps
  <2>1. CASE f \in [{"default"} -> APIRequests]
    <3>1. f \in [{"default"} -> APIType] /\ {"default"} \in SUBSET Names
      BY <2>1, APIRequestsTyped, ConstantsAssumption DEF ConstantsAssumption
    <3> QED
      BY <3>1, APIMapDef
  <2> QED
    BY <2>1, NoAPIsFacts
<1> QED
  BY <1>1, NoSpecTyped DEF SpecType, CreateRequest

\* An edit of an API that is there.
LEMMA APIEditsTyped ==
    ASSUME NEW a \in APIType, NEW b \in APIEdits(a) PROVE b \in APIType
<1>1. \/ \E t \in Types : b = [a EXCEPT !.type = t]
      \/ \E r \in {0, 1} : b = [a EXCEPT !.replicas = r]
      \/ \E c \in Configs : b = [a EXCEPT !.config = c]
      \/ \E t \in Timeouts : b = [a EXCEPT !.timeout = t]
      \/ \E d \in SUBSET Defects : b = [a EXCEPT !.defects = d]
  BY Zenon DEF APIEdits
<1>2. Timeouts \subseteq Nat
  BY ConstantsAssumption DEF ConstantsAssumption
<1> QED
  BY <1>1, <1>2 DEF APIType

\* An edit of the Glance.
LEMMA UpdateTyped ==
    ASSUME NEW s \in SpecType, NEW r \in UpdateRequests(s) PROVE r \in SpecType
<1>1. \/ \E c \in Configs : r = [s EXCEPT !.config = c]
      \/ \E t \in Timeouts : r = [s EXCEPT !.timeout = t]
      \/ \E e \in Names : r = [s EXCEPT !.endpoint = e]
      \/ r = [s EXCEPT !.request = ~s.request]
      \/ \E n \in DOMAIN s.apis : r = [s EXCEPT !.apis = Without(s.apis, n)]
      \/ \E n \in DOMAIN s.apis : \E a \in APIEdits(s.apis[n]) :
             r = [s EXCEPT !.apis = With(s.apis, n, a)]
      \/ r \in Additions(s)
  <2> DEFINE A == {[s EXCEPT !.config = c] : c \in Configs}
             B == {[s EXCEPT !.timeout = t] : t \in Timeouts}
             C == {[s EXCEPT !.endpoint = e] : e \in Names}
             D == {[s EXCEPT !.request = ~s.request]}
             E == {[s EXCEPT !.apis = Without(s.apis, n)] : n \in DOMAIN s.apis}
             F == UNION {{[s EXCEPT !.apis = With(s.apis, n, a)] : a \in APIEdits(s.apis[n])} :
                             n \in DOMAIN s.apis}
  <2>1. UpdateRequests(s) = A \cup B \cup C \cup D \cup E \cup F \cup Additions(s)
    BY Zenon DEF UpdateRequests
  <2>2. r \in F => \E n \in DOMAIN s.apis : \E a \in APIEdits(s.apis[n]) :
                       r = [s EXCEPT !.apis = With(s.apis, n, a)]
    BY Zenon
  <2>3. /\ r \in A => \E c \in Configs : r = [s EXCEPT !.config = c]
        /\ r \in B => \E t \in Timeouts : r = [s EXCEPT !.timeout = t]
        /\ r \in C => \E e \in Names : r = [s EXCEPT !.endpoint = e]
        /\ r \in D => r = [s EXCEPT !.request = ~s.request]
        /\ r \in E => \E n \in DOMAIN s.apis : r = [s EXCEPT !.apis = Without(s.apis, n)]
    BY Zenon
  <2>4. \/ r \in A \/ r \in B \/ r \in C \/ r \in D \/ r \in E \/ r \in F
        \/ r \in Additions(s)
    <3> HIDE DEF A, B, C, D, E, F
    <3> QED
      BY <2>1
  <2> HIDE DEF A, B, C, D, E, F
  <2> QED
    BY <2>2, <2>3, <2>4, Zenon
<1>2. s.apis \in APIMaps /\ DOMAIN s.apis \subseteq Names
      /\ \A n \in DOMAIN s.apis : s.apis[n] \in APIType
  BY APIMapFacts DEF SpecType
<1>3. ASSUME NEW f \in APIMaps PROVE [s EXCEPT !.apis = f] \in SpecType
  BY DEF SpecType
<1>4. CASE \/ \E c \in Configs : r = [s EXCEPT !.config = c]
           \/ \E t \in Timeouts : r = [s EXCEPT !.timeout = t]
           \/ \E e \in Names : r = [s EXCEPT !.endpoint = e]
           \/ r = [s EXCEPT !.request = ~s.request]
  BY <1>4, ConstantsAssumption DEF SpecType, ConstantsAssumption
<1>5. ASSUME NEW n \in DOMAIN s.apis, r = [s EXCEPT !.apis = Without(s.apis, n)]
      PROVE  r \in SpecType
  BY <1>2, <1>3, <1>5, WithoutTyped
<1>6. ASSUME NEW n \in DOMAIN s.apis, NEW a \in APIEdits(s.apis[n]),
             r = [s EXCEPT !.apis = With(s.apis, n, a)]
      PROVE  r \in SpecType
  <2>1. n \in Names /\ a \in APIType
    BY <1>2, APIEditsTyped
  <2> QED
    BY <1>2, <1>3, <1>6, <2>1, WithTyped
<1>7. ASSUME NEW f \in {s.apis, NoAPIs}, NEW n \in Names, NEW a \in APIRequests,
             NEW d \in SUBSET Defects
      PROVE  Addition(s, f, n, a, d) \in SpecType
  <2>1. [a EXCEPT !.defects = d] \in APIType
    BY APIRequestsTyped DEF APIType
  <2>2. With(f, n, [a EXCEPT !.defects = d]) \in APIMaps
    BY <1>2, <2>1, WithTyped, NoAPIsFacts
  <2> QED
    BY <2>2 DEF SpecType, Addition
<1>8. r \in Additions(s) => r \in SpecType
  BY <1>7 DEF Additions
<1> QED
  BY <1>1, <1>4, <1>5, <1>6, <1>8

-----------------------------------------------------------------------------
(* Default.                                                                *)

\* Default has left nothing open, but for the endpoint.
Filled(s) == /\ s.timeout > 0 /\ s.apis # NoAPIs
             /\ \A n \in DOMAIN s.apis : s.apis[n].timeout > 0
             /\ s.external \/ s.request

LEMMA DefaultTyped ==
    ASSUME NEW s \in SpecType PROVE Default(s) \in SpecType /\ Filled(Default(s))
<1> DEFINE timeout == IF s.timeout = 0 THEN DefaultTimeout ELSE s.timeout
           apis == IF s.apis = NoAPIs
                   THEN [n \in {"default"} |-> APIRequest("split", 0, <<>>)] ELSE s.apis
           ep   == IF s.apis = NoAPIs THEN "default" ELSE s.endpoint
           filled == [n \in DOMAIN apis |->
                         [apis[n] EXCEPT !.timeout = IF @ = 0 THEN timeout ELSE @]]
           endpoint == IF ep = NoName /\ \E n \in Names : DOMAIN apis = {n}
                       THEN CHOOSE n \in Names : DOMAIN apis = {n} ELSE ep
           config == IF s.apis = NoAPIs THEN GetTemplateBackend ELSE s.config
           external == s.external \/ ~s.request
<1>1. Default(s) = [apis |-> filled, endpoint |-> endpoint, config |-> config,
                    timeout |-> timeout, request |-> s.request, external |-> external]
  BY Zenon DEF Default
<1>2. /\ s.apis \in APIMaps /\ s.endpoint \in Names \cup {NoName} /\ s.timeout \in Nat
      /\ s.config \in Configs \cup {GetTemplateBackend}
      /\ s.request \in BOOLEAN /\ s.external \in BOOLEAN
  BY DEF SpecType
<1>3. timeout \in Nat /\ timeout > 0
  <2> HIDE DEF apis, ep, filled, endpoint, config, external
  <2>0. s.timeout \in Nat
    BY <1>2
  <2>1. CASE s.timeout = 0
    BY <2>1 DEF DefaultTimeout
  <2>2. CASE s.timeout # 0
    BY <2>0, <2>2
  <2> QED
    BY <2>1, <2>2
<1>4. apis \in APIMaps /\ DOMAIN apis # {}
  <2>1. CASE s.apis = NoAPIs
    <3>1. APIRequest("split", 0, <<>>) \in APIType /\ {"default"} \in SUBSET Names
      BY APIRequestTyped, ConstantsAssumption DEF ConstantsAssumption, Types
    <3>2. apis \in [{"default"} -> APIType]
      BY <2>1, <3>1
    <3> HIDE DEF apis
    <3> QED
      BY <3>1, <3>2, APIMapDef
  <2>2. CASE s.apis # NoAPIs
    BY <1>2, <2>2, NoAPIsFacts
  <2> QED
    BY <2>1, <2>2
<1> HIDE DEF timeout, apis
<1>5. /\ filled \in [DOMAIN apis -> APIType] /\ DOMAIN apis \in SUBSET Names
      /\ \A n \in DOMAIN apis : filled[n].timeout > 0
  <2>1. ASSUME NEW n \in DOMAIN apis
        PROVE  /\ [apis[n] EXCEPT !.timeout = IF @ = 0 THEN timeout ELSE @] \in APIType
               /\ [apis[n] EXCEPT !.timeout = IF @ = 0 THEN timeout ELSE @].timeout > 0
    BY <1>3, <1>4, APIMapFacts DEF APIType
  <2> QED
    BY <1>4, <2>1, APIMapFacts
<1>6. filled \in APIMaps /\ DOMAIN filled = DOMAIN apis
  <2> HIDE DEF filled
  <2> QED
    BY <1>5, APIMapDef
<1>7. filled # NoAPIs
  <2> HIDE DEF filled
  <2> QED
    BY <1>4, <1>6, NoAPIsFacts
<1>8. endpoint \in Names \cup {NoName} /\ config \in Configs \cup {GetTemplateBackend}
      /\ external \in BOOLEAN /\ (external \/ s.request)
  BY <1>2, ConstantsAssumption DEF ConstantsAssumption
<1> HIDE DEF filled, endpoint, config, external
<1>9. Default(s) \in SpecType
  <2>1. timeout \in Nat /\ filled \in APIMaps
    BY <1>3, <1>6
  <2> DEFINE C == Configs \cup {GetTemplateBackend}
             E == Names \cup {NoName}
  <2>2. config \in C /\ endpoint \in E /\ external \in BOOLEAN /\ s.request \in BOOLEAN
    BY <1>2, <1>8
  <2>3. SpecType = [apis : APIMaps, endpoint : E, config : C, timeout : Nat,
                    request : BOOLEAN, external : BOOLEAN]
    BY DEF SpecType
  <2> HIDE DEF C, E
  <2> QED
    BY <1>1, <2>1, <2>2, <2>3
<1>10. /\ Default(s).timeout = timeout /\ Default(s).apis = filled
       /\ Default(s).external = external /\ Default(s).request = s.request
  BY <1>1
<1> QED
  BY <1>3, <1>5, <1>6, <1>7, <1>8, <1>9, <1>10 DEF Filled

\* So that it changes nothing any more.
LEMMA DefaultAgain ==
    ASSUME NEW s \in SpecType, Filled(s), s.endpoint # NoName PROVE Default(s) = s
<1>1. /\ s.apis \in APIMaps /\ s.timeout \in Nat /\ s.timeout > 0 /\ s.apis # NoAPIs
      /\ \A n \in DOMAIN s.apis : s.apis[n] \in APIType /\ s.apis[n].timeout > 0
      /\ (s.external \/ ~s.request) = s.external
  BY APIMapFacts DEF SpecType, Filled
<1> DEFINE filled(t) == [n \in DOMAIN s.apis |->
                            [s.apis[n] EXCEPT !.timeout = IF @ = 0 THEN t ELSE @]]
<1>2. ASSUME NEW t PROVE filled(t) = s.apis
  <2>1. ASSUME NEW n \in DOMAIN s.apis
        PROVE  [s.apis[n] EXCEPT !.timeout = IF @ = 0 THEN t ELSE @] = s.apis[n]
    <3> DEFINE a == s.apis[n]
    <3>0. a \in APIType /\ a.timeout > 0
      BY <1>1
    <3>1. a \in APIType /\ a.timeout # 0
      <4> HIDE DEF a, filled
      <4>1. a.timeout \in Nat
        BY <3>0 DEF APIType
      <4> QED
        BY <3>0, <4>1
    <3> HIDE DEF a
    <3>2. [a EXCEPT !.timeout = a.timeout] = a
      BY <3>1 DEF APIType
    <3>3. (IF a.timeout = 0 THEN t ELSE a.timeout) = a.timeout
      BY <3>1
    <3> QED
      BY <3>2, <3>3 DEF a
  <2> QED
    BY <1>1, <2>1, APIMapFacts
<1> DEFINE timeout == IF s.timeout = 0 THEN DefaultTimeout ELSE s.timeout
           apis == IF s.apis = NoAPIs
                   THEN [n \in {"default"} |-> APIRequest("split", 0, <<>>)] ELSE s.apis
           ep   == IF s.apis = NoAPIs THEN "default" ELSE s.endpoint
           endpoint == IF ep = NoName /\ \E n \in Names : DOMAIN apis = {n}
                       THEN CHOOSE n \in Names : DOMAIN apis = {n} ELSE ep
           config == IF s.apis = NoAPIs THEN GetTemplateBackend ELSE s.config
<1>3. Default(s) =
          [apis |-> [n \in DOMAIN apis |->
                        [apis[n] EXCEPT !.timeout = IF @ = 0 THEN timeout ELSE @]],
           endpoint |-> endpoint, config |-> config, timeout |-> timeout,
           request |-> s.request, external |-> s.external \/ ~s.request]
  BY Zenon DEF Default
<1>4. apis = s.apis /\ ep = s.endpoint /\ config = s.config
  BY <1>1
<1>5. timeout = s.timeout
  <2>1. s.timeout # 0
    BY <1>1
  <2> QED
    BY <2>1
<1>6. endpoint = s.endpoint
  <2> HIDE DEF ep
  <2> QED
    BY <1>4
<1> HIDE DEF apis, ep, endpoint, config, timeout
<1>7. Default(s) = [apis |-> filled(s.timeout), endpoint |-> s.endpoint,
                    config |-> s.config, timeout |-> s.timeout, request |-> s.request,
                    external |-> s.external]
  BY <1>1, <1>3, <1>4, <1>5, <1>6, Zenon
<1>8. Default(s) = [apis |-> s.apis, endpoint |-> s.endpoint, config |-> s.config,
                    timeout |-> s.timeout, request |-> s.request, external |-> s.external]
  BY <1>2, <1>7, Zenon
<1> QED
  BY <1>8 DEF SpecType

-----------------------------------------------------------------------------
(* What is stored.                                                         *)

\* The rules that hold for every API, old or new.
Admitted(s) ==
    /\ isValidKeystoneEP(s)
    /\ \A n \in DOMAIN s.apis : /\ ValidateDNS1123Label(n, s.apis[n].type)
                                /\ ValidateTopology(s.apis[n])
                                /\ ~isInvalidBackend(s.apis[n], IsFileBackend(s.config, TRUE))

\* A Glance that is there has been through both webhooks, and a timeout that a human
\* has chosen is not what the flag says.
WebhookInv ==
    /\ glance \in GlanceType
    /\ glance.exists => Filled(glance.spec) /\ Admitted(glance.spec)
    /\ ~glance.exists => glance = NoGlance
    /\ route \in [flag : Nat, haproxy : Nat] /\ manual \in Nat /\ edits \in 0 .. MaxEdits
    /\ manual # 0 => route.haproxy = manual /\ route.flag # manual

LEMMA CreateAdmits == ASSUME NEW s, ValidateCreate(s) PROVE Admitted(s)
  BY DEF ValidateCreate, Admitted

LEMMA UpdateAdmits == ASSUME NEW s, NEW old, ValidateUpdate(s, old) PROVE Admitted(s)
  BY DEF ValidateUpdate, Admitted

\* The requests for a Glance keep WebhookInv.
LEMMA RequestStep ==
    ASSUME WebhookInv, Create \/ Update \/ Delete \/ PatchFinalizer
    PROVE  WebhookInv'
<1>1. NoGlance \in GlanceType /\ NoGlance.exists = FALSE
  BY NoSpecTyped DEF NoGlance
<1>2. UNCHANGED <<route, manual>> /\ edits' \in 0 .. MaxEdits
  <2>1. UNCHANGED <<route, manual>> /\ (UNCHANGED edits \/ Edit)
    BY Zenon DEF Create, Update, Delete, PatchFinalizer
  <2>2. edits \in 0 .. MaxEdits /\ MaxEdits \in Nat
    BY ConstantsAssumption DEF WebhookInv, ConstantsAssumption
  <2> QED
    BY <2>1, <2>2 DEF Edit
<1>3. CASE glance' = NoGlance
  BY <1>1, <1>2, <1>3 DEF WebhookInv
<1>4. ASSUME NEW g \in GlanceType, NEW s \in SpecType, Filled(s), Admitted(s),
             \/ glance' = [g EXCEPT !.exists = TRUE, !.spec = s]
             \/ glance' = [g EXCEPT !.spec = s] /\ g.exists
             \/ glance' = [g EXCEPT !.spec = s, !.finalizer = TRUE] /\ g.exists
      PROVE  WebhookInv'
  <2>1. glance' \in GlanceType /\ glance'.exists = TRUE /\ glance'.spec = s
    BY <1>4 DEF GlanceType
  <2> QED
    BY <1>2, <1>4, <2>1 DEF WebhookInv
<1>5. glance \in GlanceType /\ glance.spec \in SpecType
  BY DEF WebhookInv, GlanceType
<1>6. CASE Create
  <2>1. PICK r \in CreateRequests :
            /\ ValidateCreate(Default(r))
            /\ glance' = [NoGlance EXCEPT !.exists = TRUE, !.spec = Default(r)]
    BY <1>6, Zenon DEF Create
  <2>2. Default(r) \in SpecType /\ Filled(Default(r)) /\ Admitted(Default(r))
    BY <2>1, CreateTyped, DefaultTyped, CreateAdmits
  <2> QED
    BY <1>1, <1>4, <2>1, <2>2
<1>7. CASE Update
  <2>1. PICK r \in UpdateRequests(glance.spec) :
            /\ ValidateUpdate(Default(r), glance.spec)
            /\ glance' = [glance EXCEPT !.spec = Default(r)]
    BY <1>7, Zenon DEF Update
  <2>2. Default(r) \in SpecType /\ Filled(Default(r)) /\ Admitted(Default(r))
    BY <1>5, <2>1, UpdateTyped, DefaultTyped, UpdateAdmits
  <2>3. glance.exists
    BY <1>7 DEF Update
  <2> QED
    BY <1>4, <1>5, <2>1, <2>2, <2>3
<1>8. CASE Delete
  <2>1. CASE glance.finalizer
    <3>1. /\ glance' \in GlanceType /\ glance'.exists = glance.exists
          /\ glance'.spec = glance.spec /\ glance.exists
      BY <1>5, <1>8, <2>1 DEF Delete, GlanceType
    <3> QED
      BY <1>2, <3>1 DEF WebhookInv
  <2> QED
    BY <1>3, <1>8, <2>1 DEF Delete
<1>9. CASE PatchFinalizer
  <2> DEFINE s == Default(glance.spec)
  <2>1. /\ ValidateUpdate(s, glance.spec) /\ glance.exists
        /\ glance' = NoGlance \/ glance' = [glance EXCEPT !.spec = s, !.finalizer = TRUE]
    BY <1>9, Zenon DEF PatchFinalizer
  <2>2. s \in SpecType /\ Filled(s) /\ Admitted(s)
    BY <1>5, <2>1, DefaultTyped, UpdateAdmits
  <2> HIDE DEF s
  <2> QED
    BY <1>3, <1>4, <1>5, <2>1, <2>2
<1> QED
  BY <1>6, <1>7, <1>8, <1>9

\* So do the writes to the annotations of the Route.
LEMMA RouteStep ==
    ASSUME WebhookInv, FillRoute \/ HumanSets \/ HumanClears PROVE WebhookInv'
<1>1. UNCHANGED glance /\ edits' \in 0 .. MaxEdits
  BY ConstantsAssumption DEF WebhookInv, FillRoute, HumanSets, HumanClears, Edit,
     ConstantsAssumption
<1>2. route \in [flag : Nat, haproxy : Nat] /\ manual \in Nat
      /\ (manual # 0 => route.haproxy = manual /\ route.flag # manual)
  BY DEF WebhookInv
<1>3. /\ route' \in [flag : Nat, haproxy : Nat] /\ manual' \in Nat
      /\ manual' # 0 => route'.haproxy = manual' /\ route'.flag # manual'
  <2>1. CASE HumanSets
    BY <1>2, <2>1, ConstantsAssumption DEF HumanSets, ConstantsAssumption
  <2>2. CASE HumanClears
    BY <1>2, <2>2 DEF HumanClears
  <2>3. CASE FillRoute
    <3> DEFINE t == glance.spec.apis["default"].timeout
    <3>1. t \in Nat
      <4>1. glance.spec.apis \in APIMaps /\ "default" \in DOMAIN glance.spec.apis
        BY <2>3 DEF FillRoute, WebhookInv, GlanceType, SpecType
      <4>2. glance.spec.apis["default"] \in APIType
        BY <4>1, APIMapFacts
      <4> QED
        BY <4>2 DEF APIType
    <3>2. route' = SetDefaultRouteAnnotations(route, t) /\ UNCHANGED manual
      BY <2>3 DEF FillRoute
    <3> HIDE DEF t
    <3> QED
      BY <1>2, <3>1, <3>2 DEF SetDefaultRouteAnnotations
  <2> QED
    BY <2>1, <2>2, <2>3
<1> QED
  BY <1>1, <1>3 DEF WebhookInv

\* Whatever is stored has passed both webhooks, over every sequence of creations,
\* edits, patches of the controller and writes to the Route.
THEOREM WebhookInvariant == Spec => []WebhookInv
<1>1. Init => WebhookInv
  BY NoSpecTyped, ConstantsAssumption DEF Init, WebhookInv, NoGlance, ConstantsAssumption
<1>2. WebhookInv /\ [Next]_vars => WebhookInv'
  <2> SUFFICES ASSUME WebhookInv, [Next]_vars PROVE WebhookInv'
    OBVIOUS
  <2>1. CASE UNCHANGED vars
    BY <2>1 DEF vars, WebhookInv
  <2> QED
    BY <2>1, RequestStep, RouteStep DEF Next
<1> QED
  BY <1>1, <1>2, PTL DEF Spec

-----------------------------------------------------------------------------
(* The properties.                                                         *)

\* An object that is not there has no APIs; one that is there has named ones.
LEMMA StoredAPIs ==
    ASSUME WebhookInv, NEW n \in DOMAIN glance.spec.apis
    PROVE  /\ n \in Names /\ glance.spec.apis[n] \in APIType
           /\ glance.exists /\ Filled(glance.spec) /\ Admitted(glance.spec)
<1>1. glance.spec.apis \in APIMaps
  BY DEF WebhookInv, GlanceType, SpecType
<1>2. glance.exists
  BY NoAPIsFacts DEF WebhookInv, NoGlance, NoSpec
<1> QED
  BY <1>1, <1>2, APIMapFacts DEF WebhookInv

\* The endpoint of a Glance that is there is one of its APIs.
LEMMA EndpointNamed ==
    ASSUME WebhookInv, glance.exists PROVE glance.spec.endpoint # NoName
<1>1. glance.spec.endpoint \in DOMAIN glance.spec.apis
  BY DEF WebhookInv, Admitted, isValidKeystoneEP
<1> QED
  BY <1>1, StoredAPIs, ConstantsAssumption DEF ConstantsAssumption

\* Types, and that Default has left nothing open in what is stored.
THEOREM TypeCorrect == Spec => []TypeOK
<1>1. WebhookInv => TypeOK
  <2> SUFFICES ASSUME WebhookInv PROVE TypeOK
    OBVIOUS
  <2>1. IsSpec(glance.spec)
    <3>1. glance.spec \in SpecType
      BY DEF WebhookInv, GlanceType
    <3>2. \E S \in SUBSET Names : glance.spec.apis \in [S -> APIType]
      BY <3>1, APIMapDef DEF SpecType
    <3> QED
      BY <3>1, <3>2 DEF IsSpec, SpecType
  <2> QED
    BY <2>1, EndpointNamed DEF WebhookInv, GlanceType, Filled, TypeOK
<1> QED
  BY <1>1, WebhookInvariant, PTL

\* The pods of a single API that was let in can be labelled, however long the name
\* of the Glance and the key of the API are.
THEOREM LabelsFit == Spec => []RevisionLabelFits
<1>1. WebhookInv => RevisionLabelFits
  <2> SUFFICES ASSUME WebhookInv, NEW n \in DOMAIN glance.spec.apis,
                      glance.spec.apis[n].type = "single"
               PROVE  RevisionLabelLen(n, "single") <= LabelMax
    BY DEF RevisionLabelFits
  <2>1. ValidateDNS1123Label(n, "single")
    BY StoredAPIs DEF Admitted
  <2>2. KeyLen[n] \in Nat /\ NameLen \in Nat
    BY StoredAPIs, ConstantsAssumption DEF ConstantsAssumption
  <2> QED
    BY <2>1, <2>2 DEF ValidateDNS1123Label, GetCrMaxLengthCorrection, RevisionLabelLen,
       LabelMax, HashLen, TypeLen
<1> QED
  BY <1>1, WebhookInvariant, PTL

\* The default probes fit into every timeout that is stored.
THEOREM ProbesFit == Spec => []ProbesBeforeTimeout
<1>1. ASSUME NEW t \in Nat
      PROVE  LET p == GetDefaultProbesAPI(t)
             IN /\ p.period * p.failures <= t
                /\ p.startup * p.startupFailures <= 120
                /\ t >= 20 => p.timeout < p.period
  <2> DEFINE d == (3 * t) \div 10
  <2>1. d \in Nat /\ d * 3 <= t /\ (t >= 20 => d >= 6)
    OBVIOUS
  <2> DEFINE w == Max2((4 * d) \div 5, 5)
             u == Max2(5, Min2(10, d \div 2))
  <2>2. GetDefaultProbesAPI(t) = [period |-> d, timeout |-> w, failures |-> 3,
                                  startup |-> u, startupFailures |-> 12]
    BY Zenon DEF GetDefaultProbesAPI
  <2> HIDE DEF d
  <2>3. d >= 6 => w < d
    BY <2>1 DEF Max2
  <2>4. u \in Nat /\ u * 12 <= 120
    BY <2>1 DEF Max2, Min2
  <2> HIDE DEF w, u
  <2> QED
    BY <2>1, <2>2, <2>3, <2>4
<1>2. WebhookInv => ProbesBeforeTimeout
  <2> SUFFICES ASSUME WebhookInv, NEW n \in DOMAIN glance.spec.apis
               PROVE  LET t == glance.spec.apis[n].timeout
                          p == GetDefaultProbesAPI(t)
                      IN /\ p.period * p.failures <= t
                         /\ p.startup * p.startupFailures <= 120
                         /\ t >= 20 => p.timeout < p.period
    BY Zenon DEF ProbesBeforeTimeout
  <2>1. glance.spec.apis[n].timeout \in Nat
    BY StoredAPIs DEF APIType
  <2> QED
    BY <1>1, <2>1, Zenon
<1> QED
  BY <1>2, WebhookInvariant, PTL

\* A HAProxy timeout that a human has chosen stays, over every change of the timeout
\* of the API.
THEOREM ManualTimeoutStays == Spec => []ManualTimeoutKept
<1>1. WebhookInv => ManualTimeoutKept
  BY DEF WebhookInv, ManualTimeoutKept
<1> QED
  BY <1>1, WebhookInvariant, PTL

\* If what the rules for overrides and probes reject does not occur (they are not
\* applied to a new API), the webhooks let through unchanged what they have let in.
THEOREM StoredStaysAdmissible ==
    ASSUME Defects \subseteq {"topology"} PROVE Spec => []StoredIsAdmissible
<1>1. WebhookInv => StoredIsAdmissible
  <2> SUFFICES ASSUME WebhookInv, glance.exists
               PROVE  /\ Default(glance.spec) = glance.spec
                      /\ ValidateUpdate(glance.spec, glance.spec)
    BY DEF StoredIsAdmissible
  <2> DEFINE s == glance.spec
  <2>1. s \in SpecType /\ Filled(s) /\ Admitted(s)
    BY DEF WebhookInv, GlanceType
  <2>2. Default(s) = s
    BY <2>1, EndpointNamed, DefaultAgain
  <2>3. \A n \in DOMAIN s.apis : /\ "override" \notin s.apis[n].defects
                                 /\ "probe" \notin s.apis[n].defects
    BY StoredAPIs DEF APIType
  <2>4. ValidateUpdate(s, s)
    BY <2>1, <2>3 DEF ValidateUpdate, Admitted, ValidateRoutedOverrides, ValidateProbes
  <2> QED
    BY <2>2, <2>4
<1> QED
  BY <1>1, WebhookInvariant, PTL

\* If every configuration that is not empty names its backends, no API with layout
\* split is deployed on the file backend.
THEOREM SplitStaysOffFile ==
    ASSUME \A c \in Configs : c # <<>> => GetEnabledBackends(c) # <<>>
    PROVE  Spec => []SplitNotOnFile
<1>1. GetEnabledBackends(<<>>) = <<>>
  BY DEF GetEnabledBackends
<1>2. WebhookInv => SplitNotOnFile
  <2> SUFFICES ASSUME WebhookInv, NEW n \in DOMAIN glance.spec.apis,
                      glance.spec.apis[n].type = "split", glance.spec.apis[n].replicas > 0
               PROVE  DeployedBackends(glance.spec, n) # <<"file">>
    BY DEF SplitNotOnFile
  <2> DEFINE s == glance.spec
             c == s.apis[n].config
  <2>1. c \in Configs /\ s.apis[n].replicas # 0
    BY StoredAPIs DEF APIType
  <2>2. ~IsFileBackend(c, IsFileBackend(s.config, TRUE))
    BY <2>1, StoredAPIs DEF Admitted, isInvalidBackend
  <2>3. CASE c = <<>>
    <3>1. GetEnabledBackends(s.config) \notin {<<>>, <<"file">>}
      BY <1>1, <2>2, <2>3 DEF IsFileBackend
    <3> QED
      BY <2>3, <3>1 DEF DeployedBackends, DeployedConfig
  <2>4. CASE c # <<>>
    <3>1. GetEnabledBackends(c) \notin {<<>>, <<"file">>}
      BY <2>1, <2>2, <2>4 DEF IsFileBackend
    <3> QED
      BY <2>4, <3>1 DEF DeployedBackends, DeployedConfig
  <2> QED
    BY <2>3, <2>4
<1> QED
  BY <1>2, WebhookInvariant, PTL

=============================================================================
