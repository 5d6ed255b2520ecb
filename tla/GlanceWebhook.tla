---------------------------- MODULE GlanceWebhook ----------------------------
(***************************************************************************)
(* The defaulting and the validating webhook of the Glance resource, and   *)
(* what they let into the API server over a sequence of requests: one      *)
(* creation, edits of the user, and the writes of the Glance controller,   *)
(* whose patches of the finalizers pass the same webhooks.                 *)
(*                                                                         *)
(* The annotations of a Route, which the openstack-operator has filled by  *)
(* SetDefaultRouteAnnotations, are here too: a human may edit them.        *)
(*                                                                         *)
(* Simplifications:                                                        *)
(*  - a customServiceConfig is a sequence of settings; only the key and    *)
(*    the stores of enabled_backends matter, and it occurs at most once;   *)
(*  - names have a length and nothing else;                                *)
(*  - an API may have defects that the rules for overrides, probes and     *)
(*    Topology references reject;                                          *)
(*  - fields whose default is a constant (image, DB purge, schedules of    *)
(*    the cache jobs), warnings and deprecated fields are left out.        *)
(***************************************************************************)
EXTENDS Naturals, Sequences

CONSTANTS
    Names,       \* keys of spec.glanceAPIs that occur, "default" among them
    KeyLen,      \* their lengths
    NameLen,     \* length of the name of the Glance
    Configs,     \* values of customServiceConfig, at the top or of an API
    Timeouts,    \* timeouts that the user may set; 0 is "not set"
    Defects,     \* what may be wrong in an API: "override", "probe", "topology"
    MaxEdits     \* edits of the user and of the human who cares for the Route

Types == {"split", "single", "edge"}

NoName == ""   \* of a keystoneEndpoint that is not set

\* Keys are labels, so that none is empty; a customServiceConfig may be.
ASSUME ConstantsAssumption ==
    /\ "default" \in Names /\ NoName \notin Names
    /\ <<>> \in Configs
    /\ KeyLen \in [Names -> Nat] /\ NameLen \in Nat
    /\ Timeouts \subseteq Nat
    /\ Defects \subseteq {"override", "probe", "topology"}
    /\ MaxEdits \in Nat

VARIABLES
    glance,   \* the Glance object in the API server
    route,    \* annotations of the Route of API "default"; 0 is "absent"
    manual,   \* the HAProxy timeout that a human has chosen, 0 if none
    edits

vars == <<glance, route, manual, edits>>

-----------------------------------------------------------------------------
(* Objects and requests.                                                   *)

\* GlanceAPITemplate.
APIType == [type : Types, replicas : {0, 1}, config : Configs, timeout : Nat,
            defects : SUBSET Defects]

\* The config that Default puts into a Glance without APIs: a placeholder.
GetTemplateBackend == <<[key |-> "enabled_backends", stores |-> <<"type1">>]>>

\* GlanceSpecCore: glanceAPIs is a map, keystoneEndpoint may be empty.
IsSpec(s) ==
    /\ \E S \in SUBSET Names : s.apis \in [S -> APIType]
    /\ s.endpoint \in Names \cup {NoName}
    /\ s.config \in Configs \cup {GetTemplateBackend}
    /\ s.timeout \in Nat /\ s.request \in BOOLEAN /\ s.external \in BOOLEAN

APIRequest(t, r, c) == [type |-> t, replicas |-> r, config |-> c, timeout |-> 0,
                        defects |-> {}]

NoAPIs == [n \in {} |-> APIRequest("split", 0, <<>>)]

NoSpec == [apis |-> NoAPIs, endpoint |-> NoName, config |-> <<>>, timeout |-> 0,
           request |-> FALSE, external |-> FALSE]

NoGlance == [exists |-> FALSE, deleting |-> FALSE, finalizer |-> FALSE, spec |-> NoSpec]

\* A map with the entry of n set, and without it.
With(f, n, a) == [k \in DOMAIN f \cup {n} |-> IF k = n THEN a ELSE f[k]]
Without(f, n) == [k \in DOMAIN f \ {n} |-> f[k]]

APIRequests == {APIRequest(t, r, c) : t \in Types, r \in {0, 1}, c \in Configs}

\* A Glance as it is first asked for: without APIs, or with one.
CreateRequest(f, c, q) == [NoSpec EXCEPT !.apis = f, !.config = c, !.request = q]
CreateRequests ==
    {CreateRequest(f, c, q) :
        f \in {NoAPIs} \cup [{"default"} -> APIRequests], c \in Configs, q \in BOOLEAN}

\* What may be asked for an API that is there.
APIEdits(a) ==
    {[a EXCEPT !.type = t] : t \in Types} \cup {[a EXCEPT !.replicas = r] : r \in {0, 1}}
    \cup {[a EXCEPT !.config = c] : c \in Configs}
    \cup {[a EXCEPT !.timeout = t] : t \in Timeouts}
    \cup {[a EXCEPT !.defects = d] : d \in SUBSET Defects}

\* A new API, which becomes the endpoint, beside the others or in their place.
Addition(s, f, n, a, d) ==
    [s EXCEPT !.apis = With(f, n, [a EXCEPT !.defects = d]), !.endpoint = n]
Additions(s) ==
    {Addition(s, f, n, a, d) :
        f \in {s.apis, NoAPIs}, n \in Names \ DOMAIN s.apis, a \in APIRequests,
        d \in SUBSET Defects}

\* A change of the stored spec: of a field at the top, of an API, the removal of
\* one, or a new API.
UpdateRequests(s) ==
    {[s EXCEPT !.config = c] : c \in Configs}
    \cup {[s EXCEPT !.timeout = t] : t \in Timeouts}
    \cup {[s EXCEPT !.endpoint = e] : e \in Names}
    \cup {[s EXCEPT !.request = ~@]}
    \cup {[s EXCEPT !.apis = Without(@, n)] : n \in DOMAIN s.apis}
    \cup (UNION {{[s EXCEPT !.apis = With(@, n, a)] : a \in APIEdits(s.apis[n])} :
                     n \in DOMAIN s.apis})
    \cup Additions(s)

-----------------------------------------------------------------------------
(* Backends.                                                               *)

\* The stores of the first line that sets enabled_backends.
GetEnabledBackends(c) ==
    LET Sets(i) == c[i].key = "enabled_backends"
        first == CHOOSE i \in DOMAIN c : Sets(i) /\ \A j \in 1 .. i - 1 : ~Sets(j)
    IN IF \E i \in DOMAIN c : Sets(i) THEN c[first].stores ELSE <<>>

\* File is the only backend, or there is none and none at the top either.
IsFileBackend(c, topLevel) ==
    LET backends == GetEnabledBackends(c)
    IN (backends = <<>> /\ topLevel) \/ backends = <<"file">>

\* Nothing is assumed of an API without replicas.
isInvalidBackend(a, topLevel) ==
    a.replicas # 0 /\ a.type = "split" /\ IsFileBackend(a.config, topLevel)

\* The configuration of an API as it is deployed: its own, or the one at the top
\* if it has none.
DeployedConfig(s, n) == IF s.apis[n].config = <<>> THEN s.config ELSE s.apis[n].config

\* 00-config.conf enables the file backend; the custom configuration overrides it.
DeployedBackends(s, n) ==
    LET backends == GetEnabledBackends(DeployedConfig(s, n))
    IN IF backends = <<>> THEN <<"file">> ELSE backends

-----------------------------------------------------------------------------
(* Names.                                                                  *)

LabelMax == 63   \* DNS1123LabelMaxLength
HashLen  == 11   \* hyphen and hash in the controller-revision-hash label

TypeLen == [split |-> 5, single |-> 6, edge |-> 4, external |-> 8, internal |-> 8]

\* Mutated GetCrMaxLengthCorrection: the hyphens are forgotten.
CorrectionWithoutHyphens(t) == HashLen + NameLen + TypeLen[t]

GetCrMaxLengthCorrection(t) == HashLen + NameLen + TypeLen[t] + 2

ValidateDNS1123Label(n, t) == KeyLen[n] + GetCrMaxLengthCorrection(t) <= LabelMax

\* The GlanceAPI is <glance>-<key>-<role>, its StatefulSet has "-api" after it
\* unless it is single, and the label of its pods the hash after that.
RevisionLabelLen(n, role) ==
    NameLen + 1 + KeyLen[n] + 1 + TypeLen[role] + (IF role = "single" THEN 0 ELSE 4) + HashLen

-----------------------------------------------------------------------------
(* The webhooks.                                                           *)

DefaultTimeout == 60   \* APIDefaultTimeout

\* Mutated Default: the APIs are given the timeout before it has its default.
DefaultTimeoutLast(s) ==
    LET apis == IF s.apis = NoAPIs
                THEN [n \in {"default"} |-> APIRequest("split", 0, <<>>)] ELSE s.apis
        ep   == IF s.apis = NoAPIs THEN "default" ELSE s.endpoint
    IN [apis     |-> [n \in DOMAIN apis |->
                         [apis[n] EXCEPT !.timeout = IF @ = 0 THEN s.timeout ELSE @]],
        endpoint |-> IF ep = NoName /\ \E n \in Names : DOMAIN apis = {n}
                     THEN CHOOSE n \in Names : DOMAIN apis = {n} ELSE ep,
        config   |-> IF s.apis = NoAPIs THEN GetTemplateBackend ELSE s.config,
        timeout  |-> IF s.timeout = 0 THEN DefaultTimeout ELSE s.timeout,
        request  |-> s.request,
        external |-> s.external \/ ~s.request]

\* Without a storage request storage is external; without APIs there is one, with
\* no replicas and a placeholder for its backend; an API without a timeout takes
\* the global one; the endpoint of a single API need not be named.
Default(s) ==
    LET timeout == IF s.timeout = 0 THEN DefaultTimeout ELSE s.timeout
        apis == IF s.apis = NoAPIs
                THEN [n \in {"default"} |-> APIRequest("split", 0, <<>>)] ELSE s.apis
        ep   == IF s.apis = NoAPIs THEN "default" ELSE s.endpoint
    IN [apis     |-> [n \in DOMAIN apis |->
                         [apis[n] EXCEPT !.timeout = IF @ = 0 THEN timeout ELSE @]],
        endpoint |-> IF ep = NoName /\ \E n \in Names : DOMAIN apis = {n}
                     THEN CHOOSE n \in Names : DOMAIN apis = {n} ELSE ep,
        config   |-> IF s.apis = NoAPIs THEN GetTemplateBackend ELSE s.config,
        timeout  |-> timeout,
        request  |-> s.request,
        external |-> s.external \/ ~s.request]

\* The endpoint is an API that is not an edge API.
isValidKeystoneEP(s) == \E n \in DOMAIN s.apis : n = s.endpoint /\ s.apis[n].type # "edge"

ValidateTopology(a) == "topology" \notin a.defects
ValidateRoutedOverrides(a) == "override" \notin a.defects
ValidateProbes(s) == \A n \in DOMAIN s.apis : "probe" \notin s.apis[n].defects

ValidateCreate(s) ==
    /\ isValidKeystoneEP(s)
    /\ \A n \in DOMAIN s.apis :
         LET a == s.apis[n]
         IN /\ ValidateDNS1123Label(n, a.type)
            /\ ValidateTopology(a)
            /\ ~isInvalidBackend(a, IsFileBackend(s.config, TRUE))
            /\ ValidateRoutedOverrides(a)
            /\ ValidateProbes(s)

\* Mutated ValidateUpdate: the backend of an API is checked when it is added.
ValidateUpdateNewOnly(s, old) ==
    /\ isValidKeystoneEP(s)
    /\ \A n \in DOMAIN s.apis :
         LET a == s.apis[n]
         IN /\ ValidateDNS1123Label(n, a.type)
            /\ ValidateTopology(a)
            /\ n \notin DOMAIN old.apis =>
                 ~isInvalidBackend(a, IsFileBackend(s.config, TRUE))
            /\ n \in DOMAIN old.apis =>
                 /\ a.type = old.apis[n].type
                 /\ ValidateRoutedOverrides(a)
                 /\ ValidateProbes(s)

\* Mutated ValidateUpdate: a new API may refer to any Topology.
ValidateUpdateTopologyOfOld(s, old) ==
    /\ isValidKeystoneEP(s)
    /\ \A n \in DOMAIN s.apis :
         LET a == s.apis[n]
         IN /\ ValidateDNS1123Label(n, a.type)
            /\ ~isInvalidBackend(a, IsFileBackend(s.config, TRUE))
            /\ n \in DOMAIN old.apis =>
                 /\ a.type = old.apis[n].type
                 /\ ValidateTopology(a)
                 /\ ValidateRoutedOverrides(a)
                 /\ ValidateProbes(s)

\* Of a new API only name, Topology and backend are checked.
ValidateUpdate(s, old) ==
    /\ isValidKeystoneEP(s)
    /\ \A n \in DOMAIN s.apis :
         LET a == s.apis[n]
         IN /\ ValidateDNS1123Label(n, a.type)
            /\ ValidateTopology(a)
            /\ ~isInvalidBackend(a, IsFileBackend(s.config, TRUE))
            /\ n \in DOMAIN old.apis =>
                 /\ a.type = old.apis[n].type
                 /\ ValidateRoutedOverrides(a)
                 /\ ValidateProbes(s)

-----------------------------------------------------------------------------
(* The annotations of the Route.                                           *)

\* Mutated SetDefaultRouteAnnotations: what a human changes while the flag is
\* there is taken for a default.
SetDefaultRouteAnnotationsAlways(r, t) ==
    IF r.flag = 0 /\ r.haproxy # 0 THEN r ELSE [flag |-> t, haproxy |-> t]

\* A timeout without the operator's flag is a human's; one that differs from the
\* flag has become a human's; else both follow the timeout of the API.
SetDefaultRouteAnnotations(r, t) ==
    IF r.flag = 0 /\ r.haproxy # 0 THEN r
    ELSE IF r.flag # 0 /\ r.haproxy # 0 /\ r.flag # r.haproxy THEN [r EXCEPT !.flag = 0]
    ELSE [flag |-> t, haproxy |-> t]

-----------------------------------------------------------------------------
(* Probes.                                                                 *)

Max2(a, b) == IF a >= b THEN a ELSE b
Min2(a, b) == IF a <= b THEN a ELSE b

\* Mutated GetDefaultProbesAPI: a third of the timeout, rounded up.
GetDefaultProbesAPIRoundedUp(t) ==
    LET period == (t + 2) \div 3
    IN [period |-> period, timeout |-> Max2((4 * period) \div 5, 5), failures |-> 3,
        startup |-> Max2(5, Min2(10, period \div 2)), startupFailures |-> 12]

\* Liveness and readiness every 0.3 of the API timeout, waiting for 0.8 of that
\* (at least 5 seconds); startup every 5 to 10 seconds.
GetDefaultProbesAPI(t) ==
    LET period == (3 * t) \div 10
    IN [period |-> period, timeout |-> Max2((4 * period) \div 5, 5), failures |-> 3,
        startup |-> Max2(5, Min2(10, period \div 2)), startupFailures |-> 12]

-----------------------------------------------------------------------------
(* Requests.                                                               *)

Init == /\ glance = NoGlance
        /\ route = [flag |-> 0, haproxy |-> 0] /\ manual = 0
        /\ edits = 0

Create ==
    /\ ~glance.exists
    /\ \E r \in CreateRequests :
         LET s == Default(r)
         IN /\ ValidateCreate(s)
            /\ glance' = [NoGlance EXCEPT !.exists = TRUE, !.spec = s]
    /\ UNCHANGED <<route, manual, edits>>

Edit == edits < MaxEdits /\ edits' = edits + 1

Update ==
    /\ glance.exists /\ Edit
    /\ \E r \in UpdateRequests(glance.spec) :
         LET s == Default(r)
         IN /\ s # glance.spec /\ ValidateUpdate(s, glance.spec)
            /\ glance' = [glance EXCEPT !.spec = s]
    /\ UNCHANGED <<route, manual>>

\* There is no rule for deletions.
Delete ==
    /\ glance.exists /\ ~glance.deleting
    /\ glance' = IF glance.finalizer THEN [glance EXCEPT !.deleting = TRUE] ELSE NoGlance
    /\ UNCHANGED <<route, manual, edits>>

\* The Glance controller patches the finalizer in, and out of an object that is
\* being deleted: an update as far as the webhooks are concerned.
PatchFinalizer ==
    LET s == Default(glance.spec)
    IN /\ glance.exists /\ glance.finalizer = glance.deleting
       /\ ValidateUpdate(s, glance.spec)
       /\ glance' = IF glance.deleting THEN NoGlance
                    ELSE [glance EXCEPT !.spec = s, !.finalizer = TRUE]
       /\ UNCHANGED <<route, manual, edits>>

\* The openstack-operator has the annotations of the Route filled.
FillRoute ==
    /\ glance.exists /\ "default" \in DOMAIN glance.spec.apis
    /\ route' = SetDefaultRouteAnnotations(route, glance.spec.apis["default"].timeout)
    /\ route' # route
    /\ UNCHANGED <<glance, manual, edits>>

\* A human sets the HAProxy timeout (to what the flag says: then it is the
\* operator's again), takes it away, or takes the flag away.
HumanSets ==
    /\ Edit
    /\ \E t \in Timeouts \ {0} :
         /\ route' = [route EXCEPT !.haproxy = t]
         /\ manual' = IF t = route.flag THEN 0 ELSE t
    /\ UNCHANGED glance

HumanClears ==
    /\ Edit /\ route.haproxy # 0
    /\ \/ route' = [route EXCEPT !.haproxy = 0] /\ manual' = 0
       \/ route' = [route EXCEPT !.flag = 0] /\ manual' = route.haproxy
    /\ UNCHANGED glance

Next == \/ Create \/ Update \/ Delete \/ PatchFinalizer
        \/ FillRoute \/ HumanSets \/ HumanClears

Spec == Init /\ [][Next]_vars

-----------------------------------------------------------------------------
(* Properties.                                                             *)

\* Types, and that Default has left nothing open in what is stored.
TypeOK ==
    /\ glance.exists \in BOOLEAN /\ glance.deleting \in BOOLEAN
    /\ glance.finalizer \in BOOLEAN /\ IsSpec(glance.spec)
    /\ glance.exists =>
         /\ glance.spec.endpoint # NoName /\ glance.spec.timeout > 0 /\ glance.spec.apis # NoAPIs
         /\ \A n \in DOMAIN glance.spec.apis : glance.spec.apis[n].timeout > 0
    /\ route \in [flag : Nat, haproxy : Nat]
    /\ manual \in Nat /\ edits \in 0 .. MaxEdits

\* No API with layout split runs on the file backend, whatever sequence of edits
\* has led to the spec: scaling up from zero replicas, changing the configuration
\* at the top, which other APIs inherit, or adding an API ("The GlanceAPI layout
\* type: split cannot be used in combination with File and NFS backend").  The
\* rule looks at backends, the deployment inherits whole configurations.
SplitNotOnFile ==
    \A n \in DOMAIN glance.spec.apis :
        LET a == glance.spec.apis[n]
        IN a.type = "split" /\ a.replicas > 0 => DeployedBackends(glance.spec, n) # <<"file">>

\* What the webhooks have let in, they let through again unchanged: the patches
\* of the Glance controller are never rejected, so that it can always add and
\* remove its finalizer, and they do not change the spec on the way.
StoredIsAdmissible ==
    glance.exists => /\ Default(glance.spec) = glance.spec
                     /\ ValidateUpdate(glance.spec, glance.spec)

\* The pods of a single API that was let in can be labelled: the label
\* controller-revision-hash, made of the names of Glance and API, of the layout
\* and of a hash, is not longer than a label may be.
RevisionLabelFits ==
    \A n \in DOMAIN glance.spec.apis :
        glance.spec.apis[n].type = "single" => RevisionLabelLen(n, "single") <= LabelMax

\* A pod that does not answer is found unhealthy before requests to it time out,
\* one that does not start within two minutes, and from a timeout of 20 seconds
\* on one probe is over before the next one starts (docs/probes.md).
ProbesBeforeTimeout ==
    \A n \in DOMAIN glance.spec.apis :
        LET t == glance.spec.apis[n].timeout
            p == GetDefaultProbesAPI(t)
        IN /\ p.period * p.failures <= t
           /\ p.startup * p.startupFailures <= 120
           /\ t >= 20 => p.timeout < p.period

\* A HAProxy timeout that a human has chosen stays, also when the flag was left
\* behind and the timeout of the API changes later.
ManualTimeoutKept == manual # 0 => route.haproxy = manual

=============================================================================
