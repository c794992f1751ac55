------------------------- MODULE RequestFlowProofs -------------------------
(* Theorems about RequestFlow, for any configurations, keys, names,         *)
(* providers, requests and number of reloads: what holds of the key and of  *)
(* the body sent upstream, whatever rules rewrite it on the way.            *)
EXTENDS RequestFlow, WellFoundedInduction, TLAPS

\* A request before the rules, with the model and the pins of its route.
Original(req, r) ==
    [body |-> Pinned([req.body EXCEPT !.model = r.model], r.pins, r.aware),
     headers |-> [auth |-> req.key, x |-> req.x]]

\* What is forwarded is that as the rules of a configuration in force since then leave
\* it.  It is sent to the provider routed, as the adapter prepares it and with its
\* header or the key chosen, and read as the client asked.
SentAsRouted ==
    wire # None =>
        /\ \E c \in since : forward = Modified(c.rules, Original(request, route),
                                               route.provider, route.model)
        /\ wire.stream = Truthy(request.body.stream)
        /\ wire.body = Prepared(route.provider, forward.body)
        /\ wire.provider = route.provider
        /\ wire.headers.auth =
              IF route.adapter.headers.auth # None THEN route.adapter.headers.auth
              ELSE IF override # None THEN override ELSE route.adapter.key

\* The adapter is of the configuration the request came under, the key is what one
\* of those in force since then gave.
ChosenSince ==
    pc \in {"limiter", "provider"} \/ wire # None =>
        /\ route \in RouteResults
        /\ route.adapter = origin.adapters[route.provider]
        /\ \E c \in since : override = ProviderKey(c, request.key, known, route.provider)

Control ==
    /\ pc # "idle" => (known <=> request.key \in origin.keys)
    /\ pc = "catalog" => request.name # None
    /\ pc \in {"idle", "catalog", "limiter"} => wire = None
    /\ pc # "done" => told.status = 0 /\ log = <<>>

IInv == TypeOK /\ SentAsRouted /\ ChosenSince /\ Control

----------------------------------------------------------------------------
(* The parts of a configuration *)

\* What a configuration says of a request's name and key.
LEMMA Parts ==
    ASSUME NEW c \in Configs, NEW r \in Requests
    PROVE  /\ r.key \in Optional(Keys)
           /\ r.name # None => r.name \in Names
           /\ \A n \in Names : c.routes[n] # None =>
                 c.routes[n] \in Routes /\ c.adapters[c.routes[n].provider] \in Adapters
           /\ \A k \in Keys, p \in Providers : c.keyFor[k][p] \in Optional(ProviderKeys)
<1>1. IsConfig(c)
  BY ConfigsAssumption
<1>2. r.key \in Optional(Keys) /\ r.name \in Optional(Names)
  BY RequestsAssumption
<1>3. ASSUME NEW n \in Names, c.routes[n] # None
      PROVE  c.routes[n] \in Routes /\ c.adapters[c.routes[n].provider] \in Adapters
  <2>1. c.routes[n] \in Routes
    BY <1>1, <1>3 DEF IsConfig, Optional
  <2>2. c.routes[n].provider \in Providers
    BY <2>1 DEF Routes
  <2>3. c.adapters[c.routes[n].provider] \in Optional(Adapters)
    BY <1>1, <2>2 DEF IsConfig
  <2> QED
    BY <1>1, <1>3, <2>1, <2>3 DEF IsConfig, Optional
<1>4. \A k \in Keys, p \in Providers : c.keyFor[k][p] \in Optional(ProviderKeys)
  BY <1>1 DEF IsConfig
<1> QED
  BY <1>2, <1>3, <1>4 DEF Optional

\* The key chosen is a key, or none.
LEMMA KeyType ==
    ASSUME NEW c \in Configs, NEW r \in Requests, NEW isKnown \in BOOLEAN, NEW p \in Providers
    PROVE  ProviderKey(c, r.key, isKnown, p) \in Optional(Keys \cup ProviderKeys)
  BY Parts DEF ProviderKey, Optional

\* The header a provider gets.
LEMMA HeaderType ==
    ASSUME NEW a \in Adapters, NEW h, NEW key \in Optional(Keys \cup ProviderKeys)
    PROVE  /\ BuiltHeaders(a, h, key).auth \in Optional(Keys \cup ProviderKeys \cup Texts)
           /\ BuiltHeaders(a, h, key).auth =
                 IF a.headers.auth # None THEN a.headers.auth ELSE IF key # None THEN key ELSE a.key
  BY DEF BuiltHeaders, Adapters, Optional

----------------------------------------------------------------------------
(* What the shared parts of the actions do *)

\* The request is sent: the wire has the route's provider and the header built.
LEMMA Sent ==
    ASSUME NEW q, NEW p, NEW key, Forward(q, p, key)
    PROVE  /\ pc' = "provider" /\ told' = told /\ log' = log
           /\ wire'.provider = p.provider /\ wire'.stream \in BOOLEAN
           /\ \E h : wire'.headers = BuiltHeaders(p.adapter, h, key)
           /\ forward' = Modified(config.rules, Original(q, p), p.provider, p.model)
           /\ wire'.stream = Truthy(q.body.stream)
           /\ wire'.body = Prepared(p.provider, forward'.body)
  BY DEF Forward, Truthy, Original

\* The request is routed as configuration c says.
LEMMA Dispatched ==
    ASSUME TypeOK, wire = None, told.status = 0,
           NEW c \in Configs, NEW q \in Requests, NEW isKnown \in BOOLEAN,
           q.name # None, c.routes[q.name] # None,
           Dispatch(c, q, isKnown),
           config' = config, origin' = c, request' = q, known' = isKnown, config \in since'
    PROVE  /\ route' \in RouteResults
           /\ override' \in Optional(Keys \cup ProviderKeys)
           /\ wire' # None =>
                /\ wire'.provider \in Providers /\ wire'.stream \in BOOLEAN
                /\ wire'.headers.auth \in Optional(Keys \cup ProviderKeys \cup Texts)
           /\ pc' \in {"limiter", "provider", "done"}
           /\ told' \in [status : Statuses, tag : Optional(Tags)]
           /\ log' = log
           /\ SentAsRouted' /\ ChosenSince'
           /\ pc' = "limiter" => wire' = None
           /\ pc' # "done" => told'.status = 0
<1> DEFINE f == c.routes[q.name]
           r == [provider |-> f.provider, model |-> f.model, pins |-> f.pins,
                 aware |-> f.aware, adapter |-> c.adapters[f.provider]]
           key == ProviderKey(config, q.key, isKnown, f.provider)
<1>1. f \in Routes /\ r.adapter \in Adapters
  BY Parts
<1>2. r \in RouteResults /\ r.provider \in Providers
  BY <1>1 DEF Routes, RouteResults
<1>3. route' = r /\ override' = key
  BY DEF Dispatch
<1>4. config \in Configs
  BY DEF TypeOK
<1>5. key \in Optional(Keys \cup ProviderKeys)
  BY <1>2, <1>4, KeyType
<1>6. route' \in RouteResults /\ route'.adapter = origin'.adapters[route'.provider]
  BY <1>2, <1>3
<1>7. \E d \in since' : override' = ProviderKey(d, request'.key, known', route'.provider)
  BY <1>3
<1>8. ChosenSince'
  BY <1>6, <1>7 DEF ChosenSince
<1>9. told \in [status : Statuses, tag : Optional(Tags)]
  BY DEF TypeOK
<1> HIDE DEF r, key
<1>10. CASE TurnAway(429)
  <2>1. pc' = "done" /\ wire' = None /\ log' = log /\ told' = [status |-> 429, tag |-> None]
    BY <1>10 DEF TurnAway
  <2> QED
    BY <1>2, <1>3, <1>5, <1>8, <2>1 DEF SentAsRouted, Statuses, Optional
<1>11. CASE pc' = "limiter" /\ UNCHANGED <<forward, wire, told, log>>
  BY <1>2, <1>3, <1>5, <1>1, <1>8, <1>9, <1>11 DEF SentAsRouted
<1>12. CASE Forward(q, r, key)
  <2>1. /\ pc' = "provider" /\ told' = told /\ log' = log
        /\ wire'.provider = r.provider /\ wire'.stream \in BOOLEAN
        /\ forward' = Modified(config.rules, Original(q, r), r.provider, r.model)
        /\ wire'.stream = Truthy(q.body.stream)
        /\ wire'.body = Prepared(r.provider, forward'.body)
    BY <1>12, Sent
  <2>2. PICK h : wire'.headers = BuiltHeaders(r.adapter, h, key)
    BY <1>12, Sent
  <2> DEFINE auth == BuiltHeaders(r.adapter, h, key).auth
  <2>3. /\ auth \in Optional(Keys \cup ProviderKeys \cup Texts)
        /\ auth = IF r.adapter.headers.auth # None THEN r.adapter.headers.auth
                  ELSE IF key # None THEN key ELSE r.adapter.key
    <3>1. r.adapter \in Adapters /\ key \in Optional(Keys \cup ProviderKeys)
      BY <1>1, <1>5
    <3> HIDE DEF f
    <3> QED
      BY <3>1, HeaderType
  <2>5. wire'.headers.auth = auth
    BY <2>2
  <2> HIDE DEF auth
  <2>4. SentAsRouted'
    BY <1>3, <2>1, <2>3, <2>5 DEF SentAsRouted
  <2> QED
    BY <1>1, <1>2, <1>3, <1>5, <1>8, <1>9, <2>1, <2>3, <2>4, <2>5
<1>13. TurnAway(429) \/ (pc' = "limiter" /\ UNCHANGED <<forward, wire, told, log>>)
          \/ Forward(q, r, key)
  BY DEF Dispatch, r, key
<1> QED
  BY <1>10, <1>11, <1>12, <1>13

----------------------------------------------------------------------------
(* The invariant *)

LEMMA InitIInv == Init => IInv
<1> SUFFICES ASSUME Init PROVE IInv
  OBVIOUS
<1>1. TypeOK
  <2>1. Len(log) \in {0, 1}
    BY DEF Init
  <2>2. told \in [status : Statuses, tag : Optional(Tags)]
    BY DEF Init, NoAnswer, Statuses, Optional
  <2>3. 0 \in 0 .. MaxReloads
    BY KeysAssumption
  <2>4. route \in Optional(RouteResults) /\ override \in Optional(Keys \cup ProviderKeys)
    BY DEF Init, Optional
  <2>5. /\ config \in Configs /\ since = {config} /\ origin = config /\ reloads = 0
        /\ pc = "idle" /\ request = None /\ known = FALSE /\ wire = None
    BY DEF Init
  <2> QED
    BY <2>1, <2>2, <2>3, <2>4, <2>5 DEF TypeOK
<1>2. SentAsRouted /\ ChosenSince /\ Control
  BY DEF Init, SentAsRouted, ChosenSince, Control, NoAnswer
<1> QED
  BY <1>1, <1>2 DEF IInv

\* A request that is turned away without a route.
LEMMA TurnedAway ==
    ASSUME IInv, pc \in {"idle", "catalog"}, NEW status \in Statuses \ {0},
           TurnAway(status), Unroutable
    PROVE  /\ pc' = "done" /\ wire' = None /\ route' = route /\ override' = override
           /\ told' \in [status : Statuses, tag : Optional(Tags)]
           /\ log' = log
           /\ SentAsRouted' /\ ChosenSince'
<1>1. wire = None /\ told.status = 0 /\ log = <<>>
  BY DEF IInv, Control, TypeOK
<1>2. /\ pc' = "done" /\ wire' = None /\ log' = log
      /\ told' = [status |-> status, tag |-> None]
      /\ route' = route /\ override' = override
  BY <1>1 DEF TurnAway, Unroutable
<1> QED
  BY <1>1, <1>2 DEF SentAsRouted, ChosenSince, Optional

\* The answer of the provider, or what the proxy makes of its failure.
LEMMA AnswerGiven ==
    ASSUME IInv, pc = "provider", NEW status \in Statuses \ {0}, NEW tag \in Optional(Tags),
           NEW headers, NEW body, Answer(status, tag, headers, body)
    PROVE  IInv'
<1>1. /\ pc' = "done" /\ told' = [status |-> status, tag |-> tag]
      /\ UNCHANGED <<config, since, reloads, request, origin, known, route, override, forward, wire>>
      /\ \E e : log' = Append(log, e)
  BY DEF Answer
<1>2. TypeOK /\ SentAsRouted /\ ChosenSince /\ Control
  BY DEF IInv
<1>3. Len(log') \in {0, 1}
  BY <1>1, <1>2 DEF Control
<1>4. TypeOK'
  BY <1>1, <1>2, <1>3 DEF TypeOK
<1>5. SentAsRouted' /\ ChosenSince'
  BY <1>1, <1>2 DEF SentAsRouted, ChosenSince
<1>6. Control'
  BY <1>1, <1>2 DEF Control
<1> QED
  BY <1>4, <1>5, <1>6 DEF IInv

\* A request comes and is turned away.
LEMMA ArriveAndTurnAway ==
    ASSUME IInv, NEW req \in Requests, NEW status \in Statuses \ {0},
           Arrive(req), TurnAway(status), Unroutable
    PROVE  IInv'
<1>1. TypeOK /\ Control /\ pc = "idle"
  BY DEF IInv, Arrive
<1>2. /\ pc' = "done" /\ wire' = None /\ route' = route /\ override' = override
      /\ told' \in [status : Statuses, tag : Optional(Tags)] /\ log' = log
      /\ SentAsRouted' /\ ChosenSince'
  BY <1>1, TurnedAway
<1>3. /\ request' = req /\ origin' = config /\ since' = {config}
      /\ known' = (req.key \in config.keys) /\ UNCHANGED <<config, reloads>>
  BY DEF Arrive
<1>4. TypeOK'
  BY <1>1, <1>2, <1>3 DEF TypeOK
<1>5. Control'
  BY <1>1, <1>2, <1>3 DEF Control
<1> QED
  BY <1>2, <1>4, <1>5 DEF IInv

LEMMA StepIInv == IInv /\ [Next]_vars => IInv'
<1> SUFFICES ASSUME IInv, [Next]_vars PROVE IInv'
  OBVIOUS
<1>0. TypeOK /\ SentAsRouted /\ ChosenSince /\ Control
  BY DEF IInv
<1>1. ASSUME NEW r \in Requests, Unauthorized(r) PROVE IInv'
  BY <1>1, ArriveAndTurnAway DEF Unauthorized, Statuses
<1>2. ASSUME NEW r \in Requests, NoModel(r) PROVE IInv'
  BY <1>2, ArriveAndTurnAway DEF NoModel, Statuses
<1>3. ASSUME NEW r \in Requests, Forbidden(r) PROVE IInv'
  BY <1>3, ArriveAndTurnAway DEF Forbidden, Statuses
<1>4. ASSUME NEW r \in Requests, RouteAtOnce(r) PROVE IInv'
  <2>1. /\ pc = "idle" /\ request' = r /\ origin' = config /\ since' = {config}
        /\ known' = (r.key \in config.keys) /\ UNCHANGED <<config, reloads>>
        /\ r.name # None /\ config.routes[r.name] # None
        /\ Dispatch(config, r, r.key \in config.keys)
    BY <1>4 DEF RouteAtOnce, Arrive, MayAsk
  <2>2. wire = None /\ told.status = 0 /\ log = <<>> /\ config \in Configs
    BY <1>0, <2>1 DEF Control, TypeOK
  <2>3. /\ route' \in RouteResults
        /\ override' \in Optional(Keys \cup ProviderKeys)
        /\ wire' # None =>
             /\ wire'.provider \in Providers /\ wire'.stream \in BOOLEAN
             /\ wire'.headers.auth \in Optional(Keys \cup ProviderKeys \cup Texts)
        /\ pc' \in {"limiter", "provider", "done"}
        /\ told' \in [status : Statuses, tag : Optional(Tags)]
        /\ log' = log
        /\ SentAsRouted' /\ ChosenSince'
        /\ pc' = "limiter" => wire' = None
        /\ pc' # "done" => told'.status = 0
    <3>1. (r.key \in config.keys) \in BOOLEAN /\ config \in since'
      BY <2>1
    <3> QED
      BY <1>0, <2>1, <2>2, <3>1, Dispatched
  <2>4. TypeOK'
    BY <1>0, <2>1, <2>2, <2>3 DEF TypeOK, Optional
  <2>5. Control'
    BY <1>0, <2>1, <2>2, <2>3 DEF Control
  <2> QED
    BY <2>3, <2>4, <2>5 DEF IInv
<1>5. ASSUME NEW r \in Requests, AwaitCatalog(r) PROVE IInv'
  <2>1. /\ pc = "idle" /\ pc' = "catalog" /\ request' = r /\ origin' = config /\ since' = {config}
        /\ known' = (r.key \in config.keys)
        /\ UNCHANGED <<config, reloads, route, override, forward, wire, told, log>>
    BY <1>5 DEF AwaitCatalog, Arrive, Unroutable
  <2>3. r.name # None
    BY <1>5 DEF AwaitCatalog, MayAsk
  <2>2. TypeOK'
    BY <1>0, <2>1 DEF TypeOK
  <2>4. SentAsRouted' /\ ChosenSince' /\ Control'
    BY <1>0, <2>1, <2>3 DEF SentAsRouted, ChosenSince, Control
  <2> QED
    BY <2>2, <2>4 DEF IInv
<1>6. ASSUME CatalogArrives PROVE IInv'
  <2>1. pc = "catalog" /\ UNCHANGED <<config, since, reloads, request, origin, known>>
    BY <1>6 DEF CatalogArrives
  <2>2. wire = None /\ told.status = 0 /\ log = <<>> /\ origin \in Configs /\ request \in Requests
    BY <1>0, <2>1 DEF Control, TypeOK
  <2>3. CASE TurnAway(404) /\ Unroutable
    <3>1. /\ pc' = "done" /\ wire' = None /\ route' = route /\ override' = override
          /\ told' \in [status : Statuses, tag : Optional(Tags)] /\ log' = log
          /\ SentAsRouted' /\ ChosenSince'
      BY <2>1, <2>3, TurnedAway DEF Statuses
    <3>2. TypeOK'
      BY <1>0, <2>1, <3>1 DEF TypeOK
    <3>3. Control'
      BY <1>0, <2>1, <3>1 DEF Control
    <3> QED
      BY <3>1, <3>2, <3>3 DEF IInv
  <2>4. CASE origin.routes[request.name] # None /\ Dispatch(origin, request, known)
    <3>1. request.name # None /\ known \in BOOLEAN /\ config \in since'
      BY <1>0, <2>1 DEF Control, TypeOK
    <3>2. /\ route' \in RouteResults
          /\ override' \in Optional(Keys \cup ProviderKeys)
          /\ wire' # None =>
               /\ wire'.provider \in Providers /\ wire'.stream \in BOOLEAN
               /\ wire'.headers.auth \in Optional(Keys \cup ProviderKeys \cup Texts)
          /\ pc' \in {"limiter", "provider", "done"}
          /\ told' \in [status : Statuses, tag : Optional(Tags)]
          /\ log' = log
          /\ SentAsRouted' /\ ChosenSince'
          /\ pc' = "limiter" => wire' = None
          /\ pc' # "done" => told'.status = 0
      BY <1>0, <2>1, <2>2, <2>4, <3>1, Dispatched
    <3>3. TypeOK'
      BY <1>0, <2>1, <2>2, <3>2 DEF TypeOK, Optional
    <3>4. Control'
      BY <1>0, <2>1, <2>2, <3>2 DEF Control
    <3> QED
      BY <3>2, <3>3, <3>4 DEF IInv
  <2> QED
    BY <1>6, <2>3, <2>4 DEF CatalogArrives
<1>7. ASSUME CatalogRaises PROVE IInv'
  <2>1. pc = "catalog" /\ UNCHANGED <<config, since, reloads, request, origin, known>>
    BY <1>7 DEF CatalogRaises
  <2>2. /\ pc' = "done" /\ wire' = None /\ route' = route /\ override' = override
        /\ told' \in [status : Statuses, tag : Optional(Tags)] /\ log' = log
        /\ SentAsRouted' /\ ChosenSince'
    BY <1>7, <2>1, TurnedAway DEF CatalogRaises, Statuses
  <2>3. TypeOK'
    BY <1>0, <2>1, <2>2 DEF TypeOK
  <2>4. Control'
    BY <1>0, <2>1, <2>2 DEF Control
  <2> QED
    BY <2>2, <2>3, <2>4 DEF IInv
<1>8. ASSUME LimiterAdmits PROVE IInv'
  <2>1. /\ pc = "limiter" /\ Forward(request, route, override)
        /\ UNCHANGED <<config, since, reloads, request, origin, known, route, override>>
    BY <1>8 DEF LimiterAdmits
  <2>2. /\ pc' = "provider" /\ told' = told /\ log' = log
        /\ wire'.provider = route.provider /\ wire'.stream \in BOOLEAN
        /\ forward' = Modified(config.rules, Original(request, route), route.provider, route.model)
        /\ wire'.stream = Truthy(request.body.stream)
        /\ wire'.body = Prepared(route.provider, forward'.body)
    BY <2>1, Sent
  <2>3. PICK h : wire'.headers = BuiltHeaders(route.adapter, h, override)
    BY <2>1, Sent
  <2>4. /\ route \in RouteResults /\ route.adapter \in Adapters /\ route.provider \in Providers
        /\ override \in Optional(Keys \cup ProviderKeys)
        /\ told.status = 0 /\ log = <<>>
    BY <1>0, <2>1 DEF ChosenSince, RouteResults, TypeOK, Control
  <2> DEFINE auth == BuiltHeaders(route.adapter, h, override).auth
  <2>5. /\ auth \in Optional(Keys \cup ProviderKeys \cup Texts)
        /\ auth = IF route.adapter.headers.auth # None THEN route.adapter.headers.auth
                  ELSE IF override # None THEN override ELSE route.adapter.key
    BY <2>4, HeaderType
  <2>6. wire'.headers.auth = auth
    BY <2>3
  <2> HIDE DEF auth
  <2>7. TypeOK'
    BY <1>0, <2>1, <2>2, <2>4, <2>5, <2>6 DEF TypeOK
  <2>8. SentAsRouted'
    BY <1>0, <2>1, <2>2, <2>5, <2>6 DEF SentAsRouted, TypeOK
  <2>9. ChosenSince'
    BY <1>0, <2>1 DEF ChosenSince
  <2>10. Control'
    BY <1>0, <2>1, <2>2 DEF Control
  <2> QED
    BY <2>7, <2>8, <2>9, <2>10 DEF IInv
<1>9. ASSUME Provider PROVE IInv'
  <2>1. pc = "provider" /\ route \in RouteResults
    BY <1>0, <1>9 DEF Provider, StreamAnswers, PlainAnswers, TransportFails, ChosenSince
  <2>2. Tag(route) \in Optional(Tags) /\ MayTag \in Optional(Tags) /\ None \in Optional(Tags)
    BY <2>1 DEF Tag, MayTag, Tags, RouteResults, Optional
  <2>3. PICK status \in Statuses \ {0}, tag \in Optional(Tags) :
          \E headers, body : Answer(status, tag, headers, body)
    <3>1. CASE StreamAnswers
      BY <3>1, <2>2 DEF StreamAnswers, Statuses
    <3>2. ASSUME NEW s \in {200, 400}, PlainAnswers(s)
          PROVE  \E status \in Statuses \ {0}, tag \in Optional(Tags) :
                    \E headers, body : Answer(status, tag, headers, body)
      BY <3>2, <2>2 DEF PlainAnswers, Statuses
    <3>3. ASSUME NEW s \in {502, 504}, TransportFails(s)
          PROVE  \E status \in Statuses \ {0}, tag \in Optional(Tags) :
                    \E headers, body : Answer(status, tag, headers, body)
      BY <3>3, <2>2 DEF TransportFails, Statuses
    <3> QED
      BY <1>9, <3>1, <3>2, <3>3 DEF Provider
  <2> QED
    BY <2>1, <2>3, AnswerGiven
<1>10. ASSUME Forget PROVE IInv'
  <2>1. /\ pc' = "idle" /\ route' = None /\ override' = None /\ wire' = None
        /\ told' = NoAnswer /\ log' = <<>> /\ known' = FALSE
        /\ since' = {config} /\ origin' = config /\ config' = config
        /\ request' = None /\ reloads' = 0
    BY <1>10 DEF Forget
  <2>2. /\ Len(log') \in {0, 1} /\ 0 \in 0 .. MaxReloads
        /\ told' \in [status : Statuses, tag : Optional(Tags)]
    BY <2>1, KeysAssumption DEF NoAnswer, Statuses, Optional
  <2>3. TypeOK'
    BY <1>0, <2>1, <2>2 DEF TypeOK, Optional
  <2>4. SentAsRouted' /\ ChosenSince' /\ Control'
    BY <2>1 DEF SentAsRouted, ChosenSince, Control, NoAnswer
  <2> QED
    BY <2>3, <2>4 DEF IInv
<1>11. ASSUME NEW c \in Configs, Reload(c) PROVE IInv'
  <2>1. /\ config' = c
        /\ UNCHANGED <<request, pc, known, route, override, forward, wire, told, log>>
    BY <1>11 DEF Reload
  <2>2. CASE pc = "idle" /\ since' = {c} /\ origin' = c /\ reloads' = reloads
    <3>1. TypeOK'
      BY <1>0, <2>1, <2>2 DEF TypeOK
    <3>2. SentAsRouted' /\ ChosenSince' /\ Control'
      BY <1>0, <2>1, <2>2 DEF SentAsRouted, ChosenSince, Control
    <3> QED
      BY <3>1, <3>2 DEF IInv
  <2>3. CASE /\ pc # "idle" /\ reloads < MaxReloads /\ since' = since \cup {c}
             /\ reloads' = reloads + 1 /\ origin' = origin
    <3>1. reloads' \in 0 .. MaxReloads
      BY <1>0, <2>3, KeysAssumption DEF TypeOK
    <3>2. TypeOK'
      BY <1>0, <2>1, <2>3, <3>1 DEF TypeOK
    <3>3. SentAsRouted' /\ Control'
      BY <1>0, <2>1, <2>3 DEF SentAsRouted, Control
    <3>4. ChosenSince'
      BY <1>0, <2>1, <2>3 DEF ChosenSince, ProviderKey
    <3> QED
      BY <3>2, <3>3, <3>4 DEF IInv
  <2> QED
    BY <1>11, <2>2, <2>3 DEF Reload
<1>12. CASE UNCHANGED vars
  <2>1. TypeOK'
    BY <1>0, <1>12 DEF vars, TypeOK
  <2>2. SentAsRouted' /\ ChosenSince' /\ Control'
    BY <1>0, <1>12 DEF vars, SentAsRouted, ChosenSince, Control
  <2> QED
    BY <2>1, <2>2 DEF IInv
<1> QED
  BY <1>1, <1>2, <1>3, <1>4, <1>5, <1>6, <1>7, <1>8, <1>9, <1>10, <1>11, <1>12 DEF Next, Receive

\* The inductive invariant: besides the types, that what was sent is what was routed,
\* with a key one of the configurations since the request's arrival gave.
THEOREM Inductive == Spec => []IInv
  BY InitIInv, StepIInv, PTL DEF Spec

----------------------------------------------------------------------------
(* What the rules make of a body *)

\* A body with its headers on the way to an adapter.
Works == [body : Bodies, headers : [auth : Optional(Keys \cup Texts), x : Optional(Texts)]]

\* A field that is written leaves a body a body, and its other fields as they were.
LEMMA FieldSet ==
    ASSUME NEW b \in Bodies, NEW k \in Fields, NEW x \in Texts \cup {Null, None}
    PROVE  LET w == [b EXCEPT ![k] = x]
           IN  w \in Bodies /\ w[k] = x /\ \A f \in Fields \ {k} : w[f] = b[f]
<1>1. CASE k \in {"model", "stream", "provider"}
  BY <1>1 DEF Bodies, Fields, Any
<1>2. CASE k \in {"seed", "top_a", "include"}
  BY <1>2 DEF Bodies, Fields, Any
<1>3. CASE k \in {"reasoning", "effort"}
  BY <1>3 DEF Bodies, Fields, Any
<1>4. CASE k \in {"thinking", "usage"}
  BY <1>4 DEF Bodies, Fields, Any
<1> QED
  BY <1>1, <1>2, <1>3, <1>4 DEF Fields

\* What each action comes with.
LEMMA RuleType ==
    ASSUME NEW r \in Rules
    PROVE  /\ r.value \in Optional(Texts)
           /\ \/ r.action \in {"set_field", "remove_field"} /\ r.key \in Fields
              \/ r.action \in {"add_header", "remove_header", "misspelt"} /\ r.key \in {"x", "auth"}
  BY DEF Rules

\* One rule keeps the types, and touches no field but its own.
LEMMA OneRule ==
    ASSUME NEW r \in Rules, NEW v \in Works
    PROVE  /\ ApplyRule(r, v) \in Works
           /\ \A f \in Fields : ~ (r.action \in {"set_field", "remove_field"} /\ r.key = f) =>
                 ApplyRule(r, v).body[f] = v.body[f]
<1>0. /\ v.body \in Bodies /\ v.headers \in [auth : Optional(Keys \cup Texts), x : Optional(Texts)]
      /\ v = [body |-> v.body, headers |-> v.headers]
  BY DEF Works
<1>1. ASSUME NEW x \in Texts \cup {Null, None}, r.action \in {"set_field", "remove_field"},
             r.key \in Fields, ApplyRule(r, v) = [v EXCEPT !.body[r.key] = x]
      PROVE  /\ ApplyRule(r, v) \in Works
             /\ \A f \in Fields \ {r.key} : ApplyRule(r, v).body[f] = v.body[f]
  <2> DEFINE b == [v.body EXCEPT ![r.key] = x]
  <2>1. b \in Bodies /\ \A f \in Fields \ {r.key} : b[f] = v.body[f]
    BY <1>0, <1>1, FieldSet
  <2>2. ApplyRule(r, v) = [body |-> b, headers |-> v.headers]
    BY <1>0, <1>1
  <2> HIDE DEF b
  <2> QED
    BY <1>0, <2>1, <2>2 DEF Works
<1>2. CASE r.action = "set_field" /\ r.key \in Fields
  <2>1. ApplyRule(r, v) = [v EXCEPT !.body[r.key] = IF r.value = None THEN Null ELSE r.value]
    BY <1>2 DEF ApplyRule
  <2>2. (IF r.value = None THEN Null ELSE r.value) \in Texts \cup {Null, None}
    BY RuleType DEF Optional
  <2> QED
    BY <1>1, <1>2, <2>1, <2>2
<1>3. CASE r.action = "remove_field" /\ r.key \in Fields
  <2>1. ApplyRule(r, v) = [v EXCEPT !.body[r.key] = None]
    BY <1>3 DEF ApplyRule
  <2> QED
    BY <1>1, <1>3, <2>1
<1>4. CASE r.action = "add_header" /\ r.key \in {"x", "auth"}
  <2>1. (IF r.value = None THEN Blank ELSE r.value) \in Texts
    BY RuleType, TextsAssumption DEF Optional
  <2> QED
    BY <1>0, <1>4, <2>1 DEF ApplyRule, Works, Optional
<1>5. CASE r.action = "remove_header" /\ r.key \in {"x", "auth"}
  BY <1>0, <1>5 DEF ApplyRule, Works, Optional
<1>6. CASE r.action = "misspelt"
  BY <1>6 DEF ApplyRule
<1> QED
  BY RuleType, <1>2, <1>3, <1>4, <1>5, <1>6

\* What holds before the first of n rules, and after each if before it, holds after all.
LEMMA UpTo ==
    ASSUME NEW n \in Nat, NEW T, 0 \in T, \A i \in 1 .. n : i - 1 \in T => i \in T
    PROVE  \A i \in 0 .. n : i \in T
<1> DEFINE D == {i \in 0 .. n : i \notin T}
<1> SUFFICES ASSUME D # {} PROVE FALSE
  OBVIOUS
<1>1. D \subseteq Nat
  OBVIOUS
<1>2. PICK d \in D : \A e \in D : ~ (<<e, d>> \in OpToRel(<, Nat))
  BY <1>1, NatLessThanWellFounded, WFMin
<1>3. d \in 0 .. n /\ d \notin T /\ d # 0
  OBVIOUS
<1>4. d - 1 \in 0 .. n /\ d - 1 < d /\ d - 1 \in Nat /\ d \in Nat /\ d \in 1 .. n
  BY <1>3
<1>5. d - 1 \in T
  <2>1. CASE d - 1 \in D
    <3>1. ~ (<<d - 1, d>> \in OpToRel(<, Nat))
      BY <1>2, <2>1
    <3> QED
      BY <1>4, <3>1 DEF OpToRel
  <2> QED
    BY <1>4, <2>1
<1> QED
  BY <1>3, <1>4, <1>5

\* f takes n steps from base, one after the other.
Takes(f, n, S, base, step) ==
    f \in [0 .. n -> S] /\ f[0] = base /\ \A i \in 1 .. n : f[i] = step[i][f[i - 1]]

LEMMA StepsCanBeTaken ==
    ASSUME NEW n \in Nat, NEW S, NEW base \in S, NEW step \in [1 .. n -> [S -> S]]
    PROVE  \E f : Takes(f, n, S, base, step)
<1> DEFINE T == {m \in 0 .. n : \E f : Takes(f, m, S, base, step)}
<1>1. 0 \in T
  <2> DEFINE f == [i \in 0 .. 0 |-> base]
  <2>1. f \in [0 .. 0 -> S] /\ f[0] = base /\ \A i \in 1 .. 0 : FALSE
    OBVIOUS
  <2> HIDE DEF f
  <2>2. Takes(f, 0, S, base, step) /\ 0 \in 0 .. n
    BY <2>1 DEF Takes
  <2> QED
    BY <2>2
<1>2. ASSUME NEW m \in 1 .. n, m - 1 \in T PROVE m \in T
  <2>1. PICK f : Takes(f, m - 1, S, base, step)
    BY <1>2
  <2>2. /\ f \in [0 .. m - 1 -> S] /\ f[0] = base
        /\ \A i \in 1 .. m - 1 : f[i] = step[i][f[i - 1]]
    BY <2>1 DEF Takes
  <2> DEFINE g == [i \in 0 .. m |-> IF i = m THEN step[m][f[m - 1]] ELSE f[i]]
  <2>3. m - 1 \in 0 .. m - 1 /\ f[m - 1] \in S /\ step[m][f[m - 1]] \in S
    BY <2>2
  <2>4. g \in [0 .. m -> S] /\ g[m] = step[m][f[m - 1]] /\ \A i \in 0 .. m - 1 : g[i] = f[i]
    BY <2>2, <2>3
  <2> HIDE DEF g
  <2>5. \A i \in 1 .. m : g[i] = step[i][g[i - 1]]
    <3> SUFFICES ASSUME NEW i \in 1 .. m PROVE g[i] = step[i][g[i - 1]]
      OBVIOUS
    <3>1. i - 1 \in 0 .. m - 1 /\ g[i - 1] = f[i - 1]
      BY <2>4
    <3>2. CASE i = m
      BY <2>4, <3>1, <3>2
    <3>3. CASE i # m
      <4>1. i \in 1 .. m - 1 /\ i \in 0 .. m - 1
        BY <3>3
      <4> QED
        BY <2>2, <2>4, <3>1, <4>1
    <3> QED
      BY <3>2, <3>3
  <2>6. 0 \in 0 .. m - 1 /\ g[0] = base
    BY <2>2, <2>4
  <2>7. Takes(g, m, S, base, step) /\ m \in 0 .. n
    BY <2>4, <2>5, <2>6 DEF Takes
  <2> QED
    BY <2>7
<1> HIDE DEF T
<1>3. n \in T
  <2>1. \A i \in 0 .. n : i \in T
    BY <1>1, <1>2, UpTo
  <2> QED
    BY <2>1
<1> QED
  BY <1>3 DEF T

\* What the rules make of a body and its headers, whichever and however many there are.
LEMMA ModifiedFacts ==
    ASSUME NEW rules \in Seq(Rules), NEW w \in Works, NEW provider, NEW model
    PROVE  LET v == Modified(rules, w, provider, model)
           IN  /\ v \in Works
               /\ \A f \in Fields : ~ Ruled(rules, f, provider, model) => v.body[f] = w.body[f]
<1> DEFINE n == Len(rules)
           applies(r) == Applies(r, provider, model)
           next(i, v) == IF applies(rules[i]) THEN ApplyRule(rules[i], v) ELSE v
           IsRun(f) == f = [i \in 0 .. n |-> IF i = 0 THEN w ELSE next(i, f[i - 1])]
           run == CHOOSE f : IsRun(f)
           free == {f \in Fields : ~ Ruled(rules, f, provider, model)}
<1>1. n \in Nat /\ DOMAIN rules = 1 .. n /\ \A i \in 1 .. n : rules[i] \in Rules
  OBVIOUS
<1>2. \A i \in 1 .. n : \A v \in Works :
         next(i, v) \in Works /\ \A f \in free : next(i, v).body[f] = v.body[f]
  <2> SUFFICES ASSUME NEW i \in 1 .. n, NEW v \in Works
               PROVE  next(i, v) \in Works /\ \A f \in free : next(i, v).body[f] = v.body[f]
    OBVIOUS
  <2>1. CASE applies(rules[i])
    <3>1. \A f \in free : ~ (rules[i].action \in {"set_field", "remove_field"} /\ rules[i].key = f)
      BY <1>1, <2>1 DEF Ruled
    <3> QED
      BY <1>1, <2>1, <3>1, OneRule
  <2>2. CASE ~ applies(rules[i])
    BY <2>2
  <2> QED
    BY <2>1, <2>2
<1>3. Modified(rules, w, provider, model) = run[n]
  BY DEF Modified
<1> HIDE DEF next, free
<1>4. IsRun(run)
  <2> DEFINE step == [i \in 1 .. n |-> [v \in Works |-> next(i, v)]]
  <2>1. step \in [1 .. n -> [Works -> Works]]
    BY <1>2
  <2>2. \A i \in 1 .. n : \A v \in Works : step[i][v] = next(i, v)
    OBVIOUS
  <2> HIDE DEF step
  <2>3. PICK f : Takes(f, n, Works, w, step)
    <3>1. n \in Nat
      BY <1>1
    <3> HIDE DEF n
    <3> QED
      BY <2>1, <3>1, StepsCanBeTaken
  <2>0. /\ f \in [0 .. n -> Works] /\ f[0] = w
        /\ \A i \in 1 .. n : f[i] = step[i][f[i - 1]]
    BY <2>3 DEF Takes
  <2>4. \A i \in 1 .. n : f[i - 1] \in Works
    BY <1>1, <2>0
  <2>5. \A i \in 1 .. n : f[i] = next(i, f[i - 1])
    BY <2>0, <2>2, <2>4
  <2>6. IsRun(f)
    BY <1>1, <2>0, <2>5
  <2> QED
    BY <2>6
<1> HIDE DEF run
<1>5. run[0] = w /\ \A i \in 1 .. n : run[i] = next(i, run[i - 1])
  <2>1. 0 \in 0 .. n /\ \A i \in 1 .. n : i \in 0 .. n /\ i # 0
    BY <1>1
  <2>2. \A i \in 0 .. n : run[i] = IF i = 0 THEN w ELSE next(i, run[i - 1])
    BY <1>4
  <2> QED
    BY <2>1, <2>2
<1> DEFINE Kept(v) == v \in Works /\ \A f \in free : v.body[f] = w.body[f]
           T == {i \in 0 .. n : Kept(run[i])}
<1>6. 0 \in T
  BY <1>1, <1>5
<1>7. ASSUME NEW i \in 1 .. n, i - 1 \in T PROVE i \in T
  <2>1. Kept(run[i - 1]) /\ run[i] = next(i, run[i - 1])
    BY <1>5, <1>7
  <2>2. run[i] \in Works /\ \A f \in free : run[i].body[f] = run[i - 1].body[f]
    BY <1>2, <2>1
  <2> QED
    BY <1>1, <2>1, <2>2
<1> HIDE DEF T
<1>8. n \in T
  <2>1. \A i \in 0 .. n : i \in T
    BY <1>1, <1>6, <1>7, UpTo
  <2> QED
    BY <1>1, <2>1
<1> QED
  BY <1>3, <1>8 DEF T, free

\* Other preferences leave a body a body, and the rest of it as it was.
LEMMA WithPreferences ==
    ASSUME NEW b \in Bodies, NEW p \in Any(Preferences)
    PROVE  LET w == [b EXCEPT !.provider = p]
           IN  w \in Bodies /\ w.provider = p /\ w.stream = b.stream /\ w.usage = b.usage
BY DEF Bodies

\* What pinning makes of the preferences.
LEMMA PinnedFacts ==
    ASSUME NEW b \in Bodies, NEW pins \in Optional(Pins), NEW aware \in BOOLEAN
    PROVE  LET w == Pinned(b, pins, aware)
               own == b.provider
               sent == w.provider
           IN  /\ w \in Bodies /\ w.stream = b.stream /\ w.usage = b.usage
               /\ pins # None =>
                     IF ~ aware /\ Object(own) /\ own.order # None THEN sent = own
                     ELSE /\ Object(sent)
                          /\ pins \in {sent.order, sent.only}
                          /\ aware => {sent.order, sent.only} \subseteq {None, Null, pins}
                          /\ sent.fallbacks =
                                IF Object(own) /\ own.fallbacks # None THEN own.fallbacks
                                ELSE "false"
<1> DEFINE own == b.provider
           kept == IF own.fallbacks = None THEN "false" ELSE own.fallbacks
           w == Pinned(b, pins, aware)
           choice == IF ~ Object(own) THEN Fresh(pins)
                     ELSE IF aware /\ own.only \in Pins
                     THEN [order |-> None, only |-> pins, fallbacks |-> kept]
                     ELSE IF aware \/ own.order = None
                     THEN [own EXCEPT !.order = pins, !.fallbacks = kept]
                     ELSE own
<1>1. own \in Any(Preferences) /\ (Object(own) => own \in Preferences)
  BY DEF Bodies, Any, Object
<1>2. CASE pins = None
  BY <1>2 DEF Pinned
<1>3. CASE pins # None
  <2>1. pins \in Pins
    BY <1>3 DEF Optional
  <2>2. w = [b EXCEPT !.provider = choice]
    BY <1>3 DEF Pinned
  <2>3. CASE ~ Object(own)
    <3>1. choice = [order |-> pins, only |-> None, fallbacks |-> "false"] /\ choice \in Preferences
      BY <2>1, <2>3 DEF Fresh, Preferences
    <3>2. Object(choice)
      BY <3>1, ShapesAssumption
    <3> HIDE DEF choice, own, w, kept
    <3>3. /\ choice.order = pins /\ choice.only = None /\ choice.fallbacks = "false"
          /\ choice \in Any(Preferences)
      BY <3>1 DEF Any
    <3>4. w \in Bodies /\ w.provider = choice /\ w.stream = b.stream /\ w.usage = b.usage
      BY <2>2, <3>3, WithPreferences
    <3> QED
      BY <1>3, <2>3, <3>2, <3>3, <3>4 DEF own, w, kept
  <2>4. CASE Object(own) /\ aware /\ own.only \in Pins
    <3>1. choice = [order |-> None, only |-> pins, fallbacks |-> kept] /\ choice \in Preferences
      BY <1>1, <2>1, <2>4 DEF Preferences
    <3>2. Object(choice)
      BY <3>1, ShapesAssumption
    <3> HIDE DEF choice, own, w, kept
    <3>3. /\ choice.order = None /\ choice.only = pins /\ choice.fallbacks = kept
          /\ choice \in Any(Preferences)
      BY <3>1 DEF Any
    <3>4. w \in Bodies /\ w.provider = choice /\ w.stream = b.stream /\ w.usage = b.usage
      BY <2>2, <3>3, WithPreferences
    <3> QED
      BY <1>3, <2>4, <3>2, <3>3, <3>4 DEF own, w, kept
  <2>5. CASE Object(own) /\ ~ (aware /\ own.only \in Pins) /\ (aware \/ own.order = None)
    <3>1. choice = [own EXCEPT !.order = pins, !.fallbacks = kept]
      BY <2>5
    <3>2. own \in Preferences /\ kept \in {"true", "false", Null, None}
      BY <1>1, <2>5 DEF Preferences
    <3> HIDE DEF kept, choice, own
    <3>3. /\ choice \in Preferences
          /\ choice.order = pins /\ choice.only = own.only /\ choice.fallbacks = kept
      BY <2>1, <3>1, <3>2 DEF Preferences
    <3>4. Object(choice) /\ choice \in Any(Preferences)
      BY <3>3, ShapesAssumption DEF Any
    <3>5. aware => own.only \in {None, Null}
      BY <2>5, <3>2 DEF Preferences
    <3> HIDE DEF w
    <3>6. w \in Bodies /\ w.provider = choice /\ w.stream = b.stream /\ w.usage = b.usage
      BY <2>2, <3>4, WithPreferences
    <3> QED
      BY <1>3, <2>5, <3>3, <3>4, <3>5, <3>6 DEF own, w, kept
  <2>6. CASE Object(own) /\ ~ aware /\ own.order # None
    <3>1. choice = own
      BY <2>6
    <3> HIDE DEF choice, own, w
    <3>2. w \in Bodies /\ w.provider = own /\ w.stream = b.stream /\ w.usage = b.usage
      BY <1>1, <2>2, <3>1, WithPreferences
    <3> QED
      BY <1>3, <2>6, <3>2 DEF own, w
  <2> QED
    BY <2>3, <2>4, <2>5, <2>6
<1> QED
  BY <1>2, <1>3

\* The body before the rules: the client's, but for the model and the preferences.
LEMMA OriginalFacts ==
    ASSUME NEW req \in Requests, NEW r \in RouteResults
    PROVE  LET w == Original(req, r)
               own == req.body.provider
               sent == w.body.provider
           IN  /\ w \in Works
               /\ w.body.stream = req.body.stream /\ w.body.usage = req.body.usage
               /\ r.pins # None =>
                     IF ~ r.aware /\ Object(own) /\ own.order # None THEN sent = own
                     ELSE /\ Object(sent)
                          /\ r.pins \in {sent.order, sent.only}
                          /\ r.aware => {sent.order, sent.only} \subseteq {None, Null, r.pins}
                          /\ sent.fallbacks =
                                IF Object(own) /\ own.fallbacks # None THEN own.fallbacks
                                ELSE "false"
<1> DEFINE b == [req.body EXCEPT !.model = r.model]
           w == Original(req, r)
<1>1. req.body \in Bodies /\ req.key \in Optional(Keys) /\ req.x \in Optional(Texts)
  BY RequestsAssumption
<1>2. r.model \in Texts /\ r.pins \in Optional(Pins) /\ r.aware \in BOOLEAN
  BY TextsAssumption DEF RouteResults
<1>3. /\ b \in Bodies /\ b.provider = req.body.provider
      /\ b.stream = req.body.stream /\ b.usage = req.body.usage
  BY <1>1, <1>2, FieldSet DEF Fields
<1>4. w.headers \in [auth : Optional(Keys \cup Texts), x : Optional(Texts)]
  BY <1>1 DEF Original, Optional
<1>5. w.body = Pinned(b, r.pins, r.aware) /\ w = [body |-> w.body, headers |-> w.headers]
  BY DEF Original
<1> HIDE DEF b, w
<1>6. w.body \in Bodies
  BY <1>2, <1>3, <1>5, PinnedFacts
<1>7. w \in Works
  BY <1>4, <1>5, <1>6 DEF Works
<1> QED
  BY <1>2, <1>3, <1>5, <1>7, PinnedFacts DEF w

\* What is sent upstream, as the rules left it.
LEMMA SentBody ==
    ASSUME IInv, wire # None
    PROVE  /\ request \in Requests /\ route \in RouteResults /\ wire.provider = route.provider
           /\ forward \in Works
           /\ \A f \in Fields : Unruled(f) => forward.body[f] = Original(request, route).body[f]
           /\ wire.body = Prepared(wire.provider, forward.body)
           /\ wire.stream = Truthy(request.body.stream)
<1>1. TypeOK /\ SentAsRouted /\ ChosenSince /\ Control
  BY DEF IInv
<1>2. pc # "idle" /\ request \in Requests /\ route \in RouteResults
  BY <1>1 DEF TypeOK, ChosenSince, Control
<1>3. PICK c \in since : forward = Modified(c.rules, Original(request, route),
                                            route.provider, route.model)
  BY <1>1 DEF SentAsRouted
<1>4. Original(request, route) \in Works
  BY <1>2, OriginalFacts
<1>5. c.rules \in Seq(Rules)
  BY <1>1, <1>3, ConfigsAssumption DEF TypeOK, IsConfig
<1>6. /\ forward \in Works
      /\ \A f \in Fields : ~ Ruled(c.rules, f, route.provider, route.model) =>
            forward.body[f] = Original(request, route).body[f]
  BY <1>3, <1>4, <1>5, ModifiedFacts
<1> QED
  BY <1>1, <1>2, <1>3, <1>6 DEF SentAsRouted, Unruled

----------------------------------------------------------------------------
(* The properties *)

LEMMA KeyIsolated == IInv => KeyIsolation
<1> SUFFICES ASSUME IInv, wire # None
             PROVE  LET key == request.key
                        sent == wire.headers.auth
                        adapter == origin.adapters[wire.provider]
                    IN  /\ sent \in Keys =>
                              /\ sent = key /\ key \notin origin.keys
                              /\ \E c \in since : c.bypass /\ c.keyFor[key][wire.provider] = None
                        /\ sent \in ProviderKeys =>
                              \/ sent \in {adapter.key, adapter.headers.auth}
                              \/ key # None /\ \E c \in since : sent = c.keyFor[key][wire.provider]
  BY DEF KeyIsolation
<1> DEFINE key == request.key
           sent == wire.headers.auth
           adapter == origin.adapters[wire.provider]
<1>1. TypeOK /\ SentAsRouted /\ ChosenSince /\ Control
  BY DEF IInv
<1>2. pc # "idle" /\ request \in Requests /\ since \subseteq Configs /\ wire.provider \in Providers
  BY <1>1 DEF TypeOK, Control
<1>3. /\ route.adapter = adapter /\ adapter \in Adapters
      /\ known <=> key \in origin.keys
      /\ key \in Optional(Keys)
  BY <1>1, <1>2, Parts DEF SentAsRouted, ChosenSince, Control, RouteResults
<1>4. PICK c \in since : override = ProviderKey(c, key, known, wire.provider)
  BY <1>1 DEF SentAsRouted, ChosenSince
<1>5. sent = IF adapter.headers.auth # None THEN adapter.headers.auth
             ELSE IF override # None THEN override ELSE adapter.key
  BY <1>1, <1>3 DEF SentAsRouted
<1>6. key # None => key \in Keys /\ c.keyFor[key][wire.provider] \in Optional(ProviderKeys)
  BY <1>2, <1>3, <1>4, Parts DEF Optional
<1>7. /\ adapter.headers.auth \in Optional(ProviderKeys \cup Texts)
      /\ adapter.key \in Optional(ProviderKeys)
  BY <1>3 DEF Adapters
<1> HIDE DEF key, sent, adapter
<1>8. ASSUME sent \in Keys
      PROVE  sent = key /\ key \notin origin.keys /\ c.bypass /\ c.keyFor[key][wire.provider] = None
  <2>1. sent = override /\ override # None
    BY <1>5, <1>7, <1>8, KeysAssumption DEF Optional
  <2> QED
    BY <1>3, <1>4, <1>6, <1>8, <2>1, KeysAssumption DEF ProviderKey, Optional
<1>9. ASSUME sent \in ProviderKeys, sent \notin {adapter.key, adapter.headers.auth}
      PROVE  key # None /\ sent = c.keyFor[key][wire.provider]
  <2>1. sent = override /\ override # None
    BY <1>5, <1>9, KeysAssumption
  <2> QED
    BY <1>4, <1>6, <1>9, <2>1, KeysAssumption DEF ProviderKey, Optional
<1> QED
  BY <1>4, <1>8, <1>9 DEF key, sent, adapter

LEMMA TenantsServed == IInv => TenantsUseTheirKeys
<1> DEFINE mapped(c) == c.keyFor[request.key][wire.provider]
           sent == wire.headers.auth
           isKnown == request.key \in origin.keys
<1> SUFFICES ASSUME IInv, wire # None, request.key \notin {None, EmptyKey},
                    origin.adapters[wire.provider].headers.auth = None
             PROVE  /\ isKnown /\ (\A c \in since : mapped(c) # None) =>
                          \E c \in since : sent = mapped(c)
                    /\ (\A c \in since : mapped(c) = None /\ (isKnown \/ ~ c.bypass)) =>
                          sent = origin.adapters[wire.provider].key
                    /\ ~ isKnown /\ (\A c \in since : mapped(c) = None /\ c.bypass) =>
                          sent = request.key
  BY DEF TenantsUseTheirKeys
<1>1. TypeOK /\ SentAsRouted /\ ChosenSince /\ Control
  BY DEF IInv
<1>2. pc # "idle"
  BY <1>1 DEF Control
<1>3. /\ sent = IF override # None THEN override ELSE route.adapter.key
      /\ route.adapter = origin.adapters[wire.provider]
  BY <1>1 DEF SentAsRouted, ChosenSince
<1>4. PICK c \in since : override = ProviderKey(c, request.key, known, wire.provider)
  BY <1>1 DEF SentAsRouted, ChosenSince
<1>5. known <=> isKnown
  BY <1>1, <1>2 DEF Control
<1> QED
  BY <1>3, <1>4, <1>5 DEF ProviderKey

LEMMA PinsReach == IInv => PinsReachTheProvider
<1> SUFFICES ASSUME IInv, wire # None, route.pins # None,
                    wire.provider \notin {"google", "fireworks"}, Unruled("provider")
             PROVE  LET sent == wire.body.provider
                        own == request.body.provider
                    IN  IF ~ route.aware /\ Object(own) /\ own.order # None THEN sent = own
                        ELSE /\ Object(sent)
                             /\ route.pins \in {sent.order, sent.only}
                             /\ route.aware =>
                                   {sent.order, sent.only} \subseteq {None, Null, route.pins}
                             /\ sent.fallbacks =
                                   IF Object(own) /\ own.fallbacks # None THEN own.fallbacks
                                   ELSE "false"
  BY DEF PinsReachTheProvider
<1>1. /\ request \in Requests /\ route \in RouteResults
      /\ forward.body["provider"] = Original(request, route).body["provider"]
      /\ wire.body = Prepared(wire.provider, forward.body)
  BY SentBody DEF Fields
<1>2. wire.body.provider = Original(request, route).body.provider
  BY <1>1 DEF Prepared
<1> QED
  BY <1>1, <1>2, OriginalFacts

\* What Google is sent of a body's thinking.
LEMMA GoogleThinks ==
    ASSUME NEW body \in Bodies
    PROVE  LET sent == GoogleBody(body)
               effort == GoogleEffort(body)
           IN  /\ HasExplicitLevel(body) => sent.thinking.level = body.thinking.level
               /\ body.include = "thoughts" \/ (Object(body.thinking) /\ body.thinking.thoughts) =>
                     Object(sent.thinking) /\ sent.thinking.thoughts
               /\ effort # None /\ body.model \in Gemma => HasExplicitLevel(sent)
               /\ HasExplicitLevel(sent) => sent.effort = None
<1> DEFINE effort == GoogleEffort(body)
           sent == GoogleBody(body)
           own == IF Object(body.thinking) THEN body.thinking ELSE NoThinking
           asked == IF body.include = "thoughts" THEN [own EXCEPT !.thoughts = TRUE] ELSE own
           level == IF effort = NoEffort THEN "minimal" ELSE "high"
           toggles == effort # None /\ body.model \in Gemma /\ ~ HasExplicitLevel(body)
<1>1. /\ sent.thinking = GoogleThinking(body, effort)
      /\ sent.effort = IF body.model \in Gemini /\ ~ HasExplicitLevel(body) THEN effort ELSE None
  BY DEF GoogleBody, Bodies
<1>2. Object(body.thinking) => body.thinking \in ThinkingConfigs
  BY DEF Bodies, Any, Object
<1>3. /\ own \in ThinkingConfigs /\ asked \in ThinkingConfigs
      /\ asked.level = own.level
      /\ asked.thoughts = (body.include = "thoughts" \/ own.thoughts)
      /\ Object(body.thinking) => own = body.thinking
      /\ ~ Object(body.thinking) => own.level = None /\ ~ own.thoughts
  BY <1>2 DEF NoThinking, ThinkingConfigs, Optional
<1>4. /\ level \in Levels /\ level # None /\ [asked EXCEPT !.level = level] \in ThinkingConfigs
      /\ [asked EXCEPT !.level = level].level = level
      /\ [asked EXCEPT !.level = level].thoughts = asked.thoughts
  BY <1>3, ShapesAssumption DEF ThinkingConfigs, Optional, Levels
<1>5. GoogleThinking(body, effort) =
         IF toggles THEN [asked EXCEPT !.level = level]
         ELSE IF body.include = "thoughts" THEN asked ELSE body.thinking
  BY DEF GoogleThinking
<1>6. \A t \in ThinkingConfigs : Object(t)
  BY ShapesAssumption
<1>7. HasExplicitLevel(body) <=> Object(body.thinking) /\ own.level # None
  BY <1>3 DEF HasExplicitLevel
<1>8. HasExplicitLevel(sent) <=> Object(sent.thinking) /\ sent.thinking.level # None
  BY DEF HasExplicitLevel
<1> HIDE DEF effort, sent, own, asked, level
<1>9. HasExplicitLevel(body) => sent.thinking.level = body.thinking.level
  BY <1>1, <1>3, <1>5, <1>7
<1>10. body.include = "thoughts" \/ (Object(body.thinking) /\ body.thinking.thoughts) =>
          Object(sent.thinking) /\ sent.thinking.thoughts
  BY <1>1, <1>2, <1>3, <1>4, <1>5, <1>6
<1>11. ASSUME effort # None, body.model \in Gemma PROVE HasExplicitLevel(sent)
  <2>1. CASE HasExplicitLevel(body)
    BY <1>1, <1>3, <1>5, <1>6, <1>7, <1>8, <2>1
  <2>2. CASE ~ HasExplicitLevel(body)
    BY <1>1, <1>4, <1>5, <1>6, <1>8, <1>11, <2>2
  <2> QED
    BY <2>1, <2>2
<1>12. ASSUME sent.effort # None PROVE ~ HasExplicitLevel(sent)
  <2>1. body.model \in Gemini /\ ~ HasExplicitLevel(body)
    BY <1>1, <1>12
  <2>2. ~ toggles
    BY <2>1, TextsAssumption
  <2> QED
    BY <1>1, <1>3, <1>5, <1>7, <1>8, <2>1, <2>2
<1> QED
  BY <1>9, <1>10, <1>11, <1>12 DEF effort, sent

LEMMA ThinksAsAsked == IInv => ThinkingAsAsked
<1> SUFFICES ASSUME IInv, wire # None, wire.provider = "google" PROVE ThinkingAsAsked
  BY DEF ThinkingAsAsked
<1>1. forward.body \in Bodies /\ wire.body = GoogleBody(forward.body)
  BY SentBody DEF Works, Prepared
<1> QED
  BY <1>1, GoogleThinks DEF ThinkingAsAsked

LEMMA StreamsAsAsked == IInv => StreamAsAsked
<1> SUFFICES ASSUME IInv, wire # None
             PROVE  /\ Unruled("stream") => Truthy(wire.body.stream) = wire.stream
                    /\ wire.provider = "google" /\ Truthy(wire.body.stream) /\ Unruled("usage") =>
                          wire.body.usage =
                             IF request.body.usage = "false" THEN "false" ELSE "true"
  BY DEF StreamAsAsked
<1>1. /\ request \in Requests /\ route \in RouteResults
      /\ forward.body \in Bodies
      /\ Unruled("stream") => forward.body["stream"] = Original(request, route).body["stream"]
      /\ Unruled("usage") => forward.body["usage"] = Original(request, route).body["usage"]
      /\ wire.body = Prepared(wire.provider, forward.body)
      /\ wire.stream = Truthy(request.body.stream)
  BY SentBody DEF Works, Fields
<1>2. Prepared(wire.provider, forward.body).stream = forward.body.stream
  BY <1>1 DEF Prepared, GoogleBody, FireworksBody, Bodies
<1>3. /\ Original(request, route).body.stream = request.body.stream
      /\ Original(request, route).body.usage = request.body.usage
  BY <1>1, OriginalFacts
<1>4. ASSUME wire.provider = "google", Truthy(wire.body.stream), Unruled("usage")
      PROVE  wire.body.usage = IF request.body.usage = "false" THEN "false" ELSE "true"
  <2>1. wire.body.usage = GoogleUsage(forward.body)
    BY <1>1, <1>4 DEF Prepared, GoogleBody, Bodies
  <2>2. Truthy(forward.body.stream)
    BY <1>1, <1>2, <1>4
  <2>3. forward.body.usage \in Any({"unset", "true", "false"})
    BY <1>1 DEF Bodies
  <2>4. forward.body.usage = request.body.usage
    BY <1>1, <1>3, <1>4
  <2>5. "false" \notin Texts \cup {Null, None}
    BY ShapesAssumption
  <2> QED
    BY <2>1, <2>2, <2>3, <2>4, <2>5 DEF GoogleUsage, Any, Object
<1> QED
  BY <1>1, <1>2, <1>3, <1>4

\* Type correctness: every route taken has an adapter of the configuration's, what is
\* sent is a key or a configured header, and a request leaves one entry at most.
THEOREM TypeCorrect == Spec => []TypeOK
<1>1. IInv => TypeOK
  BY DEF IInv
<1> QED
  BY <1>1, Inductive, PTL

\* Whatever is configured and reloaded: a client's own key goes upstream only under
\* the bypass and if it is no key of the proxy's, an operator's key only where it
\* belongs or is mapped for that client.
THEOREM KeyIsolationCorrect == Spec => []KeyIsolation
  BY Inductive, KeyIsolated, PTL

\* A client of the proxy's is served with the key mapped for it, or else with the
\* operator's, and a key that is neither the proxy's nor mapped is forwarded under the
\* bypass only, whatever is reloaded in between.
THEOREM TenantsCorrect == Spec => []TenantsUseTheirKeys
  BY Inductive, TenantsServed, PTL

\* The pins of a route reach a provider that understands them, and replace the client's
\* choice or fill the place it left, for every preference a client may state, null or
\* misshapen, and every list of rules of which none that applies is about "provider".
THEOREM PinsCorrect == Spec => []PinsReachTheProvider
  BY Inductive, PinsReach, PTL

\* What the client asked of Google's thinking arrives, whatever rules rewrite the body.
THEOREM ThinkingCorrect == Spec => []ThinkingAsAsked
  BY Inductive, ThinksAsAsked, PTL

\* Of all rules only those on "stream" can make the provider answer in another form than
\* the handler reads, and only those on "stream_options" keep a stream's usage from
\* being what the client asked for.
THEOREM StreamCorrect == Spec => []StreamAsAsked
  BY Inductive, StreamsAsAsked, PTL
=============================================================================
