---------------------------- MODULE RequestFlow ----------------------------
(***************************************************************************)
(* One POST /v1/chat/completions from its key to the provider and back,    *)
(* while the configuration is reloaded: authentication (security/auth.py), *)
(* access rules (core/access.py), the route, the key sent upstream         *)
(* (core/key_resolution.py), the limiter, the body and headers             *)
(* (Adaptation) and the answer with its log entry (api/proxy).             *)
(*                                                                         *)
(* Each of these asks for the configuration in force when it runs; a       *)
(* reload can come wherever the request awaits: the model catalog, the     *)
(* limiter, the provider.  How a route is found is the module Routing's    *)
(* business, how a limiter queues RateLimiter's and what becomes of an     *)
(* answer's chunks ProxyRequest's.                                         *)
(***************************************************************************)
EXTENDS Integers, Adaptation

CONSTANTS
    Keys,           \* keys a client may present
    EmptyKey,       \* the empty one: nothing follows "Bearer"
    ProviderKeys,   \* keys of the operator's, for a provider
    Names,          \* names a client may ask for
    Providers,
    Configs,        \* what a reload may load
    Requests,       \* what clients send
    MaxReloads      \* bound on the reloads during a request

Anonymous == "anonymous"    \* whom a request without a key is logged as
Clients == Keys \cup {Anonymous}

\* A provider's key and the headers configured for it.
Adapters ==
    [key : Optional(ProviderKeys),
     headers : [auth : Optional(ProviderKeys \cup Texts), x : Optional(Texts)]]

\* A configuration, and the adapters and limiters built from it:
\*   keys     api_keys; {}: everybody is let in
\*   bypass   bypass.enabled
\*   block, allow  the names the client's access rule matches; allow = {}: all
\*   keyFor   key_mappings
\*   adapters the adapter of each provider, None if it has none
\*   routes   the route of each name; awaits: only the catalog knows it
\*   limited  the providers with a limiter
\*   tagged   response.include_ai_proxy_route
\* A failed reload may leave the first four and the routes' mappings new, the adapters
\* and limiters old (ConfigReload): that is one of Configs like any other.
Routes == [provider : Providers, model : Models, pins : Optional(Pins),
           aware : BOOLEAN, awaits : BOOLEAN]

\* A route that was taken, with its adapter.
RouteResults == [provider : Providers, model : Models, pins : Optional(Pins), aware : BOOLEAN,
                 adapter : Adapters]

IsConfig(c) ==
    /\ c.keys \subseteq Keys /\ c.bypass \in BOOLEAN
    /\ c.block \in [Clients -> SUBSET Names] /\ c.allow \in [Clients -> SUBSET Names]
    /\ c.keyFor \in [Keys -> [Providers -> Optional(ProviderKeys)]]
    /\ c.adapters \in [Providers -> Optional(Adapters)]
    /\ c.routes \in [Names -> Optional(Routes)]
    /\ \A n \in Names : c.routes[n] # None => c.adapters[c.routes[n].provider] # None
    /\ c.rules \in Seq(Rules)
    /\ c.limited \subseteq Providers /\ c.tagged \in BOOLEAN

ASSUME ConfigsAssumption == \A c \in Configs : IsConfig(c)
ASSUME RequestsAssumption ==
    \A r \in Requests :
        /\ r.key \in Optional(Keys) /\ r.name \in Optional(Names)
        /\ r.body \in Bodies /\ r.x \in Optional(Texts)
ASSUME KeysAssumption ==
    /\ EmptyKey \in Keys
    /\ None \notin Keys \cup ProviderKeys \cup Names \cup RouteResults
    /\ Keys \cap (ProviderKeys \cup Texts) = {}
    /\ MaxReloads \in Nat

VARIABLES
    config,     \* get_app_config(), with the registry built from it
    since,      \* the configurations in force since the request came (history)
    reloads,    \* reloads since then
    request,    \* what the client sent
    pc,         \* what the request awaits
    origin,     \* the configuration when it came, which its routing uses
    known,      \* is_known_key
    route,      \* RouteResult, with its adapter
    override,   \* override_api_key
    forward,    \* forward_body and forward_headers
    wire,       \* what the provider received
    told,       \* what the client is answered: status and ai_proxy_route
    log         \* the entries enqueued

vars == <<config, since, reloads, request, pc, origin, known, route, override,
          forward, wire, told, log>>

Statuses == {0, 200, 400, 401, 403, 404, 429, 500, 502, 504}

\* ai_proxy_route: the route's provider, model and pins.
Tags == [provider : Providers, model : Models, pins : Optional(Pins)]

TypeOK ==
    /\ config \in Configs /\ since \subseteq Configs
    /\ config \in since /\ origin \in since
    /\ reloads \in 0 .. MaxReloads
    /\ IF pc = "idle" THEN request = None ELSE request \in Requests
    /\ pc \in {"idle", "catalog", "limiter", "provider", "done"}
    /\ known \in BOOLEAN
    /\ route \in Optional(RouteResults)
    /\ override \in Optional(Keys \cup ProviderKeys)
    /\ wire # None =>
          /\ wire.provider \in Providers /\ wire.stream \in BOOLEAN
          /\ wire.headers.auth \in Optional(Keys \cup ProviderKeys \cup Texts)
    /\ told \in [status : Statuses, tag : Optional(Tags)]
    /\ Len(log) \in {0, 1}

----------------------------------------------------------------------------
(* Who may ask, and whose key goes upstream *)

\* validate_proxy_api_key, for no key at all and for a key.
Admits(c, key) ==
    IF key = None THEN ~ c.bypass /\ c.keys = {}
    ELSE key \in c.keys \/ c.bypass \/ c.keys = {}

\* The client as access rules and the log name it.
Client(key) == IF key = None THEN Anonymous ELSE key

\* check_model_access
Allows(c, client, name) ==
    /\ name \notin c.block[client]
    /\ c.allow[client] # {} => name \in c.allow[client]

\* Mutant: bypass comes before the known keys.
BypassFirst(c, key, isKnown, provider) ==
    IF key \in {None, EmptyKey} THEN None
    ELSE IF c.keyFor[key][provider] # None THEN c.keyFor[key][provider]
    ELSE IF c.bypass THEN key ELSE None

\* Mutant: a known key that is mapped is served with the adapter's.
KnownFirst(c, key, isKnown, provider) ==
    IF key \in {None, EmptyKey} \/ isKnown THEN None
    ELSE IF c.keyFor[key][provider] # None THEN c.keyFor[key][provider]
    ELSE IF c.bypass THEN key ELSE None

\* resolve_provider_key, called for a key that is not empty: None stands for the
\* adapter's own key.
ProviderKey(c, key, isKnown, provider) ==
    IF key \in {None, EmptyKey} THEN None
    ELSE IF c.keyFor[key][provider] # None THEN c.keyFor[key][provider]
    ELSE IF ~ isKnown /\ c.bypass THEN key ELSE None

----------------------------------------------------------------------------
(* The steps of the handler *)

NoAnswer == [status |-> 0, tag |-> None]

Tag(r) == [provider |-> r.provider, model |-> r.model, pins |-> r.pins]

\* An answer of the proxy's own, before the provider: not logged.
TurnAway(status) ==
    /\ pc' = "done"
    /\ told' = [status |-> status, tag |-> None]
    /\ UNCHANGED <<forward, wire, log>>

\* Mutant: a body with a "stream" is taken for one that asks for a stream.
ForwardByPresence(req, r, key) ==
    LET first == [body |-> Pinned([req.body EXCEPT !.model = r.model], r.pins, r.aware),
                  headers |-> [auth |-> req.key, x |-> req.x]]
        w == Modified(config.rules, first, r.provider, r.model)
    IN  /\ pc' = "provider"
        /\ forward' = w
        /\ wire' = [provider |-> r.provider, stream |-> req.body.stream # None,
                    headers |-> BuiltHeaders(r.adapter, w.headers, key),
                    body |-> Prepared(r.provider, w.body)]
        /\ UNCHANGED <<told, log>>

\* _prepare_forward_request, then the adapter sends what it makes of it.  The
\* handler that streams is chosen by what the client sent.
Forward(req, r, key) ==
    LET first == [body |-> Pinned([req.body EXCEPT !.model = r.model], r.pins, r.aware),
                  headers |-> [auth |-> req.key, x |-> req.x]]
        w == Modified(config.rules, first, r.provider, r.model)
    IN  /\ pc' = "provider"
        /\ forward' = w
        /\ wire' = [provider |-> r.provider, stream |-> Truthy(req.body.stream),
                    headers |-> BuiltHeaders(r.adapter, w.headers, key),
                    body |-> Prepared(r.provider, w.body)]
        /\ UNCHANGED <<told, log>>

\* The route is found in the configuration c: the key is chosen, and the limiter
\* refuses, queues or (there is none) lets the request through.
Dispatch(c, req, isKnown) ==
    LET found == c.routes[req.name]
        r == [provider |-> found.provider, model |-> found.model, pins |-> found.pins,
              aware |-> found.aware, adapter |-> c.adapters[found.provider]]
        key == ProviderKey(config, req.key, isKnown, r.provider)
    IN  /\ route' = r
        /\ override' = key
        /\ \/ r.provider \in config.limited /\ TurnAway(429)
           \/ /\ r.provider \in config.limited
              /\ pc' = "limiter"
              /\ UNCHANGED <<forward, wire, told, log>>
           \/ r.provider \notin config.limited /\ Forward(req, r, key)

\* A request comes; up to its first await nothing else runs.
Arrive(req) ==
    /\ pc = "idle"
    /\ request' = req
    /\ origin' = config /\ since' = {config}
    /\ known' = (req.key \in config.keys)
    /\ UNCHANGED <<config, reloads>>

Unroutable == UNCHANGED <<route, override>>

Unauthorized(req) ==
    /\ Arrive(req)
    /\ ~ Admits(config, req.key)
    /\ TurnAway(401) /\ Unroutable

NoModel(req) ==
    /\ Arrive(req)
    /\ Admits(config, req.key) /\ req.name = None
    /\ TurnAway(400) /\ Unroutable

MayAsk(req) ==
    Admits(config, req.key) /\ req.name # None /\ Allows(config, Client(req.key), req.name)

Forbidden(req) ==
    /\ Arrive(req)
    /\ Admits(config, req.key) /\ req.name # None
    /\ ~ Allows(config, Client(req.key), req.name)
    /\ TurnAway(403) /\ Unroutable

\* A mapping of its own routes the name at once.
RouteAtOnce(req) ==
    /\ Arrive(req)
    /\ MayAsk(req)
    /\ config.routes[req.name] # None /\ ~ config.routes[req.name].awaits
    /\ Dispatch(config, req, req.key \in config.keys)

AwaitCatalog(req) ==
    /\ Arrive(req)
    /\ MayAsk(req)
    /\ config.routes[req.name] # None => config.routes[req.name].awaits
    /\ pc' = "catalog"
    /\ Unroutable /\ UNCHANGED <<forward, wire, told, log>>

\* The catalog is there; the request is routed as the configuration it came under
\* says.
CatalogArrives ==
    /\ pc = "catalog"
    /\ UNCHANGED <<config, since, reloads, request, origin, known>>
    /\ IF origin.routes[request.name] = None
       THEN TurnAway(404) /\ Unroutable
       ELSE Dispatch(origin, request, known)

\* A provider's list of an unexpected shape raises.
CatalogRaises ==
    /\ pc = "catalog"
    /\ TurnAway(500) /\ Unroutable
    /\ UNCHANGED <<config, since, reloads, request, origin, known>>

\* Mutant: a waiter of a limiter that is gone is not woken.
LimiterAdmitsCurrent ==
    /\ pc = "limiter"
    /\ route.provider \in config.limited
    /\ Forward(request, route, override)
    /\ UNCHANGED <<config, since, reloads, request, origin, known, route, override>>

\* acquire returns, also of a limiter a reload has replaced.
LimiterAdmits ==
    /\ pc = "limiter"
    /\ Forward(request, route, override)
    /\ UNCHANGED <<config, since, reloads, request, origin, known, route, override>>

\* What the client gets and what is logged of it.
Answer(status, tag, headers, body) ==
    /\ pc' = "done"
    /\ told' = [status |-> status, tag |-> tag]
    /\ log' = Append(log, [provider |-> route.provider, headers |-> headers, body |-> body,
                           told |-> told'])
    /\ UNCHANGED <<config, since, reloads, request, origin, known, route, override, forward, wire>>

\* Whether an answer that is no stream names its route.
MayTag == IF config.tagged THEN Tag(route) ELSE None

\* The chunks of a stream always name it.
StreamAnswers ==
    /\ pc = "provider" /\ wire.stream
    /\ Answer(200, Tag(route), wire.headers, wire.body)

\* A plain answer, or an error; not JSON: no tag.
PlainAnswers(status) ==
    /\ pc = "provider"
    /\ wire.stream => status # 200
    /\ \E tag \in {MayTag, None} : Answer(status, tag, wire.headers, wire.body)

\* _transport_error_response builds what was sent once more.
TransportFails(status) ==
    /\ pc = "provider"
    /\ Answer(status, MayTag, BuiltHeaders(route.adapter, forward.headers, override),
              Prepared(route.provider, forward.body))

\* The handler has returned; the next request starts anew.
Forget ==
    /\ pc = "done"
    /\ pc' = "idle"
    /\ route' = None /\ override' = None /\ forward' = None /\ wire' = None
    /\ told' = NoAnswer /\ log' = <<>>
    /\ known' = FALSE
    /\ since' = {config} /\ origin' = config
    /\ request' = None /\ reloads' = 0
    /\ UNCHANGED config

Reload(c) ==
    /\ c # config
    /\ config' = c
    /\ IF pc = "idle"
       THEN /\ since' = {c} /\ origin' = c
            /\ UNCHANGED reloads
       ELSE /\ reloads < MaxReloads
            /\ since' = since \cup {c} /\ reloads' = reloads + 1
            /\ UNCHANGED origin
    /\ UNCHANGED <<request, pc, known, route, override, forward, wire, told, log>>

Init ==
    /\ config \in Configs
    /\ since = {config} /\ origin = config
    /\ reloads = 0
    /\ request = None
    /\ pc = "idle"
    /\ known = FALSE
    /\ route = None /\ override = None /\ forward = None /\ wire = None
    /\ told = NoAnswer /\ log = <<>>

Receive ==
    \E r \in Requests :
        \/ Unauthorized(r) \/ NoModel(r) \/ Forbidden(r)
        \/ RouteAtOnce(r) \/ AwaitCatalog(r)

Provider ==
    \/ StreamAnswers
    \/ \E s \in {200, 400} : PlainAnswers(s)
    \/ \E s \in {502, 504} : TransportFails(s)

Next ==
    \/ Receive \/ CatalogArrives \/ CatalogRaises \/ LimiterAdmits \/ Provider \/ Forget
    \/ \E c \in Configs : Reload(c)

Spec == Init /\ [][Next]_vars

(***************************************************************************)
(* The catalog's calls have a timeout, a limiter admits in turn            *)
(* (RateLimiter) and the provider's answer has a timeout.                  *)
(***************************************************************************)
FairSpec == Spec /\ WF_vars(CatalogArrives \/ CatalogRaises) /\ WF_vars(LimiterAdmits) /\ WF_vars(Provider)

----------------------------------------------------------------------------
(* Properties, of the request that was sent upstream                         *)

\* Whose key it went with, however the configuration changed on the way: the
\* client's own only if it is no key of the proxy's (config.yml: configured keys
\* always take priority) and the bypass was on, an operator's only if it is that
\* of the provider it was sent to or mapped for this client and this provider.
KeyIsolation ==
    wire # None =>
        LET key == request.key
            sent == wire.headers.auth
            adapter == origin.adapters[wire.provider]
        IN  /\ sent \in Keys =>
                  /\ sent = key /\ key \notin origin.keys
                  /\ \E c \in since : c.bypass /\ c.keyFor[key][wire.provider] = None
            /\ sent \in ProviderKeys =>
                  \/ sent \in {adapter.key, adapter.headers.auth}
                  \/ key # None /\ \E c \in since : sent = c.keyFor[key][wire.provider]

\* A client of the proxy's with a key of its own at the provider is served with that
\* key, one without is served with the operator's, bypass or not; a key that is neither
\* the proxy's nor mapped is forwarded under the bypass only.  What an unknown key that
\* is mapped goes upstream as is left open (UnknownKeysAreForwarded).
TenantsUseTheirKeys ==
    /\ wire # None /\ request.key \notin {None, EmptyKey}
    /\ origin.adapters[wire.provider].headers.auth = None
    => LET mapped(c) == c.keyFor[request.key][wire.provider]
           sent == wire.headers.auth
           isKnown == request.key \in origin.keys
       IN  /\ isKnown /\ (\A c \in since : mapped(c) # None) => \E c \in since : sent = mapped(c)
           /\ (\A c \in since : mapped(c) = None /\ (isKnown \/ ~ c.bypass)) =>
                 sent = origin.adapters[wire.provider].key
           /\ ~ isKnown /\ (\A c \in since : mapped(c) = None /\ c.bypass) => sent = request.key

\* No rule that applied to the request, in whichever configuration, is about the field.
Unruled(field) ==
    \A c \in since : ~ Ruled(c.rules, field, route.provider, route.model)

\* Unless a rule says otherwise, the pins of the route reach a provider that understands
\* them, and no other slug does when they replace the client's choice; only an order the
\* client stated on a route it did not select goes before them, and the client alone
\* decides on fallbacks if it said anything of them.
PinsReachTheProvider ==
    /\ wire # None /\ route.pins # None /\ wire.provider \notin {"google", "fireworks"}
    /\ Unruled("provider")
    => LET sent == wire.body.provider
           own == request.body.provider
       IN  IF ~ route.aware /\ Object(own) /\ own.order # None THEN sent = own
           ELSE /\ Object(sent)
                /\ route.pins \in {sent.order, sent.only}
                /\ route.aware => {sent.order, sent.only} \subseteq {None, Null, route.pins}
                /\ sent.fallbacks =
                      IF Object(own) /\ own.fallbacks # None THEN own.fallbacks ELSE "false"

\* Google: what the client set in thinking_config is kept and thoughts asked for by
\* include are asked for, in whichever order these are written; an effort becomes a
\* Gemma's level, and no model is sent both a level and an effort.  Whether a Gemini's
\* effort becomes one is left open (EffortBecomesLevel).
ThinkingAsAsked ==
    wire # None /\ wire.provider = "google" =>
        LET asked == forward.body
            sent == wire.body
        IN  /\ HasExplicitLevel(asked) => sent.thinking.level = asked.thinking.level
            /\ asked.include = "thoughts" \/ (Object(asked.thinking) /\ asked.thinking.thoughts) =>
                  Object(sent.thinking) /\ sent.thinking.thoughts
            /\ GoogleEffort(asked) # None /\ asked.model \in Gemma => HasExplicitLevel(sent)
            /\ HasExplicitLevel(sent) => sent.effort = None

\* Unless a rule is about "stream", the provider answers in the form the handler reads;
\* and unless one is about "stream_options", Google counts the tokens of what it streams
\* but where the client declined.
StreamAsAsked ==
    wire # None =>
        /\ Unruled("stream") => Truthy(wire.body.stream) = wire.stream
        /\ wire.provider = "google" /\ Truthy(wire.body.stream) /\ Unruled("usage") =>
              wire.body.usage = IF request.body.usage = "false" THEN "false" ELSE "true"

\* Every request is answered, whatever is reloaded while it waits.
Answered == (pc \in {"catalog", "limiter", "provider"}) ~> (pc = "done")

\* What the documentation says and the code does not do; see README.md.

\* "Unknown key + bypass enabled -> forward client key as-is."
UnknownKeysAreForwarded ==
    /\ wire # None /\ request.key \notin origin.keys \cup {None, EmptyKey}
    /\ \A c \in since : c.bypass
    /\ origin.adapters[wire.provider].headers.auth = None
    => wire.headers.auth = request.key

\* Google AI Studio "maps reasoning_effort -> thinking_config.thinking_level ..., handles
\* Gemma-4 thinking toggle separately from Gemini."
EffortBecomesLevel ==
    wire # None /\ wire.provider = "google" =>
        (GoogleEffort(forward.body) # None /\ forward.body.model \in Gemini =>
            HasExplicitLevel(wire.body))
=============================================================================
