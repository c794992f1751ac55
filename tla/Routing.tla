------------------------------ MODULE Routing ------------------------------
(***************************************************************************)
(* How a requested model becomes a provider and an upstream model:         *)
(* resolve_model (core/routing.py), the wildcard catalog it consults and   *)
(* /v1/models lists (services/model_catalog.py), and reloads that replace  *)
(* mappings and adapters while a request waits for the catalog.            *)
(*                                                                         *)
(* A string of the configuration is a name or a glob; what fnmatch accepts *)
(* is given by Matches.  "m+s" is the name m with the slug s; a request's  *)
(* suffix and its provider.only or provider.order are sequences of slugs.  *)
(* Names and slugs are taken up to case, and keys that differ in case only *)
(* are left out.  Where the lists come from is ModelCatalog's business.    *)
(* Routing keeps no state between requests, so one at a time is followed.  *)
(***************************************************************************)
EXTENDS Integers, SequencesExt

CONSTANTS
    Names,      \* model names, without a suffix
    Globs,      \* patterns with one of * ? [ ]
    Matches,    \* the names each glob matches
    Providers,
    Slugs,      \* what may follow a `+', and what a route is pinned to
    None,
    Configs,    \* what a reload may load: [mappings, providers, supported]
    Requests    \* what clients may ask for: [model, suffix, body]

\* One line of model_mappings: "model+slug": "provider:target+pins".
Mappings == [model : Names \cup Globs, slug : Slugs \cup {None}, provider : Providers,
             target : Names \cup Globs, pins : Seq(Slugs)]

\* The keys of a mapping are different, and a qualified key holds a name.
IsMapping(ms) ==
    /\ ms \in Seq(Mappings)
    /\ \A i, j \in DOMAIN ms :
          ms[i].model = ms[j].model /\ ms[i].slug = ms[j].slug => i = j
    /\ \A i \in DOMAIN ms : ms[i].slug # None => ms[i].model \in Names

ASSUME NamesAssumption == Names \cap Globs = {} /\ None \notin Slugs
ASSUME MatchesAssumption == Matches \in [Globs -> SUBSET Names]
ASSUME ConfigsAssumption ==
    \A c \in Configs : IsMapping(c.mappings) /\ c.supported \subseteq Providers
ASSUME RequestsAssumption ==
    Requests \subseteq [model : Names, suffix : Seq(Slugs), body : Seq(Slugs)]

VARIABLES
    mappings,   \* get_app_config().model_mappings
    registry,   \* the providers with an adapter
    pc,         \* where the last request is
    asked,      \* what it asks for
    table,      \* the mappings in force when its routing began
    adapters,   \* the adapters then
    lists,      \* what the providers answered to its catalog lookup
    route       \* its RouteResult: the mapping used, upstream model and pins

vars == <<mappings, registry, pc, asked, table, adapters, lists, route>>

NoRoute == [by |-> 0, model |-> None, pins |-> <<>>]

TypeOK ==
    /\ IsMapping(mappings)
    /\ registry \subseteq Providers
    /\ pc \in {"idle", "catalog", "routed", "notFound", "raised"}
    /\ asked \in Requests
    /\ IsMapping(table)
    /\ adapters \subseteq Providers
    /\ lists \in [Providers -> SUBSET Names]
    /\ route \in [by : Nat, model : Names \cup Globs \cup {None}, pins : Seq(Slugs)]
    /\ pc = "routed" => route.by \in DOMAIN table

----------------------------------------------------------------------------
(* The stages of resolve_model, for the request `asked'. Each is the set of  *)
(* the mappings it may use; the first in the order of the file is taken.     *)

First(I) == CHOOSE i \in I : \A j \in I : i <= j

\* fnmatch(name, key or target): a name matches itself only.
Fits(m, pattern) == m = pattern \/ (pattern \in Globs /\ m \in Matches[pattern])

\* _build_route_result finds an adapter, and a model to ask it for.
Builds(i) ==
    /\ table[i].provider \in adapters
    /\ table[i].target \in Globs => asked.model \in Matches[table[i].target]

\* A target with a glob passes the name through, a literal one replaces it.
Upstream(i) == IF table[i].target \in Globs THEN asked.model ELSE table[i].target

\* Mutant: the client's pins win.
ClientPins(i, client) == IF client # <<>> THEN client ELSE table[i].pins

\* merge_pinned: the configuration's pins win.
Pins(i, client) == IF table[i].pins # <<>> THEN table[i].pins ELSE client

Qualified(s) == {i \in DOMAIN table : table[i].model = asked.model /\ table[i].slug = s /\ Builds(i)}

\* Mutant: provider.only and provider.order before the suffix.
BodyFirst == asked.body \o asked.suffix

\* The slugs in the order they are tried: the suffix, then the body.
Wanted == asked.suffix \o asked.body

Aware == {k \in DOMAIN Wanted : Qualified(Wanted[k]) # {}}

Exact == {i \in DOMAIN table : table[i].model = asked.model /\ table[i].slug = None /\ Builds(i)}

\* Mutant: only the first pattern that fits is tried.
FirstPattern ==
    LET fit == {i \in DOMAIN table : table[i].slug = None /\ Fits(asked.model, table[i].model)}
    IN  {i \in fit : i = First(fit) /\ Builds(i)}

Wildcard ==
    {i \in DOMAIN table : table[i].slug = None /\ Fits(asked.model, table[i].model) /\ Builds(i)}

\* get_proxy_model_catalog lists a name for a literal key of the mappings, or
\* because a provider lists it and a target's glob matches it.
Explicit(m) == {i \in DOMAIN table : table[i].model = m /\ table[i].slug = None}

Expanded(m) ==
    {i \in DOMAIN table :
        /\ table[i].target \in Globs /\ m \in Matches[table[i].target]
        /\ table[i].provider \in adapters /\ m \in lists[table[i].provider]
        /\ table[i].model \in Globs => m \in Matches[table[i].model]}

IsListed(m) == Explicit(m) \cup Expanded(m) # {}

\* Mutant: what the providers list overrides the mappings' own keys.
ListedPreferExpanded(m) == IF Expanded(m) # {} THEN First(Expanded(m)) ELSE First(Explicit(m))

\* The mapping the catalog lists the name under.
ListedBy(m) == IF Explicit(m) # {} THEN First(Explicit(m)) ELSE First(Expanded(m))

\* The upstream model it lists: a glob the name does not match is listed as it is.
ListedModel(m) == IF Fits(m, table[ListedBy(m)].target) THEN m ELSE table[ListedBy(m)].target

\* The catalog has the model, and its provider an adapter.
Servable == IsListed(asked.model) /\ table[ListedBy(asked.model)].provider \in adapters

----------------------------------------------------------------------------
(* The RouteResult of each stage.                                            *)

\* The mapping's own pins only.
QualifiedRoute ==
    LET i == First(Qualified(Wanted[First(Aware)]))
    IN  [by |-> i, model |-> Upstream(i), pins |-> table[i].pins]

ExactRoute ==
    LET i == First(Exact)
    IN  [by |-> i, model |-> Upstream(i), pins |-> Pins(i, asked.suffix)]

\* The pins of the catalog entry, else the suffix, else the body's slugs.
CatalogRoute ==
    LET i == ListedBy(asked.model)
        pins == Pins(i, asked.suffix)
    IN  [by |-> i, model |-> ListedModel(asked.model), pins |-> IF pins = <<>> THEN asked.body ELSE pins]

WildcardRoute ==
    LET i == First(Wildcard)
    IN  [by |-> i, model |-> Upstream(i), pins |-> Pins(i, asked.suffix)]

----------------------------------------------------------------------------

\* resolve_model up to its await reads the configuration and the adapters once.
Ask ==
    /\ pc # "catalog"
    /\ asked' \in Requests
    /\ table' = mappings /\ adapters' = registry
    /\ UNCHANGED <<mappings, registry, lists>>

ByQualifiedKey ==
    /\ Ask
    /\ Aware' # {}
    /\ pc' = "routed" /\ route' = QualifiedRoute'

ByExactKey ==
    /\ Ask
    /\ Aware' = {} /\ Exact' # {}
    /\ pc' = "routed" /\ route' = ExactRoute'

\* Neither: the request awaits the catalog.
AskCatalog ==
    /\ Ask
    /\ Aware' = {} /\ Exact' = {}
    /\ pc' = "catalog" /\ route' = NoRoute

\* The lists arrive, empty from a provider that fails.
CatalogArrives ==
    /\ pc = "catalog"
    /\ lists' \in [Providers -> SUBSET Names]
    /\ UNCHANGED <<mappings, registry, asked, table, adapters>>

ByCatalog ==
    /\ CatalogArrives
    /\ Servable'
    /\ pc' = "routed" /\ route' = CatalogRoute'

ByWildcard ==
    /\ CatalogArrives
    /\ ~ Servable' /\ Wildcard # {}
    /\ pc' = "routed" /\ route' = WildcardRoute'

\* The client gets 404.
NotFound ==
    /\ CatalogArrives
    /\ ~ Servable' /\ Wildcard = {}
    /\ pc' = "notFound" /\ route' = NoRoute

\* A list of an unexpected shape raises in the lookup: the client gets 500.
CatalogRaises ==
    /\ pc = "catalog"
    /\ pc' = "raised"
    /\ UNCHANGED <<mappings, registry, asked, table, adapters, lists, route>>

IsValid(c) == \A i \in DOMAIN c.mappings : c.mappings[i].provider \in c.providers

\* load_config, then build_registry if the mappings are valid: adapters exist
\* for the providers of a supported type.
Reload ==
    /\ \E c \in Configs :
          /\ mappings' = c.mappings
          /\ registry' = IF IsValid(c) THEN c.supported ELSE registry
    /\ UNCHANGED <<pc, asked, table, adapters, lists, route>>

Init ==
    /\ \E c \in Configs : IsValid(c) /\ mappings = c.mappings /\ registry = c.supported
    /\ pc = "idle"
    /\ asked \in Requests
    /\ table = <<>> /\ adapters = {}
    /\ lists = [p \in Providers |-> {}]
    /\ route = NoRoute

Next ==
    \/ ByQualifiedKey \/ ByExactKey \/ AskCatalog
    \/ ByCatalog \/ ByWildcard \/ NotFound \/ CatalogRaises
    \/ Reload

Spec == Init /\ [][Next]_vars

----------------------------------------------------------------------------
(* Properties, of the answered request and the configuration it was asked   *)
(* under.                                                                    *)

\* The stage of the README's priority chain at which mapping i may be used: the
\* suffix, the body, the model's own key, a glob.
Stage(i) ==
    IF table[i].model # asked.model THEN 4
    ELSE IF table[i].slug \in ToSet(asked.suffix) THEN 1
    ELSE IF table[i].slug \in ToSet(asked.body) THEN 2
    ELSE IF table[i].slug = None THEN 3 ELSE 4

Usable(i) ==
    Builds(i) /\ (Stage(i) = 4 => table[i].slug = None /\ Fits(asked.model, table[i].model))

\* A request is never routed by a lower stage of the chain than one that could
\* have served it, whatever the providers list and whichever adapters are missing
\* (resolve_model).
PriorityHolds ==
    pc = "routed" => \A i \in DOMAIN table : Usable(i) => Stage(route.by) <= Stage(i)

\* 404 is only answered when no mapping could serve the request: a provider
\* without an adapter, or whose list fails, does not hide another mapping.
FoundIfRoutable == pc = "notFound" => \A i \in DOMAIN table : ~ Usable(i)

\* A model that /v1/models lists is served by the mapping, under the upstream name
\* and with the pins it is listed with, whichever stage routes it: the exact key
\* and the catalog agree.
RoutedAsListed ==
    LET m == asked.model
    IN  pc = "routed" /\ Wanted = <<>> /\ Servable =>
            route = [by |-> ListedBy(m), model |-> ListedModel(m), pins |-> table[ListedBy(m)].pins]

\* The configuration's pins are never replaced by the client's, and a suffix that
\* chose no key of its own is pinned where the configuration pins nothing.
PinsAreRespected ==
    pc = "routed" =>
        IF table[route.by].pins # <<>> THEN route.pins = table[route.by].pins
        ELSE Stage(route.by) > 2 /\ asked.suffix # <<>> => route.pins = asked.suffix

\* A target with a glob passes the client's name through. The exception is a
\* model's own key whose target does not match it: the glob itself goes upstream.
GlobsPassThrough ==
    pc = "routed" /\ table[route.by].target \in Globs =>
        \/ route.model = asked.model
        \/ table[route.by].model = asked.model /\ ~ Fits(asked.model, table[route.by].target)
=============================================================================
