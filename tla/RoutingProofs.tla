--------------------------- MODULE RoutingProofs ---------------------------
(* Theorems about Routing, for any names, globs, providers, configurations  *)
(* and requests.                                                            *)
EXTENDS Routing, SequenceTheorems, WellFoundedInduction, TLAPS

\* What a stage works on.
Inputs ==
    /\ IsMapping(table)
    /\ adapters \subseteq Providers
    /\ asked \in Requests
    /\ lists \in [Providers -> SUBSET Names]

RouteTypes == [by : Nat, model : Names \cup Globs \cup {None}, pins : Seq(Slugs)]

\* A request that waits for the catalog has no key of its own.
NothingKeyed == pc = "catalog" => Aware = {} /\ Exact = {}

\* What the properties say of an answer.
Answer ==
    /\ PriorityHolds
    /\ FoundIfRoutable
    /\ RoutedAsListed
    /\ PinsAreRespected
    /\ GlobsPassThrough

IInv == TypeOK /\ NothingKeyed /\ Answer

\* The first of a set of positions is one of them, and before all others.
LEMMA FirstIn ==
    ASSUME NEW I, I \subseteq Nat, I # {}
    PROVE  First(I) \in I /\ \A j \in I : First(I) <= j
<1>1. \E i \in I : \A j \in I : ~ (<<j, i>> \in OpToRel(<, Nat))
  BY NatLessThanWellFounded, WFMin
<1>2. PICK i \in I : \A j \in I : ~ (<<j, i>> \in OpToRel(<, Nat))
  BY <1>1
<1>3. \A j \in I : i <= j
  <2> SUFFICES ASSUME NEW j \in I PROVE i <= j
    OBVIOUS
  <2>1. i \in Nat /\ j \in Nat
    OBVIOUS
  <2>2. ~ (j < i)
    BY <1>2, <2>1 DEF OpToRel
  <2> QED
    BY <2>1, <2>2
<1> QED
  BY <1>3 DEF First

\* The parts of a line and of a request, and the positions of the slugs.
LEMMA Lines ==
    ASSUME Inputs
    PROVE  /\ DOMAIN table \subseteq Nat
           /\ \A i \in DOMAIN table : table[i] \in Mappings
           /\ asked.model \in Names /\ asked.suffix \in Seq(Slugs) /\ asked.body \in Seq(Slugs)
           /\ Wanted \in Seq(Slugs) /\ DOMAIN Wanted \subseteq Nat
<1>1. table \in Seq(Mappings)
  BY DEF Inputs, IsMapping
<1>2. asked \in [model : Names, suffix : Seq(Slugs), body : Seq(Slugs)]
  BY RequestsAssumption DEF Inputs
<1>3. Wanted \in Seq(Slugs)
  BY <1>2, ConcatProperties DEF Wanted
<1> QED
  BY <1>1, <1>2, <1>3

LEMMA ConcatElements ==
    ASSUME NEW a \in Seq(Slugs), NEW b \in Seq(Slugs)
    PROVE  /\ \A k \in DOMAIN (a \o b) : k <= Len(a) => (a \o b)[k] \in ToSet(a)
           /\ \A k \in DOMAIN (a \o b) : (a \o b)[k] \in ToSet(a) \cup ToSet(b)
           /\ \A s \in ToSet(a) : \E k \in DOMAIN (a \o b) : k <= Len(a) /\ (a \o b)[k] = s
           /\ \A s \in ToSet(b) : \E k \in DOMAIN (a \o b) : (a \o b)[k] = s
<1> DEFINE c == a \o b
<1>1. /\ c \in Seq(Slugs) /\ Len(c) = Len(a) + Len(b)
      /\ \A k \in 1 .. Len(a) + Len(b) : c[k] = IF k <= Len(a) THEN a[k] ELSE b[k - Len(a)]
  BY ConcatProperties
<1>2. DOMAIN a = 1 .. Len(a) /\ DOMAIN b = 1 .. Len(b) /\ Len(a) \in Nat /\ Len(b) \in Nat
  OBVIOUS
<1> HIDE DEF c
<1>3. DOMAIN c = 1 .. Len(a) + Len(b)
  BY <1>1
<1>4. \A k \in DOMAIN c : k <= Len(a) => c[k] \in ToSet(a)
  BY <1>1, <1>2, <1>3 DEF ToSet
<1>5. \A k \in DOMAIN c : ~ (k <= Len(a)) => c[k] \in ToSet(b)
  <2> SUFFICES ASSUME NEW k \in DOMAIN c, ~ (k <= Len(a)) PROVE c[k] \in ToSet(b)
    OBVIOUS
  <2>1. k - Len(a) \in DOMAIN b /\ c[k] = b[k - Len(a)]
    BY <1>1, <1>2, <1>3
  <2> QED
    BY <2>1 DEF ToSet
<1>6. \A s \in ToSet(a) : \E k \in DOMAIN c : k <= Len(a) /\ c[k] = s
  <2> SUFFICES ASSUME NEW k \in DOMAIN a PROVE k \in DOMAIN c /\ k <= Len(a) /\ c[k] = a[k]
    BY DEF ToSet
  <2> QED
    BY <1>1, <1>2, <1>3
<1>7. \A s \in ToSet(b) : \E k \in DOMAIN c : c[k] = s
  <2> SUFFICES ASSUME NEW k \in DOMAIN b
               PROVE  k + Len(a) \in DOMAIN c /\ c[k + Len(a)] = b[k]
    BY DEF ToSet
  <2> QED
    BY <1>1, <1>2, <1>3
<1> QED
  BY <1>4, <1>5, <1>6, <1>7 DEF c

LEMMA WantedSlugs ==
    ASSUME Inputs
    PROVE  /\ \A k \in DOMAIN Wanted : k <= Len(asked.suffix) => Wanted[k] \in ToSet(asked.suffix)
           /\ \A k \in DOMAIN Wanted : Wanted[k] \in ToSet(asked.suffix) \cup ToSet(asked.body)
           /\ \A s \in ToSet(asked.suffix) :
                 \E k \in DOMAIN Wanted : k <= Len(asked.suffix) /\ Wanted[k] = s
           /\ \A s \in ToSet(asked.body) : \E k \in DOMAIN Wanted : Wanted[k] = s
  BY Lines, ConcatElements DEF Wanted

\* A usable mapping of the first two stages is among the qualified keys, one of
\* the third is the model's own.
LEMMA Keyed ==
    ASSUME Inputs, NEW i \in DOMAIN table, Usable(i)
    PROVE  /\ Stage(i) \in 1 .. 4
           /\ Stage(i) = 1 => \E k \in Aware : k <= Len(asked.suffix)
           /\ Stage(i) = 2 => Aware # {}
           /\ Stage(i) = 3 => i \in Exact
<1>1. Builds(i)
  BY DEF Usable
<1>2. ASSUME NEW k \in DOMAIN Wanted, table[i].model = asked.model, Wanted[k] = table[i].slug
      PROVE  k \in Aware
  <2>1. i \in Qualified(Wanted[k])
    BY <1>1, <1>2 DEF Qualified
  <2> QED
    BY <2>1 DEF Aware
<1>3. Stage(i) \in 1 .. 4
  BY DEF Stage
<1>4. Stage(i) = 1 => table[i].model = asked.model /\ table[i].slug \in ToSet(asked.suffix)
  BY DEF Stage
<1>5. Stage(i) = 2 => table[i].model = asked.model /\ table[i].slug \in ToSet(asked.body)
  BY DEF Stage
<1>6. Stage(i) = 3 => i \in Exact
  BY <1>1 DEF Stage, Exact
<1> QED
  BY <1>2, <1>3, <1>4, <1>5, <1>6, WantedSlugs

LEMMA NoneKeyed ==
    ASSUME Inputs, Aware = {}, Exact = {}, NEW i \in DOMAIN table, Usable(i)
    PROVE  Stage(i) = 4
  BY Keyed

\* The model a mapping asks for, and its pins.
LEMMA BuiltTypes ==
    ASSUME Inputs, NEW i \in DOMAIN table
    PROVE  /\ i \in Nat
           /\ Upstream(i) \in Names \cup Globs
           /\ table[i].pins \in Seq(Slugs)
           /\ Pins(i, asked.suffix) \in Seq(Slugs)
           /\ table[i].target \in Globs => Upstream(i) = asked.model
  BY Lines DEF Mappings, Upstream, Pins

----------------------------------------------------------------------------
(* One lemma per stage: its route satisfies the properties.                  *)

\* The chosen key is of the suffix if any usable key is, and of the body otherwise.
LEMMA QualifiedAnswer ==
    Inputs /\ pc = "routed" /\ Aware # {} /\ route = QualifiedRoute
        => route \in RouteTypes /\ route.by \in DOMAIN table /\ Answer
<1> SUFFICES ASSUME Inputs, pc = "routed", Aware # {}, route = QualifiedRoute
             PROVE  route \in RouteTypes /\ route.by \in DOMAIN table /\ Answer
  OBVIOUS
<1> DEFINE k == First(Aware)
           i == First(Qualified(Wanted[k]))
<1>1. k \in Aware /\ k \in DOMAIN Wanted /\ \A l \in Aware : k <= l
  BY Lines, FirstIn DEF Aware
<1>2. Qualified(Wanted[k]) # {} /\ Qualified(Wanted[k]) \subseteq Nat
  BY <1>1, Lines DEF Aware, Qualified
<1>3. i \in Qualified(Wanted[k])
  BY <1>2, FirstIn
<1>4. i \in DOMAIN table /\ table[i].model = asked.model /\ table[i].slug = Wanted[k] /\ Builds(i)
  BY <1>3 DEF Qualified
<1>5. route.by = i /\ route.model = Upstream(i) /\ route.pins = table[i].pins
      /\ route = [by |-> i, model |-> Upstream(i), pins |-> table[i].pins]
  BY DEF QualifiedRoute
<1> HIDE DEF k, i
<1>6. Stage(i) \in {1, 2}
  BY <1>1, <1>4, WantedSlugs DEF Stage
<1>7. PriorityHolds
  <2> SUFFICES ASSUME NEW j \in DOMAIN table, Usable(j) PROVE Stage(i) <= Stage(j)
    BY <1>5 DEF PriorityHolds
  <2>1. CASE Stage(j) = 1
    <3>1. PICK l \in Aware : l <= Len(asked.suffix)
      BY <2>1, Keyed
    <3>2. k <= Len(asked.suffix)
      <4>1. k \in Nat /\ l \in Nat /\ Len(asked.suffix) \in Nat /\ k <= l
        BY <1>1, <3>1, Lines DEF Aware
      <4> QED
        BY <3>1, <4>1
    <3>3. table[i].slug \in ToSet(asked.suffix)
      BY <1>1, <1>4, <3>2, WantedSlugs
    <3>4. Stage(i) = 1
      BY <1>4, <3>3 DEF Stage
    <3> QED
      BY <2>1, <3>4
  <2>2. CASE Stage(j) # 1
    BY <1>6, <2>2, Keyed
  <2> QED
    BY <2>1, <2>2
<1>8. RoutedAsListed
  <2>1. Wanted # <<>>
    BY <1>1
  <2> QED
    BY <2>1 DEF RoutedAsListed
<1>9. PinsAreRespected
  BY <1>5, <1>6 DEF PinsAreRespected
<1>10. GlobsPassThrough
  BY <1>4, <1>5, BuiltTypes DEF GlobsPassThrough
<1>11. FoundIfRoutable
  BY DEF FoundIfRoutable
<1>12. route \in RouteTypes
  BY <1>4, <1>5, BuiltTypes DEF RouteTypes
<1> QED
  BY <1>4, <1>5, <1>7, <1>8, <1>9, <1>10, <1>11, <1>12 DEF Answer

\* The model's own key is the one it is listed under.
LEMMA ExactAnswer ==
    Inputs /\ pc = "routed" /\ Aware = {} /\ Exact # {} /\ route = ExactRoute
        => route \in RouteTypes /\ route.by \in DOMAIN table /\ Answer
<1> SUFFICES ASSUME Inputs, pc = "routed", Aware = {}, Exact # {}, route = ExactRoute
             PROVE  route \in RouteTypes /\ route.by \in DOMAIN table /\ Answer
  OBVIOUS
<1> DEFINE i == First(Exact)
<1>1. i \in Exact
  BY Lines, FirstIn DEF Exact
<1>2. i \in DOMAIN table /\ table[i].model = asked.model /\ table[i].slug = None /\ Builds(i)
  BY <1>1 DEF Exact
<1>3. route = [by |-> i, model |-> Upstream(i), pins |-> Pins(i, asked.suffix)]
  BY DEF ExactRoute
<1> HIDE DEF i
<1>4. None \notin ToSet(asked.suffix) /\ None \notin ToSet(asked.body)
  BY Lines, NamesAssumption DEF ToSet
<1>5. Stage(i) = 3
  BY <1>2, <1>4 DEF Stage
<1>6. PriorityHolds
  <2> SUFFICES ASSUME NEW j \in DOMAIN table, Usable(j) PROVE Stage(i) <= Stage(j)
    BY <1>3 DEF PriorityHolds
  <2> QED
    BY <1>5, Keyed
<1>7. RoutedAsListed
  <2> SUFFICES ASSUME Wanted = <<>>
               PROVE  route = [by |-> ListedBy(asked.model), model |-> ListedModel(asked.model),
                               pins |-> table[ListedBy(asked.model)].pins]
    BY DEF RoutedAsListed
  <2>1. Explicit(asked.model) = {i}
    BY <1>2 DEF Explicit, Inputs, IsMapping
  <2>2. ListedBy(asked.model) = i
    BY <2>1 DEF ListedBy, First
  <2>3. ListedModel(asked.model) = Upstream(i)
    BY <1>2, <2>2, Lines DEF ListedModel, Upstream, Fits, Builds
  <2>4. asked.suffix = <<>>
    BY Lines, ConcatSimplifications DEF Wanted
  <2>5. Pins(i, asked.suffix) = table[i].pins
    BY <2>4 DEF Pins
  <2> QED
    BY <1>3, <2>2, <2>3, <2>5
<1>8. PinsAreRespected
  BY <1>3 DEF PinsAreRespected, Pins
<1>9. GlobsPassThrough
  BY <1>2, <1>3, BuiltTypes DEF GlobsPassThrough
<1>10. FoundIfRoutable
  BY DEF FoundIfRoutable
<1>11. route \in RouteTypes
  BY <1>2, <1>3, BuiltTypes DEF RouteTypes
<1> QED
  BY <1>2, <1>3, <1>6, <1>7, <1>8, <1>9, <1>10, <1>11 DEF Answer

\* What the catalog has is the mapping's target, or the name itself.
LEMMA Listed ==
    ASSUME Inputs, Servable
    PROVE  LET i == ListedBy(asked.model)
           IN  /\ i \in DOMAIN table
               /\ ListedModel(asked.model) \in Names \cup Globs
               /\ table[i].target \in Globs =>
                     \/ ListedModel(asked.model) = asked.model
                     \/ table[i].model = asked.model /\ ~ Fits(asked.model, table[i].target)
<1> DEFINE i == ListedBy(asked.model)
<1>1. Explicit(asked.model) # {} => i \in Explicit(asked.model)
  BY Lines, FirstIn DEF Explicit, ListedBy
<1>2. Explicit(asked.model) = {} => i \in Expanded(asked.model)
  BY Lines, FirstIn DEF Expanded, ListedBy, Servable, IsListed
<1>3. i \in DOMAIN table
  BY <1>1, <1>2 DEF Explicit, Expanded
<1>4. table[i].model = asked.model \/ Fits(asked.model, table[i].target)
  BY <1>1, <1>2 DEF Explicit, Expanded, Fits
<1>5. ListedModel(asked.model) = IF Fits(asked.model, table[i].target) THEN asked.model ELSE table[i].target
  BY DEF ListedModel
<1>6. asked.model \in Names /\ table[i].target \in Names \cup Globs
  BY <1>3, Lines DEF Mappings
<1> HIDE DEF i
<1> QED
  BY <1>3, <1>4, <1>5, <1>6 DEF i

\* No usable mapping is of a higher stage than a glob, so any answer keeps the order.
LEMMA CatalogAnswer ==
    Inputs /\ pc = "routed" /\ Aware = {} /\ Exact = {} /\ Servable /\ route = CatalogRoute
        => route \in RouteTypes /\ route.by \in DOMAIN table /\ Answer
<1> SUFFICES ASSUME Inputs, pc = "routed", Aware = {}, Exact = {}, Servable, route = CatalogRoute
             PROVE  route \in RouteTypes /\ route.by \in DOMAIN table /\ Answer
  OBVIOUS
<1> DEFINE i == ListedBy(asked.model)
           p == Pins(i, asked.suffix)
           q == IF p = <<>> THEN asked.body ELSE p
<1>1. i \in DOMAIN table /\ p \in Seq(Slugs) /\ q \in Seq(Slugs)
  BY Listed, BuiltTypes, Lines
<1>2. route = [by |-> i, model |-> ListedModel(asked.model), pins |-> q]
  BY DEF CatalogRoute
<1>3. PriorityHolds
  <2> SUFFICES ASSUME NEW j \in DOMAIN table, Usable(j) PROVE Stage(i) <= Stage(j)
    BY <1>2 DEF PriorityHolds
  <2>1. Stage(i) \in 1 .. 4
    BY DEF Stage
  <2> QED
    BY <2>1, NoneKeyed
<1>4. RoutedAsListed
  <2> SUFFICES ASSUME Wanted = <<>> PROVE q = table[i].pins
    BY <1>2 DEF RoutedAsListed
  <2>1. asked.suffix = <<>> /\ asked.body = <<>>
    BY Lines, ConcatSimplifications DEF Wanted
  <2> QED
    BY <2>1 DEF Pins
<1>5. PinsAreRespected
  BY <1>2 DEF PinsAreRespected, Pins
<1>6. GlobsPassThrough
  BY <1>2, Listed DEF GlobsPassThrough
<1>7. FoundIfRoutable
  BY DEF FoundIfRoutable
<1>8. route \in RouteTypes
  BY <1>1, <1>2, Listed, Lines DEF RouteTypes
<1> QED
  BY <1>1, <1>2, <1>3, <1>4, <1>5, <1>6, <1>7, <1>8 DEF Answer

LEMMA WildcardAnswer ==
    Inputs /\ pc = "routed" /\ Aware = {} /\ Exact = {} /\ ~ Servable /\ Wildcard # {} /\ route = WildcardRoute
        => route \in RouteTypes /\ route.by \in DOMAIN table /\ Answer
<1> SUFFICES ASSUME Inputs, pc = "routed", Aware = {}, Exact = {}, ~ Servable, Wildcard # {},
                    route = WildcardRoute
             PROVE  route \in RouteTypes /\ route.by \in DOMAIN table /\ Answer
  OBVIOUS
<1> DEFINE i == First(Wildcard)
<1>1. i \in Wildcard
  BY Lines, FirstIn DEF Wildcard
<1>2. i \in DOMAIN table
  BY <1>1 DEF Wildcard
<1>3. route = [by |-> i, model |-> Upstream(i), pins |-> Pins(i, asked.suffix)]
  BY DEF WildcardRoute
<1> HIDE DEF i
<1>4. PriorityHolds
  <2> SUFFICES ASSUME NEW j \in DOMAIN table, Usable(j) PROVE Stage(i) <= Stage(j)
    BY <1>3 DEF PriorityHolds
  <2>1. Stage(i) \in 1 .. 4
    BY DEF Stage
  <2> QED
    BY <2>1, NoneKeyed
<1>5. RoutedAsListed
  BY DEF RoutedAsListed
<1>6. PinsAreRespected
  BY <1>3 DEF PinsAreRespected, Pins
<1>7. GlobsPassThrough
  BY <1>2, <1>3, BuiltTypes DEF GlobsPassThrough
<1>8. FoundIfRoutable
  BY DEF FoundIfRoutable
<1>9. route \in RouteTypes
  BY <1>2, <1>3, BuiltTypes DEF RouteTypes
<1> QED
  BY <1>2, <1>3, <1>4, <1>5, <1>6, <1>7, <1>8, <1>9 DEF Answer

\* Without a pattern that fits and can be built there is no usable mapping.
LEMMA NoAnswer ==
    Inputs /\ pc = "notFound" /\ Aware = {} /\ Exact = {} /\ Wildcard = {} => Answer
<1> SUFFICES ASSUME Inputs, pc = "notFound", Aware = {}, Exact = {}, Wildcard = {} PROVE Answer
  OBVIOUS
<1>1. ASSUME NEW i \in DOMAIN table, Usable(i) PROVE FALSE
  <2>1. Stage(i) = 4
    BY <1>1, NoneKeyed
  <2> QED
    BY <1>1, <2>1 DEF Usable, Wildcard
<1> QED
  BY <1>1 DEF Answer, PriorityHolds, FoundIfRoutable, RoutedAsListed, PinsAreRespected, GlobsPassThrough

LEMMA StillWaiting == pc \in {"idle", "catalog", "raised"} => Answer
  BY DEF Answer, PriorityHolds, FoundIfRoutable, RoutedAsListed, PinsAreRespected, GlobsPassThrough

----------------------------------------------------------------------------

\* What is said of the last request does not depend on the configuration in force.
LEMMA SameRequest ==
    ASSUME UNCHANGED <<pc, asked, table, adapters, lists, route>>, NothingKeyed, Answer
    PROVE  NothingKeyed' /\ Answer'
<1>1. Aware' = Aware /\ Exact' = Exact
  BY DEF Aware, Exact, Wanted, Qualified, Builds
<1>2. \A i : (Stage(i)' = Stage(i)) /\ (Usable(i)' <=> Usable(i))
  BY DEF Stage, Usable, Builds, Fits
<1>3. PriorityHolds' /\ FoundIfRoutable'
  BY <1>2 DEF Answer, PriorityHolds, FoundIfRoutable
<1>4. PinsAreRespected' /\ GlobsPassThrough'
  BY <1>2 DEF Answer, PinsAreRespected, GlobsPassThrough, Fits
<1>5. Servable' = Servable /\ ListedBy(asked.model)' = ListedBy(asked.model)
      /\ ListedModel(asked.model)' = ListedModel(asked.model) /\ Wanted' = Wanted
  BY DEF Servable, IsListed, Explicit, Expanded, ListedBy, ListedModel, Fits, Wanted
<1>6. RoutedAsListed'
  BY <1>5 DEF Answer, RoutedAsListed
<1> QED
  BY <1>1, <1>3, <1>4, <1>6 DEF Answer, NothingKeyed

LEMMA InitIInv == Init => IInv
<1> SUFFICES ASSUME Init PROVE IInv
  OBVIOUS
<1>1. <<>> \in Seq(Mappings) /\ DOMAIN <<>> = {}
  OBVIOUS
<1>2. TypeOK
  BY <1>1, ConfigsAssumption DEF Init, TypeOK, IsMapping, NoRoute
<1>3. NothingKeyed
  BY DEF Init, NothingKeyed
<1>4. Answer
  BY StillWaiting DEF Init
<1> QED
  BY <1>2, <1>3, <1>4 DEF IInv

LEMMA StepIInv == IInv /\ [Next]_vars => IInv'
<1> SUFFICES ASSUME IInv, [Next]_vars PROVE IInv'
  OBVIOUS
<1>0. TypeOK /\ NothingKeyed /\ Answer
  BY DEF IInv
<1>1. ASSUME Ask PROVE Inputs' /\ mappings' = mappings /\ registry' = registry
  BY <1>0, <1>1 DEF Ask, TypeOK, Inputs
<1>2. ASSUME CatalogArrives
      PROVE  Inputs' /\ Aware' = {} /\ Exact' = {} /\ mappings' = mappings /\ registry' = registry
  <2>1. Aware' = Aware /\ Exact' = Exact
    BY <1>2 DEF CatalogArrives, Aware, Exact, Wanted, Qualified, Builds
  <2> QED
    BY <1>0, <1>2, <2>1 DEF CatalogArrives, TypeOK, Inputs, NothingKeyed
<1>3. ASSUME Inputs', pc' \in {"catalog", "routed", "notFound"}, NothingKeyed', Answer',
             mappings' = mappings, registry' = registry,
             route' \in RouteTypes, pc' = "routed" => route'.by \in DOMAIN table'
      PROVE  IInv'
  BY <1>0, <1>3 DEF IInv, TypeOK, Inputs, RouteTypes
<1>4. NoRoute \in RouteTypes
  BY DEF NoRoute, RouteTypes
<1>5. CASE ByQualifiedKey
  <2>1. Inputs' /\ pc' = "routed" /\ Aware' # {} /\ route' = QualifiedRoute'
        /\ mappings' = mappings /\ registry' = registry
    BY <1>1, <1>5 DEF ByQualifiedKey
  <2>2. (Inputs /\ pc = "routed" /\ Aware # {} /\ route = QualifiedRoute)'
    BY <2>1
  <2>3. (route \in RouteTypes /\ route.by \in DOMAIN table /\ Answer)'
    BY <2>2, QualifiedAnswer, PTL
  <2> QED
    BY <1>3, <2>1, <2>3 DEF NothingKeyed, RouteTypes
<1>6. CASE ByExactKey
  <2>1. Inputs' /\ pc' = "routed" /\ Aware' = {} /\ Exact' # {} /\ route' = ExactRoute'
        /\ mappings' = mappings /\ registry' = registry
    BY <1>1, <1>6 DEF ByExactKey
  <2>2. (Inputs /\ pc = "routed" /\ Aware = {} /\ Exact # {} /\ route = ExactRoute)'
    BY <2>1
  <2>3. (route \in RouteTypes /\ route.by \in DOMAIN table /\ Answer)'
    BY <2>2, ExactAnswer, PTL
  <2> QED
    BY <1>3, <2>1, <2>3 DEF NothingKeyed, RouteTypes
<1>7. CASE AskCatalog
  <2>1. Inputs' /\ pc' = "catalog" /\ Aware' = {} /\ Exact' = {} /\ route' = NoRoute
        /\ mappings' = mappings /\ registry' = registry
    BY <1>1, <1>7 DEF AskCatalog
  <2>2. (pc \in {"idle", "catalog", "raised"})'
    BY <2>1
  <2>3. Answer'
    BY <2>2, StillWaiting, PTL
  <2> QED
    BY <1>3, <1>4, <2>1, <2>3 DEF NothingKeyed
<1>8. CASE ByCatalog
  <2>1. Inputs' /\ pc' = "routed" /\ Aware' = {} /\ Exact' = {} /\ Servable' /\ route' = CatalogRoute'
        /\ mappings' = mappings /\ registry' = registry
    BY <1>2, <1>8 DEF ByCatalog
  <2>2. (Inputs /\ pc = "routed" /\ Aware = {} /\ Exact = {} /\ Servable /\ route = CatalogRoute)'
    BY <2>1
  <2>3. (route \in RouteTypes /\ route.by \in DOMAIN table /\ Answer)'
    BY <2>2, CatalogAnswer, PTL
  <2> QED
    BY <1>3, <2>1, <2>3 DEF NothingKeyed, RouteTypes
<1>9. CASE ByWildcard
  <2>1. Wildcard' = Wildcard
    BY <1>9 DEF ByWildcard, CatalogArrives, Wildcard, Builds, Fits
  <2>2. Inputs' /\ pc' = "routed" /\ Aware' = {} /\ Exact' = {} /\ ~ Servable' /\ Wildcard' # {}
        /\ route' = WildcardRoute' /\ mappings' = mappings /\ registry' = registry
    BY <1>2, <1>9, <2>1 DEF ByWildcard
  <2>3. (Inputs /\ pc = "routed" /\ Aware = {} /\ Exact = {} /\ ~ Servable /\ Wildcard # {} /\ route = WildcardRoute)'
    BY <2>2
  <2>4. (route \in RouteTypes /\ route.by \in DOMAIN table /\ Answer)'
    BY <2>3, WildcardAnswer, PTL
  <2> QED
    BY <1>3, <2>2, <2>4 DEF NothingKeyed, RouteTypes
<1>10. CASE NotFound
  <2>1. Wildcard' = Wildcard
    BY <1>10 DEF NotFound, CatalogArrives, Wildcard, Builds, Fits
  <2>2. Inputs' /\ pc' = "notFound" /\ Aware' = {} /\ Exact' = {} /\ Wildcard' = {} /\ route' = NoRoute
        /\ mappings' = mappings /\ registry' = registry
    BY <1>2, <1>10, <2>1 DEF NotFound
  <2>3. (Inputs /\ pc = "notFound" /\ Aware = {} /\ Exact = {} /\ Wildcard = {})'
    BY <2>2
  <2>4. (Answer)'
    BY <2>3, NoAnswer, PTL
  <2> QED
    BY <1>3, <1>4, <2>2, <2>4 DEF NothingKeyed
<1>11. CASE CatalogRaises
  <2>1. (pc \in {"idle", "catalog", "raised"})'
    BY <1>11 DEF CatalogRaises
  <2>2. Answer'
    BY <2>1, StillWaiting, PTL
  <2>3. TypeOK' /\ NothingKeyed'
    BY <1>0, <1>11 DEF CatalogRaises, TypeOK, NothingKeyed
  <2> QED
    BY <2>2, <2>3 DEF IInv
<1>12. CASE Reload
  <2>1. TypeOK'
    BY <1>0, <1>12, ConfigsAssumption DEF Reload, TypeOK
  <2>2. NothingKeyed' /\ Answer'
    BY <1>0, <1>12, SameRequest DEF Reload
  <2> QED
    BY <2>1, <2>2 DEF IInv
<1>13. CASE UNCHANGED vars
  <2>1. TypeOK'
    BY <1>0, <1>13 DEF vars, TypeOK
  <2>2. NothingKeyed' /\ Answer'
    BY <1>0, <1>13, SameRequest DEF vars
  <2> QED
    BY <2>1, <2>2 DEF IInv
<1> QED
  BY <1>5, <1>6, <1>7, <1>8, <1>9, <1>10, <1>11, <1>12, <1>13 DEF Next

\* The inductive invariant: besides the properties themselves, that a request which
\* waits for the catalog had no usable key of its own, through any reload.
THEOREM Inductive == Spec => []IInv
  BY InitIInv, StepIInv, PTL DEF Spec

\* Type correctness: every route refers to a line of the mappings it was chosen from.
THEOREM TypeCorrect == Spec => []TypeOK
<1>1. IInv => TypeOK
  BY DEF IInv
<1> QED
  BY <1>1, Inductive, PTL

\* resolve_model keeps the README's priority chain for every configuration, every
\* answer of the providers and every set of adapters.
THEOREM PriorityCorrect == Spec => []PriorityHolds
<1>1. IInv => PriorityHolds
  BY DEF IInv, Answer
<1> QED
  BY <1>1, Inductive, PTL

\* 404 is answered only to requests that no mapping of the configuration can serve.
THEOREM FoundCorrect == Spec => []FoundIfRoutable
<1>1. IInv => FoundIfRoutable
  BY DEF IInv, Answer
<1> QED
  BY <1>1, Inductive, PTL

\* The exact stage and the catalog's listing agree on mapping, model and pins.
THEOREM ListedCorrect == Spec => []RoutedAsListed
<1>1. IInv => RoutedAsListed
  BY DEF IInv, Answer
<1> QED
  BY <1>1, Inductive, PTL

\* Pins of the configuration win, and a suffix is pinned where there are none.
THEOREM PinsCorrect == Spec => []PinsAreRespected
<1>1. IInv => PinsAreRespected
  BY DEF IInv, Answer
<1> QED
  BY <1>1, Inductive, PTL

\* A glob goes upstream only through a model's own key that its target does not match.
THEOREM GlobsCorrect == Spec => []GlobsPassThrough
<1>1. IInv => GlobsPassThrough
  BY DEF IInv, Answer
<1> QED
  BY <1>1, Inductive, PTL
=============================================================================
