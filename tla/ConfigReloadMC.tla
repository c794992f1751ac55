--------------------------- MODULE ConfigReloadMC ---------------------------
(* Constant values for model checking ConfigReload. *)
EXTENDS ConfigReload

CONSTANTS p1, p2, k1

MCMain(w, ps, ss, ms) ==
    [wellFormed |-> w, providers |-> ps, supported |-> ss, mapped |-> ms]

\* Good files that grow, shrink and swap providers, one that gives a mapped provider
\* a type without an adapter, a file half written, and one whose mappings refer to a
\* provider that is gone.
MCMainContents == {
    MCMain(TRUE, {p1}, {p1}, {p1}),
    MCMain(TRUE, {p1, p2}, {p1, p2}, {p2}),
    MCMain(TRUE, {p1, p2}, {p1}, {p2}),
    MCMain(TRUE, {p2}, {p2}, {p2}),
    MCMain(TRUE, {p1}, {p1}, {p1, p2}),
    MCMain(FALSE, {}, {}, {})}

MCSecretContents == {
    [wellFormed |-> TRUE, keys |-> {k1}],
    [wellFormed |-> TRUE, keys |-> {}],
    [wellFormed |-> FALSE, keys |-> {}]}

MCProviders == {p1, p2}
MCKeys == {k1}
=============================================================================
