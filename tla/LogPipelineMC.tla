--------------------------- MODULE LogPipelineMC ---------------------------
(* Constant values for model checking LogPipeline. *)
EXTENDS LogPipeline

CONSTANTS e1, e2, e3, e4, p1, p2

MCEntries == {e1, e2, e3, e4}
MCProviders == {p1, p2}
\* Two providers; entries next to each other may share one.
MCProviderOf == (e1 :> p1) @@ (e2 :> p1) @@ (e3 :> p2) @@ (e4 :> p2)

\* An entry among others that the database refuses.
MCLastEntry == {e4}
MCFirstEntry == {e1}

\* A fresh database, or one that knows a provider already.
MCSomeRows == {{}, {p1}}
============================================================================
