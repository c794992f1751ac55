------------------------------ MODULE RoutingMC ------------------------------
(* Constant values for model checking Routing. *)
EXTENDS Routing

MCNames == {"m", "n"}
MCGlobs == {"*", "m*"}
MCMatches == [g \in MCGlobs |-> IF g = "*" THEN MCNames ELSE {"m"}]

Line(model, slug, provider, target, pins) ==
    [model |-> model, slug |-> slug, provider |-> provider, target |-> target, pins |-> pins]

Config(ms, ps, ss) == [mappings |-> ms, providers |-> ps, supported |-> ss]

\* Qualified and plain keys of two providers before a catch-all.
Layered ==
    <<Line("m", "s", "a", "m", <<>>), Line("m", "t", "b", "*", <<"s">>),
      Line("m", None, "a", "n", <<"t">>), Line("*", None, "b", "*", <<>>)>>

\* Keys whose globs expand what the providers list, also beyond the key.
Expanding ==
    <<Line("n", None, "a", "m*", <<"s">>), Line("m*", None, "b", "m", <<>>),
      Line("m", "s", "b", "*", <<"t">>)>>

\* Two patterns, the second hidden by the first unless that has no adapter.
Shadowed == <<Line("m*", None, "a", "m*", <<>>), Line("*", None, "b", "*", <<"s">>)>>

Both == {"a", "b"}

\* Valid configurations, with all adapters or not, and one with an unknown provider.
MCConfigs ==
    {Config(Layered, Both, Both), Config(Layered, Both, {"b"}), Config(Layered, {"b"}, {"b"}),
     Config(Expanding, Both, Both), Config(Expanding, Both, {"b"}), Config(Shadowed, Both, Both),
     Config(Shadowed, Both, {"b"})}

SlugLists == {<<>>, <<"s">>, <<"t", "s">>}

MCRequests == [model : MCNames, suffix : SlugLists, body : SlugLists \cup {<<"t">>}]
=============================================================================
