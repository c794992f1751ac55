--------------------------- MODULE RequestFlowMC ---------------------------
(* Constant values for model checking RequestFlow.  Texts are model values, *)
(* which differ from the records and names they are compared with.          *)
EXTENDS RequestFlow

CONSTANTS t, fixed, low, gemini, gemma, other, fwOther, prefixed

MCModels == {gemini, gemma, other, fwOther}
MCTexts == MCModels \cup {Blank, NoEffort, t, fixed, low, prefixed}

\* fwOther is other with the prefix, prefixed stands for the others'.
MCFull == [m \in MCTexts |-> IF m \in {other, fwOther} THEN fwOther ELSE prefixed]

MCNames == {"n", "g", "f"}
MCProviders == {"plain", "google", "fireworks"}
MCKeys == {"k1", "k2", EmptyKey}

NoHeaders == [auth |-> None, x |-> None]
Adapter(key, auth) == [key |-> key, headers |-> [NoHeaders EXCEPT !.auth = auth]]

Route(provider, model, pins, aware, awaits) ==
    [provider |-> provider, model |-> model, pins |-> pins, aware |-> aware, awaits |-> awaits]

Nobody == [c \in Clients |-> {}]

\* One known client, no mapping, a limiter, a name only the catalog routes.
Base ==
    [keys |-> {"k1"}, bypass |-> FALSE, block |-> Nobody, allow |-> Nobody,
     keyFor |-> [k \in MCKeys |-> [p \in MCProviders |-> None]],
     adapters |-> [p \in MCProviders |-> Adapter(IF p = "google" THEN "opG" ELSE "op", None)],
     routes |-> [n \in MCNames |->
                    CASE n = "n" -> Route("plain", other, "pins", FALSE, FALSE)
                      [] n = "g" -> Route("google", gemini, "pins", FALSE, TRUE)
                      [] n = "f" -> Route("fireworks", other, None, FALSE, FALSE)],
     rules |-> <<>>, limited |-> {"plain"}, tagged |-> TRUE]

Bypass == [Base EXCEPT !.bypass = TRUE, !.limited = {}]

\* Keys of their own for a known and for an unknown client.
Mapped ==
    [Bypass EXCEPT !.keyFor["k1"]["plain"] = "own1", !.keyFor["k2"]["google"] = "own2",
                   !.limited = {"google"}]

Open == [Base EXCEPT !.keys = {}, !.tagged = FALSE]

\* Other providers behind the names, other keys, and pins of a chosen route.
Moved ==
    [Bypass EXCEPT !.adapters["plain"] = Adapter("op2", None),
                   !.adapters["fireworks"] = Adapter(None, fixed),
                   !.routes["n"] = Route("plain", other, "pins", TRUE, TRUE),
                   !.routes["g"] = Route("google", gemma, None, FALSE, FALSE),
                   !.routes["f"] = None]

\* A reload that failed half-way: the keys and mappings of the new configuration with the
\* adapters and limiters of the old.
HalfDone == [Moved EXCEPT !.keys = {"k2"}, !.keyFor = Mapped.keyFor,
                          !.adapters = Base.adapters, !.limited = Base.limited]

Rule(providers, action, key, value) ==
    [providers |-> providers, models |-> MCModels, action |-> action, key |-> key, value |-> value]

\* Rules about each field, for some providers, with and without a value.
Rewriting ==
    [Bypass EXCEPT !.rules = <<Rule({"google", "fireworks"}, "set_field", "stream", t),
                               Rule(MCProviders, "remove_field", "effort", t),
                               Rule({"plain"}, "set_field", "provider", None),
                               Rule(MCProviders, "set_field", "usage", Blank),
                               Rule({"google"}, "remove_field", "thinking", None),
                               Rule({"google"}, "set_field", "model", gemma),
                               Rule(MCProviders, "add_header", "x", t),
                               Rule(MCProviders, "remove_header", "auth", None),
                               Rule(MCProviders, "misspelt", "x", None)>>,
                   !.block["k1"] = {"f"}, !.allow["k2"] = {"n"}]

MCConfigs == {Base, Bypass, Mapped, Open, Moved, HalfDone, Rewriting}

Plain ==
    [model |-> other, stream |-> None, provider |-> None, seed |-> None, top_a |-> None,
     include |-> None, reasoning |-> None, effort |-> None, thinking |-> None, usage |-> None]

Ask(keys, names, bodies) == [key : keys, name : names, body : bodies, x : {None}]

\* Whose key, and which route.
KeyRequests ==
    Ask(MCKeys \cup {None}, MCNames \cup {None},
        {[Plain EXCEPT !.stream = s] : s \in {None, "true", "false"}})

\* Provider preferences, and what is none.
PinRequests ==
    Ask({"k1"}, {"n"},
        {[Plain EXCEPT !.provider = [order |-> o, only |-> y, fallbacks |-> b]] :
            o, y \in {None, Null, "mine"}, b \in {None, Null, "true"}}
        \cup {[Plain EXCEPT !.provider = v] : v \in {Null, t}})

Effort(v) == [effort |-> v]

\* Thinking and efforts, of every shape.
ThinkingBodies ==
    {[Plain EXCEPT !.include = i, !.reasoning = e[1], !.effort = e[2], !.thinking = h] :
        i \in {None, "thoughts"},
        e \in {<<None, low>>, <<Effort(NoEffort), low>>, <<Effort(Null), NoEffort>>, <<t, Null>>},
        h \in {None, Null, [level |-> None, thoughts |-> TRUE], [level |-> "own", thoughts |-> FALSE]}}

\* Streams and their usage.
StreamBodies ==
    {[Plain EXCEPT !.stream = s, !.usage = u] :
        s \in {None, "true", t}, u \in {None, Null, "unset", "false"}}

FireworksBodies ==
    {[Plain EXCEPT !.seed = t, !.top_a = t, !.reasoning = r, !.effort = e] :
        r \in {None, Null, Effort(low), Effort(Blank)}, e \in {None, Null, NoEffort}}

MCRequests ==
    KeyRequests \cup PinRequests \cup Ask({"k1"}, {"g"}, ThinkingBodies \cup StreamBodies)
        \cup Ask({"k1"}, {"f"}, FireworksBodies)
=============================================================================
