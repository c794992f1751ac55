----------------------------- MODULE Adaptation -----------------------------
(***************************************************************************)
(* What the proxy makes of a chat completion before it sends it upstream:  *)
(* provider pinning (api/proxy/router.py), the modification rules          *)
(* (core/modification.py) and the adapter's rewriting of the body and the  *)
(* headers for its provider (adapters/openai_compat.py).                   *)
(*                                                                         *)
(* A body is a record of the fields these steps read or write.  A field    *)
(* may be absent (None), have a value of the shape these steps look for,   *)
(* be a text, or be Null: JSON's null, and likewise a value of any other   *)
(* shape.  A list of slugs is a member of a set, and texts are taken up to *)
(* case where the code compares them so.                                   *)
(***************************************************************************)
EXTENDS Integers, Sequences

CONSTANTS
    None,
    Null,
    Texts,
    Blank,      \* the empty text
    NoEffort,   \* the text "none"
    Models,     \* upstream model names
    Gemini,     \* the texts that start with "gemini-"
    Gemma,      \* those that start with "gemma-4-"
    Full,       \* a text with the prefix accounts/fireworks/models/
    Pins        \* lists of provider slugs that are not empty

ASSUME TextsAssumption ==
    /\ {Blank, NoEffort} \cup Models \cup Gemini \cup Gemma \subseteq Texts
    /\ Blank # NoEffort /\ Gemini \cap Gemma = {}
    /\ Full \in [Texts -> Texts]
    /\ \A m \in Texts : Full[Full[m]] = Full[m]

Optional(S) == S \cup {None}

\* What a field may be that these steps expect to be in S.
Any(S) == S \cup Texts \cup {Null, None}

\* isinstance(v, dict)
Object(v) == v \notin Texts \cup {Null, None}

\* provider: a list that is empty is no list of slugs.
Preferences ==
    [order : Pins \cup {Null, None}, only : Pins \cup {Null, None},
     fallbacks : {"true", "false", Null, None}]

Reasonings == [effort : Texts \cup {Null, None}]

\* thinking_config; own: a level or a budget the client set.
Levels == {"own", "minimal", "high"}
ThinkingConfigs == [level : Optional(Levels), thoughts : BOOLEAN]

Bodies ==
    [model     : Any({}),
     stream    : Any({"true", "false"}),
     provider  : Any(Preferences),
     seed      : Any({}),                   \* for the parameters Google does not take
     top_a     : Any({}),                   \* nor does Fireworks
     include   : Any({"thoughts", "other"}),
     reasoning : Any(Reasonings),
     effort    : Any({}),                   \* reasoning_effort
     thinking  : Any(ThinkingConfigs),      \* extra_body.google.thinking_config
     usage     : Any({"unset", "true", "false"})]   \* stream_options.include_usage

Fields == {"model", "stream", "provider", "seed", "top_a", "include", "reasoning", "effort",
           "thinking", "usage"}

\* The shapes are told apart.
ASSUME ShapesAssumption ==
    /\ None # Null /\ {None, Null} \cap (Texts \cup Pins \cup Levels) = {}
    /\ (Texts \cup {None, Null}) \cap
          {"true", "false", "thoughts", "other", "unset", "own", "minimal", "high"} = {}
    /\ \A p \in Preferences : Object(p)
    /\ \A r \in Reasonings : Object(r)
    /\ \A t \in ThinkingConfigs : Object(t)

\* A modification rule, of any key and with or without a value; providers and models
\* are what its globs match, and an action may be misspelt.
Rules ==
    LET on(actions, keys) ==
            [providers : SUBSET STRING, models : SUBSET Texts, action : actions, key : keys,
             value : Optional(Texts)]
    IN  on({"set_field", "remove_field"}, Fields)
            \cup on({"add_header", "remove_header", "misspelt"}, {"x", "auth"})

----------------------------------------------------------------------------
(* _apply_provider_pinning *)

Fresh(pins) == [order |-> pins, only |-> None, fallbacks |-> "false"]

\* Mutant: the pins replace the client's order only.
PinnedOrder(body, pins, aware) ==
    IF pins = None THEN body
    ELSE [body EXCEPT !.provider =
            IF ~ Object(@) THEN Fresh(pins)
            ELSE IF aware \/ @.order = None THEN [@ EXCEPT !.order = pins] ELSE @]

\* The configuration's pins: instead of the client's choice when that choice
\* selected the route (aware), else only where the client named no order, be it null.
Pinned(body, pins, aware) ==
    LET wish == body.provider
        fallbacks == IF wish.fallbacks = None THEN "false" ELSE wish.fallbacks
    IN  IF pins = None THEN body
        ELSE [body EXCEPT !.provider =
                IF ~ Object(wish) THEN Fresh(pins)
                ELSE IF aware /\ wish.only \in Pins
                THEN [order |-> None, only |-> pins, fallbacks |-> fallbacks]
                ELSE IF aware \/ wish.order = None
                THEN [wish EXCEPT !.order = pins, !.fallbacks = fallbacks]
                ELSE wish]

----------------------------------------------------------------------------
(* apply_modifications *)

Truthy(v) == v \notin {None, Null, Blank, "false"}

\* One rule, on [body, headers].
ApplyRule(r, w) ==
    CASE r.action = "set_field" ->
            [w EXCEPT !.body[r.key] = IF r.value = None THEN Null ELSE r.value]
      [] r.action = "remove_field"  -> [w EXCEPT !.body[r.key] = None]
      [] r.action = "add_header" ->
            [w EXCEPT !.headers[r.key] = IF r.value = None THEN Blank ELSE r.value]
      [] r.action = "remove_header" -> [w EXCEPT !.headers[r.key] = None]
      [] OTHER -> w

Applies(r, provider, model) == provider \in r.providers /\ model \in r.models

\* A rule about the field applies to the request.
Ruled(rules, field, provider, model) ==
    \E i \in DOMAIN rules :
        /\ Applies(rules[i], provider, model)
        /\ rules[i].action \in {"set_field", "remove_field"} /\ rules[i].key = field

\* The rules one after the other; each is asked for the model that was routed.
Modified(rules, w, provider, model) ==
    LET after[i \in 0 .. Len(rules)] ==
            IF i = 0 THEN w
            ELSE IF Applies(rules[i], provider, model) THEN ApplyRule(rules[i], after[i - 1])
            ELSE after[i - 1]
    IN  after[Len(rules)]

----------------------------------------------------------------------------
(* _prepare_request_body *)

\* A text that is not empty.
Says(v) == v \in Texts \ {Blank}

NoThinking == [level |-> None, thoughts |-> FALSE]

HasExplicitLevel(body) == Object(body.thinking) /\ body.thinking.level # None

\* Mutant: include and effort start a new thinking_config.
GoogleThinkingAnew(body, effort) ==
    IF effort # None /\ body.model \in Gemma
    THEN [level |-> IF effort = NoEffort THEN "minimal" ELSE "high", thoughts |-> FALSE]
    ELSE IF body.include = "thoughts" THEN [NoThinking EXCEPT !.thoughts = TRUE] ELSE body.thinking

\* thinking_config after include and the effort; a level the client set stays.
GoogleThinking(body, effort) ==
    LET own == IF Object(body.thinking) THEN body.thinking ELSE NoThinking
        asked == IF body.include = "thoughts" THEN [own EXCEPT !.thoughts = TRUE] ELSE own
        toggles == effort # None /\ body.model \in Gemma /\ ~ HasExplicitLevel(body)
    IN  IF toggles
        THEN [asked EXCEPT !.level = IF effort = NoEffort THEN "minimal" ELSE "high"]
        ELSE IF body.include = "thoughts" THEN asked ELSE body.thinking

\* A stream is asked for its usage unless the client said otherwise.
GoogleUsage(body) ==
    IF Truthy(body.stream) /\ (~ Object(body.usage) \/ body.usage = "unset")
    THEN "true" ELSE body.usage

\* reasoning.effort before reasoning_effort.
GoogleEffort(body) ==
    IF Object(body.reasoning) /\ Says(body.reasoning.effort) THEN body.reasoning.effort
    ELSE IF Says(body.effort) THEN body.effort ELSE None

GoogleBody(body) ==
    LET effort == GoogleEffort(body)
    IN  [body EXCEPT
            !.provider = None, !.seed = None, !.top_a = None, !.include = None,
            !.reasoning = None,
            !.thinking = GoogleThinking(body, effort),
            !.effort = IF body.model \in Gemini /\ ~ HasExplicitLevel(body) THEN effort ELSE None,
            !.usage = GoogleUsage(body)]

\* Here reasoning_effort comes first, be it null.
FireworksBody(body) ==
    [body EXCEPT
        !.provider = None, !.include = None, !.reasoning = None, !.top_a = None,
        !.model = IF @ \in Texts THEN Full[@] ELSE @,
        !.effort = IF @ = None /\ Object(body.reasoning) /\ Says(body.reasoning.effort)
                   THEN body.reasoning.effort ELSE @]

Prepared(provider, body) ==
    CASE provider = "google"    -> GoogleBody(body)
      [] provider = "fireworks" -> FireworksBody(body)
      [] OTHER                  -> body

----------------------------------------------------------------------------
(* _build_headers *)

\* The client's Authorization is stripped; the key is the request's own or the
\* adapter's, and the provider's configured headers come last.
BuiltHeaders(adapter, headers, override) ==
    LET key == IF override # None THEN override ELSE adapter.key
    IN  [auth |-> IF adapter.headers.auth # None THEN adapter.headers.auth ELSE key,
         x    |-> IF adapter.headers.x # None THEN adapter.headers.x ELSE headers.x]
=============================================================================
