--------------------------- MODULE Conversations ---------------------------
(***************************************************************************)
(* How logged requests become conversations: the columns the database      *)
(* triggers take from a request and its answer (migrations 0004 and 0005), *)
(* the groups of equal columns and the tree of messages of a group         *)
(* (db/repositories/chats.py).                                             *)
(*                                                                         *)
(* The rows come from clients that send their whole history each time,     *)
(* retry what failed and go back to an earlier message.  A row can be      *)
(* committed after one with a later timestamp (retried batches, several    *)
(* workers, clock steps): it is put anywhere.                              *)
(*                                                                         *)
(* Texts are taken to hold no quotes: the SQL group key is then a tuple.   *)
(***************************************************************************)
EXTENDS Integers, SequencesExt

CONSTANTS
    Chats,      \* clients' chats
    Openings,   \* how a chat begins: the content of its system message, if any, and
                \* of its first user message
    FollowUps,  \* what a user says next
    Answers,    \* what a provider answers with, as a client is given it
    MaxRows,    \* bound on the rows
    MaxLength,  \* bound on the messages of a request
    Null,       \* JSON's null, SQL's NULL
    Absent,     \* no such key
    Empty       \* the text ""

Texts == {o.system : o \in Openings} \cup {o.user : o \in Openings} \cup FollowUps
            \cup {a.content : a \in Answers} \cup {"result"}

\* A message: its semantic fields, and whether it has others (refusal, logprobs).
\* tools: its tool_calls, with the index of the calls in a stream or without.
Message(role, content, tools, extra) ==
    [role |-> role, content |-> content, tools |-> tools, extra |-> extra]
Messages ==
    [role : {"system", "user", "assistant", "tool"}, content : Texts \cup {Null, Absent},
     tools : {Absent, "calls", "indexed calls"}, extra : BOOLEAN]

ASSUME AnswersAssumption ==
    \A a \in Answers : a \in Messages /\ a.role = "assistant"
ASSUME BoundsAssumption == MaxRows \in Nat /\ MaxLength \in Nat
ASSUME NullAssumption == Null # Absent /\ Null \notin Messages

VARIABLES
    opening,    \* how each chat begins
    history,    \* the messages each chat has sent or been given
    rows        \* proxy_requests, by timestamp and id

vars == <<opening, history, rows>>

Rows ==
    LET columns == (Texts \cup {Null}) \ {Absent}
    IN  [id : 1 .. MaxRows, chat : Chats, messages : Seq(Messages),
         response : Messages \cup {Null},
         system : columns, user : columns, assistant : columns]

TypeOK ==
    /\ opening \in [Chats -> Openings]
    /\ history \in [Chats -> Seq(Messages)]
    /\ \A c \in Chats : Len(history[c]) <= MaxLength + 1
    /\ rows \in Seq(Rows) /\ Len(rows) <= MaxRows
    /\ {rows[i].id : i \in DOMAIN rows} = DOMAIN rows

----------------------------------------------------------------------------
(* The triggers *)

\* Mutant: no content is no NULL.
ContentAsItIs(m) == m.content

\* m->>'content'
Content(m) == IF m.content = Absent THEN Null ELSE m.content

\* The content of the first message of a role.
FirstContent(messages, role) ==
    LET said == {i \in DOMAIN messages : messages[i].role = role}
    IN  IF said = {} THEN Null ELSE Content(messages[Min(said)])

\* Mutant: the answer comes before the history.
AnswerFirst(messages, response) ==
    IF response # Null /\ Content(response) # Null THEN Content(response)
    ELSE FirstContent(messages, "assistant")

\* fn_extract_first_assistant_response: the history's, else the answer's.
FirstAssistant(messages, response) ==
    LET told == FirstContent(messages, "assistant")
    IN  IF told = Null /\ response # Null THEN Content(response) ELSE told

Row(id, chat, messages, response) ==
    [id |-> id, chat |-> chat, messages |-> messages, response |-> response,
     system |-> FirstContent(messages, "system"),
     user |-> FirstContent(messages, "user"),
     assistant |-> FirstAssistant(messages, response)]

----------------------------------------------------------------------------
(* get_conversations *)

Modes == {"system_prompt_first_user", "system_prompt_first_user_first_assistant"}

\* What the label tells apart: which columns are NULL, and the others' text.
GroupLabel(mode, r) ==
    IF mode = "system_prompt_first_user" THEN <<r.user, r.system>>
    ELSE <<r.assistant, r.user, r.system>>

\* _group_key_expression: NULL counts as the empty text.
GroupKey(mode, r) ==
    LET coalesce(v) == IF v = Null THEN Empty ELSE v
    IN  [i \in DOMAIN GroupLabel(mode, r) |-> coalesce(GroupLabel(mode, r)[i])]

\* What stands at some places of a sequence, in its order.
Selected(s, places) ==
    LET kept[i \in 0 .. Len(s)] ==
            IF i = 0 THEN <<>>
            ELSE IF i \in places THEN Append(kept[i - 1], s[i]) ELSE kept[i - 1]
    IN  kept[Len(s)]

RowsOf(mode, key) == Selected(rows, {i \in DOMAIN rows : GroupKey(mode, rows[i]) = key})

\* Mutant: GROUP BY key.
ConversationByKey(mode, label) ==
    LET labelled == {i \in DOMAIN rows : GroupLabel(mode, rows[i]) = label}
        keys == {GroupKey(mode, rows[i]) : i \in labelled}
        members == {i \in DOMAIN rows : GroupKey(mode, rows[i]) \in keys}
    IN  [key |-> GroupKey(mode, rows[Max(members)]), label |-> label,
         count |-> Cardinality(members), first |-> Min(members), last |-> Max(members)]

\* GROUP BY key and label.  Timestamps are the places in rows.
Conversation(mode, label) ==
    LET members == {i \in DOMAIN rows : GroupLabel(mode, rows[i]) = label}
    IN  [key |-> GroupKey(mode, rows[Max(members)]), label |-> label,
         count |-> Cardinality(members), first |-> Min(members), last |-> Max(members)]

\* One for each label, by its latest row, newest first; paging is the module
\* Browsing's business.
ListedConversations(mode) ==
    LET label(i) == GroupLabel(mode, rows[i])
        latest == {i \in DOMAIN rows : \A j \in DOMAIN rows : label(j) = label(i) => j <= i}
    IN  Reverse(Selected([i \in DOMAIN rows |-> Conversation(mode, label(i))], latest))

----------------------------------------------------------------------------
(* build_conversation_messages; a node_id is the path of signatures to it *)

\* _message_signature
Signature(m) == [role |-> m.role, content |-> m.content, tools |-> m.tools]

Said(r) == IF r.response = Null THEN r.messages ELSE Append(r.messages, r.response)
Path(r) == [i \in DOMAIN Said(r) |-> Signature(Said(r)[i])]

EmptyTree == [nodes |-> [p \in {} |-> 0], roots |-> <<>>]

\* Mutant: a message met again is another child of its parent.
InsertAgain(tree, r, path) ==
    LET parent == Front(path)
        new == [count |-> 1, first |-> r.id, last |-> r.id, children |-> <<>>,
                origin |-> IF Len(path) > Len(r.messages) THEN "response" ELSE "request"]
        counted == [tree EXCEPT !.nodes[path].count = @ + 1, !.nodes[path].last = r.id]
        known == path \in DOMAIN tree.nodes
        added == [p \in DOMAIN tree.nodes \cup {path} |->
                     IF p = path THEN new ELSE tree.nodes[p]]
        grown == IF known THEN counted ELSE [tree EXCEPT !.nodes = added]
    IN  IF parent = <<>>
        THEN IF known THEN grown ELSE [grown EXCEPT !.roots = Append(@, path)]
        ELSE [grown EXCEPT !.nodes[parent].children = Append(@, path)]

\* _TreeBuilder.insert of the message a path ends in.
Insert(tree, r, path) ==
    LET parent == Front(path)
        new == [count |-> 1, first |-> r.id, last |-> r.id, children |-> <<>>,
                origin |-> IF Len(path) > Len(r.messages) THEN "response" ELSE "request"]
        added == [p \in DOMAIN tree.nodes \cup {path} |->
                     IF p = path THEN new ELSE tree.nodes[p]]
        grown == [tree EXCEPT !.nodes = added]
    IN  IF path \in DOMAIN tree.nodes
        THEN [tree EXCEPT !.nodes[path].count = @ + 1, !.nodes[path].last = r.id]
        ELSE IF parent = <<>>
        THEN [grown EXCEPT !.roots = Append(@, path)]
        ELSE [grown EXCEPT !.nodes[parent].children = Append(@, path)]

InsertRow(tree, r) ==
    LET after[i \in 0 .. Len(Path(r))] ==
            IF i = 0 THEN tree ELSE Insert(after[i - 1], r, SubSeq(Path(r), 1, i))
    IN  after[Len(Path(r))]

Tree(group) ==
    LET after[i \in 0 .. Len(group)] ==
            IF i = 0 THEN EmptyTree ELSE InsertRow(after[i - 1], group[i])
    IN  after[Len(group)]

\* to_list: depth first, the messages still to be walked kept in front.
Walk(tree, w) ==
    [list |-> Append(w.list, Head(w.next)),
     next |-> tree.nodes[Head(w.next)].children \o Tail(w.next)]

ToList(tree) ==
    LET walked[i \in 0 .. Cardinality(DOMAIN tree.nodes)] ==
            IF i = 0 THEN [list |-> <<>>, next |-> tree.roots] ELSE Walk(tree, walked[i - 1])
    IN  walked[Cardinality(DOMAIN tree.nodes)].list

----------------------------------------------------------------------------
(* The clients, and the rows they leave *)

Opening(c) ==
    LET o == opening[c]
        user == Message("user", o.user, Absent, FALSE)
    IN  IF o.system = Absent THEN <<user>>
        ELSE <<Message("system", o.system, Absent, FALSE), user>>

\* What chat c sends next: its opening, what it last sent (its answer failed or is
\* not wanted), or what follows an answer or the calls of one.
Requests(c) ==
    LET h == history[c]
        upTo(n) == SubSeq(h, 1, n)
        turn(n) == IF h[n].tools # Absent THEN {Message("tool", "result", Absent, FALSE)}
                   ELSE {Message("user", t, Absent, FALSE) : t \in FollowUps}
    IN  IF h = <<>> THEN {Opening(c)}
        ELSE {upTo(n) : n \in {i \in DOMAIN h : i >= Len(Opening(c)) /\ h[i].role # "assistant"}}
             \cup UNION {{Append(upTo(n), m) : m \in turn(n)} :
                            n \in {i \in DOMAIN h : h[i].role = "assistant"}}

\* How a client may repeat an answer: without the fields it does not know, and
\* without the index of a stream's calls or the null beside them.
Echoes(a) ==
    {a, [a EXCEPT !.extra = FALSE]} \cup
    (IF a.tools = Absent THEN {}
     ELSE {[a EXCEPT !.extra = FALSE, !.tools = "calls",
                     !.content = IF @ = Null THEN Absent ELSE @]})

\* A row is committed, with any timestamp.
Commit(r) == \E i \in 1 .. Len(rows) + 1 : rows' = InsertAt(rows, i, r)

\* Chat c sends the messages and is answered.
Exchange(c, messages, answer) ==
    /\ Len(rows) < MaxRows
    /\ Commit(Row(Len(rows) + 1, c, messages, answer))
    /\ \E echo \in Echoes(answer) : history' = [history EXCEPT ![c] = Append(messages, echo)]
    /\ UNCHANGED opening

\* The provider fails, or its answer is no chat completion.
Failure(c, messages) ==
    /\ Len(rows) < MaxRows
    /\ Commit(Row(Len(rows) + 1, c, messages, Null))
    /\ history' = [history EXCEPT ![c] = messages]
    /\ UNCHANGED opening

Init ==
    /\ opening \in [Chats -> Openings]
    /\ history = [c \in Chats |-> <<>>]
    /\ rows = <<>>

Next ==
    \E c \in Chats : \E messages \in Requests(c) :
        /\ Len(messages) <= MaxLength
        /\ \/ \E a \in Answers : Exchange(c, messages, a)
           \/ Failure(c, messages)

Spec == Init /\ [][Next]_vars

----------------------------------------------------------------------------
(* Properties *)

Keys(mode) == {GroupKey(mode, rows[i]) : i \in DOMAIN rows}

\* Whether message p is met before message q when a group's rows are read in order
\* and followed by their branches.
Before(group, p, q) ==
    LET firstThrough(x) == Min({i \in DOMAIN group : IsPrefix(x, Path(group[i]))})
        fork == Min({i \in DOMAIN p : i > Len(q) \/ p[i] # q[i]})
    IN  \/ IsStrictPrefix(p, q)
        \/ /\ ~ IsPrefix(q, p)
           /\ firstThrough(SubSeq(p, 1, fork)) < firstThrough(SubSeq(q, 1, fork))

\* The list the chat view is given is the tree of what was said in the group: every
\* message once under what it answers, after its parent, branches in the order they
\* were first taken, with the number of requests through it, the first and the last.
TreeOfWhatWasSaid ==
    \A mode \in Modes : \A key \in Keys(mode) :
        LET group == RowsOf(mode, key)
            tree == Tree(group)
            list == ToList(tree)
            through(p) == {i \in DOMAIN group : IsPrefix(p, Path(group[i]))}
        IN  /\ ToSet(list) = (UNION {Prefixes(Path(group[i])) : i \in DOMAIN group}) \ {<<>>}
            /\ \A i, j \in DOMAIN list : i < j => Before(group, list[i], list[j])
            /\ \A p \in ToSet(list) :
                  /\ tree.nodes[p].count = Cardinality(through(p))
                  /\ tree.nodes[p].first = group[Min(through(p))].id
                  /\ tree.nodes[p].last = group[Max(through(p))].id
                  /\ tree.nodes[p].children =
                        Selected(list, {i \in DOMAIN list : Front(list[i]) = p})

\* The requests counted in some entries of a list.
Total(listed, entries) ==
    LET upTo[i \in 0 .. Len(listed)] ==
            IF i = 0 THEN 0
            ELSE upTo[i - 1] + (IF i \in entries THEN listed[i].count ELSE 0)
    IN  upTo[Len(listed)]

\* Every request is counted in one listed conversation, and opening a conversation
\* shows what is counted in the entries with its key.
EveryRequestIsCountedOnce ==
    \A mode \in Modes :
        LET listed == ListedConversations(mode)
            with(key) == {i \in DOMAIN listed : listed[i].key = key}
        IN  /\ Total(listed, DOMAIN listed) = Len(rows)
            /\ \A key \in Keys(mode) : Total(listed, with(key)) = Len(RowsOf(mode, key))
            /\ \A i, j \in DOMAIN listed : i < j => listed[i].last > listed[j].last

\* r was answered, and q goes on from there.
Continues(q, r) ==
    /\ r.response # Null
    /\ q.chat = r.chat /\ Len(q.messages) > Len(r.messages) + 1
    /\ SubSeq(q.messages, 1, Len(r.messages)) = r.messages
    /\ q.messages[Len(r.messages) + 1] \in Echoes(r.response)

\* A request is found in the conversation it goes on with: in mode system + user
\* always; in the other mode if the chat's first answer had a text, whatever the
\* later ones have.  An answer that comes back with the same semantic fields is the
\* same message of the tree.
FollowUpsJoinTheirConversation ==
    \A i, j \in DOMAIN rows :
        LET r == rows[i]
            q == rows[j]
            key(mode, x) == GroupKey(mode, x)
            pair == "system_prompt_first_user"
            triple == "system_prompt_first_user_first_assistant"
        IN  Continues(q, r) =>
              /\ key(pair, q) = key(pair, r)
              /\ FirstContent(q.messages, "assistant") # Null => key(triple, q) = key(triple, r)
              /\ [q.messages[Len(r.messages) + 1] EXCEPT !.extra = r.response.extra] = r.response =>
                    Tree(RowsOf(pair, key(pair, q))).nodes[Path(r)].count >= 2

\* migrations/versions/0005: "every request belonging to the same multi-turn
\* conversation gets the SAME first_assistant_response_text".
SameConversationSameGroup ==
    \A i, j \in DOMAIN rows :
        Continues(rows[i], rows[j]) => rows[i].assistant = rows[j].assistant
=============================================================================
