---------------------------- MODULE ProxyRequest ----------------------------
(***************************************************************************)
(* One POST /v1/chat/completions from its receipt to its log entry: the    *)
(* router's two handlers (api/proxy/router.py), the adapter's HTTP client  *)
(* (adapters/openai_compat.py) and the SSE relay (api/proxy/streaming.py). *)
(*                                                                         *)
(* An action is what runs between two awaits on the provider; the client   *)
(* may disconnect between any two.  A stream chunk and a response body are *)
(* abstracted to what the code does differently with them.                 *)
(*                                                                         *)
(* The server is modelled from how the handlers rely on it: a handler is   *)
(* not told of a disconnect before it returns its response, sends to a     *)
(* disconnected client have no effect, and a streaming response whose      *)
(* client is gone gets CancelledError where it waits for the provider.     *)
(***************************************************************************)
EXTENDS Integers, SequencesExt

CONSTANT MaxChunks      \* bound on the chunks a provider streams

ASSUME MaxChunksAssumption == MaxChunks \in Nat

\* One line of a stream:
\*   noise     not JSON (a comment, [DONE]): relayed, not captured
\*   data      an object with an integer choice index
\*   odd       an object with a choice whose index is null
\*   usage     an object with token counts
\*   badUsage  an object with a token count that is no integer
\*   broken    an object whose choices are not a list of objects
\*   alien     JSON that is not an object
Chunks == {"noise", "data", "odd", "usage", "badUsage", "broken", "alien"}

\* A whole body: JSON object, one with a bad token count, text that is not
\* JSON (kept as raw_text), JSON that is neither object nor array.
Bodies == {"object", "badUsage", "text", "scalar"}

Rejections == {400, 401, 403, 404, 429}
Refused == 429      \* stands for every error status a provider answers with
Statuses == Rejections \cup {0, 200, 499, 500, 502, 504}

VARIABLES
    streaming,  \* the body asks for a stream
    pc,         \* which await the handler is in
    connected,  \* the client is there
    sent,       \* the provider has the request (history variable)
    handle,     \* the httpx client: none, open or closed
    upstream,   \* the chunks the provider has streamed (history variable)
    answer,     \* the answer the provider completed: none, a body or a stream
                \* (history variable)
    collected,  \* StreamState.chunks_collected
    client,     \* what the client got: status, body, how it ended
    log         \* the entries given to enqueue_log

vars == <<streaming, pc, connected, sent, handle, upstream, answer,
          collected, client, log>>

TypeOK ==
    /\ streaming \in BOOLEAN
    /\ pc \in {"received", "sending", "errorBody", "relay", "done"}
    /\ connected \in BOOLEAN
    /\ sent \in BOOLEAN
    /\ handle \in {"none", "open", "closed"}
    /\ upstream \in Seq(Chunks) /\ Len(upstream) <= MaxChunks
    /\ answer \in Bodies \cup {"none", "stream"}
    /\ collected \in Seq(Chunks)
    /\ client \in [status: Statuses, body: Seq(Chunks \cup {"errorEvent"}),
                   ended: {"no", "clean", "broken"}]
    /\ log \in Seq([status: Statuses \ {0}, error: BOOLEAN, chunks: Seq(Chunks)])

----------------------------------------------------------------------------
(* What the client is sent, and what is logged *)

\* parse_sse_chunk finds JSON in the line.
IsParsed(k) == k # "noise"

\* A send to a client that has left has no effect.
Told(new) == IF connected THEN new ELSE client

\* LogEntry is a validated model: a body that is no object or array, or a token
\* count that is no integer, raises.
Loggable(body) == body \in {"object", "text"}

\* The usage of the last chunk that carried one is what is logged.
UsageIsGood(s) ==
    \A i \in DOMAIN s : s[i] = "badUsage" => \E j \in DOMAIN s : j > i /\ s[j] = "usage"

\* assembled_stream_response sorts the choice indices, which fails when they are
\* of different types.
Assembles(s) == UsageIsGood(s) /\ ~({"data", "odd"} \subseteq Range(s))

\* error: the entry shows an error, by its status or its message.
Entry(status, error, chunks) == [status |-> status, error |-> error, chunks |-> chunks]

\* A response that is sent whole, after its entry is enqueued.
Respond(status, body, error) ==
    /\ pc' = "done"
    /\ IF Loggable(body)
       THEN /\ log' = Append(log, Entry(status, error, <<>>))
            /\ client' = Told([client EXCEPT !.status = status, !.ended = "clean"])
       ELSE /\ log' = log
            /\ client' = Told([client EXCEPT !.status = 500, !.ended = "clean"])

\* The end of stream_generator: its finally clause enqueues the entry; when that
\* raises, the response is cut without its last frame.
FinishStream(status, error, chunks, body) ==
    /\ pc' = "done"
    /\ collected' = chunks
    /\ LET built == Assembles(chunks) IN
        /\ log' = IF built THEN Append(log, Entry(status, error, chunks)) ELSE log
        /\ client' = Told([client EXCEPT !.body = body,
                                         !.ended = IF built THEN "clean" ELSE "broken"])

----------------------------------------------------------------------------
(* Before the provider *)

\* The body, the key, the access rules, the route or the full rate limiter queue
\* turn the request away; nothing is logged.
Reject(status) ==
    /\ pc = "received"
    /\ pc' = "done"
    /\ client' = Told([client EXCEPT !.status = status, !.ended = "clean"])
    /\ UNCHANGED <<streaming, connected, sent, handle, upstream, answer, collected, log>>

\* The adapter opens a client and sends the request.
Send ==
    /\ pc = "received"
    /\ pc' = "sending"
    /\ sent' = TRUE
    /\ handle' = "open"
    /\ UNCHANGED <<streaming, connected, upstream, answer, collected, client, log>>

\* A body that cannot be encoded raises before anything is sent.  The streaming
\* adapter has created its client outside the try and does not close it.
SendRaises ==
    /\ pc = "received"
    /\ pc' = "done"
    /\ handle' = IF streaming THEN "open" ELSE "closed"
    /\ client' = Told([client EXCEPT !.status = 500, !.ended = "clean"])
    /\ UNCHANGED <<streaming, connected, sent, upstream, answer, collected, log>>

\* Mutant: the transport error is answered without an entry.
TransportFailsUnlogged(status) ==
    /\ pc = "sending"
    /\ pc' = "done"
    /\ handle' = "closed"
    /\ client' = Told([client EXCEPT !.status = status, !.ended = "clean"])
    /\ UNCHANGED <<streaming, connected, sent, upstream, answer, collected, log>>

\* httpx.RequestError: the adapter closes its client, the router logs and
\* answers 504 or 502.
TransportFails(status) ==
    /\ pc = "sending"
    /\ handle' = "closed"
    /\ Respond(status, "object", TRUE)
    /\ UNCHANGED <<streaming, connected, sent, upstream, answer, collected>>

----------------------------------------------------------------------------
(* A plain response *)

PlainAnswer(status, body) ==
    /\ pc = "sending" /\ ~streaming
    /\ handle' = "closed"
    /\ answer' = body
    /\ Respond(status, body, status = Refused)
    /\ UNCHANGED <<streaming, connected, sent, upstream, collected>>

----------------------------------------------------------------------------
(* A streaming request the provider refuses *)

ErrorAnswer ==
    /\ pc = "sending" /\ streaming
    /\ pc' = "errorBody"
    /\ UNCHANGED <<streaming, connected, sent, handle, upstream, answer, collected, client, log>>

\* stream_error_response logs no token counts, so only the shape matters.
ErrorBodyRead(body) ==
    /\ pc = "errorBody"
    /\ handle' = "closed"
    /\ answer' = body
    /\ Respond(Refused, body, TRUE)
    /\ UNCHANGED <<streaming, connected, sent, upstream, collected>>

\* aread is outside the try that closes the client.
ErrorBodyFails(status) ==
    /\ pc = "errorBody"
    /\ Respond(status, "object", TRUE)
    /\ UNCHANGED <<streaming, connected, sent, handle, upstream, answer, collected>>

----------------------------------------------------------------------------
(* The relay *)

StreamOpens ==
    /\ pc = "sending" /\ streaming
    /\ pc' = "relay"
    /\ client' = Told([client EXCEPT !.status = 200])
    /\ UNCHANGED <<streaming, connected, sent, handle, upstream, answer, collected, log>>

Arrives(k) ==
    /\ pc = "relay"
    /\ Len(upstream) < MaxChunks
    /\ upstream' = Append(upstream, k)
    /\ UNCHANGED <<streaming, connected, sent, answer>>

\* Mutant: chunks are not captured once the client has left.
RelayChunkToClient(k) ==
    /\ Arrives(k)
    /\ k \notin {"alien", "broken"}
    /\ client' = Told([client EXCEPT !.body = Append(@, k)])
    /\ collected' = IF IsParsed(k) /\ connected THEN Append(collected, k) ELSE collected
    /\ UNCHANGED <<pc, handle, log>>

\* A chunk gets the route, is sent and then captured.
RelayChunk(k) ==
    /\ Arrives(k)
    /\ k \notin {"alien", "broken"}
    /\ client' = Told([client EXCEPT !.body = Append(@, k)])
    /\ collected' = IF IsParsed(k) THEN Append(collected, k) ELSE collected
    /\ UNCHANGED <<pc, handle, log>>

\* A chunk the relay raises on ends the stream with an error event: an alien one
\* while it is tagged, a broken one while it is captured, after it was sent.  The
\* provider's body stays suspended; its client is not closed here.
RelayRaises(k) ==
    /\ Arrives(k)
    /\ k \in {"alien", "broken"}
    /\ IF k = "alien"
       THEN FinishStream(502, TRUE, collected, Append(client.body, "errorEvent"))
       ELSE FinishStream(502, TRUE, Append(collected, k),
                         client.body \o <<k, "errorEvent">>)
    /\ UNCHANGED handle

\* The provider ends the stream, or sends [DONE].
UpstreamEnds ==
    /\ pc = "relay"
    /\ handle' = "closed"
    /\ answer' = "stream"
    /\ FinishStream(200, FALSE, collected, client.body)
    /\ UNCHANGED <<streaming, connected, sent, upstream>>

\* Mutant: a stream the provider breaks keeps the status of its headers.
UpstreamFailsAsOk(status) ==
    /\ pc = "relay"
    /\ handle' = "closed"
    /\ FinishStream(200, FALSE, collected, Append(client.body, "errorEvent"))
    /\ UNCHANGED <<streaming, connected, sent, upstream, answer>>

UpstreamFails(status) ==
    /\ pc = "relay"
    /\ handle' = "closed"
    /\ FinishStream(status, TRUE, collected, Append(client.body, "errorEvent"))
    /\ UNCHANGED <<streaming, connected, sent, upstream, answer>>

\* Mutant: the client of a cancelled stream is not closed.
CancelledOpen ==
    /\ pc = "relay" /\ ~connected
    /\ FinishStream(499, TRUE, collected, client.body)
    /\ UNCHANGED <<streaming, connected, sent, handle, upstream, answer>>

\* CancelledError in the relay: recorded as 499, then swallowed.
Cancelled ==
    /\ pc = "relay" /\ ~connected
    /\ handle' = "closed"
    /\ FinishStream(499, TRUE, collected, client.body)
    /\ UNCHANGED <<streaming, connected, sent, upstream, answer>>

\* The event loop closes a generator that was dropped while suspended, which
\* runs the finally clause of the adapter's body_iterator.
BodyFinalized ==
    /\ pc = "done" /\ handle = "open"
    /\ upstream # <<>>
    /\ Last(upstream) \in {"alien", "broken"}
    /\ handle' = "closed"
    /\ UNCHANGED <<streaming, pc, connected, sent, upstream, answer, collected, client, log>>

----------------------------------------------------------------------------

Disconnect ==
    /\ connected /\ pc # "done"
    /\ connected' = FALSE
    /\ UNCHANGED <<streaming, pc, sent, handle, upstream, answer, collected, client, log>>

Init ==
    /\ streaming \in BOOLEAN
    /\ pc = "received"
    /\ connected = TRUE
    /\ sent = FALSE
    /\ handle = "none"
    /\ upstream = <<>>
    /\ answer = "none"
    /\ collected = <<>>
    /\ client = [status |-> 0, body |-> <<>>, ended |-> "no"]
    /\ log = <<>>

Provider ==
    \/ \E s \in {502, 504} : TransportFails(s) \/ ErrorBodyFails(s) \/ UpstreamFails(s)
    \/ \E b \in Bodies : \E s \in {200, Refused} : PlainAnswer(s, b)
    \/ ErrorAnswer
    \/ \E b \in Bodies \ {"badUsage"} : ErrorBodyRead(b)
    \/ StreamOpens
    \/ \E k \in Chunks : RelayChunk(k) \/ RelayRaises(k)
    \/ UpstreamEnds

Handle == Send \/ SendRaises \/ (\E s \in Rejections : Reject(s))

Next == Handle \/ Provider \/ Disconnect \/ Cancelled \/ BodyFinalized

Spec == Init /\ [][Next]_vars

(***************************************************************************)
(* Every await on the provider ends: httpx raises a timeout after the      *)
(* adapter's `timeout' seconds without an answer or without a byte.  The   *)
(* server delivers a disconnect, and the event loop finalizes generators   *)
(* that were dropped.                                                      *)
(***************************************************************************)
FairSpec ==
    /\ Spec
    /\ WF_vars(Handle)
    /\ WF_vars(Provider)
    /\ WF_vars(Cancelled)
    /\ WF_vars(BodyFinalized)

----------------------------------------------------------------------------
(* Properties *)

\* A request has at most one entry (the entry's id is the request's, and the
\* requests table's primary key).  When the request is over and reached the
\* provider it has exactly one, whether it was answered, refused, timed out, was
\* broken off by either side or raised in the relay; only an entry that cannot be
\* built is missing.
CanBeLogged == IF answer \in Bodies THEN Loggable(answer) ELSE Assembles(collected)

LoggedOnce ==
    /\ Len(log) <= 1
    /\ pc = "done" /\ sent /\ CanBeLogged => Len(log) = 1

\* A stream logged as a success was streamed to its end, and one that the client
\* saw break off with an error event is logged as an error.
LogTellsHowItEnded ==
    \A i \in DOMAIN log :
        /\ ~log[i].error => answer # "none" /\ log[i].status = 200
        /\ "errorEvent" \in Range(client.body) => log[i].error

\* A sequence without the lines in drop.
Without(s, drop) ==
    LET kept[i \in 0 .. Len(s)] ==
            IF i = 0 THEN <<>>
            ELSE IF s[i] \in drop THEN kept[i - 1] ELSE Append(kept[i - 1], s[i])
    IN  kept[Len(s)]

\* What is captured is what the client got, in order, while the client is there;
\* what the provider streamed after the client left is captured as well, and the
\* client got a beginning of the stream without a gap.
CaptureMatchesDelivery ==
    /\ pc # "received" /\ connected =>
        Without(client.body, {"errorEvent", "noise"}) = collected
    /\ IsPrefix(Without(client.body, {"errorEvent"}), upstream)
    /\ collected = Without(upstream, {"noise", "alien"})

\* The HTTP client of a stream is closed in the end, also when the stream is
\* dropped half way.
StreamsAreReleased == (pc = "relay") ~> (handle = "closed")

=============================================================================
