------------------------- MODULE ProxyRequestProofs -------------------------
(* Theorems about ProxyRequest, for streams of any length: what is logged   *)
(* of a request, and what is captured of a stream.                          *)
EXTENDS ProxyRequest, SequenceTheorems, WellFoundedInduction, TLAPS

ClientType == [status : Statuses, body : Seq(Chunks \cup {"errorEvent"}),
               ended : {"no", "clean", "broken"}]
LogType == Seq([status : Statuses \ {0}, error : BOOLEAN, chunks : Seq(Chunks)])

\* Before a request is over nothing is logged and the client saw no error.
Running ==
    pc # "done" =>
        /\ log = <<>> /\ answer = "none"
        /\ "errorEvent" \notin Range(client.body)
        /\ pc = "received" => ~ sent

IInv == TypeOK /\ Running /\ LoggedOnce /\ LogTellsHowItEnded

----------------------------------------------------------------------------
(* How a request ends *)

\* A log of at most one entry.
LEMMA OneEntry ==
    ASSUME NEW status \in Statuses \ {0}, NEW error \in BOOLEAN, NEW chunks \in Seq(Chunks),
           NEW l, l = <<Entry(status, error, chunks)>> \/ l = <<>>
    PROVE  /\ l \in LogType /\ Len(l) <= 1 /\ Len(l) \in Nat
           /\ l # <<>> => Len(l) = 1
           /\ \A i \in DOMAIN l : l[i].status = status /\ l[i].error = error
<1>1. Entry(status, error, chunks) \in [status : Statuses \ {0}, error : BOOLEAN, chunks : Seq(Chunks)]
  BY DEF Entry
<1>2. CASE l = <<>>
  BY <1>2 DEF LogType
<1>3. CASE l = <<Entry(status, error, chunks)>>
  <2>1. l \in LogType /\ Len(l) = 1 /\ DOMAIN l = {1} /\ l[1] = Entry(status, error, chunks)
    BY <1>1, <1>3 DEF LogType
  <2> QED
    BY <2>1 DEF Entry
<1> QED
  BY <1>2, <1>3

\* A client told the status of a response that is sent whole.
LEMMA ToldClean ==
    ASSUME client \in ClientType, NEW s \in Statuses,
           client' = Told([client EXCEPT !.status = s, !.ended = "clean"])
    PROVE  client' \in ClientType /\ client'.body = client.body
<1>1. /\ [client EXCEPT !.status = s, !.ended = "clean"] \in ClientType
      /\ [client EXCEPT !.status = s, !.ended = "clean"].body = client.body
  BY DEF ClientType
<1> QED
  BY <1>1 DEF Told

\* A whole response, and its entry if there can be one.
IsResponse(status, body, error) ==
    /\ pc' = "done" /\ client' \in ClientType
    /\ "errorEvent" \notin Range(client'.body)
    /\ log' \in LogType /\ Len(log') <= 1
    /\ Loggable(body) => Len(log') = 1
    /\ \A i \in DOMAIN log' : log'[i].status = status /\ log'[i].error = error

LEMMA Responded ==
    ASSUME TypeOK, Running, pc # "done", NEW status \in Statuses \ {0}, NEW error \in BOOLEAN,
           NEW body \in Bodies, Respond(status, body, error)
    PROVE  IsResponse(status, body, error)
<1>1. pc' = "done"
  BY DEF Respond
<1>2. client \in ClientType /\ log = <<>> /\ "errorEvent" \notin Range(client.body)
  BY DEF TypeOK, ClientType, Running
<1>3. client'.body = client.body /\ client' \in ClientType
  <2>1. status \in Statuses /\ 500 \in Statuses
    BY DEF Statuses
  <2>2. CASE Loggable(body)
    <3>1. client' = Told([client EXCEPT !.status = status, !.ended = "clean"])
      BY <2>2 DEF Respond
    <3> QED
      BY <1>2, <2>1, <3>1, ToldClean
  <2>3. CASE ~ Loggable(body)
    <3>1. client' = Told([client EXCEPT !.status = 500, !.ended = "clean"])
      BY <2>3 DEF Respond
    <3> QED
      BY <1>2, <2>1, <3>1, ToldClean
  <2> QED
    BY <2>2, <2>3
<1>4. <<>> \in Seq(Chunks)
  OBVIOUS
<1>5. /\ log' = <<Entry(status, error, <<>>)>> \/ log' = <<>>
      /\ Loggable(body) => log' # <<>>
  <2>1. Append(<<>>, Entry(status, error, <<>>)) = <<Entry(status, error, <<>>)>>
    OBVIOUS
  <2>2. <<Entry(status, error, <<>>)>> # <<>>
    OBVIOUS
  <2> QED
    BY <1>2, <2>1, <2>2 DEF Respond
<1>6. /\ log' \in LogType /\ Len(log') <= 1
      /\ log' # <<>> => Len(log') = 1
      /\ \A i \in DOMAIN log' : log'[i].status = status /\ log'[i].error = error
  <2> DEFINE e == <<>>
  <2>1. e \in Seq(Chunks) /\ (log' = <<Entry(status, error, e)>> \/ log' = <<>>)
    BY <1>4, <1>5
  <2> HIDE DEF e
  <2> QED
    BY <2>1, OneEntry
<1> QED
  BY <1>1, <1>2, <1>3, <1>5, <1>6 DEF IsResponse

\* The end of a stream, and its entry if there can be one.
IsFinish(status, error, chunks) ==
    /\ pc' = "done" /\ collected' = chunks /\ client' \in ClientType
    /\ "errorEvent" \in Range(client'.body) => error
    /\ log' \in LogType /\ Len(log') <= 1
    /\ Assembles(chunks) => Len(log') = 1
    /\ \A i \in DOMAIN log' : log'[i].status = status /\ log'[i].error = error

LEMMA Finished ==
    ASSUME TypeOK, Running, pc # "done", NEW status \in Statuses \ {0}, NEW error \in BOOLEAN,
           NEW chunks \in Seq(Chunks), NEW body \in Seq(Chunks \cup {"errorEvent"}),
           ~ error => "errorEvent" \notin Range(body), FinishStream(status, error, chunks, body)
    PROVE  IsFinish(status, error, chunks)
<1>1. pc' = "done" /\ collected' = chunks
  BY DEF FinishStream
<1>2. client \in ClientType /\ log = <<>> /\ "errorEvent" \notin Range(client.body)
  BY DEF TypeOK, ClientType, Running
<1>3. client'.body \in {client.body, body} /\ client' \in ClientType
  BY <1>2 DEF FinishStream, Told, ClientType
<1>4. "errorEvent" \in Range(client'.body) => error
  BY <1>2, <1>3
<1>5. /\ log' = <<Entry(status, error, chunks)>> \/ log' = <<>>
      /\ Assembles(chunks) => log' # <<>>
  <2>1. Append(<<>>, Entry(status, error, chunks)) = <<Entry(status, error, chunks)>>
    OBVIOUS
  <2>2. <<Entry(status, error, chunks)>> # <<>>
    OBVIOUS
  <2> QED
    BY <1>2, <2>1, <2>2 DEF FinishStream
<1>6. /\ log' \in LogType /\ Len(log') <= 1
      /\ log' # <<>> => Len(log') = 1
      /\ \A i \in DOMAIN log' : log'[i].status = status /\ log'[i].error = error
  BY <1>5, OneEntry
<1> QED
  BY <1>1, <1>3, <1>4, <1>5, <1>6 DEF IsFinish

\* What the client has seen, with a chunk or an error event after it.
LEMMA BodyGrows ==
    ASSUME NEW body \in Seq(Chunks \cup {"errorEvent"}), NEW k \in Chunks \cup {"errorEvent"}
    PROVE  /\ Append(body, k) \in Seq(Chunks \cup {"errorEvent"})
           /\ Range(Append(body, k)) = Range(body) \cup {k}
<1>1. /\ Append(body, k) \in Seq(Chunks \cup {"errorEvent"})
      /\ Len(Append(body, k)) = Len(body) + 1
      /\ \A i \in 1 .. Len(body) : Append(body, k)[i] = body[i]
      /\ Append(body, k)[Len(body) + 1] = k
  BY AppendProperties
<1>2. /\ Len(body) \in Nat /\ DOMAIN body = 1 .. Len(body)
      /\ DOMAIN Append(body, k) = 1 .. Len(body) + 1
  BY <1>1
<1>3. 1 .. Len(body) + 1 = (1 .. Len(body)) \cup {Len(body) + 1}
  BY <1>2
<1> QED
  BY <1>1, <1>2, <1>3 DEF Range

----------------------------------------------------------------------------
(* The invariant *)

LEMMA InitIInv == Init => IInv
<1> SUFFICES ASSUME Init PROVE IInv
  OBVIOUS
<1>1. client \in ClientType /\ log \in LogType /\ Range(client.body) = {} /\ DOMAIN log = {}
  BY DEF Init, ClientType, LogType, Statuses, Range
<1>2. upstream \in Seq(Chunks) /\ collected \in Seq(Chunks) /\ Len(upstream) = 0
  BY DEF Init
<1>3. TypeOK
  <2>1. Len(upstream) <= MaxChunks
    BY <1>2, MaxChunksAssumption
  <2>2. /\ pc \in {"received", "sending", "errorBody", "relay", "done"}
        /\ streaming \in BOOLEAN /\ connected \in BOOLEAN /\ sent \in BOOLEAN
        /\ handle \in {"none", "open", "closed"} /\ answer \in Bodies \cup {"none", "stream"}
    BY DEF Init
  <2> QED
    BY <1>1, <1>2, <2>1, <2>2 DEF TypeOK, ClientType, LogType
<1>4. Running
  BY <1>1 DEF Init, Running
<1>5. Len(log) = 0
  BY DEF Init
<1>6. LoggedOnce /\ LogTellsHowItEnded
  BY <1>1, <1>5 DEF Init, LoggedOnce, LogTellsHowItEnded
<1> QED
  BY <1>3, <1>4, <1>6 DEF IInv

\* An end that leaves an entry if there can be one, and one that tells how it ended.
LEMMA Ended ==
    ASSUME pc' = "done", TypeOK', Len(log') <= 1, sent' /\ CanBeLogged' => Len(log') = 1,
           LogTellsHowItEnded'
    PROVE  IInv'
  BY DEF IInv, Running, LoggedOnce

\* A step that goes on: nothing is logged and the client sees no error event.
LEMMA GoesOn ==
    ASSUME IInv, TypeOK', pc # "done", pc' # "done", log' = log, answer' = answer,
           pc' = "received" => pc = "received" /\ sent' = sent,
           "errorEvent" \notin Range(client'.body)
    PROVE  IInv'
<1>1. log = <<>> /\ answer = "none" /\ (pc = "received" => ~ sent)
  BY DEF IInv, Running
<1>2. Running'
  BY <1>1 DEF Running
<1>3. LoggedOnce' /\ LogTellsHowItEnded'
  <2>1. Len(log') = 0 /\ DOMAIN log' = {}
    BY <1>1
  <2> QED
    BY <2>1 DEF LoggedOnce, LogTellsHowItEnded
<1> QED
  BY <1>2, <1>3 DEF IInv

\* A request that ends before it was sent: no entry.
LEMMA TurnedAway ==
    ASSUME IInv, pc = "received", pc' = "done", sent' = sent, log' = log, TypeOK',
           client'.body = client.body, answer' = answer
    PROVE  IInv'
<1>1. log = <<>> /\ ~ sent /\ "errorEvent" \notin Range(client.body)
  BY DEF IInv, Running
<1>2. Len(log') = 0 /\ DOMAIN log' = {} /\ ~ sent'
  BY <1>1
<1> QED
  BY <1>2 DEF IInv, Running, LoggedOnce, LogTellsHowItEnded

LEMMA StepIInv == IInv /\ [Next]_vars => IInv'
<1> SUFFICES ASSUME IInv, [Next]_vars PROVE IInv'
  OBVIOUS
<1>0. TypeOK /\ Running /\ LoggedOnce /\ LogTellsHowItEnded
  BY DEF IInv
<1>a. /\ streaming \in BOOLEAN /\ connected \in BOOLEAN /\ sent \in BOOLEAN
      /\ handle \in {"none", "open", "closed"}
      /\ upstream \in Seq(Chunks) /\ Len(upstream) <= MaxChunks
      /\ answer \in Bodies \cup {"none", "stream"} /\ collected \in Seq(Chunks)
      /\ client \in ClientType /\ log \in LogType
      /\ pc \in {"received", "sending", "errorBody", "relay", "done"}
  BY <1>0 DEF TypeOK, ClientType, LogType
<1>b. \A s \in Statuses :
        /\ [client EXCEPT !.status = s, !.ended = "clean"] \in ClientType
        /\ [client EXCEPT !.status = s, !.ended = "clean"].body = client.body
        /\ [client EXCEPT !.status = s] \in ClientType
        /\ [client EXCEPT !.status = s].body = client.body
  BY <1>a DEF ClientType
<1>c. client.body \in Seq(Chunks \cup {"errorEvent"})
  BY <1>a DEF ClientType
<1>1. ASSUME NEW s \in Rejections, Reject(s) PROVE IInv'
  <2>1. client' \in ClientType /\ client'.body = client.body
    <3>1. s \in Statuses
      BY DEF Statuses
    <3>2. client' = Told([client EXCEPT !.status = s, !.ended = "clean"])
      BY <1>1 DEF Reject
    <3> QED
      BY <1>a, <3>1, <3>2, ToldClean
  <2>2. /\ pc = "received" /\ pc' = "done"
        /\ UNCHANGED <<streaming, connected, sent, handle, upstream, answer, collected, log>>
    BY <1>1 DEF Reject
  <2>3. TypeOK'
    BY <1>a, <2>1, <2>2 DEF TypeOK, ClientType, LogType
  <2> QED
    BY <2>1, <2>2, <2>3, TurnedAway
<1>2. ASSUME Send PROVE IInv'
  <2>1. /\ pc = "received" /\ pc' = "sending" /\ sent' = TRUE /\ handle' = "open"
        /\ UNCHANGED <<streaming, connected, upstream, answer, collected, client, log>>
    BY <1>2 DEF Send
  <2>2. TypeOK'
    BY <1>a, <2>1 DEF TypeOK, ClientType, LogType
  <2>3. "errorEvent" \notin Range(client'.body)
    BY <1>0, <2>1 DEF Running
  <2> QED
    BY <2>1, <2>2, <2>3, GoesOn
<1>3. ASSUME SendRaises PROVE IInv'
  <2>1. client' \in ClientType /\ client'.body = client.body
    <3>1. 500 \in Statuses
      BY DEF Statuses
    <3>2. client' = Told([client EXCEPT !.status = 500, !.ended = "clean"])
      BY <1>3 DEF SendRaises
    <3> QED
      BY <1>a, <3>1, <3>2, ToldClean
  <2>2. /\ pc = "received" /\ pc' = "done" /\ handle' \in {"open", "closed"}
        /\ UNCHANGED <<streaming, connected, sent, upstream, answer, collected, log>>
    BY <1>3 DEF SendRaises
  <2>3. TypeOK'
    BY <1>a, <2>1, <2>2 DEF TypeOK, ClientType, LogType
  <2> QED
    BY <2>1, <2>2, <2>3, TurnedAway
<1>4. ASSUME NEW s \in {502, 504}, TransportFails(s) PROVE IInv'
  <2>0. /\ s \in Statuses /\ s \in Statuses \ {0} /\ TRUE \in BOOLEAN
        /\ "object" \in Bodies /\ Loggable("object")
    BY DEF Statuses, Bodies, Loggable
  <2>1. /\ pc # "done" /\ Respond(s, "object", TRUE) /\ handle' = "closed"
        /\ UNCHANGED <<streaming, connected, sent, upstream, answer, collected>>
    BY <1>4 DEF TransportFails
  <2>2. IsResponse(s, "object", TRUE)
    BY <1>0, <2>0, <2>1, Responded
  <2>3. TypeOK'
    BY <1>a, <2>1, <2>2 DEF TypeOK, ClientType, LogType, IsResponse
  <2>8. LogTellsHowItEnded'
    BY <2>1, <2>2 DEF IsResponse, LogTellsHowItEnded
  <2>9. pc' = "done" /\ Len(log') <= 1 /\ (sent' /\ CanBeLogged' => Len(log') = 1)
    BY <2>0, <2>2 DEF IsResponse
  <2> QED
    BY <2>3, <2>8, <2>9, Ended
<1>5. ASSUME NEW b \in Bodies, NEW s \in {200, Refused}, PlainAnswer(s, b) PROVE IInv'
  <2>1. /\ s \in Statuses \ {0} /\ (s = Refused) \in BOOLEAN
        /\ pc # "done" /\ Respond(s, b, s = Refused) /\ handle' = "closed" /\ answer' = b
        /\ UNCHANGED <<streaming, connected, sent, upstream, collected>>
    BY <1>5 DEF PlainAnswer, Statuses, Rejections, Refused
  <2>2. IsResponse(s, b, s = Refused)
    BY <1>0, <2>1, Responded
  <2>3. TypeOK'
    BY <1>a, <2>1, <2>2 DEF TypeOK, ClientType, LogType, IsResponse
  <2>4. sent' /\ CanBeLogged' => Len(log') = 1
    BY <2>1, <2>2 DEF CanBeLogged, IsResponse
  <2>5. ~ (s = Refused) => answer' # "none" /\ s = 200
    BY <2>1 DEF Bodies
  <2>8. LogTellsHowItEnded'
    BY <2>1, <2>2, <2>5 DEF IsResponse, LogTellsHowItEnded
  <2>9. pc' = "done" /\ Len(log') <= 1 /\ (sent' /\ CanBeLogged' => Len(log') = 1)
    BY <2>2, <2>4 DEF IsResponse
  <2> QED
    BY <2>3, <2>8, <2>9, Ended
<1>6. ASSUME ErrorAnswer PROVE IInv'
  <2>1. /\ pc = "sending" /\ pc' = "errorBody"
        /\ UNCHANGED <<streaming, connected, sent, handle, upstream, answer, collected, client, log>>
    BY <1>6 DEF ErrorAnswer
  <2>2. TypeOK'
    BY <1>a, <2>1 DEF TypeOK, ClientType, LogType
  <2>3. "errorEvent" \notin Range(client'.body)
    BY <1>0, <2>1 DEF Running
  <2> QED
    BY <2>1, <2>2, <2>3, GoesOn
<1>7. ASSUME NEW b \in Bodies, ErrorBodyRead(b) PROVE IInv'
  <2>0. Refused \in Statuses /\ Refused \in Statuses \ {0} /\ TRUE \in BOOLEAN
    BY DEF Statuses, Rejections, Refused
  <2>1. /\ pc # "done" /\ Respond(Refused, b, TRUE) /\ handle' = "closed" /\ answer' = b
        /\ UNCHANGED <<streaming, connected, sent, upstream, collected>>
    BY <1>7 DEF ErrorBodyRead
  <2>2. IsResponse(Refused, b, TRUE)
    BY <1>0, <2>0, <2>1, Responded
  <2>3. TypeOK'
    BY <1>a, <2>1, <2>2 DEF TypeOK, ClientType, LogType, IsResponse
  <2>4. sent' /\ CanBeLogged' => Len(log') = 1
    BY <2>1, <2>2 DEF CanBeLogged, IsResponse
  <2>8. LogTellsHowItEnded'
    BY <2>1, <2>2 DEF IsResponse, LogTellsHowItEnded
  <2>9. pc' = "done" /\ Len(log') <= 1 /\ (sent' /\ CanBeLogged' => Len(log') = 1)
    BY <2>2, <2>4 DEF IsResponse
  <2> QED
    BY <2>3, <2>8, <2>9, Ended
<1>8. ASSUME NEW s \in {502, 504}, ErrorBodyFails(s) PROVE IInv'
  <2>0. /\ s \in Statuses /\ s \in Statuses \ {0} /\ TRUE \in BOOLEAN
        /\ "object" \in Bodies /\ Loggable("object")
    BY DEF Statuses, Bodies, Loggable
  <2>1. /\ pc # "done" /\ Respond(s, "object", TRUE)
        /\ UNCHANGED <<streaming, connected, sent, handle, upstream, answer, collected>>
    BY <1>8 DEF ErrorBodyFails
  <2>2. IsResponse(s, "object", TRUE)
    BY <1>0, <2>0, <2>1, Responded
  <2>3. TypeOK'
    BY <1>a, <2>1, <2>2 DEF TypeOK, ClientType, LogType, IsResponse
  <2>8. LogTellsHowItEnded'
    BY <2>1, <2>2 DEF IsResponse, LogTellsHowItEnded
  <2>9. pc' = "done" /\ Len(log') <= 1 /\ (sent' /\ CanBeLogged' => Len(log') = 1)
    BY <2>0, <2>2 DEF IsResponse
  <2> QED
    BY <2>3, <2>8, <2>9, Ended
<1>9. ASSUME StreamOpens PROVE IInv'
  <2>1. /\ pc = "sending" /\ pc' = "relay" /\ client' = Told([client EXCEPT !.status = 200])
        /\ UNCHANGED <<streaming, connected, sent, handle, upstream, answer, collected, log>>
    BY <1>9 DEF StreamOpens
  <2>2. client' \in ClientType /\ client'.body = client.body
    <3>1. 200 \in Statuses
      BY DEF Statuses
    <3>2. /\ [client EXCEPT !.status = 200] \in ClientType
          /\ [client EXCEPT !.status = 200].body = client.body
      BY <1>b, <3>1
    <3> QED
      BY <1>a, <2>1, <3>2 DEF Told
  <2>3. TypeOK'
    BY <1>a, <2>1, <2>2 DEF TypeOK, ClientType, LogType
  <2>4. "errorEvent" \notin Range(client'.body)
    BY <1>0, <2>1, <2>2 DEF Running
  <2> QED
    BY <2>1, <2>3, <2>4, GoesOn
<1>10. ASSUME NEW k \in Chunks, RelayChunk(k) PROVE IInv'
  <2>1. /\ pc = "relay" /\ pc' = "relay" /\ client' = Told([client EXCEPT !.body = Append(@, k)])
        /\ Len(upstream) < MaxChunks /\ upstream' = Append(upstream, k)
        /\ collected' \in {collected, Append(collected, k)}
        /\ UNCHANGED <<streaming, connected, sent, handle, answer, log>>
    BY <1>10 DEF RelayChunk, Arrives
  <2>2. Append(client.body, k) \in Seq(Chunks \cup {"errorEvent"})
    BY <1>c
  <2>3. client' \in ClientType /\ client'.body \in {client.body, Append(client.body, k)}
    <3>1. /\ [client EXCEPT !.body = Append(@, k)] \in ClientType
          /\ [client EXCEPT !.body = Append(@, k)].body = Append(client.body, k)
      BY <1>a, <2>2 DEF ClientType
    <3> QED
      BY <1>a, <2>1, <3>1 DEF Told
  <2>4. upstream' \in Seq(Chunks) /\ Len(upstream') <= MaxChunks /\ collected' \in Seq(Chunks)
    <3>1. /\ Append(upstream, k) \in Seq(Chunks) /\ Append(collected, k) \in Seq(Chunks)
          /\ Len(Append(upstream, k)) = Len(upstream) + 1 /\ Len(upstream) \in Nat
      BY <1>a
    <3>2. Len(upstream') <= MaxChunks
      BY <2>1, <3>1, MaxChunksAssumption
    <3>3. upstream' \in Seq(Chunks) /\ collected' \in Seq(Chunks)
      BY <1>a, <2>1, <3>1
    <3> QED
      BY <3>2, <3>3
  <2>5. TypeOK'
    BY <1>a, <2>1, <2>3, <2>4 DEF TypeOK, ClientType, LogType
  <2>6. "errorEvent" \notin Range(client'.body)
    <3>1. "errorEvent" \notin Range(client.body)
      BY <1>0, <2>1 DEF Running
    <3>2. k # "errorEvent"
      BY DEF Chunks
    <3>3. Range(Append(client.body, k)) = Range(client.body) \cup {k}
      BY <1>c, BodyGrows
    <3> QED
      BY <2>3, <3>1, <3>2, <3>3
  <2> QED
    BY <2>1, <2>5, <2>6, GoesOn
<1>11. ASSUME NEW k \in Chunks, RelayRaises(k) PROVE IInv'
  <2>1. /\ pc = "relay" /\ Len(upstream) < MaxChunks /\ upstream' = Append(upstream, k)
        /\ UNCHANGED <<streaming, connected, sent, handle, answer>>
    BY <1>11 DEF RelayRaises, Arrives
  <2>2. PICK chunks \in Seq(Chunks), body \in Seq(Chunks \cup {"errorEvent"}) :
            FinishStream(502, TRUE, chunks, body)
    <3>1. /\ Append(collected, k) \in Seq(Chunks)
          /\ Append(client.body, "errorEvent") \in Seq(Chunks \cup {"errorEvent"})
          /\ client.body \o <<k, "errorEvent">> \in Seq(Chunks \cup {"errorEvent"})
      BY <1>a, <1>c
    <3> QED
      BY <1>a, <1>11, <3>1 DEF RelayRaises
  <2>3. 502 \in Statuses /\ 502 \in Statuses \ {0} /\ TRUE \in BOOLEAN
    BY DEF Statuses
  <2>4. IsFinish(502, TRUE, chunks)
    BY <1>0, <2>1, <2>2, <2>3, Finished
  <2>5. upstream' \in Seq(Chunks) /\ Len(upstream') <= MaxChunks
    BY <1>a, <2>1, MaxChunksAssumption
  <2>6. TypeOK'
    BY <1>a, <2>1, <2>4, <2>5 DEF TypeOK, ClientType, LogType, IsFinish
  <2>7. CanBeLogged' => Len(log') = 1
    BY <1>0, <2>1, <2>4 DEF CanBeLogged, Running, IsFinish, Bodies
  <2>8. LogTellsHowItEnded'
    BY <2>4 DEF IsFinish, LogTellsHowItEnded
  <2>9. pc' = "done" /\ Len(log') <= 1 /\ (sent' /\ CanBeLogged' => Len(log') = 1)
    BY <2>4, <2>7 DEF IsFinish
  <2> QED
    BY <2>6, <2>8, <2>9, Ended
<1>12. ASSUME UpstreamEnds PROVE IInv'
  <2>1. /\ pc = "relay" /\ handle' = "closed" /\ answer' = "stream"
        /\ FinishStream(200, FALSE, collected, client.body)
        /\ UNCHANGED <<streaming, connected, sent, upstream>>
    BY <1>12 DEF UpstreamEnds
  <2>2. "errorEvent" \notin Range(client.body)
    BY <1>0, <2>1 DEF Running
  <2>3. 200 \in Statuses /\ 200 \in Statuses \ {0} /\ FALSE \in BOOLEAN
    BY DEF Statuses
  <2>4. IsFinish(200, FALSE, collected)
    BY <1>0, <1>a, <1>c, <2>1, <2>2, <2>3, Finished
  <2>5. TypeOK'
    BY <1>a, <2>1, <2>4 DEF TypeOK, ClientType, LogType, IsFinish
  <2>6. CanBeLogged' => Len(log') = 1
    BY <2>1, <2>4 DEF CanBeLogged, IsFinish, Bodies
  <2>7. answer' # "none"
    BY <2>1
  <2>8. LogTellsHowItEnded'
    BY <2>4, <2>7 DEF IsFinish, LogTellsHowItEnded
  <2>9. pc' = "done" /\ Len(log') <= 1 /\ (sent' /\ CanBeLogged' => Len(log') = 1)
    BY <2>4, <2>6 DEF IsFinish
  <2> QED
    BY <2>5, <2>8, <2>9, Ended
<1>13. ASSUME NEW s \in {502, 504}, UpstreamFails(s) PROVE IInv'
  <2>1. /\ pc = "relay" /\ handle' = "closed"
        /\ FinishStream(s, TRUE, collected, Append(client.body, "errorEvent"))
        /\ UNCHANGED <<streaming, connected, sent, upstream, answer>>
    BY <1>13 DEF UpstreamFails
  <2>2. Append(client.body, "errorEvent") \in Seq(Chunks \cup {"errorEvent"})
    BY <1>c
  <2>3. s \in Statuses /\ s \in Statuses \ {0} /\ TRUE \in BOOLEAN
    BY DEF Statuses
  <2>4. IsFinish(s, TRUE, collected)
    BY <1>0, <1>a, <2>1, <2>2, <2>3, Finished
  <2>5. TypeOK'
    BY <1>a, <2>1, <2>4 DEF TypeOK, ClientType, LogType, IsFinish
  <2>6. CanBeLogged' => Len(log') = 1
    BY <1>0, <2>1, <2>4 DEF CanBeLogged, Running, IsFinish, Bodies
  <2>8. LogTellsHowItEnded'
    BY <2>4 DEF IsFinish, LogTellsHowItEnded
  <2>9. pc' = "done" /\ Len(log') <= 1 /\ (sent' /\ CanBeLogged' => Len(log') = 1)
    BY <2>4, <2>6 DEF IsFinish
  <2> QED
    BY <2>5, <2>8, <2>9, Ended
<1>14. ASSUME Cancelled PROVE IInv'
  <2>1. /\ pc = "relay" /\ handle' = "closed" /\ FinishStream(499, TRUE, collected, client.body)
        /\ UNCHANGED <<streaming, connected, sent, upstream, answer>>
    BY <1>14 DEF Cancelled
  <2>2. 499 \in Statuses /\ 499 \in Statuses \ {0} /\ TRUE \in BOOLEAN
    BY DEF Statuses
  <2>3. IsFinish(499, TRUE, collected)
    BY <1>0, <1>a, <1>c, <2>1, <2>2, Finished
  <2>4. TypeOK'
    BY <1>a, <2>1, <2>3 DEF TypeOK, ClientType, LogType, IsFinish
  <2>5. CanBeLogged' => Len(log') = 1
    BY <1>0, <2>1, <2>3 DEF CanBeLogged, Running, IsFinish, Bodies
  <2>8. LogTellsHowItEnded'
    BY <2>3 DEF IsFinish, LogTellsHowItEnded
  <2>9. pc' = "done" /\ Len(log') <= 1 /\ (sent' /\ CanBeLogged' => Len(log') = 1)
    BY <2>3, <2>5 DEF IsFinish
  <2> QED
    BY <2>4, <2>8, <2>9, Ended
<1>15. CASE UNCHANGED <<pc, sent, answer, collected, client, log>> /\ TypeOK'
  BY <1>0, <1>15 DEF IInv, Running, LoggedOnce, LogTellsHowItEnded, CanBeLogged
<1>16. ASSUME BodyFinalized \/ Disconnect \/ UNCHANGED vars PROVE IInv'
  <2>1. /\ UNCHANGED <<streaming, pc, sent, upstream, answer, collected, client, log>>
        /\ handle' \in {handle, "closed"} /\ connected' \in {connected, FALSE}
    BY <1>16 DEF BodyFinalized, Disconnect, vars
  <2>2. TypeOK'
    BY <1>a, <2>1 DEF TypeOK, ClientType, LogType
  <2> QED
    BY <1>15, <2>1, <2>2
<1> QED
  BY <1>1, <1>2, <1>3, <1>4, <1>5, <1>6, <1>7, <1>8, <1>9, <1>10, <1>11, <1>12, <1>13, <1>14,
     <1>16 DEF Next, Handle, Provider

----------------------------------------------------------------------------
(* What is left of a sequence without some of its lines *)

Lines == Chunks \cup {"errorEvent"}

\* What holds at 0, and at every i of 1 .. n if before it, holds up to n.
LEMMA UpTo ==
    ASSUME NEW n \in Nat, NEW T, 0 \in T, \A i \in 1 .. n : i - 1 \in T => i \in T
    PROVE  \A i \in 0 .. n : i \in T
<1> DEFINE D == {i \in 0 .. n : i \notin T}
<1> SUFFICES ASSUME D # {} PROVE FALSE
  OBVIOUS
<1>1. D \subseteq Nat
  OBVIOUS
<1>2. PICK d \in D : \A e \in D : ~ (<<e, d>> \in OpToRel(<, Nat))
  BY <1>1, NatLessThanWellFounded, WFMin
<1>3. d \in 0 .. n /\ d \notin T /\ d # 0
  OBVIOUS
<1>4. d - 1 \in 0 .. n /\ d - 1 < d /\ d - 1 \in Nat /\ d \in Nat /\ d \in 1 .. n
  BY <1>3
<1>5. d - 1 \in T
  <2>1. CASE d - 1 \in D
    <3>1. ~ (<<d - 1, d>> \in OpToRel(<, Nat))
      BY <1>2, <2>1
    <3> QED
      BY <1>4, <3>1 DEF OpToRel
  <2> QED
    BY <1>4, <2>1
<1> QED
  BY <1>3, <1>4, <1>5

\* The lines of s up to the i-th that are not dropped, for every i up to n.
Keeps(f, n, s, drop) ==
    /\ f \in [0 .. n -> Seq(Lines)] /\ f[0] = <<>>
    /\ \A i \in 1 .. n : f[i] = IF s[i] \in drop THEN f[i - 1] ELSE Append(f[i - 1], s[i])

LEMMA SomethingKeeps ==
    ASSUME NEW s \in Seq(Lines), NEW drop
    PROVE  \E f : Keeps(f, Len(s), s, drop)
<1> DEFINE n == Len(s)
           T == {m \in 0 .. n : \E f : Keeps(f, m, s, drop)}
<1>1. n \in Nat /\ \A i \in 1 .. n : s[i] \in Lines
  OBVIOUS
<1>2. 0 \in T
  <2> DEFINE f == [i \in 0 .. 0 |-> <<>>]
  <2>1. f \in [0 .. 0 -> Seq(Lines)] /\ f[0] = <<>> /\ \A i \in 1 .. 0 : FALSE
    OBVIOUS
  <2> HIDE DEF f
  <2>2. Keeps(f, 0, s, drop)
    BY <2>1 DEF Keeps
  <2> QED
    BY <1>1, <2>2
<1>3. ASSUME NEW m \in 1 .. n, m - 1 \in T PROVE m \in T
  <2>1. PICK f : Keeps(f, m - 1, s, drop)
    BY <1>3
  <2>2. /\ f \in [0 .. m - 1 -> Seq(Lines)] /\ f[0] = <<>>
        /\ \A i \in 1 .. m - 1 : f[i] = IF s[i] \in drop THEN f[i - 1] ELSE Append(f[i - 1], s[i])
    BY <2>1 DEF Keeps
  <2> DEFINE new == IF s[m] \in drop THEN f[m - 1] ELSE Append(f[m - 1], s[m])
             g == [i \in 0 .. m |-> IF i = m THEN new ELSE f[i]]
  <2>3. m \in Nat /\ m - 1 \in 0 .. m - 1 /\ f[m - 1] \in Seq(Lines) /\ s[m] \in Lines
    BY <1>1, <2>2
  <2>4. new \in Seq(Lines)
    BY <2>3, AppendProperties
  <2> HIDE DEF new
  <2>5. g \in [0 .. m -> Seq(Lines)] /\ g[m] = new /\ \A i \in 0 .. m - 1 : g[i] = f[i]
    BY <2>2, <2>3, <2>4
  <2> HIDE DEF g
  <2>6. ASSUME NEW i \in 1 .. m
        PROVE  g[i] = IF s[i] \in drop THEN g[i - 1] ELSE Append(g[i - 1], s[i])
    <3>1. i - 1 \in 0 .. m - 1 /\ g[i - 1] = f[i - 1]
      BY <2>5
    <3>2. CASE i = m
      BY <2>5, <3>1, <3>2 DEF new
    <3>3. CASE i # m
      <4>1. i \in 1 .. m - 1 /\ i \in 0 .. m - 1
        BY <3>3
      <4> QED
        BY <2>2, <2>5, <3>1, <4>1
    <3> QED
      BY <3>2, <3>3
  <2>7. 0 \in 0 .. m - 1 /\ g[0] = <<>>
    BY <2>2, <2>3, <2>5
  <2>8. Keeps(g, m, s, drop) /\ m \in 0 .. n
    BY <2>5, <2>6, <2>7 DEF Keeps
  <2> QED
    BY <2>8
<1> HIDE DEF T
<1>4. n \in T
  <2>1. \A i \in 0 .. n : i \in T
    BY <1>1, <1>2, <1>3, UpTo
  <2> QED
    BY <1>1, <2>1
<1> QED
  BY <1>4 DEF T

\* Without is what is kept of the whole sequence.
LEMMA WithoutKeeps ==
    ASSUME NEW s \in Seq(Lines), NEW drop
    PROVE  \E f : Keeps(f, Len(s), s, drop) /\ Without(s, drop) = f[Len(s)]
<1> DEFINE n == Len(s)
           IsKept(f) == f = [i \in 0 .. n |->
                                IF i = 0 THEN <<>>
                                ELSE IF s[i] \in drop THEN f[i - 1] ELSE Append(f[i - 1], s[i])]
           kept == CHOOSE f : IsKept(f)
<1>1. n \in Nat
  OBVIOUS
<1>2. Without(s, drop) = kept[n]
  BY DEF Without
<1>3. PICK f : Keeps(f, n, s, drop)
  BY SomethingKeeps
<1> HIDE DEF n
<1>4. /\ f \in [0 .. n -> Seq(Lines)] /\ f[0] = <<>>
      /\ \A i \in 1 .. n : f[i] = IF s[i] \in drop THEN f[i - 1] ELSE Append(f[i - 1], s[i])
  BY <1>3 DEF Keeps
<1>5. IsKept(f)
  <2> DEFINE g == [i \in 0 .. n |-> IF i = 0 THEN <<>>
                                   ELSE IF s[i] \in drop THEN f[i - 1] ELSE Append(f[i - 1], s[i])]
  <2>1. \A i \in 0 .. n : f[i] = g[i]
    <3> SUFFICES ASSUME NEW i \in 0 .. n PROVE f[i] = g[i]
      OBVIOUS
    <3>1. CASE i = 0
      BY <1>4, <3>1
    <3>2. CASE i # 0
      <4>1. i \in 1 .. n
        BY <1>1, <3>2
      <4> QED
        BY <1>4, <3>2, <4>1
    <3> QED
      BY <3>1, <3>2
  <2>2. f = [i \in 0 .. n |-> f[i]] /\ g = [i \in 0 .. n |-> g[i]]
    BY <1>4
  <2> HIDE DEF g
  <2>3. f = g
    BY <2>1, <2>2
  <2> QED
    BY <2>3 DEF g
<1>6. IsKept(kept)
  BY <1>5
<1> HIDE DEF kept
<1>7. /\ kept[0] = <<>>
      /\ \A i \in 1 .. n : kept[i] = IF s[i] \in drop THEN kept[i - 1] ELSE Append(kept[i - 1], s[i])
  <2>1. \A i \in 1 .. n : i \in 0 .. n /\ i # 0
    BY <1>1
  <2>2. 0 \in 0 .. n
    BY <1>1
  <2>3. \A i \in 0 .. n : kept[i] = IF i = 0 THEN <<>> ELSE IF s[i] \in drop THEN kept[i - 1]
                                    ELSE Append(kept[i - 1], s[i])
    BY <1>6
  <2> HIDE DEF IsKept
  <2> QED
    BY <2>1, <2>2, <2>3
<1> HIDE DEF IsKept
<1> DEFINE T == {i \in 0 .. n : kept[i] = f[i]}
<1>8. 0 \in T
  BY <1>1, <1>4, <1>7
<1>9. ASSUME NEW i \in 1 .. n, i - 1 \in T PROVE i \in T
  <2>1. kept[i - 1] = f[i - 1] /\ i \in 0 .. n
    BY <1>1, <1>9
  <2> QED
    BY <1>4, <1>7, <2>1
<1> HIDE DEF T
<1>10. n \in T
  <2>1. \A i \in 0 .. n : i \in T
    BY <1>1, <1>8, <1>9, UpTo
  <2> QED
    BY <1>1, <2>1
<1> QED
  BY <1>2, <1>3, <1>10 DEF T, n

LEMMA WithoutNothing ==
    ASSUME NEW drop
    PROVE  Without(<<>>, drop) = <<>>
<1>1. <<>> \in Seq(Lines) /\ Len(<<>>) = 0
  OBVIOUS
<1>2. PICK f : Keeps(f, 0, <<>>, drop) /\ Without(<<>>, drop) = f[0]
  BY <1>1, WithoutKeeps
<1> QED
  BY <1>2 DEF Keeps

\* A line after a sequence is dropped, or follows what is left of it.
LEMMA WithoutOneMore ==
    ASSUME NEW s \in Seq(Lines), NEW k \in Lines, NEW drop
    PROVE  /\ Without(s, drop) \in Seq(Lines)
           /\ Without(Append(s, k), drop) =
                IF k \in drop THEN Without(s, drop) ELSE Append(Without(s, drop), k)
<1> DEFINE n == Len(s)
           t == Append(s, k)
<1>1. /\ n \in Nat /\ t \in Seq(Lines) /\ Len(t) = n + 1 /\ t[n + 1] = k
      /\ \A i \in 1 .. n : t[i] = s[i]
  BY AppendProperties
<1>2. PICK f : Keeps(f, n, s, drop) /\ Without(s, drop) = f[n]
  BY WithoutKeeps
<1>3. PICK g : Keeps(g, n + 1, t, drop) /\ Without(t, drop) = g[n + 1]
  <2>1. \E g : Keeps(g, Len(t), t, drop) /\ Without(t, drop) = g[Len(t)]
    <3>1. t \in Seq(Lines)
      BY <1>1
    <3> HIDE DEF t
    <3> QED
      BY <3>1, WithoutKeeps
  <2> QED
    BY <1>1, <2>1
<1> HIDE DEF n, t
<1>4. /\ f \in [0 .. n -> Seq(Lines)] /\ f[0] = <<>>
      /\ \A i \in 1 .. n : f[i] = IF s[i] \in drop THEN f[i - 1] ELSE Append(f[i - 1], s[i])
  BY <1>2 DEF Keeps
<1>5. /\ g[0] = <<>>
      /\ \A i \in 1 .. n + 1 : g[i] = IF t[i] \in drop THEN g[i - 1] ELSE Append(g[i - 1], t[i])
  BY <1>3 DEF Keeps
<1> DEFINE T == {i \in 0 .. n : f[i] = g[i]}
<1>6. 0 \in T
  BY <1>1, <1>4, <1>5
<1>7. ASSUME NEW i \in 1 .. n, i - 1 \in T PROVE i \in T
  <2>1. i \in 1 .. n + 1 /\ i \in 0 .. n
    BY <1>1
  <2> QED
    BY <1>1, <1>4, <1>5, <1>7, <2>1
<1> HIDE DEF T
<1>8. n \in 0 .. n /\ n \in T
  <2>1. \A i \in 0 .. n : i \in T
    BY <1>1, <1>6, <1>7, UpTo
  <2> QED
    BY <1>1, <2>1
<1>9. f[n] = g[n] /\ f[n] \in Seq(Lines)
  BY <1>4, <1>8 DEF T
<1>10. n + 1 \in 1 .. n + 1 /\ (n + 1) - 1 = n
  BY <1>1
<1>11. g[n + 1] = IF k \in drop THEN g[n] ELSE Append(g[n], k)
  BY <1>1, <1>5, <1>10
<1> QED
  BY <1>2, <1>3, <1>9, <1>11 DEF t

----------------------------------------------------------------------------
(* What is captured of a stream *)

\* A client that was there throughout got what the provider streamed, and one that has
\* left a beginning of it; what it streamed is captured either way.
Agree(up, col, body, con, run) ==
    /\ col = Without(up, {"noise", "alien"})
    /\ IsPrefix(Without(body, {"errorEvent"}), up)
    /\ con => Without(body, {"errorEvent", "noise"}) = col
    /\ con /\ run => Without(body, {"errorEvent"}) = up

Captured == Agree(upstream, collected, client.body, connected, pc # "done")

LEMMA PrefixGrows ==
    ASSUME NEW s \in Seq(Lines), NEW t \in Seq(Lines), NEW k \in Lines
    PROVE  /\ IsPrefix(t, t)
           /\ IsPrefix(s, t) => IsPrefix(s, Append(t, k))
<1>1. IsPrefix(t, t)
  BY DEF IsPrefix
<1>2. ASSUME IsPrefix(s, t) PROVE IsPrefix(s, Append(t, k))
  <2>1. Len(s) <= Len(t) /\ SubSeq(s, 1, Len(s)) = SubSeq(t, 1, Len(s))
    BY <1>2 DEF IsPrefix
  <2>2. /\ Len(Append(t, k)) = Len(t) + 1 /\ Len(t) \in Nat /\ Len(s) \in Nat
        /\ \A i \in 1 .. Len(t) : Append(t, k)[i] = t[i]
    BY AppendProperties
  <2>3. SubSeq(Append(t, k), 1, Len(s)) = SubSeq(t, 1, Len(s))
    BY <2>1, <2>2
  <2> QED
    BY <2>1, <2>2, <2>3 DEF IsPrefix
<1> QED
  BY <1>1, <1>2

\* A chunk that is relayed, and captured if it is JSON.
LEMMA AgreeChunk ==
    ASSUME NEW up \in Seq(Chunks), NEW col, NEW body \in Seq(Lines),
           NEW con \in BOOLEAN, NEW run \in BOOLEAN, run,
           Agree(up, col, body, con, run), NEW k \in Chunks, k # "alien"
    PROVE  Agree(Append(up, k), IF IsParsed(k) THEN Append(col, k) ELSE col,
                 IF con THEN Append(body, k) ELSE body, con, run)
<1> DEFINE up2 == Append(up, k)
           col2 == IF IsParsed(k) THEN Append(col, k) ELSE col
           body2 == IF con THEN Append(body, k) ELSE body
<1>1. k \in Lines /\ k # "errorEvent" /\ up \in Seq(Lines)
  BY DEF Lines, Chunks
<1>2. /\ col = Without(up, {"noise", "alien"})
      /\ IsPrefix(Without(body, {"errorEvent"}), up)
      /\ con => Without(body, {"errorEvent", "noise"}) = col
      /\ con => Without(body, {"errorEvent"}) = up
  BY DEF Agree
<1>3. Without(up2, {"noise", "alien"}) =
         IF k \in {"noise", "alien"} THEN Without(up, {"noise", "alien"})
         ELSE Append(Without(up, {"noise", "alien"}), k)
  <2> DEFINE drop == {"noise", "alien"}
  <2> HIDE DEF drop
  <2>1. Without(Append(up, k), drop) =
           IF k \in drop THEN Without(up, drop) ELSE Append(Without(up, drop), k)
    BY <1>1, WithoutOneMore
  <2> QED
    BY <2>1 DEF drop
<1>4. /\ Without(Append(body, k), {"errorEvent"}) =
           IF k \in {"errorEvent"} THEN Without(body, {"errorEvent"})
           ELSE Append(Without(body, {"errorEvent"}), k)
      /\ Without(body, {"errorEvent"}) \in Seq(Lines)
  BY <1>1, WithoutOneMore
<1>5. Without(Append(body, k), {"errorEvent", "noise"}) =
         IF k \in {"errorEvent", "noise"} THEN Without(body, {"errorEvent", "noise"})
         ELSE Append(Without(body, {"errorEvent", "noise"}), k)
  <2> DEFINE drop == {"errorEvent", "noise"}
  <2> HIDE DEF drop
  <2>1. Without(Append(body, k), drop) =
           IF k \in drop THEN Without(body, drop) ELSE Append(Without(body, drop), k)
    BY <1>1, WithoutOneMore
  <2> QED
    BY <2>1 DEF drop
<1>6. col2 = Without(up2, {"noise", "alien"})
  BY <1>2, <1>3 DEF IsParsed
<1>7. IsPrefix(up2, up2) /\ (~ con => IsPrefix(Without(body, {"errorEvent"}), up2))
  <2>1. up2 \in Seq(Lines)
    BY <1>1
  <2>2. IsPrefix(up2, up2)
    BY <1>1, <2>1, PrefixGrows
  <2>3. IsPrefix(Without(body, {"errorEvent"}), up2)
    BY <1>1, <1>2, <1>4, PrefixGrows
  <2> QED
    BY <2>2, <2>3
<1>8. CASE con
  <2>1. body2 = Append(body, k)
    BY <1>8
  <2>2. Without(body2, {"errorEvent"}) = up2
    BY <1>1, <1>2, <1>4, <1>8, <2>1
  <2>3. Without(body2, {"errorEvent", "noise"}) = col2
    BY <1>1, <1>2, <1>5, <1>8, <2>1 DEF IsParsed
  <2> HIDE DEF up2, col2, body2
  <2>4. Agree(up2, col2, body2, con, run)
    BY <1>6, <1>7, <2>2, <2>3 DEF Agree
  <2> QED
    BY <2>4 DEF up2, col2, body2
<1>9. CASE ~ con
  <2>1. body2 = body
    BY <1>9
  <2> HIDE DEF up2, col2, body2
  <2>2. Agree(up2, col2, body2, con, run)
    BY <1>6, <1>7, <1>9, <2>1 DEF Agree
  <2> QED
    BY <2>2 DEF up2, col2, body2
<1> QED
  BY <1>8, <1>9

\* The error event of a stream that breaks off.
LEMMA AgreeError ==
    ASSUME NEW up, NEW col, NEW body \in Seq(Lines), NEW con \in BOOLEAN,
           NEW run \in BOOLEAN, NEW over \in BOOLEAN, ~ over,
           Agree(up, col, body, con, run)
    PROVE  Agree(up, col, IF con THEN Append(body, "errorEvent") ELSE body, con, over)
<1>1. "errorEvent" \in Lines
  BY DEF Lines
<1>2. Without(Append(body, "errorEvent"), {"errorEvent"}) =
         IF "errorEvent" \in {"errorEvent"} THEN Without(body, {"errorEvent"})
         ELSE Append(Without(body, {"errorEvent"}), "errorEvent")
  BY <1>1, WithoutOneMore
<1>3. Without(Append(body, "errorEvent"), {"errorEvent", "noise"}) =
         IF "errorEvent" \in {"errorEvent", "noise"} THEN Without(body, {"errorEvent", "noise"})
         ELSE Append(Without(body, {"errorEvent", "noise"}), "errorEvent")
  BY <1>1, WithoutOneMore
<1>4. CASE con
  BY <1>2, <1>3, <1>4 DEF Agree
<1>5. CASE ~ con
  BY <1>5 DEF Agree
<1> QED
  BY <1>4, <1>5

\* An alien chunk is neither relayed nor captured.
LEMMA AgreeAlien ==
    ASSUME NEW up \in Seq(Chunks), NEW col, NEW body \in Seq(Lines),
           NEW con \in BOOLEAN, NEW run \in BOOLEAN, NEW over \in BOOLEAN, ~ over,
           Agree(up, col, body, con, run)
    PROVE  Agree(Append(up, "alien"), col, body, con, over)
<1>1. "alien" \in Lines /\ up \in Seq(Lines)
  BY DEF Lines, Chunks
<1>2. Without(Append(up, "alien"), {"noise", "alien"}) =
         IF "alien" \in {"noise", "alien"} THEN Without(up, {"noise", "alien"})
         ELSE Append(Without(up, {"noise", "alien"}), "alien")
  BY <1>1, WithoutOneMore
<1>3. Without(body, {"errorEvent"}) \in Seq(Lines)
  BY <1>1, WithoutOneMore
<1>4. IsPrefix(Without(body, {"errorEvent"}), up)
  BY DEF Agree
<1>5. IsPrefix(Without(body, {"errorEvent"}), Append(up, "alien"))
  BY <1>1, <1>3, <1>4, PrefixGrows
<1> QED
  BY <1>2, <1>5 DEF Agree

\* A client that leaves and a stream that ends promise less.
LEMMA AgreeLess ==
    ASSUME NEW up, NEW col, NEW body, NEW con, NEW run, NEW con2, NEW run2,
           Agree(up, col, body, con, run), con2 => con, run2 => run
    PROVE  Agree(up, col, body, con2, run2)
  BY DEF Agree

LEMMA InitCaptured == Init => Captured
<1> SUFFICES ASSUME Init PROVE Captured
  OBVIOUS
<1>1. upstream = <<>> /\ collected = <<>> /\ client.body = <<>>
  BY DEF Init
<1>2. \A drop : Without(<<>>, drop) = <<>>
  BY WithoutNothing
<1>3. IsPrefix(<<>>, <<>>)
  BY DEF IsPrefix
<1> QED
  BY <1>1, <1>2, <1>3 DEF Captured, Agree

\* How the body the client got changes with the end of a stream.
LEMMA FinishedBody ==
    ASSUME client \in ClientType, NEW status, NEW error, NEW chunks, NEW body,
           FinishStream(status, error, chunks, body)
    PROVE  /\ pc' = "done" /\ collected' = chunks
           /\ client'.body = IF connected THEN body ELSE client.body
<1>1. \A e : [client EXCEPT !.body = body, !.ended = e].body = body
  BY DEF ClientType
<1> QED
  BY <1>1 DEF FinishStream, Told

\* A response sent whole leaves the body of a stream alone.
LEMMA RespondedBody ==
    ASSUME client \in ClientType, NEW status, NEW body, NEW error,
           Respond(status, body, error)
    PROVE  pc' = "done" /\ client'.body = client.body
<1>1. \A s : [client EXCEPT !.status = s, !.ended = "clean"].body = client.body
  BY DEF ClientType
<1> QED
  BY <1>1 DEF Respond, Told

LEMMA StepCaptured == TypeOK /\ Captured /\ [Next]_vars => Captured'
<1> SUFFICES ASSUME TypeOK, Captured, [Next]_vars PROVE Captured'
  OBVIOUS
<1>a. /\ connected \in BOOLEAN /\ upstream \in Seq(Chunks) /\ client \in ClientType
      /\ client.body \in Seq(Lines)
  BY DEF TypeOK, ClientType, Lines
<1>b. Agree(upstream, collected, client.body, connected, pc # "done")
  BY DEF Captured
<1>1. ASSUME UNCHANGED <<upstream, collected>>, client'.body = client.body,
             connected' => connected, pc' # "done" => pc # "done"
      PROVE  Captured'
  BY <1>b, <1>1 DEF Captured, Agree
<1>2. ASSUME NEW s \in Rejections, Reject(s) PROVE Captured'
  <2>1. client'.body = client.body
    BY <1>a, <1>2 DEF Reject, Told, ClientType
  <2> QED
    BY <1>1, <1>2, <2>1 DEF Reject
<1>3. ASSUME Send PROVE Captured'
  BY <1>1, <1>3 DEF Send
<1>4. ASSUME SendRaises PROVE Captured'
  <2>1. client'.body = client.body
    BY <1>a, <1>4 DEF SendRaises, Told, ClientType
  <2> QED
    BY <1>1, <1>4, <2>1 DEF SendRaises
<1>5. ASSUME NEW s \in {502, 504}, TransportFails(s) \/ ErrorBodyFails(s) PROVE Captured'
  <2>1. Respond(s, "object", TRUE) /\ UNCHANGED <<connected, upstream, collected>>
    BY <1>5 DEF TransportFails, ErrorBodyFails
  <2>2. pc' = "done" /\ client'.body = client.body
    <3>1. \E status, body, error : Respond(status, body, error)
      BY <2>1
    <3> QED
      BY <1>a, <3>1, RespondedBody
  <2> QED
    BY <1>1, <2>1, <2>2
<1>6. ASSUME NEW b \in Bodies, NEW s \in {200, Refused}, PlainAnswer(s, b) PROVE Captured'
  <2>1. Respond(s, b, s = Refused) /\ UNCHANGED <<connected, upstream, collected>>
    BY <1>6 DEF PlainAnswer
  <2>2. pc' = "done" /\ client'.body = client.body
    <3>1. \E status, body, error : Respond(status, body, error)
      BY <2>1
    <3> QED
      BY <1>a, <3>1, RespondedBody
  <2> QED
    BY <1>1, <2>1, <2>2
<1>7. ASSUME NEW b \in Bodies, ErrorBodyRead(b) PROVE Captured'
  <2>1. Respond(Refused, b, TRUE) /\ UNCHANGED <<connected, upstream, collected>>
    BY <1>7 DEF ErrorBodyRead
  <2>2. pc' = "done" /\ client'.body = client.body
    <3>1. \E status, body, error : Respond(status, body, error)
      BY <2>1
    <3> QED
      BY <1>a, <3>1, RespondedBody
  <2> QED
    BY <1>1, <2>1, <2>2
<1>8. ASSUME ErrorAnswer PROVE Captured'
  BY <1>1, <1>8 DEF ErrorAnswer
<1>9. ASSUME StreamOpens PROVE Captured'
  <2>1. client'.body = client.body
    BY <1>a, <1>9 DEF StreamOpens, Told, ClientType
  <2> QED
    BY <1>1, <1>9, <2>1 DEF StreamOpens
<1>10. ASSUME NEW k \in Chunks, RelayChunk(k) PROVE Captured'
  <2>1. /\ pc = "relay" /\ pc' = pc /\ k # "alien" /\ connected' = connected
        /\ upstream' = Append(upstream, k)
        /\ collected' = IF IsParsed(k) THEN Append(collected, k) ELSE collected
        /\ client' = Told([client EXCEPT !.body = Append(@, k)])
    BY <1>10 DEF RelayChunk, Arrives
  <2>2. client'.body = IF connected THEN Append(client.body, k) ELSE client.body
    BY <1>a, <2>1 DEF Told, ClientType
  <2>3. pc # "done" /\ (pc # "done") \in BOOLEAN
    BY <2>1
  <2>4. Agree(Append(upstream, k), IF IsParsed(k) THEN Append(collected, k) ELSE collected,
              IF connected THEN Append(client.body, k) ELSE client.body, connected, pc # "done")
    BY <1>a, <1>b, <2>1, <2>3, AgreeChunk
  <2> QED
    BY <2>1, <2>2, <2>4 DEF Captured
<1>11. ASSUME NEW k \in Chunks, RelayRaises(k) PROVE Captured'
  <2>1. /\ pc = "relay" /\ connected' = connected /\ upstream' = Append(upstream, k)
        /\ k \in {"alien", "broken"}
    BY <1>11 DEF RelayRaises, Arrives
  <2>2. /\ pc # "done" /\ (pc # "done") \in BOOLEAN /\ (pc' # "done") \in BOOLEAN
    BY <2>1
  <2>3. CASE k = "alien"
    <3>1. FinishStream(502, TRUE, collected, Append(client.body, "errorEvent"))
      BY <1>11, <2>3 DEF RelayRaises
    <3>2. /\ pc' = "done" /\ collected' = collected
          /\ client'.body = IF connected THEN Append(client.body, "errorEvent") ELSE client.body
      BY <1>a, <3>1, FinishedBody
    <3>3. ~ (pc' # "done")
      BY <3>2
    <3>4. Agree(Append(upstream, "alien"), collected, client.body, connected, pc' # "done")
      BY <1>a, <1>b, <2>2, <3>3, AgreeAlien
    <3>5. Agree(Append(upstream, "alien"), collected,
                IF connected THEN Append(client.body, "errorEvent") ELSE client.body,
                connected, pc' # "done")
      BY <1>a, <2>2, <3>3, <3>4, AgreeError
    <3> QED
      BY <2>1, <2>3, <3>2, <3>5 DEF Captured
  <2>4. CASE k = "broken"
    <3>1. FinishStream(502, TRUE, Append(collected, k), client.body \o <<k, "errorEvent">>)
      BY <1>11, <2>4 DEF RelayRaises
    <3>2. client.body \o <<k, "errorEvent">> = Append(Append(client.body, k), "errorEvent")
      <4>1. k \in Lines /\ "errorEvent" \in Lines
        BY DEF Lines
      <4> QED
        BY <1>a, <4>1
    <3>3. /\ pc' = "done" /\ collected' = Append(collected, k)
          /\ client'.body = IF connected THEN Append(Append(client.body, k), "errorEvent")
                            ELSE client.body
      <4> DEFINE all == client.body \o <<k, "errorEvent">>
      <4>1. FinishStream(502, TRUE, Append(collected, k), all)
        BY <3>1
      <4> HIDE DEF all
      <4>2. /\ pc' = "done" /\ collected' = Append(collected, k)
            /\ client'.body = IF connected THEN all ELSE client.body
        BY <1>a, <4>1, FinishedBody
      <4> QED
        BY <3>2, <4>2 DEF all
    <3> DEFINE body == IF connected THEN Append(client.body, k) ELSE client.body
    <3>4. k # "alien" /\ IsParsed(k)
      BY <2>4 DEF IsParsed
    <3>5. Agree(Append(upstream, k), IF IsParsed(k) THEN Append(collected, k) ELSE collected,
                body, connected, pc # "done")
      BY <1>a, <1>b, <2>2, <3>4, AgreeChunk
    <3>6. Agree(Append(upstream, k), Append(collected, k), body, connected, pc # "done")
      BY <3>4, <3>5
    <3>7. body \in Seq(Lines)
      BY <1>a DEF Lines
    <3>8. ~ (pc' # "done")
      BY <3>3
    <3>9. client'.body = IF connected THEN Append(body, "errorEvent") ELSE body
      BY <3>3
    <3> HIDE DEF body
    <3>10. Agree(Append(upstream, k), Append(collected, k),
                 IF connected THEN Append(body, "errorEvent") ELSE body,
                 connected, pc' # "done")
      BY <1>a, <2>2, <3>6, <3>7, <3>8, AgreeError
    <3> QED
      BY <2>1, <3>3, <3>9, <3>10 DEF Captured
  <2> QED
    BY <2>1, <2>3, <2>4
<1>12. ASSUME UpstreamEnds \/ Cancelled PROVE Captured'
  <2>1. /\ UNCHANGED <<connected, upstream>>
        /\ \E status, error : FinishStream(status, error, collected, client.body)
    BY <1>12 DEF UpstreamEnds, Cancelled
  <2>2. pc' = "done" /\ collected' = collected /\ client'.body = client.body
    BY <1>a, <2>1, FinishedBody
  <2> QED
    BY <1>1, <2>1, <2>2
<1>13. ASSUME NEW s \in {502, 504}, UpstreamFails(s) PROVE Captured'
  <2>1. /\ UNCHANGED <<connected, upstream>>
        /\ FinishStream(s, TRUE, collected, Append(client.body, "errorEvent"))
    BY <1>13 DEF UpstreamFails
  <2>2. /\ pc' = "done" /\ collected' = collected
        /\ client'.body = IF connected THEN Append(client.body, "errorEvent") ELSE client.body
    <3> DEFINE all == Append(client.body, "errorEvent")
    <3>1. \E error : FinishStream(s, error, collected, all)
      BY <2>1
    <3> HIDE DEF all
    <3>2. /\ pc' = "done" /\ collected' = collected
          /\ client'.body = IF connected THEN all ELSE client.body
      BY <1>a, <3>1, FinishedBody
    <3> QED
      BY <3>2 DEF all
  <2>3. ~ (pc' # "done") /\ (pc' # "done") \in BOOLEAN /\ (pc # "done") \in BOOLEAN
    BY <2>2
  <2>4. Agree(upstream, collected,
              IF connected THEN Append(client.body, "errorEvent") ELSE client.body,
              connected, pc' # "done")
    <3> DEFINE run == pc # "done"
               over == pc' # "done"
    <3>1. /\ run \in BOOLEAN /\ over \in BOOLEAN /\ ~ over
          /\ Agree(upstream, collected, client.body, connected, run)
      BY <1>b, <2>3
    <3> HIDE DEF run, over
    <3>2. Agree(upstream, collected,
                IF connected THEN Append(client.body, "errorEvent") ELSE client.body,
                connected, over)
      BY <1>a, <3>1, AgreeError
    <3> QED
      BY <3>2 DEF over
  <2> QED
    BY <2>1, <2>2, <2>4 DEF Captured
<1>14. ASSUME BodyFinalized \/ Disconnect \/ UNCHANGED vars PROVE Captured'
  BY <1>1, <1>14 DEF BodyFinalized, Disconnect, vars
<1> QED
  BY <1>2, <1>3, <1>4, <1>5, <1>6, <1>7, <1>8, <1>9, <1>10, <1>11, <1>12, <1>13, <1>14
     DEF Next, Handle, Provider

----------------------------------------------------------------------------
(* Theorems *)

THEOREM Inductive == Spec => []IInv
<1> QED
  BY InitIInv, StepIInv, PTL DEF Spec

\* Type correctness: what the client is told and what is logged have a status of the
\* service's, and a stream has MaxChunks chunks at most.
THEOREM TypeCorrect == Spec => []TypeOK
<1>1. IInv => TypeOK
  BY DEF IInv
<1> QED
  BY <1>1, Inductive, PTL

\* A request that reached its provider has exactly one entry when it is over, however
\* it ended, unless the entry cannot be built; it never has two.
THEOREM LoggedCorrect == Spec => []LoggedOnce
<1>1. IInv => LoggedOnce
  BY DEF IInv
<1> QED
  BY <1>1, Inductive, PTL

\* What is logged as a success was answered or streamed to its end with status 200, and
\* a stream that the client saw fail is logged as an error.
THEOREM LogTellsCorrect == Spec => []LogTellsHowItEnded
<1>1. IInv => LogTellsHowItEnded
  BY DEF IInv
<1> QED
  BY <1>1, Inductive, PTL

\* What relay_stream_chunks captures is what the client got for as long as it is there,
\* and all that the provider streamed after it left; the client got a beginning of the
\* stream without a gap.
THEOREM CaptureCorrect == Spec => []CaptureMatchesDelivery
<1>1. Spec => []Captured
  <2>1. IInv => TypeOK
    BY DEF IInv
  <2> QED
    BY <2>1, Inductive, InitCaptured, StepCaptured, PTL DEF Spec
<1>2. Captured => CaptureMatchesDelivery
  BY DEF Captured, Agree, CaptureMatchesDelivery
<1> QED
  BY <1>1, <1>2, PTL

=============================================================================
