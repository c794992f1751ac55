------------------------- MODULE LogPipelineProofs -------------------------
(* Theorems about LogPipeline, for any entries, providers and sizes.        *)
EXTENDS LogPipeline, SequenceTheorems, FiniteSetTheorems, TLAPS

\* How many accepted entries the flush task has finished with, and which.
Settled == Len(history) - Len(batch) - Len(queue)
GoneSet == {history[i] : i \in 1 .. Settled}

\* The batch and the queue are the rest of the history, in order.
Layout ==
    /\ Settled >= 0
    /\ \A i \in 1 .. Len(batch) : batch[i] = history[Settled + i]
    /\ \A i \in 1 .. Len(queue) : queue[i] = history[Settled + Len(batch) + i]

\* What is known of the entries behind, in and before the batch.  A batch may hold
\* stored entries: those of a commit that a cancellation interrupted.
Outcomes ==
    /\ GoneSet \subseteq stored \cup lost
    /\ lost \subseteq GoneSet \ stored
    /\ stored \subseteq GoneSet \cup Range(batch)
    /\ dropped \cap Range(history) = {}

\* Where the flush task is, and what it holds there.
Control ==
    /\ pc = "get" => batch = <<>> /\ ~final
    /\ pc = "done" => batch = <<>> /\ final
    /\ final => queue = <<>>
    /\ ~final => Len(batch) <= BatchSize

\* While the service runs, nothing in the batch is stored; and unless the database
\* failed or refused an entry, nothing is lost and a cached id is that of a row.
Clean ==
    ~final =>
        /\ stored \subseteq GoneSet
        /\ ~faulty /\ lost \cap Unstorable = {} =>
              /\ lost = {}
              /\ \A p \in Providers : cache[p] = "id" => p \in rows \cup newRows

IInv == TypeOK /\ IsInjective(history) /\ Layout /\ Outcomes /\ Control /\ Clean

----------------------------------------------------------------------------
(* The three sequences.                                                      *)

LEMMA Sizes ==
    ASSUME TypeOK
    PROVE  /\ Len(history) \in Nat /\ DOMAIN history = 1 .. Len(history)
           /\ Len(batch) \in Nat /\ DOMAIN batch = 1 .. Len(batch)
           /\ Len(queue) \in Nat /\ DOMAIN queue = 1 .. Len(queue)
           /\ Settled \in Int
           /\ Range(history) \subseteq Entries /\ Range(batch) \subseteq Entries
           /\ Range(queue) \subseteq Entries
  BY DEF TypeOK, Settled, Range

\* Every accepted entry is behind the batch, in it or on the queue, and in one of
\* them only.
LEMMA Parts ==
    ASSUME TypeOK, IsInjective(history), Layout
    PROVE  /\ GoneSet \cap Range(batch) = {}
           /\ GoneSet \cap Range(queue) = {}
           /\ Range(batch) \cap Range(queue) = {}
           /\ Range(history) = GoneSet \cup Range(batch) \cup Range(queue)
<1> DEFINE n == Settled
           b == Len(batch)
           q == Len(queue)
           h == Len(history)
<1>1. n \in Nat /\ b \in Nat /\ q \in Nat /\ h = n + b + q
  BY Sizes DEF Settled, Layout
<1>2. DOMAIN history = 1 .. h /\ DOMAIN batch = 1 .. b /\ DOMAIN queue = 1 .. q
  BY Sizes
<1>3. /\ \A i \in 1 .. b : batch[i] = history[n + i]
      /\ \A i \in 1 .. q : queue[i] = history[n + b + i]
  BY DEF Layout
<1>4. GoneSet = {history[i] : i \in 1 .. n}
  BY DEF GoneSet
<1>5. \A i, j \in 1 .. h : history[i] = history[j] => i = j
  BY <1>2 DEF IsInjective
<1> HIDE DEF n, b, q, h
<1>6. Range(batch) = {history[i] : i \in n + 1 .. n + b}
  <2>1. \A i \in 1 .. b : n + i \in n + 1 .. n + b
    BY <1>1
  <2>2. \A i \in n + 1 .. n + b : i - n \in 1 .. b /\ batch[i - n] = history[i]
    BY <1>1, <1>3
  <2> QED
    BY <1>2, <1>3, <2>1, <2>2 DEF Range
<1>7. Range(queue) = {history[i] : i \in n + b + 1 .. h}
  <2>1. \A i \in 1 .. q : n + b + i \in n + b + 1 .. h
    BY <1>1
  <2>2. \A i \in n + b + 1 .. h : i - (n + b) \in 1 .. q /\ queue[i - (n + b)] = history[i]
    BY <1>1, <1>3
  <2> QED
    BY <1>2, <1>3, <2>1, <2>2 DEF Range
<1>8. Range(history) = {history[i] : i \in 1 .. h}
  BY <1>2 DEF Range
<1>9. 1 .. n \subseteq 1 .. h /\ n + 1 .. n + b \subseteq 1 .. h /\ n + b + 1 .. h \subseteq 1 .. h
  BY <1>1
<1>10. \A i \in 1 .. h : i \in 1 .. n \/ i \in n + 1 .. n + b \/ i \in n + b + 1 .. h
  BY <1>1
<1>11. /\ 1 .. n \cap n + 1 .. n + b = {} /\ 1 .. n \cap n + b + 1 .. h = {}
       /\ n + 1 .. n + b \cap n + b + 1 .. h = {}
  BY <1>1
<1>12. GoneSet \cap Range(batch) = {}
  BY <1>4, <1>5, <1>6, <1>9, <1>11
<1>13. GoneSet \cap Range(queue) = {}
  BY <1>4, <1>5, <1>7, <1>9, <1>11
<1>14. Range(batch) \cap Range(queue) = {}
  BY <1>5, <1>6, <1>7, <1>9, <1>11
<1>15. Range(history) = GoneSet \cup Range(batch) \cup Range(queue)
  BY <1>4, <1>6, <1>7, <1>8, <1>9, <1>10
<1> QED
  BY <1>12, <1>13, <1>14, <1>15

\* A step that moves no entry.
LEMMA Frame ==
    ASSUME UNCHANGED <<queue, batch, history>>, Layout
    PROVE  Layout' /\ GoneSet' = GoneSet /\ Range(batch)' = Range(batch)
           /\ Range(queue)' = Range(queue) /\ Range(history)' = Range(history)
  BY DEF Layout, GoneSet, Settled, Range

\* An entry is appended to the queue.
LEMMA Appended ==
    ASSUME TypeOK, IsInjective(history), Layout, NEW e \in Entries, e \notin Range(history),
           queue' = Append(queue, e), history' = Append(history, e), batch' = batch
    PROVE  /\ queue' \in Seq(Entries) /\ Len(queue') = Len(queue) + 1
           /\ history' \in Seq(Entries)
           /\ IsInjective(history)' /\ Layout' /\ GoneSet' = GoneSet
           /\ Range(history)' = Range(history) \cup {e}
<1>1. /\ queue' \in Seq(Entries) /\ Len(queue') = Len(queue) + 1
      /\ \A i \in 1 .. Len(queue) : queue'[i] = queue[i]
      /\ queue'[Len(queue) + 1] = e
  BY AppendProperties DEF TypeOK
<1>2. /\ history' \in Seq(Entries) /\ Len(history') = Len(history) + 1
      /\ \A i \in 1 .. Len(history) : history'[i] = history[i]
      /\ history'[Len(history) + 1] = e
  BY AppendProperties DEF TypeOK
<1>3. Settled' = Settled /\ Settled \in Nat
  BY <1>1, <1>2, Sizes DEF Settled, Layout
<1>4. Len(history) = Settled + Len(batch) + Len(queue) /\ Len(batch) \in Nat /\ Len(queue) \in Nat
      /\ Len(history) \in Nat /\ DOMAIN history = 1 .. Len(history)
  BY Sizes DEF Settled
<1>5. \A i \in DOMAIN history : history[i] # e
  BY DEF Range
<1>6. DOMAIN history' = 1 .. Len(history) + 1
  BY <1>2, <1>4
<1>7. IsInjective(history)'
  <2>1. \A i, j \in 1 .. Len(history) : history[i] = history[j] => i = j
    BY <1>4 DEF IsInjective
  <2>2. \A i \in 1 .. Len(history) + 1 : i \in 1 .. Len(history) \/ i = Len(history) + 1
    BY <1>4
  <2>3. ASSUME NEW i \in 1 .. Len(history) + 1, NEW j \in 1 .. Len(history) + 1, history'[i] = history'[j]
        PROVE  i = j
    BY <1>2, <1>4, <1>5, <2>1, <2>2, <2>3
  <2> QED
    BY <1>6, <2>3 DEF IsInjective
<1>8. GoneSet' = GoneSet
  <2>1. \A i \in 1 .. Settled : i \in 1 .. Len(history)
    BY <1>3, <1>4
  <2> QED
    BY <1>2, <1>3, <2>1 DEF GoneSet
<1>9. Layout'
  <2>1. \A i \in 1 .. Len(batch) : batch[i] = history'[Settled + i]
    <3> SUFFICES ASSUME NEW i \in 1 .. Len(batch) PROVE batch[i] = history'[Settled + i]
      OBVIOUS
    <3>1. Settled + i \in 1 .. Len(history)
      BY <1>3, <1>4
    <3> QED
      BY <1>2, <3>1 DEF Layout
  <2>2. \A i \in 1 .. Len(queue) + 1 : queue'[i] = history'[Settled + Len(batch) + i]
    <3> SUFFICES ASSUME NEW i \in 1 .. Len(queue) + 1
                 PROVE  queue'[i] = history'[Settled + Len(batch) + i]
      OBVIOUS
    <3>1. CASE i \in 1 .. Len(queue)
      <4>1. Settled + Len(batch) + i \in 1 .. Len(history)
        BY <1>3, <1>4, <3>1
      <4>2. history'[Settled + Len(batch) + i] = history[Settled + Len(batch) + i]
        BY <1>2, <4>1
      <4>3. queue[i] = history[Settled + Len(batch) + i]
        BY <3>1 DEF Layout
      <4>4. queue'[i] = queue[i]
        BY <1>1, <3>1
      <4> QED
        BY <4>2, <4>3, <4>4
    <3>2. CASE i = Len(queue) + 1
      <4>1. Settled + Len(batch) + i = Len(history) + 1
        BY <1>3, <1>4, <3>2
      <4> QED
        BY <1>1, <1>2, <3>2, <4>1
    <3>3. i \in 1 .. Len(queue) \/ i = Len(queue) + 1
      BY <1>4
    <3> QED
      BY <3>1, <3>2, <3>3
  <2> QED
    BY <1>1, <1>3, <2>1, <2>2 DEF Layout
<1>10. Range(history)' = Range(history) \cup {e}
  <2>1. \A i \in 1 .. Len(history) + 1 : i \in 1 .. Len(history) \/ i = Len(history) + 1
    BY <1>4
  <2>2. \A i \in 1 .. Len(history) : i \in 1 .. Len(history) + 1
    BY <1>4
  <2>3. Len(history) + 1 \in 1 .. Len(history) + 1
    BY <1>4
  <2> QED
    BY <1>2, <1>4, <1>6, <2>1, <2>2, <2>3 DEF Range
<1> QED
  BY <1>1, <1>2, <1>7, <1>8, <1>9, <1>10

\* A batch is taken off the front of the queue.
LEMMA Collected ==
    ASSUME TypeOK, IsInjective(history), Layout, batch = <<>>, Collect
    PROVE  /\ queue' \in Seq(Entries) /\ Len(queue') <= Len(queue)
           /\ batch' \in Seq(Entries) /\ Len(batch') <= BatchSize
           /\ Layout' /\ GoneSet' = GoneSet
<1> DEFINE k == TakenNow
           q == Len(queue)
<1>1. queue \in Seq(Entries) /\ q \in Nat /\ BatchSize \in Nat
  BY SizeAssumption DEF TypeOK
<1>2. k \in Nat /\ k <= q /\ k <= BatchSize
  BY <1>1 DEF TakenNow
<1>3. batch' = SubSeq(queue, 1, k) /\ queue' = SubSeq(queue, k + 1, q) /\ history' = history
  BY DEF Collect
<1>4. \A i \in 1 .. q : queue[i] \in Entries
  BY <1>1
<1> HIDE DEF k, q
<1>5. batch' \in Seq(Entries) /\ Len(batch') = k /\ \A i \in 1 .. k : batch'[i] = queue[i]
  <2>1. \A i \in 1 .. k : queue[i] \in Entries
    BY <1>1, <1>2, <1>4
  <2>2. /\ SubSeq(queue, 1, k) \in Seq(Entries)
        /\ Len(SubSeq(queue, 1, k)) = IF 1 <= k THEN k - 1 + 1 ELSE 0
        /\ \A i \in 1 .. k - 1 + 1 : SubSeq(queue, 1, k)[i] = queue[1 + i - 1]
    BY <1>2, <2>1, SubSeqProperties
  <2> QED
    BY <1>2, <1>3, <2>2
<1>6. /\ queue' \in Seq(Entries) /\ Len(queue') = q - k
      /\ \A i \in 1 .. q - k : queue'[i] = queue[k + i]
  <2>1. \A i \in k + 1 .. q : queue[i] \in Entries
    BY <1>1, <1>2, <1>4
  <2>2. /\ SubSeq(queue, k + 1, q) \in Seq(Entries)
        /\ Len(SubSeq(queue, k + 1, q)) = IF k + 1 <= q THEN q - (k + 1) + 1 ELSE 0
        /\ \A i \in 1 .. q - (k + 1) + 1 : SubSeq(queue, k + 1, q)[i] = queue[k + 1 + i - 1]
    BY <1>1, <1>2, <2>1, SubSeqProperties
  <2> QED
    BY <1>1, <1>2, <1>3, <2>2
<1>7. Len(history) \in Nat /\ Len(batch) = 0 /\ Settled = Len(history) - q /\ Settled \in Nat
  BY <1>1, Sizes DEF Settled, Layout, q
<1>8. Settled' = Settled
  <2>1. Len(history') = Len(history) /\ Len(batch') = k /\ Len(queue') = q - k
    BY <1>3, <1>5, <1>6
  <2>2. Settled' = Len(history) - k - (q - k)
    BY <2>1 DEF Settled
  <2> QED
    BY <1>1, <1>2, <1>7, <2>2
<1>9. \A i \in 1 .. q : queue[i] = history[Settled + i]
  <2>1. Settled + Len(batch) = Settled
    BY <1>7
  <2> QED
    BY <2>1 DEF Layout, q
<1>10. \A i \in 1 .. q - k : queue'[i] = history[Settled + k + i]
  <2> SUFFICES ASSUME NEW i \in 1 .. q - k PROVE queue'[i] = history[Settled + k + i]
    OBVIOUS
  <2>1. k + i \in 1 .. q /\ Settled + (k + i) = Settled + k + i
    BY <1>1, <1>2, <1>7
  <2> QED
    BY <1>6, <1>9, <2>1
<1>11. \A i \in 1 .. k : i \in 1 .. q
  BY <1>1, <1>2
<1>12. Layout'
  <2>1. \A i \in 1 .. Len(batch') : batch'[i] = history'[Settled' + i]
    BY <1>3, <1>5, <1>8, <1>9, <1>11
  <2>2. \A i \in 1 .. Len(queue') : queue'[i] = history'[Settled' + Len(batch') + i]
    <3>1. Len(queue') = q - k /\ Len(batch') = k /\ history' = history
      BY <1>3, <1>5, <1>6
    <3> QED
      BY <1>8, <1>10, <3>1
  <2> QED
    BY <1>7, <1>8, <2>1, <2>2 DEF Layout
<1>13. GoneSet' = GoneSet
  BY <1>3, <1>8 DEF GoneSet
<1>14. Len(queue') <= Len(queue) /\ Len(batch') <= BatchSize
  <2>1. q - k <= q
    BY <1>1, <1>2
  <2> QED
    BY <1>2, <1>5, <1>6, <2>1 DEF q
<1> QED
  BY <1>5, <1>6, <1>12, <1>13, <1>14

\* The batch is finished with.
LEMMA Finished ==
    ASSUME TypeOK, Layout, batch' = <<>>, UNCHANGED <<queue, history>>
    PROVE  Layout' /\ GoneSet' = GoneSet \cup Range(batch)
<1> DEFINE n == Settled
           b == Len(batch)
<1>1. n \in Nat /\ b \in Nat /\ Len(queue) \in Nat /\ Len(history) = n + b + Len(queue)
      /\ Len(batch') = 0
  BY Sizes DEF Settled, Layout
<1>2. /\ \A i \in 1 .. b : batch[i] = history[n + i]
      /\ \A i \in 1 .. Len(queue) : queue[i] = history[n + b + i]
  BY DEF Layout
<1>3. Settled' = n + b
  BY <1>1 DEF Settled
<1>4. DOMAIN batch = 1 .. b
  BY Sizes
<1>5. GoneSet = {history[i] : i \in 1 .. n} /\ GoneSet' = {history[i] : i \in 1 .. n + b}
  BY <1>3 DEF GoneSet
<1> HIDE DEF n, b
<1>6. Layout'
  <2>1. n + b + 0 = n + b
    BY <1>1
  <2>2. \A i \in 1 .. Len(queue) : queue[i] = history[n + b + 0 + i]
    BY <1>2, <2>1
  <2>3. Settled' \in Nat /\ 1 .. Len(batch') = {}
    BY <1>1, <1>3
  <2> QED
    BY <1>1, <1>3, <2>2, <2>3 DEF Layout
<1>7. GoneSet' = GoneSet \cup Range(batch)
  <2>1. \A i \in 1 .. b : n + i \in 1 .. n + b
    BY <1>1
  <2>2. ASSUME NEW i \in 1 .. n + b, i \notin 1 .. n
        PROVE  i - n \in 1 .. b /\ batch[i - n] = history[i]
    <3>1. i - n \in 1 .. b /\ n + (i - n) = i
      BY <1>1, <2>2
    <3> QED
      BY <1>2, <3>1
  <2>3. \A i \in 1 .. n : i \in 1 .. n + b
    BY <1>1
  <2> QED
    BY <1>2, <1>4, <1>5, <2>1, <2>2, <2>3 DEF Range
<1> QED
  BY <1>6, <1>7

\* The cancellation's handler takes what is left of the queue into the batch.
LEMMA Drained ==
    ASSUME TypeOK, Layout, batch' = batch \o queue, queue' = <<>>, history' = history
    PROVE  /\ batch' \in Seq(Entries)
           /\ Layout' /\ GoneSet' = GoneSet
           /\ Range(batch)' = Range(batch) \cup Range(queue)
<1> DEFINE n == Settled
           b == Len(batch)
           q == Len(queue)
<1>1. n \in Nat /\ b \in Nat /\ q \in Nat /\ Len(history) = n + b + q /\ Len(queue') = 0
      /\ DOMAIN batch = 1 .. b /\ DOMAIN queue = 1 .. q
  BY Sizes DEF Settled, Layout
<1>2. /\ batch' \in Seq(Entries) /\ Len(batch') = b + q
      /\ \A i \in 1 .. b + q : batch'[i] = IF i <= b THEN batch[i] ELSE queue[i - b]
  BY ConcatProperties DEF TypeOK
<1>3. /\ \A i \in 1 .. b : batch[i] = history[n + i]
      /\ \A i \in 1 .. q : queue[i] = history[n + b + i]
  BY DEF Layout
<1>4. Settled' = Settled /\ DOMAIN batch' = 1 .. b + q
  BY <1>1, <1>2 DEF Settled
<1>5. GoneSet' = GoneSet
  BY <1>4 DEF GoneSet
<1>6. ASSUME NEW i \in 1 .. b + q PROVE batch'[i] = history[n + i]
  <2>1. CASE i <= b
    BY <1>1, <1>2, <1>3, <2>1
  <2>2. CASE ~ (i <= b)
    <3>1. i - b \in 1 .. q /\ n + b + (i - b) = n + i
      BY <1>1, <2>2
    <3> QED
      BY <1>2, <1>3, <2>2, <3>1
  <2> QED
    BY <2>1, <2>2
<1>7. Layout'
  <2>1. 1 .. Len(queue') = {}
    BY <1>1
  <2> QED
    BY <1>1, <1>2, <1>4, <1>6, <2>1 DEF Layout
<1>8. Range(batch)' = Range(batch) \cup Range(queue)
  <2>1. \A i \in 1 .. b : i \in 1 .. b + q /\ batch'[i] = batch[i]
    BY <1>1, <1>2
  <2>2. \A i \in 1 .. q : b + i \in 1 .. b + q /\ batch'[b + i] = queue[i]
    <3> SUFFICES ASSUME NEW i \in 1 .. q PROVE b + i \in 1 .. b + q /\ batch'[b + i] = queue[i]
      OBVIOUS
    <3>1. b + i \in 1 .. b + q /\ ~ (b + i <= b) /\ b + i - b = i
      BY <1>1
    <3> QED
      BY <1>2, <3>1
  <2> HIDE DEF b, q
  <2>4. Range(batch) = {batch[i] : i \in 1 .. b} /\ Range(queue) = {queue[i] : i \in 1 .. q}
        /\ Range(batch)' = {batch'[i] : i \in 1 .. b + q}
    BY <1>1, <1>4 DEF Range
  <2>5. ASSUME NEW i \in 1 .. b + q PROVE batch'[i] \in Range(batch) \cup Range(queue)
    <3>1. CASE i <= b
      <4>1. i \in 1 .. b /\ batch'[i] = batch[i]
        BY <1>1, <1>2, <3>1
      <4> QED
        BY <2>4, <4>1
    <3>2. CASE ~ (i <= b)
      <4>1. i - b \in 1 .. q /\ batch'[i] = queue[i - b]
        BY <1>1, <1>2, <3>2
      <4> QED
        BY <2>4, <4>1
    <3> QED
      BY <3>1, <3>2
  <2> QED
    BY <2>1, <2>2, <2>4, <2>5
<1> QED
  BY <1>2, <1>5, <1>7, <1>8

----------------------------------------------------------------------------
(* Inductiveness.                                                            *)

LEMMA InitIInv == Init => IInv
<1> SUFFICES ASSUME Init PROVE IInv
  OBVIOUS
<1>1. <<>> \in Seq(Entries) /\ Len(<<>>) = 0 /\ DOMAIN <<>> = {} /\ Range(<<>>) = {}
  BY DEF Range
<1>2. TypeOK
  <2>1. Len(queue) <= QueueSize
    BY <1>1, SizeAssumption DEF Init
  <2>2. queue \in Seq(Entries) /\ batch \in Seq(Entries) /\ history \in Seq(Entries)
    BY <1>1 DEF Init
  <2> QED
    BY <2>1, <2>2, InitialRowsAssumption DEF Init, TypeOK
<1>3. IsInjective(history)
  BY <1>1 DEF Init, IsInjective
<1>4. Settled = 0
  <2>1. Len(history) = 0 /\ Len(batch) = 0 /\ Len(queue) = 0
    BY <1>1 DEF Init
  <2> QED
    BY <2>1 DEF Settled
<1>5. Layout
  <2>1. history = <<>> /\ batch = <<>> /\ queue = <<>>
    BY DEF Init
  <2>2. 1 .. Len(batch) = {} /\ 1 .. Len(queue) = {}
    BY <1>1, <2>1
  <2> QED
    BY <1>4, <2>2 DEF Layout
<1>6. Outcomes
  <2>1. 1 .. Settled = {}
    BY <1>4
  <2>2. GoneSet = {}
    BY <2>1 DEF GoneSet
  <2> QED
    BY <1>1, <2>2 DEF Init, Outcomes
<1>7. Control
  BY <1>1, SizeAssumption DEF Init, Control
<1>8. Clean
  BY DEF Init, Clean
<1> QED
  BY <1>2, <1>3, <1>5, <1>6, <1>7, <1>8 DEF IInv

\* A step that leaves the entries where they are.
LEMMA QuietStep ==
    ASSUME IInv, UNCHANGED <<queue, batch, history, stored, lost, dropped>>
    PROVE  IsInjective(history)' /\ Layout' /\ Outcomes' /\ GoneSet' = GoneSet
           /\ Range(batch)' = Range(batch)
  BY Frame DEF IInv, Outcomes, IsInjective

\* A write that ends.
LEMMA EndStep ==
    ASSUME IInv, EndWrite, GoneSet' = GoneSet \cup Range(batch)
    PROVE  /\ queue' \in Seq(Entries) /\ Len(queue') <= QueueSize /\ batch' \in Seq(Entries)
           /\ pc' \in {"get", "done"} /\ final' \in BOOLEAN
           /\ cache' \in [Providers -> {"absent", "null", "id"}]
           /\ configured' \subseteq Providers /\ newRows' = {}
           /\ history' \in Seq(Entries) /\ dropped' \subseteq Entries
           /\ Control'
<1>1. Len(<<>>) = 0
  OBVIOUS
<1> QED
  BY <1>1, SizeAssumption DEF IInv, EndWrite, TypeOK, Control

LEMMA StepIInv == IInv /\ [Next]_vars => IInv'
<1> SUFFICES ASSUME IInv, [Next]_vars PROVE IInv'
  OBVIOUS
<1>0. TypeOK /\ IsInjective(history) /\ Layout /\ Outcomes /\ Control /\ Clean
  BY DEF IInv
<1>1. ASSUME NEW e \in Entries, Enqueue(e) PROVE IInv'
  <2>1. e \notin Range(history) /\ e \notin dropped /\ ~final /\ Len(queue) < QueueSize
    BY <1>1 DEF Enqueue, IsNew
  <2>2. queue' = Append(queue, e) /\ history' = Append(history, e)
        /\ UNCHANGED <<batch, pc, final, cache, configured, rows, newRows, stored, dropped, lost, faulty>>
    BY <1>1 DEF Enqueue, db
  <2>3. /\ queue' \in Seq(Entries) /\ Len(queue') = Len(queue) + 1 /\ history' \in Seq(Entries)
        /\ IsInjective(history)' /\ Layout' /\ GoneSet' = GoneSet
        /\ Range(history)' = Range(history) \cup {e}
    BY <1>0, <2>1, <2>2, Appended
  <2>4. TypeOK'
    <3>1. Len(queue') <= QueueSize
      BY <1>0, <2>1, <2>3, Sizes, SizeAssumption
    <3> QED
      BY <1>0, <2>2, <2>3, <3>1 DEF TypeOK
  <2>5. Outcomes'
    <3>1. Range(batch)' = Range(batch)
      BY <2>2 DEF Range
    <3> QED
      BY <1>0, <2>1, <2>2, <2>3, <3>1 DEF Outcomes
  <2>6. Control'
    BY <1>0, <2>1, <2>2 DEF Control, TypeOK
  <2>7. Clean'
    BY <1>0, <2>2, <2>3 DEF Clean
  <2> QED
    BY <2>3, <2>4, <2>5, <2>6, <2>7 DEF IInv
<1>2. ASSUME NEW e \in Entries, DropFull(e) PROVE IInv'
  <2>1. UNCHANGED <<queue, batch, pc, final, cache, configured, rows, newRows, stored, history, lost, faulty>>
        /\ dropped' = dropped \cup {e} /\ e \notin Range(history)
    BY <1>2 DEF DropFull, IsNew, db
  <2>2. Layout' /\ GoneSet' = GoneSet /\ Range(batch)' = Range(batch) /\ Range(history)' = Range(history)
    BY <1>0, <2>1, Frame
  <2>3. TypeOK' /\ IsInjective(history)' /\ Control'
    BY <1>0, <2>1 DEF TypeOK, IsInjective, Control
  <2>4. Outcomes' /\ Clean'
    BY <1>0, <2>1, <2>2 DEF Outcomes, Clean
  <2> QED
    BY <2>2, <2>3, <2>4 DEF IInv
<1>3. ASSUME Collect PROVE IInv'
  <2>1. batch = <<>> /\ ~final /\ pc' = "warm"
        /\ UNCHANGED <<final, cache, configured, rows, newRows, stored, history, dropped, lost, faulty>>
    BY <1>0, <1>3 DEF Collect, Control, db
  <2>2. /\ queue' \in Seq(Entries) /\ Len(queue') <= Len(queue)
        /\ batch' \in Seq(Entries) /\ Len(batch') <= BatchSize
        /\ Layout' /\ GoneSet' = GoneSet
    BY <1>0, <1>3, <2>1, Collected
  <2>3. Len(queue') <= QueueSize
    <3>1. Len(queue') \in Nat /\ Len(queue) \in Nat /\ QueueSize \in Nat /\ Len(queue) <= QueueSize
      BY <1>0, <2>2, SizeAssumption DEF TypeOK
    <3> QED
      BY <2>2, <3>1
  <2>4. TypeOK' /\ IsInjective(history)'
    BY <1>0, <2>1, <2>2, <2>3 DEF TypeOK, IsInjective
  <2>5. Outcomes' /\ Clean'
    BY <1>0, <2>1, <2>2 DEF Outcomes, Clean, Range
  <2>6. Control'
    <3>1. (pc = "get" => batch = <<>> /\ ~final)' /\ (pc = "done" => batch = <<>> /\ final)'
      BY <2>1
    <3>2. (final => queue = <<>>)'
      BY <2>1
    <3>3. (~final => Len(batch) <= BatchSize)'
      BY <2>2
    <3> HIDE <1>0, <1>3
    <3> QED
      BY <3>1, <3>2, <3>3 DEF Control
  <2> QED
    BY <2>2, <2>4, <2>5, <2>6 DEF IInv
<1>4. ASSUME Warm \/ SendCommit \/ \E p \in Providers : ResolveUnknown(p) \/ ResolveNew(p)
      PROVE  IInv'
  <2>1. /\ UNCHANGED <<queue, batch, final, configured, rows, stored, history, dropped, lost, faulty>>
        /\ pc' \in {"warm", "resolve", "commit"}
        /\ cache' \in [Providers -> {"absent", "null", "id"}]
        /\ newRows' \subseteq Providers
        /\ \A p \in Providers : cache'[p] = "id" => cache[p] = "id" \/ p \in rows \cup newRows'
        /\ newRows \subseteq newRows'
        /\ pc # "get" /\ pc # "done"
    <3>1. CASE Warm
      BY <1>0, <3>1 DEF Warm, TypeOK, db
    <3>2. CASE SendCommit
      BY <1>0, <3>2 DEF SendCommit, TypeOK, db
    <3>3. ASSUME NEW p \in Providers, ResolveUnknown(p) \/ ResolveNew(p)
          PROVE  /\ UNCHANGED <<queue, batch, final, configured, rows, stored, history, dropped, lost, faulty>>
                 /\ pc' = "resolve" /\ pc = "resolve"
                 /\ cache' \in [Providers -> {"absent", "null", "id"}]
                 /\ newRows' \subseteq Providers
                 /\ \A r \in Providers : cache'[r] = "id" => cache[r] = "id" \/ r \in rows \cup newRows'
                 /\ newRows \subseteq newRows'
      BY <1>0, <3>3 DEF ResolveUnknown, ResolveNew, TypeOK, db
    <3> QED
      BY <1>4, <3>1, <3>2, <3>3
  <2>2. IsInjective(history)' /\ Layout' /\ Outcomes' /\ GoneSet' = GoneSet
    BY <2>1, QuietStep
  <2>3. TypeOK'
    BY <1>0, <2>1 DEF TypeOK
  <2>4. Control'
    BY <1>0, <2>1 DEF Control
  <2>5. Clean'
    BY <1>0, <2>1, <2>2 DEF Clean
  <2> QED
    BY <2>2, <2>3, <2>4, <2>5 DEF IInv
<1>5. ASSUME CommitOk \/ CommitUnacknowledged PROVE IInv'
  <2>1. CommitRows /\ EndWrite /\ lost' = lost /\ faulty' \in BOOLEAN /\ (~faulty' => ~faulty)
    BY <1>0, <1>5 DEF CommitOk, CommitUnacknowledged, TypeOK
  <2>2. batch' = <<>> /\ UNCHANGED <<queue, final, cache, configured, history, dropped>>
    BY <2>1 DEF EndWrite
  <2>3. Layout' /\ GoneSet' = GoneSet \cup Range(batch)
    BY <1>0, <2>2, Finished
  <2>4. stored' = stored \cup Range(batch) /\ rows' = rows \cup newRows
    BY <2>1 DEF CommitRows
  <2>5. /\ GoneSet \cap Range(batch) = {} /\ Range(batch) \subseteq Entries
        /\ Range(history)' = Range(history) /\ Range(batch)' = {}
    BY <1>0, <2>2, Parts, Sizes DEF Range
  <2>6. TypeOK' /\ Control'
    BY <1>0, <2>1, <2>3, <2>4, <2>5, EndStep DEF TypeOK
  <2>7. IsInjective(history)'
    BY <1>0, <2>2 DEF IsInjective
  <2>8. Outcomes'
    BY <1>0, <2>1, <2>2, <2>3, <2>4, <2>5 DEF Outcomes
  <2>9. Clean'
    BY <1>0, <2>1, <2>2, <2>3, <2>4, EndStep DEF Clean
  <2> QED
    BY <2>3, <2>6, <2>7, <2>8, <2>9 DEF IInv
<1>6. ASSUME CommitRefused \/ DatabaseFails PROVE IInv'
  <2>1. GiveUp /\ EndWrite /\ faulty' \in BOOLEAN /\ (~faulty' => ~faulty /\ Violates)
    BY <1>0, <1>6 DEF CommitRefused, DatabaseFails, GiveUp, TypeOK
  <2>2. batch' = <<>> /\ UNCHANGED <<queue, final, cache, configured, history, dropped>>
    BY <2>1 DEF EndWrite
  <2>3. Layout' /\ GoneSet' = GoneSet \cup Range(batch)
    BY <1>0, <2>2, Finished
  <2>4. UNCHANGED <<rows, stored>> /\ lost' = lost \cup (Range(batch) \ stored)
    BY <2>1 DEF GiveUp
  <2>5. /\ GoneSet \cap Range(batch) = {} /\ Range(batch) \subseteq Entries
        /\ Range(history)' = Range(history) /\ Range(batch)' = {}
    BY <1>0, <2>2, Parts, Sizes DEF Range
  <2>6. TypeOK' /\ Control'
    BY <1>0, <2>1, <2>3, <2>4, <2>5, EndStep DEF TypeOK
  <2>7. IsInjective(history)'
    BY <1>0, <2>2 DEF IsInjective
  <2>8. Outcomes'
    BY <1>0, <2>1, <2>2, <2>3, <2>4, <2>5 DEF Outcomes
  <2>9. Clean'
    <3> SUFFICES ASSUME ~final
                 PROVE  /\ stored' \subseteq GoneSet'
                        /\ ~faulty' => lost' \cap Unstorable # {}
      BY <2>2 DEF Clean
    <3>1. stored \subseteq GoneSet
      BY <1>0 DEF Clean
    <3>2. CASE lost \cap Unstorable # {}
      BY <2>3, <2>4, <3>1, <3>2
    <3>3. ASSUME ~faulty', lost \cap Unstorable = {} PROVE lost' \cap Unstorable # {}
      <4>1. \A p \in Providers : cache[p] = "id" => p \in rows \cup newRows
        BY <1>0, <2>1, <3>3 DEF Clean
      <4>2. Needed \subseteq Providers
        BY <2>5, ProviderOfAssumption DEF Needed
      <4>3. Range(batch) \cap stored = {}
        BY <2>5, <3>1
      <4>4. Range(batch) \cap Unstorable # {}
        BY <2>1, <3>3, <4>1, <4>2, <4>3 DEF Violates
      <4> QED
        BY <2>4, <4>3, <4>4
    <3> QED
      BY <2>3, <2>4, <3>1, <3>2, <3>3
  <2> QED
    BY <2>3, <2>6, <2>7, <2>8, <2>9 DEF IInv
<1>7. ASSUME Shutdown \/ ShutdownAfterCommit PROVE IInv'
  <2>1. Drain /\ faulty' = faulty
    BY <1>7 DEF Shutdown, ShutdownAfterCommit, Drain
  <2>2. /\ final' = TRUE /\ batch' = batch \o queue /\ queue' = <<>> /\ newRows' = {}
        /\ pc' = IF batch \o queue = <<>> THEN "done" ELSE "warm"
        /\ UNCHANGED <<cache, configured, history, dropped, lost, faulty>>
    BY <2>1 DEF Drain
  <2>3. batch' \in Seq(Entries) /\ Layout' /\ GoneSet' = GoneSet
        /\ Range(batch)' = Range(batch) \cup Range(queue)
    BY <1>0, <2>2, Drained
  <2>4. /\ stored' = stored \/ stored' = stored \cup Range(batch)
        /\ rows' = rows \/ rows' = rows \cup newRows
    BY <1>7 DEF Shutdown, ShutdownAfterCommit, CommitRows
  <2>5. GoneSet \cap Range(batch) = {} /\ Range(batch) \subseteq Entries
        /\ Range(history)' = Range(history)
    BY <1>0, <2>2, Parts, Sizes DEF Range
  <2>6. TypeOK'
    <3>1. queue' \in Seq(Entries) /\ Len(queue') <= QueueSize
      <4>1. <<>> \in Seq(Entries) /\ Len(<<>>) = 0
        OBVIOUS
      <4> QED
        BY <2>2, <4>1, SizeAssumption
    <3>2. pc' \in {"done", "warm"}
      BY <2>2
    <3> QED
      BY <1>0, <2>2, <2>3, <2>4, <2>5, <3>1, <3>2 DEF TypeOK
  <2>7. IsInjective(history)'
    BY <1>0, <2>2 DEF IsInjective
  <2>8. Outcomes'
    BY <1>0, <2>2, <2>3, <2>4, <2>5 DEF Outcomes
  <2>9. Control' /\ Clean'
    BY <2>2 DEF Control, Clean
  <2> QED
    BY <2>3, <2>6, <2>7, <2>8, <2>9 DEF IInv
<1>8. ASSUME Reconfigure \/ Terminated \/ UNCHANGED vars PROVE IInv'
  <2>1. /\ UNCHANGED <<queue, batch, pc, final, cache, rows, newRows, stored, history, dropped, lost, faulty>>
        /\ configured' \subseteq Providers
    BY <1>0, <1>8 DEF Reconfigure, Terminated, vars, db, TypeOK
  <2>2. IsInjective(history)' /\ Layout' /\ Outcomes' /\ GoneSet' = GoneSet
    BY <2>1, QuietStep
  <2>3. TypeOK' /\ Control'
    BY <1>0, <2>1 DEF TypeOK, Control
  <2>4. Clean'
    BY <1>0, <2>1, <2>2 DEF Clean
  <2> QED
    BY <2>2, <2>3, <2>4 DEF IInv
<1> QED
  BY <1>1, <1>2, <1>3, <1>4, <1>5, <1>6, <1>7, <1>8 DEF Next, FlushStep

----------------------------------------------------------------------------
(* Theorems                                                                  *)

\* The inductive invariant: where each entry is, and what that says of its outcome.
THEOREM Inductive == Spec => []IInv
  BY InitIInv, StepIInv, PTL DEF Spec

\* Type correctness of the logging service; the queue never exceeds its size.
THEOREM TypeCorrect == Spec => []TypeOK
<1>1. IInv => TypeOK
  BY DEF IInv
<1> QED
  BY <1>1, Inductive, PTL

\* Gone is what the invariant calls GoneSet, in order.
LEMMA GoneProperties ==
    ASSUME IInv
    PROVE  Range(Gone) = GoneSet /\ history = Gone \o batch \o queue
<1>1. TypeOK /\ Layout
  BY DEF IInv
<1> DEFINE n == Settled
           b == Len(batch)
           q == Len(queue)
           g == Gone
<1>2. n \in Nat /\ b \in Nat /\ q \in Nat /\ Len(history) = n + b + q
  BY <1>1, Sizes DEF Settled, Layout
<1>3. history \in Seq(Entries) /\ batch \in Seq(Entries) /\ queue \in Seq(Entries)
      /\ \A i \in 1 .. Len(history) : history[i] \in Entries
  BY <1>1 DEF TypeOK
<1>4. /\ \A i \in 1 .. b : batch[i] = history[n + i]
      /\ \A i \in 1 .. q : queue[i] = history[n + b + i]
  BY <1>1 DEF Layout
<1>5. g = SubSeq(history, 1, n) /\ GoneSet = {history[i] : i \in 1 .. n}
  BY DEF Gone, GoneSet, Settled
<1> HIDE DEF n, b, g
<1>6. g \in Seq(Entries) /\ Len(g) = n /\ \A i \in 1 .. n : g[i] = history[i]
  <2>1. \A i \in 1 .. n : history[i] \in Entries
    BY <1>2, <1>3
  <2>2. /\ SubSeq(history, 1, n) \in Seq(Entries)
        /\ Len(SubSeq(history, 1, n)) = IF 1 <= n THEN n - 1 + 1 ELSE 0
        /\ \A i \in 1 .. n - 1 + 1 : SubSeq(history, 1, n)[i] = history[1 + i - 1]
    BY <1>2, <2>1, SubSeqProperties
  <2> QED
    BY <1>2, <1>5, <2>2
<1>7. Range(g) = GoneSet
  <2>1. DOMAIN g = 1 .. n
    BY <1>6
  <2> QED
    BY <1>5, <1>6, <2>1 DEF Range
<1>8. /\ g \o batch \in Seq(Entries) /\ Len(g \o batch) = n + b
      /\ \A i \in 1 .. n + b : (g \o batch)[i] = IF i <= n THEN g[i] ELSE batch[i - n]
  BY <1>3, <1>6, ConcatProperties DEF b
<1> DEFINE w == g \o batch
<1> HIDE DEF w
<1>9. /\ w \in Seq(Entries) /\ Len(w) = n + b
      /\ \A i \in 1 .. n + b : w[i] = IF i <= n THEN g[i] ELSE batch[i - n]
  BY <1>8 DEF w
<1>10. /\ w \o queue \in Seq(Entries) /\ Len(w \o queue) = n + b + q
       /\ \A i \in 1 .. n + b + q : (w \o queue)[i] = IF i <= n + b THEN w[i] ELSE queue[i - (n + b)]
  <2>1. /\ w \o queue \in Seq(Entries) /\ Len(w \o queue) = Len(w) + Len(queue)
        /\ \A i \in 1 .. Len(w) + Len(queue) :
              (w \o queue)[i] = IF i <= Len(w) THEN w[i] ELSE queue[i - Len(w)]
    BY <1>3, <1>9, ConcatProperties
  <2>2. Len(w) = n + b /\ Len(queue) = q
    BY <1>9
  <2> QED
    BY <2>1, <2>2
<1> HIDE DEF q
<1>11. ASSUME NEW i \in 1 .. n + b + q PROVE (w \o queue)[i] = history[i]
  <2>1. CASE i <= n
    <3>1. i \in 1 .. n /\ i \in 1 .. n + b /\ i <= n + b
      BY <1>2, <2>1
    <3> QED
      BY <1>6, <1>9, <1>10, <2>1, <3>1
  <2>2. CASE ~ (i <= n) /\ i <= n + b
    <3>1. i \in 1 .. n + b /\ i - n \in 1 .. b /\ n + (i - n) = i
      BY <1>2, <2>2
    <3>2. w[i] = batch[i - n] /\ (w \o queue)[i] = w[i]
      BY <1>9, <1>10, <2>2, <3>1
    <3> QED
      BY <1>4, <3>1, <3>2
  <2>3. CASE ~ (i <= n + b)
    <3>1. i - (n + b) \in 1 .. q /\ n + b + (i - (n + b)) = i
      BY <1>2, <2>3
    <3>2. (w \o queue)[i] = queue[i - (n + b)]
      BY <1>10, <2>3
    <3> QED
      BY <1>4, <3>1, <3>2
  <2> QED
    BY <2>1, <2>2, <2>3
<1>12. w \o queue = history
  BY <1>2, <1>3, <1>10, <1>11, SeqEqual
<1> QED
  BY <1>7, <1>12 DEF g, w

\* Every accepted entry is, once and in the order of acceptance, written or given
\* up, in the batch, or on the queue.
THEOREM ConservationCorrect == Spec => []Conservation
<1>1. IInv => Conservation
  <2> SUFFICES ASSUME IInv PROVE Conservation
    OBVIOUS
  <2>1. Range(Gone) = GoneSet /\ history = Gone \o batch \o queue
    BY GoneProperties
  <2>2. GoneSet \cap Range(queue) = {} /\ Range(batch) \cap Range(queue) = {}
    BY Parts DEF IInv
  <2> QED
    BY <2>1, <2>2 DEF IInv, Outcomes, Conservation
<1> QED
  BY <1>1, Inductive, PTL

\* Without a failure of the database no entry is lost before shutdown unless a
\* batch held an entry that cannot be stored.
THEOREM NoLossCorrect == Spec => []NoLossWithoutFault
<1>1. IInv => NoLossWithoutFault
  BY DEF IInv, Clean, NoLossWithoutFault
<1> QED
  BY <1>1, Inductive, PTL

\* The flush task ends with empty hands and an empty queue.
THEOREM ExitCorrect == Spec => []ExitsEmpty
<1>1. IInv => ExitsEmpty
  BY DEF IInv, Control, ExitsEmpty
<1> QED
  BY <1>1, Inductive, PTL
\* How many entries a sequence holds.
LEMMA Distinct ==
    ASSUME NEW s \in Seq(Entries)
    PROVE  /\ IsFiniteSet(Range(s)) /\ Cardinality(Range(s)) \in Nat
           /\ Cardinality(Range(s)) <= Len(s)
           /\ IsInjective(s) => Cardinality(Range(s)) = Len(s)
<1> DEFINE D == 1 .. Len(s)
<1>1. Len(s) \in Nat /\ DOMAIN s = D /\ s \in [D -> Range(s)]
  BY DEF Range
<1>2. IsFiniteSet(D) /\ Cardinality(D) = Len(s)
  <2>1. IsFiniteSet(1 .. Len(s)) /\ Cardinality(1 .. Len(s)) = IF 1 > Len(s) THEN 0 ELSE Len(s) - 1 + 1
    BY <1>1, FS_Interval
  <2> QED
    BY <1>1, <2>1
<1>3. s \in Surjection(D, Range(s))
  BY <1>1 DEF Surjection, Range
<1>4. IsInjective(s) => s \in Injection(D, Range(s))
  BY <1>1 DEF Injection, IsInjective
<1> HIDE DEF D
<1>5. /\ IsFiniteSet(Range(s)) /\ Cardinality(Range(s)) <= Cardinality(D)
      /\ (Cardinality(Range(s)) = Cardinality(D) <=> s \in Injection(D, Range(s)))
  BY <1>2, <1>3, FS_Surjection
<1>6. Cardinality(Range(s)) \in Nat
  BY <1>5, FS_CardinalityType
<1> QED
  BY <1>2, <1>4, <1>5, <1>6

\* No step of the running service gives up more than the batch in hand.
THEOREM LossCorrect == Spec => LossPerStepBounded
<1>1. IInv /\ [Next]_vars => [~final => Cardinality(lost' \ lost) <= BatchSize]_vars
  <2> SUFFICES ASSUME IInv, [Next]_vars, ~final
               PROVE  Cardinality(lost' \ lost) <= BatchSize
    OBVIOUS
  <2>1. lost' \ lost \subseteq Range(batch)
    <3>1. CASE CommitRefused \/ DatabaseFails
      BY <3>1 DEF CommitRefused, DatabaseFails, GiveUp
    <3>2. CASE ~ (CommitRefused \/ DatabaseFails)
      <4>1. lost' = lost
        BY <3>2 DEF Next, FlushStep, Enqueue, DropFull, Collect, Warm, SendCommit, ResolveUnknown,
                    ResolveNew, CommitOk, CommitUnacknowledged, Shutdown, ShutdownAfterCommit,
                    Drain, Reconfigure, Terminated, vars
      <4> QED
        BY <4>1
    <3> QED
      BY <3>1, <3>2
  <2>2. batch \in Seq(Entries) /\ Len(batch) \in Nat /\ Len(batch) <= BatchSize
    BY DEF IInv, TypeOK, Control
  <2>3. IsFiniteSet(Range(batch)) /\ Cardinality(Range(batch)) \in Nat
        /\ Cardinality(Range(batch)) <= Len(batch)
    BY <2>2, Distinct
  <2>4. IsFiniteSet(lost' \ lost) /\ Cardinality(lost' \ lost) <= Cardinality(Range(batch))
    BY <2>1, <2>3, FS_Subset
  <2>5. Cardinality(lost' \ lost) \in Nat
    BY <2>4, FS_CardinalityType
  <2> QED
    BY <2>2, <2>3, <2>4, <2>5, SizeAssumption
<1> QED
  BY <1>1, Inductive, PTL DEF Spec, LossPerStepBounded

----------------------------------------------------------------------------
(* The refinement of AuditLog.                                               *)

\* The instance has a copy of its own of the library's operator.
LEMMA SameCardinality == \A S : Audit!Cardinality(S) = Cardinality(S)
  BY DEF Audit!Cardinality, Cardinality

\* What the audit log sees of a state of the pipeline.
LEMMA AuditView ==
    ASSUME IInv
    PROVE  /\ Audit!In("accepted") = (Range(batch) \cup Range(queue)) \ stored
           /\ \A e \in Entries : IsNew(e) => StatusOf(e) = "new"
<1>1. /\ Range(history) = GoneSet \cup Range(batch) \cup Range(queue)
      /\ GoneSet \cap Range(batch) = {} /\ GoneSet \cap Range(queue) = {}
      /\ Range(history) \subseteq Entries
  BY Parts, Sizes DEF IInv
<1>2. /\ GoneSet \subseteq stored \cup lost /\ lost \subseteq GoneSet \ stored
      /\ stored \subseteq GoneSet \cup Range(batch)
      /\ dropped \cap Range(history) = {}
  BY DEF IInv, Outcomes
<1>3. \A e \in Entries : StatusOf(e) = "accepted" <=> e \in (Range(batch) \cup Range(queue)) \ stored
  BY <1>1, <1>2 DEF StatusOf
<1>4. Audit!In("accepted") = {e \in Entries : StatusOf(e) = "accepted"}
  BY DEF Audit!In
<1>5. \A e \in Entries : IsNew(e) => StatusOf(e) = "new"
  BY <1>1, <1>2 DEF IsNew, StatusOf
<1> QED
  BY <1>1, <1>3, <1>4, <1>5

\* While the service runs, what it holds is at most a queue and a batch, and at
\* least what is on the queue.
LEMMA Holding ==
    ASSUME IInv, ~final
    PROVE  /\ Cardinality(Audit!In("accepted")) \in Nat
           /\ Cardinality(Audit!In("accepted")) <= Len(batch) + Len(queue)
           /\ Len(queue) <= Cardinality(Audit!In("accepted"))
           /\ Len(batch) \in Nat /\ Len(queue) \in Nat
<1> DEFINE B == Range(batch)
           R == Range(queue)
<1>1. Audit!In("accepted") = B \cup R
  <2>1. stored \cap (B \cup R) = {}
    BY Parts DEF IInv, Clean
  <2> QED
    BY <2>1, AuditView
<1>2. batch \in Seq(Entries) /\ queue \in Seq(Entries)
  BY DEF IInv, TypeOK
<1>3. IsInjective(queue)
  <2>1. DOMAIN queue = 1 .. Len(queue) /\ DOMAIN history = 1 .. Len(history) /\ Len(queue) \in Nat
        /\ Len(batch) \in Nat /\ Settled \in Nat /\ Len(history) = Settled + Len(batch) + Len(queue)
    BY Sizes DEF IInv, Layout, Settled
  <2>2. \A i \in 1 .. Len(queue) : queue[i] = history[Settled + Len(batch) + i]
    BY DEF IInv, Layout
  <2>3. \A i \in 1 .. Len(queue) : Settled + Len(batch) + i \in 1 .. Len(history)
    BY <2>1
  <2>4. \A i, j \in 1 .. Len(history) : history[i] = history[j] => i = j
    BY <2>1 DEF IInv, IsInjective
  <2>5. \A i, j \in 1 .. Len(queue) : queue[i] = queue[j] =>
            Settled + Len(batch) + i = Settled + Len(batch) + j
    BY <2>2, <2>3, <2>4
  <2>6. \A i, j \in 1 .. Len(queue) : queue[i] = queue[j] => i = j
    BY <2>1, <2>5
  <2> QED
    BY <2>1, <2>6 DEF IsInjective
<1>4. /\ IsFiniteSet(B) /\ Cardinality(B) \in Nat /\ Cardinality(B) <= Len(batch)
      /\ IsFiniteSet(R) /\ Cardinality(R) = Len(queue) /\ Len(queue) \in Nat /\ Len(batch) \in Nat
  <2>1. IsFiniteSet(B) /\ Cardinality(B) \in Nat /\ Cardinality(B) <= Len(batch)
    BY <1>2, Distinct
  <2>2. IsFiniteSet(R) /\ Cardinality(R) = Len(queue)
    BY <1>2, <1>3, Distinct
  <2> QED
    BY <1>2, <2>1, <2>2
<1> HIDE DEF B, R
<1>5. /\ IsFiniteSet(B \cup R)
      /\ Cardinality(B \cup R) = Cardinality(B) + Cardinality(R) - Cardinality(B \cap R)
  BY <1>4, FS_Union
<1>6. Cardinality(B \cap R) \in Nat /\ Cardinality(B \cup R) \in Nat
  <2>1. IsFiniteSet(B \cap R)
    BY <1>4, FS_Intersection
  <2> QED
    BY <1>5, <2>1, FS_CardinalityType
<1>7. Cardinality(R) <= Cardinality(B \cup R)
  <2>1. R \in SUBSET (B \cup R)
    OBVIOUS
  <2> QED
    BY <1>5, <2>1, FS_Subset
<1>8. Cardinality(B \cup R) <= Len(batch) + Len(queue) /\ Len(queue) <= Cardinality(B \cup R)
  BY <1>4, <1>5, <1>6, <1>7
<1> QED
  BY <1>1, <1>4, <1>6, <1>8

\* Every step of the pipeline is one of the audit log's, or none.
LEMMA AuditStep ==
    ASSUME IInv, [Next]_vars
    PROVE  [Audit!Next]_([e \in Entries |-> StatusOf(e)])
<1> DEFINE status == [e \in Entries |-> StatusOf(e)]
<1>0. /\ Range(history) = GoneSet \cup Range(batch) \cup Range(queue)
      /\ GoneSet \cap Range(batch) = {} /\ lost \subseteq GoneSet \ stored
      /\ Range(batch) \subseteq Entries /\ dropped \cap Range(history) = {}
  BY Parts, Sizes DEF IInv, Outcomes
<1>1. ASSUME NEW e \in Entries, Enqueue(e) PROVE Audit!Next
  <2>1. IsNew(e) /\ ~final /\ Len(queue) < QueueSize /\ history' = Append(history, e)
        /\ UNCHANGED <<stored, dropped, lost>>
    BY <1>1 DEF Enqueue, db
  <2>2. Range(history)' = Range(history) \cup {e}
    BY <1>1, Appended DEF IInv, Enqueue, IsNew
  <2>3. StatusOf(e) = "new"
    BY <2>1, AuditView
  <2>4. Cardinality(Audit!In("accepted")) < QueueSize + BatchSize
    <3>1. Len(batch) <= BatchSize
      BY <2>1 DEF IInv, Control
    <3> QED
      BY <2>1, <3>1, Holding, SizeAssumption
  <2>5. \A x \in Entries : StatusOf(x)' = IF x \in {e} THEN "accepted" ELSE StatusOf(x)
    BY <2>1, <2>2, <2>3 DEF StatusOf
  <2>6. Audit!Accept(e)
    <3>1. Audit!Settle({e}, "accepted")
      BY <2>5 DEF Audit!Settle
    <3>2. [x \in Entries |-> StatusOf(x)][e] = "new"
      BY <2>3
    <3> QED
      BY <2>4, <3>1, <3>2, SameCardinality DEF Audit!Accept
  <2> QED
    BY <2>6 DEF Audit!Next
<1>2. ASSUME NEW e \in Entries, DropFull(e) PROVE Audit!Next
  <2>1. IsNew(e) /\ ~final /\ Len(queue) >= QueueSize /\ dropped' = dropped \cup {e}
        /\ UNCHANGED <<stored, history, lost>>
    BY <1>2 DEF DropFull, db
  <2>2. StatusOf(e) = "new"
    BY <2>1, AuditView
  <2>3. Cardinality(Audit!In("accepted")) >= QueueSize
    BY <2>1, Holding, SizeAssumption
  <2>4. Range(history)' = Range(history)
    BY <2>1 DEF Range
  <2>5. \A x \in Entries : StatusOf(x)' = IF x \in {e} THEN "dropped" ELSE StatusOf(x)
    BY <2>1, <2>2, <2>4 DEF StatusOf
  <2>6. Audit!Drop(e)
    <3>1. Audit!Settle({e}, "dropped")
      BY <2>5 DEF Audit!Settle
    <3>2. [x \in Entries |-> StatusOf(x)][e] = "new"
      BY <2>2
    <3> QED
      BY <2>3, <3>1, <3>2, SameCardinality DEF Audit!Drop
  <2> QED
    BY <2>6 DEF Audit!Next
<1>3. ASSUME CommitOk \/ CommitUnacknowledged \/ ShutdownAfterCommit PROVE Audit!Next
  <2>1. CommitRows /\ UNCHANGED <<history, dropped, lost>>
    BY <1>3 DEF CommitOk, CommitUnacknowledged, ShutdownAfterCommit, EndWrite, Drain
  <2>2. Range(batch) \cap stored = {} /\ stored' = stored \cup Range(batch)
    BY <2>1 DEF CommitRows, Violates
  <2>3. Range(history)' = Range(history)
    BY <2>1 DEF Range
  <2>4. \A x \in Entries : StatusOf(x)' = IF x \in Range(batch) THEN "stored" ELSE StatusOf(x)
    BY <2>1, <2>2, <2>3 DEF StatusOf
  <2>5. Range(batch) \subseteq Audit!In("accepted")
    BY <2>2, AuditView
  <2>6. Audit!Store(Range(batch))
    BY <2>4, <2>5 DEF Audit!Store, Audit!Settle
  <2> QED
    BY <1>0, <2>6 DEF Audit!Next
<1>4. ASSUME CommitRefused \/ DatabaseFails PROVE Audit!Next
  <2> DEFINE L == Range(batch) \ stored
  <2>1. lost' = lost \cup L /\ UNCHANGED <<history, dropped, stored>>
    BY <1>4 DEF CommitRefused, DatabaseFails, GiveUp, EndWrite
  <2>2. Range(history)' = Range(history)
    BY <2>1 DEF Range
  <2>3. \A x \in Entries : StatusOf(x)' = IF x \in L THEN "lost" ELSE StatusOf(x)
    BY <1>0, <2>1, <2>2 DEF StatusOf
  <2>4. L \subseteq Audit!In("accepted")
    BY AuditView
  <2> HIDE DEF L
  <2>5. Audit!Lose(L)
    BY <2>3, <2>4 DEF Audit!Lose, Audit!Settle
  <2>6. L \in SUBSET Entries
    BY <1>0 DEF L
  <2> QED
    BY <2>5, <2>6 DEF Audit!Next
<1>5. CASE UNCHANGED <<history, stored, lost, dropped>>
  <2>1. Range(history)' = Range(history)
    BY <1>5 DEF Range
  <2>2. \A x \in Entries : StatusOf(x)' = StatusOf(x)
    BY <1>5, <2>1 DEF StatusOf
  <2> QED
    BY <2>2
<1>6. CASE /\ ~ \E e \in Entries : Enqueue(e) \/ DropFull(e)
           /\ ~ (CommitOk \/ CommitUnacknowledged \/ ShutdownAfterCommit \/ CommitRefused \/ DatabaseFails)
  <2>1. UNCHANGED <<history, stored, lost, dropped>>
    BY <1>6 DEF Next, FlushStep, Collect, Warm, SendCommit, ResolveUnknown, ResolveNew, Shutdown,
                Drain, Reconfigure, Terminated, vars, db
  <2> QED
    BY <1>5, <2>1
<1> QED
  BY <1>1, <1>2, <1>3, <1>4, <1>6

\* The pipeline implements the audit log.
THEOREM RefinementCorrect == Spec => ImplementsAuditLog
<1>1. Init => Audit!Init
  <2> SUFFICES ASSUME Init PROVE \A e \in Entries : StatusOf(e) = "new"
    BY DEF Audit!Init
  <2>1. history = <<>> /\ stored = {} /\ lost = {} /\ dropped = {}
    BY DEF Init
  <2>2. Range(history) = {}
    BY <2>1 DEF Range
  <2> QED
    BY <2>1, <2>2 DEF StatusOf
<1>2. IInv /\ [Next]_vars => [Audit!Next]_([e \in Entries |-> StatusOf(e)])
  BY AuditStep
<1> QED
  BY <1>1, <1>2, Inductive, PTL DEF Spec, ImplementsAuditLog, Audit!Spec
=============================================================================
