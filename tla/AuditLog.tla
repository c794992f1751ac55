------------------------------ MODULE AuditLog ------------------------------
(***************************************************************************)
(* What the request log promises, whatever happens inside the logging      *)
(* service: every entry a handler hands over is settled once.  It is       *)
(* dropped at once, and only if the queue is full; or it is accepted,      *)
(* never more of them than the queue and one batch can hold, and later     *)
(* stored in the database or lost, never both and never stored twice.      *)
(* LogPipeline implements this specification.                              *)
(***************************************************************************)
EXTENDS Integers, FiniteSets

CONSTANTS Entries, QueueSize, BatchSize

VARIABLE status

Statuses == {"new", "accepted", "dropped", "stored", "lost"}

In(s) == {e \in Entries : status[e] = s}

Settle(S, s) == status' = [e \in Entries |-> IF e \in S THEN s ELSE status[e]]

Accept(e) ==
    /\ status[e] = "new"
    /\ Cardinality(In("accepted")) < QueueSize + BatchSize
    /\ Settle({e}, "accepted")

Drop(e) ==
    /\ status[e] = "new"
    /\ Cardinality(In("accepted")) >= QueueSize
    /\ Settle({e}, "dropped")

\* A transaction commits: its entries are stored together.
Store(S) == S \subseteq In("accepted") /\ Settle(S, "stored")

\* A write is given up: the entries it held are lost together.
Lose(S) == S \subseteq In("accepted") /\ Settle(S, "lost")

Init == status = [e \in Entries |-> "new"]

Next ==
    \/ \E e \in Entries : Accept(e) \/ Drop(e)
    \/ \E S \in SUBSET Entries : Store(S) \/ Lose(S)

Spec == Init /\ [][Next]_status
=============================================================================
