--------------------------- MODULE RateLimiterMC ---------------------------
(* Constant values for model checking RateLimiter. *)
EXTENDS RateLimiter

\* A section without a limit, sections that differ in rpm only, in max_queue
\* only, and in both, and one without a queue.
MCConfigs == {
    [rpm |-> 0, maxQueue |-> 0],
    [rpm |-> 1, maxQueue |-> 1],
    [rpm |-> 2, maxQueue |-> 0],
    [rpm |-> 2, maxQueue |-> -1]}
============================================================================
