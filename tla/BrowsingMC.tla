----------------------------- MODULE BrowsingMC -----------------------------
(* Constant values for model checking Browsing. *)
EXTENDS Browsing

MCPageSize == [l \in Lists |-> IF l = "requests" THEN 2 ELSE 1]
=============================================================================
