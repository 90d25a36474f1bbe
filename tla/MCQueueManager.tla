--------------------------- MODULE MCQueueManager ---------------------------
(* Two uploads under one name, the second of them a retry or a duplicate. *)
EXTENDS QueueManager

Priorities == [i \in Item |-> IF i = 1 THEN 1 ELSE 0]
OneName == [i \in Item |-> <<"tv", "show">>]
NoCategory == [i \in Item |-> <<"show">>]
Permuted == Permutations(Slot)
=============================================================================
