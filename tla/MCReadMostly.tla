--------------------------- MODULE MCReadMostly ---------------------------
(* The lock with three threads on two slots, so that two share one. *)
EXTENDS ReadMostly

ThreeThreads == 1..3
TwoSlots == [t \in Threads |-> (t % 2) + 1]
=============================================================================
