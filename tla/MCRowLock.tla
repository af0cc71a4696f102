----------------------------- MODULE MCRowLock -----------------------------
(* Three transactions on two rows. *)
EXTENDS RowLock

ThreeTxns == 1..3
TwoHotRows == 1..2
=============================================================================
