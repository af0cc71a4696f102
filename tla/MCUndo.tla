------------------------------- MODULE MCUndo -------------------------------
(* A row of two columns under two workers and the collector.               *)
EXTENDS Undo
One == {1}
Two == 1..2
FirstOrBoth == {{1}, {1, 2}}
\* Kept small: the second column is updated once, a third update is made only
\* under a running read and beside no aborted one, and the first worker's own
\* update, before it reads, has one other beside it, both of the first column.
Apart ==
    /\ \A r \in Records : 2 \in DOMAIN rec[r].images => rec[r].images[2] = 0
    /\ made > 2 =>
           /\ \A r \in Records : rec[r].ts # Aborted
           /\ pc[1] \in {"copy", "walk", "read"} /\ snapAt[1] = 0 /\ pc[2] # "abort"
    /\ pc[1] \notin {"away", "copy", "walk", "read"} =>
           /\ readCount = 0 /\ cell[2] = 0
           /\ \A r \in Records : 2 \notin DOMAIN rec[r].images
=============================================================================
