------------------------------- MODULE MCLane -------------------------------
(* The lane with the bounds its runs are checked within. *)
EXTENDS Lane
CONSTANTS c1, c2
OneCommitter == {c1}
TwoCommitters == {c1, c2}

(* Kept small: the second committer is at work only while the maker of      *)
(* spares has made nothing and nothing has failed.                          *)
OneBeside ==
    th[c2].at = "idle" \/ (used.fails = 0 /\ made = Made /\ maker.step \in {"off", "look"})
=============================================================================
