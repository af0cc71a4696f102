-------------------------- MODULE DeadlockSearch --------------------------
(***************************************************************************)
(* Table::deadlock and Table::cycle of rudb-common/src/advisory.rs, the     *)
(* depth-first search itself, against what Advisory says it answers.        *)
(***************************************************************************)
EXTENDS Advisory, SequencesExt

(* One call of cycle: whether it found the start, and the sessions seen by  *)
(* then, which the calls after it share.                                    *)
RECURSIVE CycleOfFirst(_, _, _)
CycleOfFirst(start, at, seen) ==
    IF WaitsFor(at) = {} \/ at \in seen THEN [found |-> FALSE, seen |-> seen]
    ELSE LET b == SetToSeq(WaitsFor(at))[1]
         IN IF b = start THEN [found |-> TRUE, seen |-> seen]
            ELSE CycleOfFirst(start, b, seen \cup {at})

RECURSIVE Cycle(_, _, _)
Cycle(start, at, seen) ==
    IF wait[at] = NoWait \/ at \in seen THEN [found |-> FALSE, seen |-> seen]
    ELSE FoldSeq(LAMBDA b, r :
                   IF r.found \/ b = start THEN [r EXCEPT !.found = TRUE]
                   ELSE Cycle(start, b, r.seen),
                 [found |-> FALSE, seen |-> seen \cup {at}],
                 SetToSeq(WaitsFor(at)))

(* The search, which never enters a session twice, still finds a chain of   *)
(* waits from a waiting session back to itself exactly when there is one.   *)
SearchExact == \A o \in Owners : wait[o] # NoWait => (Cycle(o, o, {}).found <=> Deadlocked(o))
=============================================================================
