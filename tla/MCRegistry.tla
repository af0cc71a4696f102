----------------------------- MODULE MCRegistry -----------------------------
(* Instances of Registry for TLC. *)
EXTENDS Registry, TLC

CONSTANTS c1, c2
TwoConns == {c1, c2}

PlanSet(k) == [kind |-> "set", column |-> k, point |-> FALSE]
PointSet(k) == [kind |-> "set", column |-> k, point |-> TRUE]
PointAdd(k) == [kind |-> "add", column |-> k, point |-> TRUE]
PointDelete == [kind |-> "delete", column |-> "a", point |-> TRUE]

OnlySets == {PlanSet("a")}
AddsSetsDeletes == {PointAdd("a"), PointSet("b"), PointDelete}

Same == Permutations(Conns)

TwoRows == {1, 2}
OneRow == {1}
=============================================================================
