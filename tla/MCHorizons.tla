---------------------------- MODULE MCHorizons ----------------------------
(* Two workers and one table, which a statement reads or does not. *)
EXTENDS Horizons

OneTable == {1}
OneChunk == {1}
Its == [c \in Chunks |-> 1]

(* Commits and kills matter to the snapshots, rounds to the chunks: a       *)
(* behaviour has the ones or the others.  Only the first worker runs        *)
(* statements that do not read the table.                                   *)
OneKind == /\ \/ epoch = 0 /\ \A c \in Chunks : chunk[c] = "linked"
              \/ commits = 0 /\ \A s \in Slots : killed[s] = Idle
           /\ \A s \in Slots : s > 1 => reads[s] = Tables
=============================================================================
