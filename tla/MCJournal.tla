----------------------------- MODULE MCJournal -----------------------------
(* Small instances of Journal.                                              *)
EXTENDS Journal

Worker2 == {1, 2}
Worker3 == {1, 2, 3}
Stamps5 == 0..5

(* One lane, whatever a session asks of its commits.                        *)
OneLane == [sync : {"full", "os", "none"}, lanes : {1}, vis : {"committed"}]

(* Two lanes, with the lock let go before the wait, and one session or      *)
(* another that does not wait.                                              *)
TwoLanes == [sync : {"full", "none"}, lanes : {2}, vis : {"committed"}]
TwoLanesCommitted == [sync : {"full"}, lanes : {2}, vis : {"committed"}]
=============================================================================
