----------------------------- MODULE Advisory -----------------------------
(***************************************************************************)
(* The advisory locks of the server, rudb-common/src/advisory.rs: one table *)
(* for all sessions, behind one mutex.  A session that is blocked waits in  *)
(* a loop, and once in a wait, after DEADLOCK_TIMEOUT, it looks for a chain *)
(* of waits from itself back to itself.                                     *)
(*                                                                          *)
(* Each turn of the loop and each other call holds the mutex throughout, so *)
(* each is one action.  A waiter wakes every POLL whether it is notified or *)
(* not, so the condition variable is left out, and so are the errors and    *)
(* warnings a session is sent.                                              *)
(***************************************************************************)
EXTENDS Integers, FiniteSets, FiniteSetsExt

CONSTANTS Owners,       \* sessions, by backend number
          Keys,
          Requests,     \* what sessions ask for: keys, modes and levels
          MaxHolds,     \* bound: the locks held at a time, each as often as it was taken
          NoWait

Modes == {"exclusive", "share"}
Levels == {"session", "transaction"}

ASSUME AdvisoryAssumption == /\ IsFiniteSet(Owners) /\ IsFiniteSet(Keys)
                             /\ Requests \subseteq Keys \X Modes \X Levels
                             /\ MaxHolds \in Nat

VARIABLES holds,   \* how often a session holds a key in a mode, at each level
          wait,    \* the request a session waits for, and whether it has looked
          txHolds  \* TRANSACTION_HOLDS

advisoryVars == <<holds, wait, txHolds>>

Cells == Keys \X Owners \X Modes
WaitEntries == [key : Keys, mode : Modes, level : Levels, looked : BOOLEAN]
Nothing == [session |-> 0, transaction |-> 0]

AdvisoryInit ==
    /\ holds = [k \in Keys |-> [o \in Owners |-> [m \in Modes |-> Nothing]]]
    /\ wait = [o \in Owners |-> NoWait]
    /\ txHolds = 0

Has(k, o, m) == holds[k][o][m] # Nothing

(* The other sessions that hold the key, in a mode that does not go with    *)
(* the one asked for.                                                       *)
Blockers(k, o, mode) ==
    {p \in Owners \ {o} : \E m \in Modes : Has(k, p, m) /\ "exclusive" \in {mode, m}}

Count(h) == holds[h[1]][h[2]][h[3]]

(* Every lock held, as often as it is held. *)
Units == {u \in Cells \X Levels \X (1..MaxHolds) : u[3] <= Count(u[1])[u[2]]}

(* Table::grant. *)
GrantLock(k, o, m, level) ==
    /\ Cardinality(Units) < MaxHolds
    /\ holds' = [holds EXCEPT ![k][o][m][level] = @ + 1]
    /\ txHolds' = IF level = "transaction" THEN txHolds + 1 ELSE txHolds

-----------------------------------------------------------------------------
(* lock: the first turn of the loop, and a later one that finds the lock    *)
(* free.                                                                    *)

LockFree(o, k, m, level) ==
    /\ wait[o] = NoWait /\ Blockers(k, o, m) = {}
    /\ GrantLock(k, o, m, level)
    /\ UNCHANGED wait

LockBlockedLooked(o, k, m, level) ==
    /\ wait[o] = NoWait /\ Blockers(k, o, m) # {}
    /\ wait' = [wait EXCEPT ![o] = [key |-> k, mode |-> m, level |-> level, looked |-> TRUE]]
    /\ UNCHANGED <<holds, txHolds>>

LockBlocked(o, k, m, level) ==
    /\ wait[o] = NoWait /\ Blockers(k, o, m) # {}
    /\ wait' = [wait EXCEPT ![o] = [key |-> k, mode |-> m, level |-> level, looked |-> FALSE]]
    /\ UNCHANGED <<holds, txHolds>>

LockGranted(o) ==
    /\ wait[o] # NoWait /\ Blockers(wait[o].key, o, wait[o].mode) = {}
    /\ GrantLock(wait[o].key, o, wait[o].mode, wait[o].level)
    /\ wait' = [wait EXCEPT ![o] = NoWait]

(* The statement is cancelled, or lock_timeout has passed. *)
GiveUp(o) ==
    /\ wait[o] # NoWait /\ Blockers(wait[o].key, o, wait[o].mode) # {}
    /\ wait' = [wait EXCEPT ![o] = NoWait]
    /\ UNCHANGED <<holds, txHolds>>

(* The sessions a session waits for. *)
WaitsFor(o) == IF wait[o] = NoWait THEN {} ELSE Blockers(wait[o].key, o, wait[o].mode)

(* What Table::deadlock answers: a chain of waits leads from o back to o.   *)
(* Every set that holds those o waits for and is closed under waiting has o *)
(* in it.                                                                   *)
Deadlocked(o) ==
    \A S \in SUBSET Owners :
        WaitsFor(o) \subseteq S /\ (\A p \in S : WaitsFor(p) \subseteq S) => o \in S

LookPutOff(o) ==
    /\ wait[o] # NoWait /\ ~wait[o].looked
    /\ WaitsFor(o) = {}
    /\ wait' = [wait EXCEPT ![o].looked = TRUE]
    /\ UNCHANGED <<holds, txHolds>>

(* DEADLOCK_TIMEOUT has passed: the one look of this wait. *)
Look(o) ==
    /\ wait[o] # NoWait /\ ~wait[o].looked
    /\ WaitsFor(o) # {}
    /\ wait' = [wait EXCEPT ![o] = IF Deadlocked(o) THEN NoWait ELSE [@ EXCEPT !.looked = TRUE]]
    /\ UNCHANGED <<holds, txHolds>>

-----------------------------------------------------------------------------
(* try_lock that finds a blocker and unlock of what is not held change      *)
(* nothing; try_lock that finds none is LockFree.                           *)

UnlockHeld(o, k, m) ==
    /\ wait[o] = NoWait /\ holds[k][o][m].session > 0
    /\ holds' = [holds EXCEPT ![k][o][m].session = @ - 1]
    /\ UNCHANGED <<wait, txHolds>>

UnlockAll(o) ==
    /\ wait[o] = NoWait
    /\ holds' = [k \in Keys |->
                   [holds[k] EXCEPT ![o] = [m \in Modes |-> [@[m] EXCEPT !.session = 0]]]]
    /\ UNCHANGED <<wait, txHolds>>

OfTransactions(o) ==
    MapThenSumSet(LAMBDA h : IF h[2] = o THEN Count(h).transaction ELSE 0, Cells)

(* end_transaction: without a lock of the transaction level anywhere it     *)
(* does not take the mutex.                                                 *)
EndTransaction(o) ==
    /\ wait[o] = NoWait /\ txHolds # 0
    /\ holds' = [k \in Keys |->
                   [holds[k] EXCEPT ![o] = [m \in Modes |-> [@[m] EXCEPT !.transaction = 0]]]]
    /\ txHolds' = txHolds - OfTransactions(o)
    /\ UNCHANGED wait

EndSessionUncounted(o) ==
    /\ wait[o] = NoWait
    /\ holds' = [k \in Keys |-> [holds[k] EXCEPT ![o] = [m \in Modes |-> Nothing]]]
    /\ UNCHANGED <<wait, txHolds>>

EndSession(o) ==
    /\ wait[o] = NoWait
    /\ holds' = [k \in Keys |-> [holds[k] EXCEPT ![o] = [m \in Modes |-> Nothing]]]
    /\ txHolds' = txHolds - OfTransactions(o)
    /\ UNCHANGED wait

-----------------------------------------------------------------------------
AdvisoryNext ==
    \E o \in Owners :
        \/ LockGranted(o) \/ GiveUp(o) \/ Look(o)
        \/ UnlockAll(o) \/ EndTransaction(o) \/ EndSession(o)
        \/ \E k \in Keys, m \in Modes : UnlockHeld(o, k, m)
        \/ \E q \in Requests : LockFree(o, q[1], q[2], q[3]) \/ LockBlocked(o, q[1], q[2], q[3])

(* A waiting session wakes every POLL, so it looks when its time has come. *)
AdvisorySpec ==
    AdvisoryInit /\ [][AdvisoryNext]_advisoryVars /\ \A o \in Owners : WF_advisoryVars(Look(o))

-----------------------------------------------------------------------------
(* The one type invariant. *)
AdvisoryTypeOK ==
    /\ holds \in [Keys -> [Owners -> [Modes -> [session : Nat, transaction : Nat]]]]
    /\ wait \in [Owners -> WaitEntries \cup {NoWait}]
    /\ txHolds \in Nat

(* Two sessions hold one key only in the share mode. *)
Compatible ==
    \A k \in Keys, o, p \in Owners, m, n \in Modes :
        o # p /\ Has(k, o, m) /\ Has(k, p, n) => m = "share" /\ n = "share"

(* TRANSACTION_HOLDS, which the end of a transaction reads without the      *)
(* mutex, is exact: a transaction that then skips the table leaves no lock  *)
(* of its own behind.                                                       *)
HoldsExact == txHolds = MapThenSumSet(LAMBDA h : Count(h).transaction, Cells)

(* Sessions that wait in a ring: every part of them waits for the rest. *)
Ring(S) ==
    /\ \E o, p \in S : o # p
    /\ \A P \in SUBSET S : P # {} /\ P # S => \E o \in P, p \in S \ P : p \in WaitsFor(o)

(* No deadlock goes unseen though a session looks only once in a wait: in   *)
(* every ring of waits there is a session that still has its look to come.  *)
RingHasLooker == \A S \in SUBSET Owners : Ring(S) => \E o \in S : ~wait[o].looked

(* A deadlock ends, by itself or by the error of one of its sessions. *)
DeadlockEnds == \A S \in {Q \in SUBSET Owners : Cardinality(Q) > 1} : Ring(S) ~> ~Ring(S)
=============================================================================
