---------------------------- MODULE ReadMostly ----------------------------
(***************************************************************************)
(* The lock of the committed catalog, rudb-storage/src/mostly.rs: readers   *)
(* count themselves in slots and look at one flag, a writer holds a mutex,  *)
(* raises the flag and waits for every slot to empty.                       *)
(*                                                                          *)
(* Every load, store, add and subtract is an action of its own.  They are   *)
(* all sequentially consistent in the code, so an interleaving of them is   *)
(* what the threads see.                                                    *)
(***************************************************************************)
EXTENDS Integers, FiniteSets

CONSTANTS Threads,    \* the threads that use the lock
          SlotCount,  \* how many reader slots the lock has
          SlotOf,     \* mine() & (slots - 1): the slot a thread counts itself in
          NoOne

ASSUME MostlyAssumption == /\ SlotCount \in Nat \ {0}
                           /\ SlotOf \in [Threads -> 1..SlotCount]
                           /\ IsFiniteSet(Threads)
                           /\ NoOne \notin Threads

VARIABLES count,    \* slots: the readers counted in each
          writing,  \* the flag
          writers,  \* who holds the writers' mutex
          pc,       \* where each thread is in read, write or downgrade
          scan      \* the slot a writer waits for to empty

mostlyVars == <<count, writing, writers, pc, scan>>

Slots == 1..SlotCount

MostlyInit ==
    /\ count = [s \in Slots |-> 0] /\ writing = FALSE /\ writers = NoOne
    /\ pc = [t \in Threads |-> "idle"] /\ scan = [t \in Threads |-> 1]

Goto(t, from, to) == pc[t] = from /\ pc' = [pc EXCEPT ![t] = to]
Add(t, n) == count' = [count EXCEPT ![SlotOf[t]] = @ + n]

-----------------------------------------------------------------------------
(* read: count in, look at the flag, and back out and wait for the mutex    *)
(* when it is up.                                                           *)

CountIn(t) ==
    /\ Goto(t, "idle", "counted") /\ Add(t, 1)
    /\ UNCHANGED <<writing, writers, scan>>

EnterTrusting(t) ==
    /\ Goto(t, "counted", "reading")
    /\ UNCHANGED <<count, writing, writers, scan>>

(* The flag is down and the guard is made. *)
Enter(t) ==
    /\ Goto(t, "counted", "reading") /\ ~writing
    /\ UNCHANGED <<count, writing, writers, scan>>

SeeFlag(t) ==
    /\ Goto(t, "counted", "backing") /\ writing
    /\ UNCHANGED <<count, writing, writers, scan>>

BackOutSpinning(t) ==
    /\ Goto(t, "backing", "counted")
    /\ UNCHANGED <<count, writing, writers, scan>>

BackOut(t) ==
    /\ Goto(t, "backing", "knocking") /\ Add(t, -1)
    /\ UNCHANGED <<writing, writers, scan>>

(* The mutex is taken, let go, and the loop starts over. *)
Knock(t) ==
    /\ Goto(t, "knocking", "idle") /\ writers = NoOne
    /\ UNCHANGED <<count, writing, writers, scan>>

(* The guard is dropped. *)
Leave(t) ==
    /\ Goto(t, "reading", "idle") /\ Add(t, -1)
    /\ UNCHANGED <<writing, writers, scan>>

-----------------------------------------------------------------------------
(* write: the mutex, the flag, and then every slot in turn. *)

Acquire(t) ==
    /\ Goto(t, "idle", "raise") /\ writers = NoOne
    /\ writers' = t
    /\ UNCHANGED <<count, writing, scan>>

RaiseFlag(t) ==
    /\ Goto(t, "raise", "scan")
    /\ writing' = TRUE
    /\ scan' = [scan EXCEPT ![t] = 1]
    /\ UNCHANGED <<count, writers>>

ScanPasses(t) ==
    /\ pc[t] = "scan"
    /\ count[scan[t]] = 0
    /\ IF scan[t] = SlotCount
         THEN pc' = [pc EXCEPT ![t] = "writing"] /\ UNCHANGED scan
         ELSE scan' = [scan EXCEPT ![t] = @ + 1] /\ UNCHANGED pc
    /\ UNCHANGED <<count, writing, writers>>

(* The guard is dropped: the flag goes down, and the mutex after it. *)
Lower(t) ==
    /\ Goto(t, "writing", "unlock")
    /\ writing' = FALSE
    /\ UNCHANGED <<count, writers, scan>>

Unlock(t) ==
    /\ Goto(t, "unlock", "idle")
    /\ writers' = NoOne
    /\ UNCHANGED <<count, writing, scan>>

(* downgrade: the writer counts itself in before it lets go. *)
Downgrade(t) ==
    /\ Goto(t, "writing", "downgraded") /\ Add(t, 1)
    /\ UNCHANGED <<writing, writers, scan>>

DowngradeLower(t) ==
    /\ Goto(t, "downgraded", "lowered")
    /\ writing' = FALSE
    /\ UNCHANGED <<count, writers, scan>>

DowngradeUnlock(t) ==
    /\ Goto(t, "lowered", "reading")
    /\ writers' = NoOne
    /\ UNCHANGED <<count, writing, scan>>

-----------------------------------------------------------------------------
(* What a thread does once it started, and what it starts. *)
GoesOn(t) == \/ Enter(t) \/ SeeFlag(t) \/ BackOut(t) \/ Leave(t)
             \/ RaiseFlag(t) \/ ScanPasses(t) \/ Lower(t) \/ Unlock(t)
             \/ DowngradeLower(t) \/ DowngradeUnlock(t)

MostlyNext == \E t \in Threads : GoesOn(t) \/ CountIn(t) \/ Knock(t) \/ Acquire(t) \/ Downgrade(t)

(* A thread runs while it can, and lets go of what it read or wrote. *)
MostlySpec == MostlyInit /\ [][MostlyNext]_mostlyVars /\ \A t \in Threads : WF_mostlyVars(GoesOn(t))

-----------------------------------------------------------------------------
MostlyPlaces == {"idle", "counted", "backing", "knocking", "reading", "raise", "scan", "writing",
           "unlock", "downgraded", "lowered"}
Counted == {"counted", "backing", "reading", "downgraded", "lowered"}
Held == {"raise", "scan", "writing", "unlock", "downgraded", "lowered"}
Flagged == {"scan", "writing", "downgraded"}
Reading == {"reading", "downgraded", "lowered"}

(* The one type invariant. *)
MostlyTypeOK == /\ count \in [Slots -> Nat] /\ writing \in BOOLEAN
                /\ writers \in Threads \cup {NoOne}
                /\ pc \in [Threads -> MostlyPlaces] /\ scan \in [Threads -> Slots]

(* A writer that has its guard has it alone: no thread reads the value, or  *)
(* goes on to read it after a downgrade, and no other writes it.            *)
Exclusion == \A t, u \in Threads : t # u /\ pc[t] = "writing" => pc[u] \notin Reading \cup {"writing"}

(* The flag never stays up, or goes down, behind a writer's back: it is up  *)
(* exactly while a thread is between raising it and lowering it, so no      *)
(* reader waits for a writer that is gone.                                  *)
FlagOwned == writing <=> \E t \in Threads : pc[t] \in Flagged

(* A writer that raised the flag gets in, whatever readers come and go. *)
WriterEnters == \A t \in Threads : pc[t] = "scan" ~> pc[t] = "writing"
=============================================================================
