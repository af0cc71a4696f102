----------------------------- MODULE Horizons -----------------------------
(***************************************************************************)
(* The snapshots workers read at, rudb-storage/src/horizon.rs: every worker *)
(* publishes the snapshot and the epoch of its statement in a slot, and the *)
(* collector of the undo records reads the slots, one after another while   *)
(* statements begin and end, to know which records nobody needs and which   *)
(* chunks nobody looks at any more.                                         *)
(*                                                                          *)
(* Every load and store is an action of its own; they are all sequentially  *)
(* consistent in the code.  A slot's lock guards its tables and its mark.   *)
(* Commits, and what the collector does with the answers, are the callers': *)
(* the versions it takes for needed by nobody are remembered in gone, and   *)
(* chunks go from linked to cut and to freed.                               *)
(***************************************************************************)
EXTENDS Integers, FiniteSets

CONSTANTS SlotCount,  \* how many workers there are: each has a slot
          Tables,
          Chunks, TableOf,  \* chunks of undo and the table of each
          MaxCommits, MaxEpoch,  \* bounds: commits, and rounds of the collector
          Idle

ASSUME HorizonAssumption ==
    /\ SlotCount \in Nat
    /\ TableOf \in [Chunks -> Tables] /\ MaxCommits \in Nat /\ MaxEpoch \in Nat /\ Idle \notin Nat

VARIABLES commits, epoch,  \* the clock and the count of rounds
          slotSnap, slotEpoch,  \* what a slot publishes
          reads, killed,        \* what its lock guards
          act,       \* where the worker is in begin, resume or end
          loaded,    \* the value it loaded last
          reading,   \* the snapshot of its statement
          scan,      \* the question the collector asks of the slots, and how far it got
          gone,      \* the snapshots of a table it takes for held by nobody
          chunk, tag,  \* where each chunk is, and the epoch it was cut at
          reach      \* the chunks a statement may be looking at

slotVars == <<slotSnap, slotEpoch, reads, killed>>
stmtVars == <<act, loaded, reading>>
chunkVars == <<chunk, tag>>
horizonVars == <<commits, epoch, slotVars, stmtVars, scan, gone, chunkVars, reach>>

Slots == 1..SlotCount
(* A question of the collector's: about which table or chunk, up to which   *)
(* clock, the slot it is at, what it loaded of it and what it has found.    *)
Question(ask, of, upto) ==
    [ask |-> ask, of |-> of, upto |-> upto, slot |-> 1, seen |-> Idle, found |-> {}]
NoScan == Question("nothing", Idle, 0)

HorizonInit ==
    /\ commits = 0 /\ epoch = 0
    /\ slotSnap = [s \in Slots |-> Idle] /\ slotEpoch = [s \in Slots |-> Idle]
    /\ reads = [s \in Slots |-> Tables] /\ killed = [s \in Slots |-> Idle]
    /\ act = [s \in Slots |-> "away"] /\ loaded = [s \in Slots |-> 0]
    /\ reading = [s \in Slots |-> 0]
    /\ scan = NoScan /\ gone = [t \in Tables |-> {}]
    /\ chunk = [c \in Chunks |-> "linked"] /\ tag = [c \in Chunks |-> Idle]
    /\ reach = [s \in Slots |-> {}]

Does(s, from, to) == act[s] = from /\ act' = [act EXCEPT ![s] = to]
Forget(s) == loaded' = [loaded EXCEPT ![s] = 0]
Linked(T) == {c \in Chunks : chunk[c] = "linked" /\ TableOf[c] \in T}

(* A commit, external to this module. *)
Tick ==
    /\ commits < MaxCommits
    /\ commits' = commits + 1
    /\ UNCHANGED <<epoch, slotVars, stmtVars, scan, gone, chunkVars, reach>>

-----------------------------------------------------------------------------
(* begin *)

BeginHold(s, T) ==
    /\ Does(s, "away", "epoch")
    /\ reads' = [reads EXCEPT ![s] = T] /\ killed' = [killed EXCEPT ![s] = Idle]
    /\ UNCHANGED <<commits, epoch, slotSnap, slotEpoch, loaded, reading, scan, gone, chunkVars, reach>>

LoadEpoch(s) ==
    /\ Does(s, "epoch", "publish")
    /\ loaded' = [loaded EXCEPT ![s] = epoch]
    /\ UNCHANGED <<commits, epoch, slotVars, reading, scan, gone, chunkVars, reach>>

StoreEpoch(s) ==
    /\ Does(s, "publish", "clock")
    /\ slotEpoch' = [slotEpoch EXCEPT ![s] = loaded[s]] /\ Forget(s)
    /\ UNCHANGED <<commits, epoch, slotSnap, reads, killed, reading, scan, gone, chunkVars, reach>>

LoadClock(s) ==
    /\ Does(s, "clock", "store")
    /\ loaded' = [loaded EXCEPT ![s] = commits]
    /\ UNCHANGED <<commits, epoch, slotVars, reading, scan, gone, chunkVars, reach>>

StoreSnapshot(s) ==
    /\ Does(s, "store", "reread")
    /\ slotSnap' = [slotSnap EXCEPT ![s] = loaded[s]]
    /\ UNCHANGED <<commits, epoch, slotEpoch, reads, killed, loaded, reading, scan, gone, chunkVars, reach>>

Runs(s) == reach' = [reach EXCEPT ![s] = Linked(reads[s])]

NoReread(s) ==
    /\ Does(s, "reread", "running")
    /\ reading' = [reading EXCEPT ![s] = loaded[s]] /\ Runs(s) /\ Forget(s)
    /\ UNCHANGED <<commits, epoch, slotVars, scan, gone, chunkVars>>

Agree(s) ==
    /\ Does(s, "reread", "running") /\ commits = loaded[s]
    /\ reading' = [reading EXCEPT ![s] = loaded[s]] /\ Runs(s) /\ Forget(s)
    /\ UNCHANGED <<commits, epoch, slotVars, scan, gone, chunkVars>>

Disagree(s) ==
    /\ Does(s, "reread", "clock") /\ commits # loaded[s] /\ Forget(s)
    /\ UNCHANGED <<commits, epoch, slotVars, reading, scan, gone, chunkVars, reach>>

-----------------------------------------------------------------------------
(* resume, by a transaction that began with every table, and end. *)

ResumeHold(s) ==
    /\ Does(s, "running", "epoch again") /\ reads[s] = Tables
    /\ killed' = [killed EXCEPT ![s] = IF @ = reading[s] THEN @ ELSE Idle]
    /\ reach' = [reach EXCEPT ![s] = {}]
    /\ UNCHANGED <<commits, epoch, slotSnap, slotEpoch, reads, loaded, reading, scan, gone, chunkVars>>

ResumeLoad(s) ==
    /\ Does(s, "epoch again", "publish again")
    /\ loaded' = [loaded EXCEPT ![s] = epoch]
    /\ UNCHANGED <<commits, epoch, slotVars, reading, scan, gone, chunkVars, reach>>

ResumeStore(s) ==
    /\ Does(s, "publish again", "store again")
    /\ slotEpoch' = [slotEpoch EXCEPT ![s] = loaded[s]] /\ Forget(s)
    /\ UNCHANGED <<commits, epoch, slotSnap, reads, killed, reading, scan, gone, chunkVars, reach>>

ResumeSnapshot(s) ==
    /\ Does(s, "store again", "running")
    /\ slotSnap' = [slotSnap EXCEPT ![s] = reading[s]] /\ Runs(s)
    /\ UNCHANGED <<commits, epoch, slotEpoch, reads, killed, loaded, reading, scan, gone, chunkVars>>

(* too_old was asked by now: the statement reads nothing more. *)
EndSnapshot(s) ==
    /\ Does(s, "running", "ending")
    /\ slotSnap' = [slotSnap EXCEPT ![s] = Idle] /\ reach' = [reach EXCEPT ![s] = {}]
    /\ reading' = [reading EXCEPT ![s] = 0]
    /\ UNCHANGED <<commits, epoch, slotEpoch, reads, killed, loaded, scan, gone, chunkVars>>

EndEpoch(s) ==
    /\ Does(s, "ending", "away")
    /\ slotEpoch' = [slotEpoch EXCEPT ![s] = Idle]
    /\ UNCHANGED <<commits, epoch, slotSnap, reads, killed, loaded, reading, scan, gone, chunkVars, reach>>

-----------------------------------------------------------------------------
(* The collector's questions.  oldest and snapshots both load the clock and *)
(* then, of each slot, the snapshot and after it what its lock guards.      *)

Ask(question) == scan.ask = "nothing" /\ scan' = question

Judge(t) ==
    /\ Ask(Question("held", t, commits))
    /\ UNCHANGED <<commits, epoch, slotVars, stmtVars, gone, chunkVars, reach>>

AskOldest ==
    /\ Ask(Question("kill", Idle, 0))
    /\ UNCHANGED <<commits, epoch, slotVars, stmtVars, gone, chunkVars, reach>>

AskPassed(c) ==
    /\ chunk[c] = "cut" /\ tag[c] # Idle
    /\ Ask(Question("passed", c, 0))
    /\ UNCHANGED <<commits, epoch, slotVars, stmtVars, gone, chunkVars, reach>>

Scanning == scan.ask # "nothing" /\ scan.slot \in Slots

ScanLoad ==
    /\ Scanning /\ scan.seen = Idle
    /\ LET v == IF scan.ask = "passed" THEN slotEpoch[scan.slot] ELSE slotSnap[scan.slot]
       IN scan' = IF v = Idle THEN [scan EXCEPT !.slot = @ + 1] ELSE [scan EXCEPT !.seen = v]
    /\ UNCHANGED <<commits, epoch, slotVars, stmtVars, gone, chunkVars, reach>>

(* Held::holds, Reads::meets and the mark kill_oldest reads. *)
Counts(s, v) ==
    \/ scan.ask = "held" /\ scan.of \in reads[s] /\ killed[s] # v
    \/ scan.ask = "kill" /\ killed[s] # v
    \/ scan.ask = "passed" /\ v <= tag[scan.of] /\ TableOf[scan.of] \in reads[s]

ScanCheck ==
    LET s == scan.slot
        v == scan.seen
    IN /\ Scanning /\ v # Idle
       /\ scan' = [scan EXCEPT !.slot = s + 1, !.seen = Idle,
                               !.found = IF Counts(s, v) THEN @ \cup {<<v, s>>} ELSE @]
       /\ UNCHANGED <<commits, epoch, slotVars, stmtVars, gone, chunkVars, reach>>

Scanned(ask) == scan.slot \notin Slots /\ scan.ask = ask /\ scan' = NoScan

(* What no statement was found to hold, below the clock. *)
Judged ==
    /\ Scanned("held")
    /\ gone' = [gone EXCEPT ![scan.of] =
                   @ \cup {v \in 0..(scan.upto - 1) : \A f \in scan.found : f[1] # v}]
    /\ UNCHANGED <<commits, epoch, slotVars, stmtVars, chunkVars, reach>>

OldestFound(s) == \E v \in 0..MaxCommits : /\ <<v, s>> \in scan.found
                                         /\ \A f \in scan.found : v < f[1] \/ (v = f[1] /\ s <= f[2])

(* The slot is read again under its lock. *)
Kill(s) ==
    /\ Scanned("kill") /\ OldestFound(s)
    /\ killed' = [killed EXCEPT ![s] = IF slotSnap[s] = Idle THEN @ ELSE slotSnap[s]]
    /\ UNCHANGED <<commits, epoch, slotSnap, slotEpoch, reads, stmtVars, gone, chunkVars, reach>>

KillNobody ==
    /\ Scanned("kill") /\ scan.found = {}
    /\ UNCHANGED <<commits, epoch, slotVars, stmtVars, gone, chunkVars, reach>>

(* passed says no, or yes and the chunk is made again by someone. *)
StillSeen ==
    /\ Scanned("passed") /\ scan.found # {}
    /\ UNCHANGED <<commits, epoch, slotVars, stmtVars, gone, chunkVars, reach>>

ChunkPassed ==
    /\ Scanned("passed") /\ scan.found = {}
    /\ chunk' = [chunk EXCEPT ![scan.of] = "freed"]
    /\ UNCHANGED <<commits, epoch, slotVars, stmtVars, gone, tag, reach>>

CutOut(c) ==
    /\ scan.ask = "nothing" /\ chunk[c] = "linked"
    /\ chunk' = [chunk EXCEPT ![c] = "cut"]
    /\ UNCHANGED <<commits, epoch, slotVars, stmtVars, scan, gone, tag, reach>>

AdvanceFirst(C) ==
    /\ scan.ask = "nothing" /\ epoch < MaxEpoch /\ C = {c \in Chunks : chunk[c] = "linked"}
    /\ epoch' = epoch + 1
    /\ tag' = [c \in Chunks |-> IF c \in C THEN epoch ELSE tag[c]]
    /\ UNCHANGED <<commits, slotVars, stmtVars, scan, gone, chunk, reach>>

(* advance: what was cut in the round is tagged with the epoch it ends. *)
Advance(C) ==
    /\ scan.ask = "nothing" /\ epoch < MaxEpoch /\ C = {c \in Chunks : chunk[c] = "cut" /\ tag[c] = Idle}
    /\ epoch' = epoch + 1
    /\ tag' = [c \in Chunks |-> IF c \in C THEN epoch ELSE tag[c]]
    /\ UNCHANGED <<commits, slotVars, stmtVars, scan, gone, chunk, reach>>

-----------------------------------------------------------------------------
WorkerStep(s) ==
    \/ (\E T \in SUBSET Tables : BeginHold(s, T))
    \/ LoadEpoch(s) \/ StoreEpoch(s) \/ LoadClock(s) \/ StoreSnapshot(s) \/ Agree(s) \/ Disagree(s)
    \/ ResumeHold(s) \/ ResumeLoad(s) \/ ResumeStore(s) \/ ResumeSnapshot(s)
    \/ EndSnapshot(s) \/ EndEpoch(s)

CollectorStep ==
    \/ ScanLoad \/ ScanCheck \/ Judged \/ KillNobody \/ StillSeen \/ ChunkPassed \/ AskOldest
    \/ \E C \in SUBSET Chunks : Advance(C)
    \/ \E t \in Tables : Judge(t)
    \/ \E c \in Chunks : AskPassed(c) \/ CutOut(c)
    \/ \E s \in Slots : Kill(s)

HorizonNext == Tick \/ CollectorStep \/ \E s \in Slots : WorkerStep(s)

HorizonSpec == HorizonInit /\ [][HorizonNext]_horizonVars

-----------------------------------------------------------------------------
Again == {"epoch again", "publish again", "store again"}

(* A snapshot a statement or transaction reads at is never one the          *)
(* collector takes for held by nobody, whichever of them came first and     *)
(* however far the scan of the slots had got when it began; or the snapshot *)
(* was killed, and too_old says so.                                         *)
KeptOrTold ==
    \A s \in Slots, t \in Tables :
        /\ act[s] \in Again \cup {"running"} /\ t \in reads[s] /\ reading[s] \in gone[t]
        => killed[s] = reading[s]

(* No chunk is freed that a statement, killed or not, may be looking at. *)
FreedUnseen == \A s \in Slots : \A c \in reach[s] : chunk[c] # "freed"
=============================================================================
