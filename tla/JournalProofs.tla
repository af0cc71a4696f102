--------------------------- MODULE JournalProofs ---------------------------
(***************************************************************************)
(* The durable cut and the journal over it, for every set of committers,    *)
(* lanes, settings and bounds.                                              *)
(*                                                                          *)
(* First the cut by itself (Cut).  Then what the journal always keeps: its  *)
(* types, who holds the writer lock, the cut in the hands of its callers    *)
(* (Sound), and the frame of the log (Framed): the anchor of the file, the  *)
(* numbers of the blocks without a gap above it, and a flight whose file is *)
(* not behind.  From the frame, every block of this opening is replayed     *)
(* after a crash of the process.                                            *)
(***************************************************************************)
EXTENDS Journal, FiniteSetTheorems, WellFoundedInduction, TLAPS

(* The inductive invariant.  CutExact speaks only of `there`; that it is    *)
(* kept needs the shape of the state: what is there is the run up to the    *)
(* cut and the set above it, which does not touch the run.                  *)
CutShape ==
    /\ there = 0..at \cup above
    /\ \A ts \in above : ts > at + 1

CutInv == CutTypeOK /\ CutShape /\ NoSleeper

LEMMA ShapeExact == CutTypeOK /\ CutShape => CutExact
<1> SUFFICES ASSUME CutTypeOK, CutShape PROVE CutExact
  BY Zenon
<1>1. 0..at \subseteq there
  BY Zenon DEF CutShape
<1>2. ASSUME NEW ts \in there, 0..ts \subseteq there PROVE ts <= at
  <2> SUFFICES ASSUME ts > at PROVE FALSE
    BY DEF CutTypeOK
  <2>1. at + 1 \in 0..ts
    BY DEF CutTypeOK
  <2>2. at + 1 \in above
    BY <1>2, <2>1 DEF CutShape, CutTypeOK
  <2> QED BY <2>2 DEF CutShape, CutTypeOK
<1> QED BY Zenon, <1>1, <1>2 DEF CutExact

LEMMA CutInitInv == CutInit => CutInv
<1> SUFFICES ASSUME CutInit PROVE CutInv
  BY Zenon
<1>1. at = 0 /\ above = {} /\ there = 0..0 /\ parked = {}
  BY Zenon DEF CutInit, New
<1>2. CutTypeOK
  <2>1. failed \in BOOLEAN
    BY Zenon DEF CutInit, New
  <2>2. waiting \in [Committers -> Nat \cup {NoWait}]
    BY Zenon DEF CutInit
  <2> QED BY <1>1, <2>1, <2>2 DEF CutTypeOK
<1>3. there = 0..at \cup above
  BY Zenon, <1>1
<1>4. (\A ts \in above : ts > at + 1) /\ NoSleeper
  BY Zenon, <1>1 DEF NoSleeper
<1> QED BY Zenon, <1>2, <1>3, <1>4 DEF CutInv, CutShape

LEMMA ReachedInv ==
    ASSUME CutInv, NEW ts \in Nat, Reached(ts)
    PROVE  CutInv'
<1> USE DEF CutInv
<1>1. CASE ts <= at
  <2>1. UNCHANGED <<at, above, parked, failed, waiting>> /\ there' = there \cup {ts}
    BY <1>1 DEF Reached, CutTypeOK
  <2>2. there' = there
    BY <1>1, <2>1 DEF CutShape, CutTypeOK
  <2> QED BY Zenon, <2>1, <2>2 DEF CutTypeOK, CutShape, NoSleeper
<1>2. CASE ts > at
  <2>1. PICK n \in Stops(at, above \cup {ts}) :
           /\ at' = n
           /\ above' = {t \in above \cup {ts} : t > n}
           /\ parked' = IF n # at THEN {} ELSE parked
    BY SMTT(40), <1>2 DEF Reached, CutTypeOK
  <2>2. /\ n \in Nat /\ n >= at
        /\ (at + 1)..n \subseteq above \cup {ts}
        /\ n + 1 \notin above \cup {ts}
    BY Zenon, <2>1 DEF Stops, CutTypeOK
  <2>3. there' = there \cup {ts} /\ UNCHANGED <<failed, waiting>>
    BY Zenon DEF Reached
  <2>4. CutTypeOK'
    BY Zenon, <2>1, <2>2, <2>3 DEF CutTypeOK
  <2>5. there' = 0..at' \cup above'
    <3>1. ASSUME NEW t \in there' PROVE t \in 0..at' \cup above'
      BY <2>1, <2>2, <2>3 DEF CutTypeOK, CutShape
    <3>2. ASSUME NEW t \in 0..at' PROVE t \in there'
      BY <2>1, <2>2, <2>3 DEF CutTypeOK, CutShape
    <3>3. ASSUME NEW t \in above' PROVE t \in there'
      BY Zenon, <2>1, <2>3 DEF CutShape
    <3> QED BY Zenon, <3>1, <3>2, <3>3
  <2>6. \A t \in above' : t > at' + 1
    BY <2>1, <2>2 DEF CutTypeOK
  <2>7. NoSleeper'
    BY Zenon, <2>1, <2>3 DEF NoSleeper
  <2> QED BY Zenon, <2>4, <2>5, <2>6, <2>7 DEF CutShape
<1> QED BY <1>1, <1>2 DEF CutTypeOK

LEMMA RaiseInv ==
    ASSUME CutInv, NEW ts \in Nat, Raise(ts)
    PROVE  CutInv'
<1> USE DEF CutInv
<1> DEFINE base == IF ts > at THEN ts ELSE at
<1>1. PICK n \in Stops(base, {t \in above : t > base}) :
         at' = n /\ above' = {t \in above : t > n}
  BY Zenon DEF Raise
<1>2. /\ base \in Nat /\ base >= at /\ base >= ts /\ base \in {ts, at}
      /\ n \in Nat /\ n >= base
      /\ (base + 1)..n \subseteq above
      /\ n + 1 \notin above
  BY <1>1 DEF Stops, CutTypeOK
<1>3. /\ failed' = FALSE /\ parked' = {} /\ there' = there \cup 0..ts
      /\ waiting' = waiting
  BY Zenon DEF Raise
<1> HIDE DEF base
<1>4. CutTypeOK'
  <2>1. failed' \in BOOLEAN
    BY <1>3, Zenon
  <2>2. at' \in Nat /\ above' \subseteq Nat
    BY Zenon, <1>1, <1>2 DEF CutTypeOK
  <2>3. there' \subseteq Nat
    <3> SUFFICES ASSUME NEW t \in there' PROVE t \in Nat
      BY Zenon
    <3> QED BY <1>3 DEF CutTypeOK
  <2>4. waiting' \in [Committers -> Nat \cup {NoWait}] /\ parked' \subseteq Committers
    BY Zenon, <1>3 DEF CutTypeOK
  <2> QED BY Zenon, <2>1, <2>2, <2>3, <2>4 DEF CutTypeOK
<1>5. there' = 0..at' \cup above'
  <2>1. ASSUME NEW t \in there' PROVE t \in 0..at' \cup above'
    BY <1>1, <1>2, <1>3 DEF CutTypeOK, CutShape
  <2>2. ASSUME NEW t \in 0..at' PROVE t \in there'
    BY <1>1, <1>2, <1>3 DEF CutTypeOK, CutShape
  <2>3. above' \subseteq there'
    BY Zenon, <1>1, <1>3 DEF CutShape
  <2> QED BY Zenon, <2>1, <2>2, <2>3
<1>6. \A t \in above' : t > at' + 1
  BY <1>1, <1>2 DEF CutTypeOK
<1>7. NoSleeper'
  BY Zenon, <1>3 DEF NoSleeper
<1> QED BY Zenon, <1>4, <1>5, <1>6, <1>7 DEF CutShape

LEMMA WaitingInv ==
    ASSUME CutInv,
           \/ Fail
           \/ \E c \in Committers : \/ \E ts \in Nat \cup {NoWait} : WaitBegin(c, ts)
                                    \/ Turn(c) \/ Spurious(c)
    PROVE  CutInv'
<1>1. CASE Fail
  <2>1. failed' \in BOOLEAN /\ parked' = {}
    BY <1>1, Zenon DEF Fail
  <2> QED BY Zenon, <1>1, <2>1 DEF Fail, CutInv, CutTypeOK, CutShape, NoSleeper
<1>2. ASSUME NEW c \in Committers, NEW ts \in Nat \cup {NoWait}, WaitBegin(c, ts) PROVE CutInv'
  BY Zenon, <1>2 DEF WaitBegin, CutInv, CutTypeOK, CutShape, NoSleeper
<1>3. ASSUME NEW c \in Committers, Turn(c) PROVE CutInv'
  <2>1. ASSUME WaitOk(c) \/ WaitErr(c) PROVE CutInv'
    <3>1. /\ UNCHANGED <<at, above, failed, parked, there>>
          /\ waiting' = [waiting EXCEPT ![c] = NoWait] /\ c \notin parked
      BY Zenon, <2>1 DEF WaitOk, WaitErr
    <3> QED BY Zenon, <3>1 DEF CutInv, CutTypeOK, CutShape, NoSleeper
  <2>2. CASE Park(c)
    BY Zenon, <2>2 DEF Park, CutInv, CutTypeOK, CutShape, NoSleeper
  <2> QED BY Zenon, <1>3, <2>1, <2>2 DEF Turn
<1>4. ASSUME NEW c \in Committers, Spurious(c) PROVE CutInv'
  BY Zenon, <1>4 DEF Spurious, CutInv, CutTypeOK, CutShape, NoSleeper
<1> QED BY Zenon, <1>1, <1>2, <1>3, <1>4

LEMMA CutStep == CutInv /\ [CutNext]_cutVars => CutInv'
<1> SUFFICES ASSUME CutInv, [CutNext]_cutVars PROVE CutInv'
  BY Zenon
<1>1. ASSUME NEW ts \in Stamps, Reached(ts) \/ Raise(ts) PROVE CutInv'
  BY Zenon, <1>1, ReachedInv, RaiseInv, StampsAssumption
<1>2. CASE \/ Fail
           \/ \E c \in Committers : \/ \E ts \in Stamps : WaitBegin(c, ts)
                                    \/ Turn(c) \/ Spurious(c)
  BY Zenon, <1>2, WaitingInv, StampsAssumption
<1>3. CASE UNCHANGED cutVars
  BY Zenon, <1>3 DEF cutVars, CutInv, CutTypeOK, CutShape, NoSleeper
<1> QED BY Zenon, <1>1, <1>2, <1>3 DEF CutNext

(* The state of the cut keeps its shape whatever order commits are reached, *)
(* checkpoints raise it, lanes fail and committers wait: cut.rs, every      *)
(* method.                                                                  *)
THEOREM CutInvariant == CutSpec => []CutInv
BY CutInitInv, CutStep, PTL DEF CutSpec

(* The cut is the largest timestamp at or below which every commit is       *)
(* there, for any number of committers and timestamps: reached and raise.   *)
THEOREM CutIsExact == CutSpec => []CutExact
<1>1. CutInv => CutExact
  BY Zenon, ShapeExact DEF CutInv
<1> QED BY <1>1, CutInvariant, PTL

(* No thread sleeps in `wait` past the moment its commit is reached or a    *)
(* lane fails.                                                              *)
THEOREM CutHasNoSleeper == CutSpec => []NoSleeper
<1>1. CutInv => NoSleeper
  BY Zenon DEF CutInv
<1> QED BY <1>1, CutInvariant, PTL

(* reached and raise only move the cut up, and drop no commit above it      *)
(* that the cut has not passed.                                             *)
THEOREM CutOnlyGrows == CutSpec => CutKeeps
<1>1. CutInv /\ [CutNext]_cutVars
        => [at' >= at /\ \A ts \in above : ts \in above' \/ ts <= at']_cutVars
  <2> SUFFICES ASSUME CutInv, CutNext
               PROVE  at' >= at /\ \A ts \in above : ts \in above' \/ ts <= at'
    BY Zenon
  <2>1. ASSUME NEW ts \in Stamps, Reached(ts)
        PROVE  at' >= at /\ \A t \in above : t \in above' \/ t <= at'
    BY <2>1, StampsAssumption DEF Reached, Stops, CutInv, CutTypeOK
  <2>2. ASSUME NEW ts \in Stamps, Raise(ts)
        PROVE  at' >= at /\ \A t \in above : t \in above' \/ t <= at'
    BY <2>2, StampsAssumption DEF Raise, Stops, CutInv, CutTypeOK
  <2>3. CASE at' = at /\ above' = above
    BY <2>3 DEF CutInv, CutTypeOK
  <2> QED
    BY Zenon, <2>1, <2>2, <2>3
    DEF CutNext, Fail, WaitBegin, Turn, WaitOk, WaitErr, Park, Spurious
<1> QED BY <1>1, CutInvariant, PTL DEF CutSpec, CutKeeps

-----------------------------------------------------------------------------
(* The types of the journal, in parts that its steps touch separately. *)
Places == {"idle", "settle", "commit", "landed", "lane", "after", "cut", "relock", "relock_err",
           "checkpoint", "relaunch", "persist", "write", "recycle", "recycled", "closing", "shut",
           "close"}
Syncs == {"full", "os", "none"}
Flights == [status : {"none", "writing", "done", "failed", "landing"}, durable : Nat,
            content : SUBSET Statements, logged : Nat,
            to : {"none", "commit", "relaunch", "write", "shut"}]
Windows == [records : SUBSET Statements, broken : BOOLEAN, kept : BOOLEAN]
Pends == [lane : Lanes \cup {0}, sync : Syncs, ts : Nat, after : Nat \cup {NoWait}]
Blocks == [ts : Nat, dep : Nat, lane : Lanes, stmts : SUBSET Statements, sync : Syncs,
           run : 0..MaxCrashes, at : {"queued", "written", "synced"}]
Files == [anchored : BOOLEAN, durable : Nat, content : SUBSET Statements]

RunOK == up \in BOOLEAN /\ run \in 0..MaxCrashes
CatalogOK == /\ mem \subseteq Statements /\ staged \subseteq mem /\ dirty \in BOOLEAN
             /\ last \in Nat /\ laneOfLast \in Lanes \cup {0} /\ torn \in BOOLEAN
             /\ anchored \in BOOLEAN /\ logged \in Nat
LanesOK == opened \subseteq Lanes /\ found \subseteq Lanes /\ laneFailed \subseteq opened
FlightOK == window \in Windows /\ flight \in Flights
ThreadsOK == /\ lock \in Committers \cup {NoOne} /\ pc \in [Committers -> Places]
             /\ stmt \in [Committers -> Statements \cup {0}] /\ pend \in [Committers -> Pends]
DiskOK == block \subseteq Blocks /\ file \in Files
HistoryOK == /\ next \in 1..(MaxStatements + 1) /\ deps \in [Statements -> SUBSET Statements]
             /\ acked \subseteq Statements /\ soft \subseteq Statements
FaultsOK == /\ laneFails \in 0..MaxLaneFails /\ refusals \in 0..MaxRefusals
            /\ fileFails \in 0..MaxFileFails


LEMMA TypeParts ==
    JournalTypeOK <=> /\ CutTypeOK /\ RunOK /\ CatalogOK /\ LanesOK /\ FlightOK /\ ThreadsOK
                      /\ DiskOK /\ HistoryOK /\ FaultsOK
BY Zenon DEF JournalTypeOK, RunOK, CatalogOK, LanesOK, FlightOK, ThreadsOK, DiskOK, HistoryOK,
       FaultsOK, Places, Syncs, Flights, Windows, Pends, Blocks, Files

LEMMA CountType ==
    ASSUME NEW S \in SUBSET Statements
    PROVE  Cardinality(S) \in Nat
<1>1. IsFiniteSet(Statements)
  BY JournalAssumption, FS_Interval DEF Statements
<1> QED BY Zenon, <1>1, FS_Subset, FS_CardinalityType

-----------------------------------------------------------------------------
(* The steps of a worker, without the cut: what each does to the types. *)
Rest == RunOK /\ CatalogOK /\ LanesOK /\ FlightOK /\ ThreadsOK /\ DiskOK /\ HistoryOK /\ FaultsOK

LEMMA RecoverType ==
    ASSUME Rest, staged = {}, Recover
    PROVE  Rest'
<1> USE DEF Rest
<1>1. RunOK' /\ ThreadsOK' /\ HistoryOK' /\ FaultsOK' /\ FlightOK'
  <2>1. up' \in BOOLEAN
    BY Zenon DEF Recover
  <2> QED
    BY Zenon, <2>1 DEF Recover, threads, history, faults, RunOK, ThreadsOK, HistoryOK, FaultsOK,
      FlightOK
<1>2. LanesOK'
  BY Zenon DEF Recover, LanesOK, DiskOK, Blocks
<1>3. DiskOK'
  BY Zenon DEF Recover, DiskOK
<1>4. CatalogOK'
  <2>1. anchored' \in BOOLEAN /\ torn' \in BOOLEAN
    BY Zenon DEF Recover, CatalogOK, DiskOK, Files
  <2>2. staged' = {} /\ dirty' = dirty /\ laneOfLast' = laneOfLast
    BY Zenon DEF Recover
  <2>3. CASE file.anchored
    <3>1. UNION {b.stmts : b \in Kept} \subseteq Statements
      BY Zenon DEF Kept, Replayable, DiskOK, Blocks
    <3>2. mem' \subseteq Statements
      BY Zenon, <2>3, <3>1 DEF Recover, DiskOK, Files
    <3>3. last' \in Nat
      BY <2>3 DEF Recover, Replayable, DiskOK, Blocks, Files
    <3>4. logged' \in Nat
      BY Zenon, <2>3, <3>1, CountType DEF Recover
    <3> QED BY Zenon, <2>1, <2>2, <3>2, <3>3, <3>4 DEF CatalogOK
  <2>4. CASE ~file.anchored
    BY Zenon, <2>1, <2>2, <2>4 DEF Recover, CatalogOK
  <2> QED BY Zenon, <2>3, <2>4
<1> QED BY Zenon, <1>1, <1>2, <1>3, <1>4

-----------------------------------------------------------------------------
(* The lock and the flight: a worker at a place of Locked holds the writer  *)
(* lock, and one at a place of Grounded has no flight about.                *)
Locked == {"settle", "commit", "landed", "checkpoint", "relaunch", "persist", "write", "recycle",
           "recycled", "closing", "shut", "close"}
Grounded == {"relaunch", "write", "recycle", "recycled", "shut", "close"}

LockInv ==
    /\ \A w \in Committers : pc[w] \in Locked => lock = w
    /\ \A w \in Committers : pc[w] \in Grounded => flight.status = "none"
    /\ \A w \in Committers : pc[w] = "landed" => flight.status = "landing" /\ flight.to # "none"
    /\ flight.status = "landing" => \E w \in Committers : pc[w] = "landed"

(* What is left in memory of a database that is not open. *)
Down ==
    ~up => /\ mem = {} /\ staged = {} /\ ~dirty /\ last = 0 /\ ~torn /\ ~anchored
           /\ opened = {} /\ laneFailed = {} /\ flight = NoFlight /\ lock = NoOne
           /\ parked = {} /\ \A w \in Committers : pc[w] = "idle"

LEMMA HolderIs ==
    ASSUME LockInv, NEW w \in Committers, pc[w] \in Locked
    PROVE  lock = w
BY Zenon DEF LockInv

-----------------------------------------------------------------------------
(* A worker is at work only while the database is open. *)
LEMMA WorksUp ==
    ASSUME Rest, Down, NEW w \in Committers, pc[w] # "idle"
    PROVE  up
BY Zenon DEF Down, Rest, RunOK

LEMMA WorkerAway ==
    ASSUME NEW w \in Committers, Worker(w)
    PROVE  pc[w] # "idle"
BY ZenonT(60) DEF Worker, Land, Landed, MustPersist, NothingStaged, Refuse, EnqueueWait,
  EnqueueNone,
       EnqueueNoneFails, Queue, LaneSettles, LaneErrs, CutWaitBegin, CutTurn, Relock,
       CheckpointInline, ShortAgain, Launch, WriteFile, WriteFileFails, Recycle, Checkpointed,
       CloseLog

LEMMA DownStep == Rest /\ Down /\ [JournalNext]_vars => Down'
<1>WorkerUp.
      ASSUME NEW w \in Committers, Worker(w) \/ Client(w)
      PROVE  up' = up
  BY <1>WorkerUp, ZenonT(60) DEF Worker, Land, Landed, MustPersist, NothingStaged, Refuse,
    EnqueueWait, EnqueueNone,
         EnqueueNoneFails, Queue, LaneSettles, LaneErrs, CutWaitBegin, CutTurn, Relock,
         CheckpointInline, ShortAgain, Launch, WriteFile, WriteFileFails, Recycle, Checkpointed,
         CloseLog, Client, Execute, Ask
<1> SUFFICES ASSUME Rest, Down, [JournalNext]_vars
             PROVE  Down'
  BY Zenon
<1>1. ASSUME NEW w \in Committers, Client(w) \/ Worker(w) PROVE Down'
  <2>1. up
    BY Zenon, <1>1, WorksUp, WorkerAway DEF Client, Execute, Ask
  <2> QED BY Zenon, <1>1, <2>1, <1>WorkerUp DEF Down
<1>2. CASE (\E l \in Lanes : LaneWrite(l) \/ LaneSync(l) \/ LaneFail(l)) \/ FlightDone \/ FlightFail
  <2>1. up /\ up' = up
    BY Zenon, <1>2 DEF LaneWrite, LaneSync, LaneFail, FlightDone, FlightFail
  <2> QED BY Zenon, <2>1 DEF Down
<1>3. ASSUME NEW kind, Crash(kind) PROVE Down'
  BY Zenon, <1>3 DEF Crash, Down
<1>4. CASE Recover
  BY Zenon, <1>4 DEF Recover, Down
<1>5. CASE UNCHANGED vars
  BY Zenon, <1>5 DEF vars, cutVars, journal, lanes, threads, Down
<1> QED BY Zenon, <1>1, <1>2, <1>3, <1>4, <1>5 DEF JournalNext

LEMMA RestStep == Rest /\ LockInv /\ Down /\ [JournalNext]_vars => Rest'
<1>LaneIn. \A w \in Committers, set \in Settings : w % set.lanes \in Lanes
  BY DEF Lanes
<1>StayType.
      ASSUME ThreadsOK, HistoryOK, NEW w \in Committers, NEW to \in Places, Stay(w, to)
      PROVE  ThreadsOK' /\ HistoryOK'
  BY Zenon, <1>StayType DEF ThreadsOK, HistoryOK, Stay, Goto, history
<1>ReturnType.
      ASSUME ThreadsOK, HistoryOK, NEW w \in Committers, NEW how, Return(w, how)
      PROVE  ThreadsOK' /\ HistoryOK'
  <2> USE <1>ReturnType
  <2>1. pc' \in [Committers -> Places] /\ lock' \in Committers \cup {NoOne}
    BY Zenon DEF ThreadsOK, Return, Goto, Release, Places
  <2>2. stmt' \in [Committers -> Statements \cup {0}] /\ pend' \in [Committers -> Pends]
    BY Zenon DEF ThreadsOK, Return, NoPend, Pends, Syncs
  <2>3. HistoryOK'
    BY Zenon DEF HistoryOK, ThreadsOK, Return
  <2> QED BY Zenon, <2>1, <2>2, <2>3 DEF ThreadsOK
<1>MovedType.
      ASSUME DiskOK, NEW ls, NEW from, NEW to \in {"written", "synced"}
      PROVE  Moved(ls, from, to) \subseteq Blocks
  BY Zenon, <1>MovedType DEF DiskOK, Moved, Blocks
<1>ExecuteType.
      ASSUME Rest, NEW w \in Committers, NEW kind, Execute(w, kind)
      PROVE  Rest'
  <2> USE <1>ExecuteType
  <2> USE DEF Rest
  <2>1. lock' \in Committers \cup {NoOne} /\ pc' \in [Committers -> Places] /\ pend' = pend
    BY Zenon DEF Execute, Goto, ThreadsOK, Places
  <2>2. UNCHANGED <<run, up, last, laneOfLast, torn, anchored, logged, opened, found, laneFailed,
                    flight, block, file, acked, soft, laneFails, refusals, fileFails>>
    BY Zenon DEF Execute, lanes, faults
  <2>3. RunOK' /\ LanesOK' /\ DiskOK' /\ FaultsOK'
    BY Zenon, <2>2 DEF RunOK, LanesOK, DiskOK, FaultsOK
  <2>4. CASE kind = "nothing"
    <3>1. UNCHANGED <<mem, staged, dirty, window, stmt, next, deps>>
      BY Zenon, <2>4 DEF Execute
    <3> QED BY Zenon, <2>1, <2>2, <2>3, <3>1 DEF CatalogOK, FlightOK, ThreadsOK, HistoryOK
  <2>5. CASE kind # "nothing"
    <3>1. /\ next <= MaxStatements
          /\ mem' = mem \cup {next}
          /\ stmt' = [stmt EXCEPT ![w] = next]
          /\ deps' = [deps EXCEPT ![next] = mem]
          /\ next' = next + 1
          /\ staged' = IF dirty \/ kind = "whole" THEN {} ELSE staged \cup {next}
          /\ dirty' = (dirty \/ kind = "whole")
          /\ window' = IF kind = "whole"
                          THEN [window EXCEPT !.broken = window.kept] ELSE window
      BY Zenon, <2>5 DEF Execute
    <3>2. next \in Statements /\ next' \in 1..(MaxStatements + 1)
      BY JournalAssumption, SMTT(40), <3>1 DEF HistoryOK, Statements
    <3>3. HistoryOK'
      BY Zenon, <2>2, <3>1, <3>2 DEF HistoryOK, CatalogOK
    <3>4. ThreadsOK'
      BY Zenon, <2>1, <3>1, <3>2 DEF ThreadsOK
    <3>5. mem' \subseteq Statements /\ staged' \subseteq mem'
      BY Zenon, <3>1, <3>2 DEF CatalogOK
    <3>6. dirty' \in BOOLEAN
      BY Zenon, <3>1 DEF CatalogOK
    <3>7. window' \in Windows
      <4>1. window \in Windows
        BY Zenon DEF FlightOK
      <4>2. [window EXCEPT !.broken = window.kept] \in Windows
        BY Zenon, <4>1 DEF Windows
      <4> QED BY Zenon, <3>1, <4>1, <4>2
    <3>8. CatalogOK' /\ FlightOK'
      BY Zenon, <2>2, <3>5, <3>6, <3>7 DEF CatalogOK, FlightOK
    <3> QED BY Zenon, <2>3, <3>3, <3>4, <3>8
  <2> QED BY Zenon, <2>4, <2>5
<1>AskType.
      ASSUME Rest, NEW w \in Committers, NEW to \in Places, Ask(w, to)
      PROVE  Rest'
  <2> USE <1>AskType
  <2>1. ThreadsOK'
    BY Zenon DEF Rest, Ask, Goto, ThreadsOK
  <2> QED
    BY Zenon, <2>1 DEF Rest, Ask, journal, lanes, history, faults, RunOK, CatalogOK, LanesOK,
      FlightOK,
                DiskOK, HistoryOK, FaultsOK
(* What a step does to the worker that takes it: on to another place or back. *)
<1>TurnType.
      ASSUME Rest, NEW w \in Committers,
             (\E to \in Places : Stay(w, to)) \/ (\E how : Return(w, how))
      PROVE  ThreadsOK' /\ HistoryOK'
  BY Zenon, <1>TurnType, <1>StayType, <1>ReturnType DEF Rest
(* The steps that move a worker and nothing else but the cut. *)
<1>QuietType.
      ASSUME Rest, NEW w \in Committers,
             (\E to \in Places : Stay(w, to)) \/ (\E how : Return(w, how)),
             UNCHANGED <<up, run, journal, lanes, window, flight, block, file, faults>>
      PROVE  Rest'
  <2> USE <1>QuietType
  <2>1. ThreadsOK' /\ HistoryOK'
    BY Zenon, <1>TurnType
  <2> QED
    BY Zenon, <2>1 DEF Rest, journal, lanes, faults, RunOK, CatalogOK, LanesOK, FlightOK,
      DiskOK, FaultsOK
<1>LandType.
      ASSUME Rest, NEW w \in Committers, NEW from, NEW wait,
             NEW to \in {"commit", "relaunch", "write", "shut"}, Land(w, from, wait, to)
      PROVE  Rest'
  <2> USE <1>LandType
  <2> USE DEF Rest
  <2>1. RunOK' /\ CatalogOK' /\ LanesOK' /\ FaultsOK' /\ file' = file
    BY Zenon DEF Land, journal, lanes, faults, RunOK, CatalogOK, LanesOK, FaultsOK
  <2>2. ThreadsOK' /\ HistoryOK'
    <3>1. (\E p \in Places : Stay(w, p)) \/ (\E how : Return(w, how))
      <4>1. to \in Places /\ "landed" \in Places
        BY Zenon DEF Places
      <4> QED BY Zenon, <4>1 DEF Land
    <3> QED BY Zenon, <3>1, <1>TurnType
  <2>3. NoWindow \in Windows /\ NoFlight \in Flights
    BY Zenon DEF NoWindow, NoFlight, Windows, Flights
  <2>4. [flight EXCEPT !.status = "landing", !.to = to] \in Flights
    BY Zenon DEF FlightOK, Flights
  <2>5. FlightOK'
    BY Zenon, <2>3, <2>4 DEF Land, FlightOK
  <2>6. DiskOK'
    BY Zenon, <2>1, <1>MovedType DEF Land, DiskOK
  <2> QED BY Zenon, <2>1, <2>2, <2>5, <2>6
<1>LandedType.
      ASSUME Rest, NEW w \in Committers, Landed(w), flight.to # "none"
      PROVE  Rest'
  <2> USE <1>LandedType
  <2> USE DEF Rest
  <2>1. RunOK' /\ LanesOK' /\ FaultsOK'
    BY Zenon DEF Landed, faults, RunOK, LanesOK, FaultsOK
  <2>2. ThreadsOK' /\ HistoryOK'
    <3>1. flight.to \in Places
      BY Zenon DEF FlightOK, Flights, Places
    <3>2. (\E p \in Places : Stay(w, p)) \/ (\E how : Return(w, how))
      BY Zenon, <3>1 DEF Landed
    <3> QED BY Zenon, <3>2, <1>TurnType
  <2>3. CatalogOK'
    <3>1. logged' \in Nat
      BY DEF Landed, CatalogOK, FlightOK, Flights
    <3>2. anchored' \in BOOLEAN
      BY Zenon DEF Landed
    <3> QED BY Zenon, <3>1, <3>2 DEF Landed, CatalogOK
  <2>4. FlightOK'
    <3>1. NoFlight \in Flights
      BY Zenon DEF NoFlight, Flights
    <3> QED BY Zenon, <3>1 DEF Landed, FlightOK
  <2>5. DiskOK'
    BY Zenon DEF Landed, DiskOK, Recycled
  <2> QED BY Zenon, <2>1, <2>2, <2>3, <2>4, <2>5
<1>RefuseType.
      ASSUME Rest, NEW w \in Committers, NEW set \in Settings, Refuse(w, set)
      PROVE  Rest'
  <2> USE <1>RefuseType
  <2> USE DEF Rest
  <2>1. RunOK' /\ CatalogOK' /\ LanesOK' /\ DiskOK'
    BY Zenon DEF Refuse, lanes, RunOK, CatalogOK, LanesOK, DiskOK
  <2>2. ThreadsOK' /\ HistoryOK'
    <3>1. Stay(w, "persist")
      BY Zenon DEF Refuse
    <3> QED BY Zenon, <3>1, <1>StayType DEF Places
  <2>3. FaultsOK'
    BY JournalAssumption DEF Refuse, FaultsOK
  <2>4. FlightOK'
    BY Zenon DEF Refuse, FlightOK, Windows
  <2> QED BY Zenon, <2>1, <2>2, <2>3, <2>4
<1>QueueType.
      ASSUME Rest, NEW w \in Committers, NEW set \in Settings, Queue(w, set)
      PROVE  RunOK' /\ CatalogOK' /\ FlightOK' /\ DiskOK' /\ opened' \subseteq Lanes
             /\ found' = found /\ opened \subseteq opened' /\ w % set.lanes \in opened'
  <2> USE <1>QueueType
  <2> USE DEF Rest
  <2> DEFINE l == w % set.lanes
  <2>1. l \in Lanes
    BY Zenon, <1>LaneIn
  <2>2. set.sync \in Syncs
    BY Zenon, JournalAssumption DEF Syncs
  <2> HIDE DEF l
  <2>3. RunOK' /\ opened' = opened \cup {l} /\ found' = found
    BY Zenon DEF Queue, RunOK, l
  <2>4. CatalogOK'
    <3>1. Cardinality(staged) \in Nat
      BY Zenon, CountType DEF CatalogOK
    <3> QED BY <2>1, <3>1 DEF Queue, CatalogOK, l
  <2>5. FlightOK'
    <3>1. window \in Windows /\ staged \subseteq Statements
      BY Zenon DEF FlightOK, CatalogOK
    <3>2. [window EXCEPT !.broken = TRUE] \in Windows
      BY Zenon, <3>1 DEF Windows
    <3>3. [window EXCEPT !.records = window.records \cup staged] \in Windows
      BY Zenon, <3>1 DEF Windows
    <3>4. window' \in {window, [window EXCEPT !.broken = TRUE],
                       [window EXCEPT !.records = window.records \cup staged]}
      BY Zenon DEF Queue
    <3>5. flight' = flight
      BY Zenon DEF Queue
    <3> QED BY Zenon, <3>1, <3>2, <3>3, <3>4, <3>5 DEF FlightOK
  <2>6. DiskOK'
    <3>1. [ts |-> last + 1, dep |-> last, lane |-> l, stmts |-> staged, sync |-> set.sync,
           run |-> run, at |-> "queued"] \in Blocks
      BY <2>1, <2>2 DEF Blocks, CatalogOK, RunOK
    <3>2. block' = block \cup {[ts |-> last + 1, dep |-> last, lane |-> l, stmts |-> staged,
                                sync |-> set.sync, run |-> run, at |-> "queued"]}
      BY Zenon DEF Queue, l
    <3>3. file' = file
      BY Zenon DEF Queue
    <3> QED BY Zenon, <3>1, <3>2, <3>3 DEF DiskOK
  <2> QED BY Zenon, <2>1, <2>3, <2>4, <2>5, <2>6 DEF LanesOK, l
<1>EnqueueType.
      ASSUME Rest, NEW w \in Committers, NEW set \in Settings,
             EnqueueWait(w, set) \/ EnqueueNone(w, set) \/ EnqueueNoneFails(w, set)
      PROVE  Rest'
  <2> USE <1>EnqueueType
  <2> USE DEF Rest
  <2>1. Queue(w, set)
    BY Zenon DEF EnqueueWait, EnqueueNone, EnqueueNoneFails
  <2>2. RunOK' /\ CatalogOK' /\ FlightOK' /\ DiskOK' /\ opened' \subseteq Lanes
        /\ found' = found /\ opened \subseteq opened' /\ w % set.lanes \in opened'
    BY Zenon, <2>1, <1>QueueType
  <2>3. LanesOK'
    <3>1. laneFailed' \in {laneFailed, laneFailed \cup {w % set.lanes}}
      BY Zenon DEF EnqueueWait, EnqueueNone, EnqueueNoneFails
    <3> QED BY Zenon, <2>2, <3>1 DEF LanesOK
  <2>4. FaultsOK'
    <3>1. laneFails' = laneFails \/ (laneFails < MaxLaneFails /\ laneFails' = laneFails + 1)
      BY Zenon DEF EnqueueWait, EnqueueNone, EnqueueNoneFails
    <3>2. refusals' = refusals /\ fileFails' = fileFails
      BY Zenon, <2>1 DEF Queue
    <3> QED BY JournalAssumption, <3>1, <3>2 DEF FaultsOK
  <2>5. CASE EnqueueWait(w, set)
    <3>1. HistoryOK' /\ stmt' = stmt
      BY Zenon, <2>5 DEF EnqueueWait, history, HistoryOK
    <3>2. lock' \in Committers \cup {NoOne} /\ pc' \in [Committers -> Places]
      BY Zenon, <2>5 DEF EnqueueWait, Goto, ThreadsOK, Places
    <3>3. After(w % set.lanes) \in Nat \cup {NoWait}
      BY Zenon DEF After, CatalogOK
    <3>4. [lane |-> w % set.lanes, sync |-> set.sync, ts |-> last + 1,
           after |-> After(w % set.lanes)] \in Pends
      BY JournalAssumption, <3>3, <1>LaneIn DEF Pends, Syncs, CatalogOK
    <3>5. pend' = [pend EXCEPT ![w] = [lane |-> w % set.lanes, sync |-> set.sync, ts |-> last + 1,
                                       after |-> After(w % set.lanes)]]
      BY Zenon, <2>5 DEF EnqueueWait
    <3>6. pend' \in [Committers -> Pends]
      BY Zenon, <3>4, <3>5 DEF ThreadsOK
    <3> QED BY Zenon, <2>2, <2>3, <2>4, <3>1, <3>2, <3>6 DEF ThreadsOK
  <2>6. CASE EnqueueNone(w, set) \/ EnqueueNoneFails(w, set)
    <3>1. (\E to \in Places : Stay(w, to)) \/ (\E how : Return(w, how))
      <4>1. "checkpoint" \in Places /\ "persist" \in Places
        BY Zenon DEF Places
      <4> QED BY Zenon, <2>6, <4>1 DEF EnqueueNone, EnqueueNoneFails
    <3>2. ThreadsOK' /\ HistoryOK'
      BY Zenon, <3>1, <1>TurnType
    <3> QED BY Zenon, <2>2, <2>3, <2>4, <3>2
  <2> QED BY Zenon, <2>5, <2>6
<1>WaitedTurns.
      ASSUME NEW w, NEW ok, Waited(w, ok)
      PROVE  (\E to \in Places : Stay(w, to)) \/ (\E how : Return(w, how))
  <2> USE <1>WaitedTurns
  <2>1. {"relock", "relock_err", "checkpoint", "persist"} \subseteq Places
    BY Zenon DEF Places
  <2> QED BY Zenon, <2>1 DEF Waited
(* The steps of a commit that waits, and those that only choose where to go. *)
<1>WaitsType.
      ASSUME Rest, NEW w \in Committers,
             \/ MustPersist(w) \/ NothingStaged(w) \/ LaneSettles(w) \/ LaneErrs(w)
             \/ CutWaitBegin(w) \/ CutTurn(w) \/ CheckpointInline(w) \/ ShortAgain(w)
      PROVE  Rest'
  <2> USE <1>WaitsType
  <2>1. UNCHANGED <<up, run, journal, lanes, window, flight, block, file, faults>>
    BY Zenon DEF MustPersist, NothingStaged, LaneSettles, LaneErrs, CutWaitBegin, CutTurn,
                 CheckpointInline, ShortAgain
  <2>2. {"persist", "checkpoint", "after", "cut"} \subseteq Places
    BY Zenon DEF Places
  <2>3. \/ (\E to \in Places : Stay(w, to)) \/ (\E how : Return(w, how))
        \/ UNCHANGED <<threads, history>>
    BY Zenon, <2>2, <1>WaitedTurns
    DEF MustPersist, NothingStaged, Settled, LaneSettles, LaneErrs, CutWaitBegin, CutTurn,
        CheckpointInline, ShortAgain
  <2>4. CASE UNCHANGED <<threads, history>>
    BY Zenon, <2>1, <2>4
    DEF Rest, threads, history, journal, lanes, faults, RunOK, CatalogOK, LanesOK, FlightOK,
        ThreadsOK, DiskOK, HistoryOK, FaultsOK
  <2> QED BY Zenon, <2>1, <2>3, <2>4, <1>QuietType
<1>RelockType.
      ASSUME Rest, NEW w \in Committers, Relock(w)
      PROVE  Rest'
  <2> USE <1>RelockType
  <2>1. UNCHANGED <<up, run, journal, lanes, window, flight, block, file, faults>>
    BY Zenon DEF Relock
  <2>2. CASE \E how : Return(w, how)
    BY Zenon, <2>1, <2>2, <1>QuietType
  <2>3. CASE /\ lock' = w /\ UNCHANGED <<stmt, pend, history>>
             /\ \E to \in {"checkpoint", "persist"} : Goto(w, to)
    <3>1. ThreadsOK' /\ HistoryOK'
      BY Zenon, <2>3 DEF Rest, ThreadsOK, Goto, Places, history, HistoryOK
    <3> QED
      BY Zenon, <2>1, <3>1
      DEF Rest, journal, lanes, faults, RunOK, CatalogOK, LanesOK, FlightOK, DiskOK, FaultsOK
  <2> QED BY Zenon, <2>2, <2>3 DEF Relock
<1>LaunchType.
      ASSUME Rest, NEW w \in Committers, Launch(w)
      PROVE  Rest'
  <2> USE <1>LaunchType
  <2> USE DEF Rest
  <2>1. RunOK' /\ CatalogOK' /\ LanesOK' /\ DiskOK' /\ FaultsOK'
    BY Zenon DEF Launch, journal, lanes, faults, RunOK, CatalogOK, LanesOK, DiskOK, FaultsOK
  <2>2. ThreadsOK' /\ HistoryOK'
    <3>1. Return(w, pend[w].sync)
      BY Zenon DEF Launch
    <3> QED BY Zenon, <3>1, <1>ReturnType
  <2>3. FlightOK'
    <3>1. [status |-> "writing", durable |-> last, content |-> mem, logged |-> logged,
           to |-> "none"] \in Flights
      BY Zenon DEF CatalogOK, Flights
    <3>2. [NoWindow EXCEPT !.kept = TRUE] \in Windows
      BY Zenon DEF NoWindow, Windows
    <3> QED BY Zenon, <3>1, <3>2 DEF Launch, FlightOK
  <2> QED BY Zenon, <2>1, <2>2, <2>3
<1>FileType.
      ASSUME Rest, NEW w \in Committers,
             WriteFile(w) \/ WriteFileFails(w) \/ Recycle(w) \/ Checkpointed(w) \/ CloseLog(w)
      PROVE  Rest'
  <2> USE <1>FileType
  <2> USE DEF Rest
  <2>1. ThreadsOK' /\ HistoryOK'
    <3>1. {"close", "recycle", "recycled"} \subseteq Places
      BY Zenon DEF Places
    <3>2. (\E to \in Places : Stay(w, to)) \/ (\E how : Return(w, how))
      BY Zenon, <3>1 DEF WriteFile, WriteFileFails, Recycle, Checkpointed, CloseLog
    <3> QED BY Zenon, <3>2, <1>TurnType
  <2>2. CASE WriteFile(w)
    <3>1. [anchored |-> TRUE, durable |-> last, content |-> mem] \in Files
      BY Zenon DEF CatalogOK, Files
    <3>2. DiskOK'
      BY Zenon, <2>2, <3>1 DEF WriteFile, DiskOK
    <3> QED
      BY Zenon, <2>1, <2>2, <3>2 DEF WriteFile, journal, lanes, faults, RunOK, CatalogOK,
        LanesOK, FlightOK,
                              FaultsOK
  <2>3. CASE WriteFileFails(w)
    <3>1. FaultsOK'
      BY JournalAssumption, <2>3 DEF WriteFileFails, FaultsOK
    <3> QED
      BY Zenon, <2>1, <2>3, <3>1 DEF WriteFileFails, journal, lanes, RunOK, CatalogOK, LanesOK,
        FlightOK,
                              DiskOK
  <2>4. CASE Recycle(w)
    <3>1. DiskOK'
      <4>1. file' = file /\ (block' = block \/ block' = Moved(opened, "queued", "written"))
        BY Zenon, <2>4 DEF Recycle
      <4> QED BY Zenon, <4>1, <1>MovedType DEF DiskOK
    <3> QED
      BY Zenon, <2>1, <2>4, <3>1 DEF Recycle, journal, lanes, faults, RunOK, CatalogOK, LanesOK,
        FlightOK,
                              FaultsOK
  <2>5. CASE Checkpointed(w)
    <3>1. dirty' \in BOOLEAN /\ anchored' \in BOOLEAN /\ torn' \in BOOLEAN
      BY Zenon, <2>5 DEF Checkpointed
    <3>2. CatalogOK'
      BY Zenon, <2>5, <3>1 DEF Checkpointed, CatalogOK
    <3>3. DiskOK' /\ LanesOK'
      BY Zenon, <2>5 DEF Checkpointed, Recycled, DiskOK, LanesOK
    <3> QED BY Zenon, <2>1, <2>5, <3>2, <3>3 DEF Checkpointed, faults, RunOK, FlightOK, FaultsOK
  <2>6. CASE CloseLog(w)
    <3>1. dirty' \in BOOLEAN
      BY Zenon, <2>6 DEF CloseLog
    <3>2. CatalogOK'
      BY Zenon, <2>6, <3>1 DEF CloseLog, CatalogOK
    <3>3. DiskOK' /\ LanesOK'
      BY Zenon, <2>6 DEF CloseLog, DiskOK, LanesOK
    <3> QED BY Zenon, <2>1, <2>6, <3>2, <3>3 DEF CloseLog, faults, RunOK, FlightOK, FaultsOK
  <2> QED BY Zenon, <2>2, <2>3, <2>4, <2>5, <2>6
(* The disk and the flight. *)
<1>DiskType.
      ASSUME Rest,
             (\E l \in Lanes : LaneWrite(l) \/ LaneSync(l) \/ LaneFail(l)) \/ FlightDone \/ FlightFail
      PROVE  Rest'
  <2> USE <1>DiskType
  <2> USE DEF Rest
  <2>1. ASSUME NEW l \in Lanes, LaneWrite(l) \/ LaneSync(l) PROVE Rest'
    <3>1. DiskOK'
      BY Zenon, <2>1, <1>MovedType DEF LaneWrite, LaneSync, DiskOK
    <3> QED
      BY Zenon, <2>1, <3>1 DEF LaneWrite, LaneSync, journal, lanes, threads, history, faults,
        RunOK,
                        CatalogOK, LanesOK, FlightOK, ThreadsOK, HistoryOK, FaultsOK
  <2>2. ASSUME NEW l \in Lanes, LaneFail(l) PROVE Rest'
    <3>1. DiskOK'
      BY Zenon, <2>2, <1>MovedType DEF LaneFail, DiskOK
    <3>2. LanesOK' /\ FaultsOK'
      BY JournalAssumption, <2>2 DEF LaneFail, LanesOK, FaultsOK
    <3> QED
      BY Zenon, <2>2, <3>1, <3>2 DEF LaneFail, journal, threads, history, RunOK,
                              CatalogOK, FlightOK, ThreadsOK, HistoryOK
  <2>3. CASE FlightDone
    <3>1. [anchored |-> TRUE, durable |-> flight.durable, content |-> flight.content] \in Files
      BY Zenon DEF FlightOK, Flights, Files
    <3>2. [flight EXCEPT !.status = "done"] \in Flights
      BY Zenon DEF FlightOK, Flights
    <3>3. FlightOK' /\ DiskOK'
      BY Zenon, <2>3, <3>1, <3>2 DEF FlightDone, FlightOK, DiskOK
    <3> QED
      BY Zenon, <2>3, <3>3 DEF FlightDone, journal, lanes, threads, history, faults, RunOK,
                        CatalogOK, LanesOK, ThreadsOK, HistoryOK, FaultsOK
  <2>4. CASE FlightFail
    <3>1. [flight EXCEPT !.status = "failed"] \in Flights
      BY Zenon DEF FlightOK, Flights
    <3>2. FlightOK' /\ FaultsOK'
      <4>1. FlightOK'
        BY Zenon, <2>4, <3>1 DEF FlightFail, FlightOK
      <4> QED BY JournalAssumption, <2>4, <4>1 DEF FlightFail, FaultsOK
    <3> QED
      BY Zenon, <2>4, <3>2 DEF FlightFail, journal, lanes, threads, history, RunOK,
                        CatalogOK, LanesOK, ThreadsOK, DiskOK, HistoryOK
  <2> QED BY Zenon, <2>1, <2>2, <2>3, <2>4
<1>CrashType.
      ASSUME Rest, NEW kind, Crash(kind)
      PROVE  Rest'
  <2> USE <1>CrashType
  <2> USE DEF Rest
  <2>1. RunOK'
    <3>1. up' \in BOOLEAN
      BY Zenon DEF Crash
    <3> QED BY JournalAssumption, <3>1 DEF Crash, RunOK
  <2>2. CatalogOK'
    <3>1. dirty' \in BOOLEAN /\ torn' \in BOOLEAN /\ anchored' \in BOOLEAN
      BY Zenon DEF Crash
    <3> QED BY Zenon, <3>1 DEF Crash, CatalogOK
  <2>3. LanesOK' /\ FaultsOK'
    BY Zenon DEF Crash, faults, LanesOK, FaultsOK
  <2>4. FlightOK'
    <3>1. NoWindow \in Windows /\ NoFlight \in Flights
      BY Zenon DEF NoWindow, NoFlight, Windows, Flights
    <3> QED BY Zenon, <3>1 DEF Crash, FlightOK
  <2>5. ThreadsOK'
    BY Zenon DEF Crash, ThreadsOK, Places, NoPend, Pends, Syncs
  <2>6. HistoryOK'
    BY Zenon DEF Crash, HistoryOK
  <2>7. DiskOK'
    <3>1. ASSUME NEW s \in Survivors PROVE {[b EXCEPT !.at = "synced"] : b \in s} \subseteq Blocks
      BY DEF Survivors, DiskOK, Blocks
    <3> QED BY Zenon, <3>1 DEF Crash, DiskOK
  <2> QED BY Zenon, <2>1, <2>2, <2>3, <2>4, <2>5, <2>6, <2>7
<1> SUFFICES ASSUME Rest, LockInv, Down, [JournalNext]_vars
             PROVE  Rest'
  BY Zenon
<1>1. ASSUME NEW w \in Committers, Client(w) PROVE Rest'
  BY Zenon, <1>1, <1>ExecuteType, <1>AskType DEF Client, Places
<1>2. ASSUME NEW w \in Committers, Worker(w) PROVE Rest'
  <2>1. ASSUME NEW from, NEW wait, NEW to \in {"commit", "relaunch", "write", "shut"},
               Land(w, from, wait, to)
        PROVE Rest'
    BY Zenon, <2>1, <1>LandType
  <2>2. CASE Landed(w)
    <3>1. flight.to # "none"
      BY Zenon, <2>2 DEF Landed, LockInv
    <3> QED BY Zenon, <2>2, <3>1, <1>LandedType
  <2>3. ASSUME NEW set \in Settings,
               \/ Refuse(w, set) \/ EnqueueWait(w, set)
               \/ EnqueueNone(w, set) \/ EnqueueNoneFails(w, set)
        PROVE Rest'
    BY Zenon, <2>3, <1>RefuseType, <1>EnqueueType
  <2>4. CASE \/ MustPersist(w) \/ NothingStaged(w) \/ LaneSettles(w) \/ LaneErrs(w)
             \/ CutWaitBegin(w) \/ CutTurn(w) \/ CheckpointInline(w) \/ ShortAgain(w)
    BY Zenon, <2>4, <1>WaitsType
  <2>5. CASE Relock(w) \/ Launch(w)
    BY Zenon, <2>5, <1>RelockType, <1>LaunchType
  <2>6. CASE WriteFile(w) \/ WriteFileFails(w) \/ Recycle(w) \/ Checkpointed(w) \/ CloseLog(w)
    BY Zenon, <2>6, <1>FileType
  <2> QED BY Zenon, <1>2, <2>1, <2>2, <2>3, <2>4, <2>5, <2>6 DEF Worker
<1>3. CASE (\E l \in Lanes : LaneWrite(l) \/ LaneSync(l) \/ LaneFail(l)) \/ FlightDone \/ FlightFail
  BY Zenon, <1>3, <1>DiskType
<1>4. ASSUME NEW kind, Crash(kind) PROVE Rest'
  BY Zenon, <1>4, <1>CrashType
<1>5. CASE Recover
  BY Zenon, <1>5, RecoverType DEF Recover, Down
<1>6. CASE UNCHANGED vars
  BY Zenon, <1>6 DEF vars, Rest, journal, lanes, threads, history, faults, RunOK, CatalogOK,
    LanesOK,
              FlightOK, ThreadsOK, DiskOK, HistoryOK, FaultsOK
<1> QED BY Zenon, <1>1, <1>2, <1>3, <1>4, <1>5, <1>6 DEF JournalNext

LEMMA LockStep == Rest /\ LockInv /\ Down /\ [JournalNext]_vars => LockInv'
(* A worker that moves holding the lock, taking it or letting it go, to     *)
(* where the flight allows.                                                 *)
<1>HolderLock.
      ASSUME Rest, LockInv, NEW w \in Committers, NEW to \in Places,
             lock \in {w, NoOne}, Goto(w, to), to \in Locked => lock' = w,
             to \in Grounded => flight'.status = "none",
             to = "landed" => flight'.status = "landing" /\ flight'.to # "none",
             to # "landed" => \/ flight'.status # "landing"
                              \/ flight' = flight /\ pc[w] # "landed"
      PROVE  LockInv'
  <2> USE <1>HolderLock
  <2>1. pc' = [pc EXCEPT ![w] = to] /\ pc \in [Committers -> Places]
    BY Zenon DEF Goto, Rest, ThreadsOK
  <2>2. \A v \in Committers : v # w => pc[v] \notin Locked /\ pc'[v] = pc[v]
    BY JournalAssumption, <2>1 DEF LockInv
  <2>3. pc'[w] = to
    BY Zenon, <2>1
  <2>4. Grounded \subseteq Locked /\ "landed" \in Locked
    BY Zenon DEF Grounded, Locked
  <2>5. flight' = flight /\ pc[w] # "landed" => flight'.status # "landing"
    BY Zenon, <2>2, <2>4 DEF LockInv
  <2> QED BY Zenon, <2>2, <2>3, <2>4, <2>5 DEF LockInv
(* A worker that moves without the lock. *)
<1>OutsiderLock.
      ASSUME Rest, LockInv, NEW w \in Committers, NEW to \in Places \ Locked,
             pc[w] \notin Locked, Goto(w, to), lock' = lock, flight' = flight
      PROVE  LockInv'
  <2> USE <1>OutsiderLock
  <2>1. pc' = [pc EXCEPT ![w] = to] /\ pc \in [Committers -> Places]
    BY Zenon DEF Goto, Rest, ThreadsOK
  <2>2. Grounded \subseteq Locked /\ "landed" \in Locked
    BY Zenon DEF Grounded, Locked
  <2> QED BY Zenon, <2>1, <2>2 DEF LockInv
<1>ReturnHolder.
      ASSUME NEW w \in Committers, NEW how, Return(w, how)
      PROVE  Goto(w, "idle") /\ "idle" \in Places \ Locked /\ lock' = IF lock = w THEN NoOne ELSE lock
  BY Zenon, <1>ReturnHolder DEF Return, Release, Places, Locked
(* A return, with the flight as it was or one that does not land. *)
<1>ReturnLock.
      ASSUME Rest, LockInv, NEW w \in Committers, NEW how, Return(w, how),
             \/ flight' = flight /\ pc[w] # "landed"
             \/ lock = w /\ flight'.status # "landing"
      PROVE  LockInv'
  <2> USE <1>ReturnLock
  <2>1. Goto(w, "idle") /\ "idle" \in Places \ Locked /\ lock' = IF lock = w THEN NoOne ELSE lock
    BY Zenon, <1>ReturnHolder
  <2>2. "idle" \notin Grounded /\ "idle" # "landed"
    BY Zenon DEF Grounded
  <2>3. CASE lock = w
    BY Zenon, <2>1, <2>2, <2>3, <1>HolderLock
  <2>4. CASE lock # w
    <3>1. pc[w] \notin Locked
      BY Zenon, <2>4 DEF LockInv
    <3> QED BY Zenon, <2>1, <2>4, <3>1, <1>OutsiderLock
  <2> QED BY Zenon, <2>3, <2>4
<1>WaitedLock.
      ASSUME Rest, LockInv, NEW w \in Committers, NEW ok \in BOOLEAN, pc[w] \notin Locked,
             Waited(w, ok), flight' = flight
      PROVE  LockInv'
  <2> USE <1>WaitedLock
  <2>1. "landed" \in Locked
    BY Zenon DEF Locked
  <2>2. CASE ok /\ ~Over
    BY Zenon, <2>1, <2>2, <1>ReturnLock DEF Waited
  <2>3. ASSUME NEW to \in {"relock", "relock_err"}, Stay(w, to) PROVE LockInv'
    <3>1. to \in Places \ Locked
      BY Zenon DEF Places, Locked
    <3> QED BY Zenon, <2>3, <3>1, <1>OutsiderLock DEF Stay
  <2>4. ASSUME NEW to \in {"checkpoint", "persist"}, Stay(w, to), lock = w PROVE LockInv'
    <3>1. to \in Places /\ to \notin Grounded /\ to # "landed"
      BY Zenon DEF Places, Grounded
    <3> QED BY Zenon, <2>1, <2>4, <3>1, <1>HolderLock DEF Stay
  <2> QED BY Zenon, <2>2, <2>3, <2>4 DEF Waited
<1>ClientLock.
      ASSUME Rest, LockInv, NEW w \in Committers, Client(w)
      PROVE  LockInv'
  <2> USE <1>ClientLock
  <2>1. PICK to \in {"settle", "persist", "closing"} :
           lock = NoOne /\ pc[w] = "idle" /\ lock' = w /\ Goto(w, to) /\ flight' = flight
    BY Zenon DEF Client, Execute, Ask
  <2>2. to \in Places /\ to \notin Grounded /\ to # "landed"
    BY Zenon DEF Places, Grounded
  <2> QED BY Zenon, <2>1, <2>2, <1>HolderLock
<1>LandLock.
      ASSUME Rest, LockInv, NEW w \in Committers,
             \/ Land(w, "settle", FALSE, "commit") \/ Land(w, "checkpoint", TRUE, "relaunch")
             \/ Land(w, "persist", TRUE, "write") \/ Land(w, "closing", TRUE, "shut")
      PROVE  LockInv'
  <2> USE <1>LandLock
  <2>1. PICK wait \in BOOLEAN, from \in {"settle", "checkpoint", "persist", "closing"},
             to \in {"commit", "relaunch", "write", "shut"} :
           Land(w, from, wait, to) /\ (to # "commit" => wait)
    BY Zenon
  <2>2. pc[w] = from
    BY Zenon, <2>1 DEF Land
  <2>3. lock = w /\ pc[w] # "landed"
    BY Zenon, <2>2, HolderIs DEF Locked
  <2>4. to \in Places /\ "landed" \in Places /\ "commit" \notin Grounded /\ to # "landed"
        /\ "landed" \notin Grounded /\ to # "none"
    BY Zenon DEF Places, Grounded
  <2>5. CASE /\ flight.status = "none" \/ (~wait /\ flight.status = "writing")
             /\ Stay(w, to) /\ flight' = flight
    BY Zenon, <2>1, <2>3, <2>4, <2>5, <1>HolderLock DEF Stay
  <2>6. CASE Stay(w, to) /\ flight' = NoFlight
    BY Zenon, <2>3, <2>4, <2>6, <1>HolderLock DEF Stay, NoFlight
  <2>7. CASE Return(w, "error") /\ flight' = NoFlight
    BY Zenon, <2>3, <2>7, <1>ReturnLock DEF NoFlight
  <2>8. CASE Stay(w, "landed") /\ flight' = [flight EXCEPT !.status = "landing", !.to = to]
    <3>1. flight'.status = "landing" /\ flight'.to = to
      BY Zenon, <2>8 DEF Rest, FlightOK, Flights
    <3> QED BY Zenon, <2>3, <2>4, <2>8, <3>1, <1>HolderLock DEF Stay
  <2> QED BY Zenon, <2>1, <2>5, <2>6, <2>7, <2>8 DEF Land
<1>LandedLock.
      ASSUME Rest, LockInv, NEW w \in Committers, Landed(w)
      PROVE  LockInv'
  <2> USE <1>LandedLock
  <2>1. lock = w /\ flight.to # "none" /\ flight' = NoFlight
    BY Zenon, HolderIs DEF Landed, Locked, LockInv
  <2>2. flight.to \in Places /\ flight.to # "landed"
    BY Zenon, <2>1 DEF Rest, FlightOK, Flights, Places
  <2>3. flight'.status = "none"
    BY Zenon, <2>1 DEF NoFlight
  <2>4. CASE Stay(w, flight.to)
    BY Zenon, <2>1, <2>2, <2>3, <2>4, <1>HolderLock DEF Stay
  <2>5. CASE \E how : Return(w, how)
    BY Zenon, <2>1, <2>3, <2>5, <1>ReturnLock
  <2> QED BY Zenon, <2>4, <2>5 DEF Landed
(* A worker with the lock that goes on with the flight as it is. *)
<1>KeptLock.
      ASSUME Rest, LockInv, NEW w \in Committers, pc[w] \in Locked \ {"landed"}, flight' = flight,
             \/ \E how : Return(w, how)
             \/ \E to \in {"persist", "checkpoint"} : Stay(w, to)
             \/ \E to \in {"recycle", "recycled", "close"} : Stay(w, to) /\ pc[w] \in Grounded
      PROVE  LockInv'
  <2> USE <1>KeptLock
  <2>1. lock = w
    BY Zenon, HolderIs
  <2>2. ASSUME NEW to \in {"persist", "checkpoint"}, Stay(w, to) PROVE LockInv'
    <3>1. to \in Places /\ to \notin Grounded /\ to # "landed"
      BY Zenon DEF Places, Grounded
    <3> QED BY Zenon, <2>1, <2>2, <3>1, <1>HolderLock DEF Stay
  <2>3. ASSUME NEW to \in {"recycle", "recycled", "close"}, Stay(w, to), pc[w] \in Grounded
        PROVE LockInv'
    <3>1. to \in Places /\ to # "landed" /\ flight.status = "none"
      BY Zenon, <2>3 DEF Places, LockInv
    <3> QED BY Zenon, <2>1, <2>3, <3>1, <1>HolderLock DEF Stay
  <2> QED BY Zenon, <2>2, <2>3, <1>ReturnLock
<1>CommitLock.
      ASSUME Rest, LockInv, NEW w \in Committers,
             \/ MustPersist(w) \/ NothingStaged(w)
             \/ \E set \in Settings : \/ Refuse(w, set) \/ EnqueueWait(w, set)
                                      \/ EnqueueNone(w, set) \/ EnqueueNoneFails(w, set)
             \/ CheckpointInline(w) \/ ShortAgain(w)
             \/ WriteFile(w) \/ WriteFileFails(w)
             \/ Recycle(w) \/ Checkpointed(w) \/ CloseLog(w)
      PROVE  LockInv'
  <2> USE <1>CommitLock
  <2>1. flight' = flight
    BY ZenonT(60) DEF MustPersist, NothingStaged, Refuse, EnqueueWait, EnqueueNone,
      EnqueueNoneFails, Queue,
           CheckpointInline, ShortAgain, WriteFile, WriteFileFails, Recycle, Checkpointed,
           CloseLog
  <2>2. pc[w] \in {"commit", "checkpoint", "relaunch", "write", "shut", "recycle", "recycled", "close"}
    BY ZenonT(60) DEF MustPersist, NothingStaged, Refuse, EnqueueWait, EnqueueNone,
      EnqueueNoneFails, Queue,
           CheckpointInline, ShortAgain, WriteFile, WriteFileFails, Recycle, Checkpointed,
           CloseLog
  <2>3. pc[w] \in Locked \ {"landed"}
    BY Zenon, <2>2 DEF Locked
  <2>4. ASSUME NEW set \in Settings, EnqueueWait(w, set) PROVE LockInv'
    <3>1. lock = w /\ pc[w] # "landed"
      BY Zenon, <2>3, HolderIs
    <3>2. Goto(w, "lane") /\ "lane" \in Places /\ "lane" \notin Locked /\ "lane" \notin Grounded
          /\ "lane" # "landed"
      BY Zenon, <2>4 DEF EnqueueWait, Places, Locked, Grounded
    <3> QED BY Zenon, <2>1, <3>1, <3>2, <1>HolderLock
  <2>5. CASE WriteFile(w) \/ Recycle(w)
    <3>1. pc[w] \in Grounded
      BY Zenon, <2>5 DEF WriteFile, Recycle, Grounded
    <3>2. \/ \E how : Return(w, how)
          \/ \E to \in {"recycle", "recycled", "close"} : Stay(w, to)
      BY Zenon, <2>5 DEF WriteFile, Recycle
    <3> QED BY Zenon, <2>1, <2>3, <3>1, <3>2, <1>KeptLock
  <2>6. CASE \/ MustPersist(w) \/ NothingStaged(w)
             \/ \E set \in Settings : Refuse(w, set) \/ EnqueueNone(w, set) \/ EnqueueNoneFails(w, set)
             \/ CheckpointInline(w) \/ ShortAgain(w)
             \/ WriteFileFails(w) \/ Checkpointed(w) \/ CloseLog(w)
    <3>1. \/ \E how : Return(w, how)
          \/ \E to \in {"persist", "checkpoint"} : Stay(w, to)
      BY Zenon, <2>6 DEF MustPersist, NothingStaged, Settled, Refuse, EnqueueNone,
        EnqueueNoneFails,
                  CheckpointInline, ShortAgain, WriteFileFails, Checkpointed, CloseLog
    <3> QED BY Zenon, <2>1, <2>3, <3>1, <1>KeptLock
  <2> QED BY Zenon, <2>4, <2>5, <2>6
<1>WaitLock.
      ASSUME Rest, LockInv, NEW w \in Committers,
             LaneSettles(w) \/ LaneErrs(w) \/ CutWaitBegin(w) \/ CutTurn(w) \/ Relock(w) \/ Launch(w)
      PROVE  LockInv'
  <2> USE <1>WaitLock
  <2>1. CASE LaneSettles(w) \/ LaneErrs(w) \/ CutWaitBegin(w) \/ CutTurn(w)
    <3>1. pc[w] \notin Locked /\ flight' = flight
      BY Zenon, <2>1 DEF LaneSettles, LaneErrs, CutWaitBegin, CutTurn, Locked
    <3>2. ASSUME NEW to \in {"after", "cut"}, Stay(w, to) PROVE LockInv'
      <4>1. to \in Places \ Locked
        BY Zenon DEF Places, Locked
      <4> QED BY Zenon, <3>1, <3>2, <4>1, <1>OutsiderLock DEF Stay
    <3>3. CASE UNCHANGED threads
      BY Zenon, <3>1, <3>3 DEF threads, LockInv
    <3>4. \/ \E ok \in BOOLEAN : Waited(w, ok)
          \/ \E to \in {"after", "cut"} : Stay(w, to)
          \/ UNCHANGED threads
      BY Zenon, <2>1 DEF LaneSettles, LaneErrs, CutWaitBegin, CutTurn
    <3> QED BY Zenon, <3>1, <3>2, <3>3, <3>4, <1>WaitedLock
  <2>2. CASE Relock(w)
    <3>1. lock = NoOne /\ flight' = flight /\ pc[w] # "landed"
      BY Zenon, <2>2 DEF Relock
    <3>2. ASSUME NEW to \in {"checkpoint", "persist"}, Goto(w, to), lock' = w PROVE LockInv'
      <4>1. to \in Places /\ to \notin Grounded /\ to # "landed"
        BY Zenon DEF Places, Grounded
      <4> QED BY Zenon, <3>1, <3>2, <4>1, <1>HolderLock
    <3>3. CASE \E how : Return(w, how)
      BY Zenon, <3>1, <3>3, <1>ReturnLock
    <3> QED BY Zenon, <2>2, <3>2, <3>3 DEF Relock
  <2>3. CASE Launch(w)
    <3>1. Return(w, pend[w].sync) /\ flight'.status = "writing" /\ pc[w] = "relaunch"
      BY Zenon, <2>3 DEF Launch
    <3>2. lock = w
      BY Zenon, <3>1, HolderIs DEF Locked
    <3> QED BY Zenon, <3>1, <3>2, <1>ReturnLock
  <2> QED BY Zenon, <2>1, <2>2, <2>3
<1>OtherLock.
      ASSUME Rest, LockInv, Down,
             \/ \E l \in Lanes : LaneWrite(l) \/ LaneSync(l) \/ LaneFail(l)
             \/ FlightDone \/ FlightFail
             \/ \E kind \in Crashes : Crash(kind)
             \/ Recover
             \/ UNCHANGED vars
      PROVE  LockInv'
  <2> USE <1>OtherLock
  <2>1. CASE UNCHANGED <<threads, flight>>
    BY Zenon, <2>1 DEF threads, LockInv
  <2>2. CASE FlightDone \/ FlightFail
    <3>1. flight.status = "writing" /\ flight'.status \in {"done", "failed"} /\ UNCHANGED threads
      BY Zenon, <2>2 DEF FlightDone, FlightFail, Rest, FlightOK, Flights
    <3>2. "landed" \in Locked
      BY Zenon DEF Locked
    <3> QED BY Zenon, <3>1, <3>2 DEF threads, LockInv
  <2>3. ASSUME NEW kind, Crash(kind) PROVE LockInv'
    <3>1. flight'.status = "none" /\ \A w \in Committers : pc'[w] = "idle"
      BY Zenon, <2>3 DEF Crash, NoFlight
    <3>2. "idle" \notin Locked /\ "idle" \notin Grounded
      BY Zenon DEF Locked, Grounded
    <3> QED BY Zenon, <3>1, <3>2 DEF LockInv
  <2>4. CASE (\E l \in Lanes : LaneWrite(l) \/ LaneSync(l) \/ LaneFail(l)) \/ Recover \/ UNCHANGED vars
    BY Zenon, <2>1, <2>4 DEF LaneWrite, LaneSync, LaneFail, Recover, vars
  <2> QED BY Zenon, <2>2, <2>3, <2>4
<1> SUFFICES ASSUME Rest, LockInv, Down, [JournalNext]_vars
             PROVE  LockInv'
  BY Zenon
<1>1. ASSUME NEW w \in Committers, Worker(w) PROVE LockInv'
  BY Zenon, <1>1, <1>LandLock, <1>LandedLock, <1>CommitLock, <1>WaitLock DEF Worker
<1> QED BY Zenon, <1>1, <1>ClientLock, <1>OtherLock DEF JournalNext

(* What a step of the journal does to its cut. *)
LEMMA CutPart ==
    ASSUME Rest, Down, CutInv, [JournalNext]_vars
    PROVE  CutInv'
<1>1. CASE UNCHANGED cutVars
  BY Zenon, <1>1 DEF cutVars, CutInv, CutTypeOK, CutShape, NoSleeper
<1>2. ASSUME NEW ts \in Nat, Renew(ts),
             \/ UNCHANGED waiting /\ parked' = {}
             \/ waiting' = [w \in Committers |-> NoWait] /\ parked' = {}
      PROVE CutInv'
  <2>1. CutTypeOK'
    <3>1. failed' \in BOOLEAN
      BY Zenon, <1>2 DEF Renew
    <3>2. there' \subseteq Nat
      BY <1>2 DEF Renew
    <3> QED BY Zenon, <1>2, <3>1, <3>2 DEF Renew, CutInv, CutTypeOK
  <2> QED BY Zenon, <1>2, <2>1 DEF Renew, CutInv, CutShape, NoSleeper
<1>3. ASSUME NEW w \in Committers, Worker(w) PROVE CutInv'
  <2>1. last + 1 \in Nat /\ last \in Nat /\ flight.durable \in Nat /\ pend[w].ts \in Nat
        /\ pend[w].after \in Nat \cup {NoWait}
    BY DEF Rest, CatalogOK, FlightOK, Flights, ThreadsOK, Pends
  <2>2. CASE Landed(w) \/ Checkpointed(w)
    BY Zenon, <2>1, <2>2, RaiseInv DEF Landed, Checkpointed
  <2>3. ASSUME NEW set \in Settings, EnqueueNone(w, set) \/ EnqueueNoneFails(w, set) PROVE CutInv'
    BY Zenon, <2>1, <2>3, ReachedInv DEF EnqueueNone, EnqueueNoneFails
  <2>4. CASE LaneSettles(w)
    BY Zenon, <2>1, <2>4, ReachedInv DEF LaneSettles
  <2>5. CASE LaneErrs(w) \/ CutWaitBegin(w) \/ CutTurn(w)
    BY Zenon, <2>1, <2>5, WaitingInv DEF LaneErrs, CutWaitBegin, CutTurn, Turn
  <2>6. ASSUME NEW set \in Settings, Refuse(w, set) \/ EnqueueWait(w, set) PROVE CutInv'
    BY Zenon, <1>1, <2>6 DEF Refuse, EnqueueWait
  <2>7. CASE \/ \E from \in Places, wait \in BOOLEAN, to \in Places : Land(w, from, wait, to)
             \/ MustPersist(w) \/ NothingStaged(w) \/ Relock(w) \/ CheckpointInline(w)
             \/ ShortAgain(w) \/ Launch(w) \/ WriteFile(w) \/ WriteFileFails(w) \/ Recycle(w)
             \/ CloseLog(w)
    BY Zenon, <1>1, <2>7
    DEF Land, MustPersist, NothingStaged, Relock, CheckpointInline, ShortAgain, Launch, WriteFile,
        WriteFileFails, Recycle, CloseLog
  <2>8. {"settle", "commit", "checkpoint", "relaunch", "persist", "write", "closing", "shut"}
          \subseteq Places
    BY Zenon DEF Places
  <2> QED BY Zenon, <1>3, <2>2, <2>3, <2>4, <2>5, <2>6, <2>7, <2>8 DEF Worker
<1>4. CASE \/ \E w \in Committers : Client(w)
           \/ \E l \in Lanes : LaneWrite(l) \/ LaneSync(l) \/ LaneFail(l)
           \/ FlightDone \/ FlightFail \/ UNCHANGED vars
  BY Zenon, <1>1, <1>4
  DEF Client, Execute, Ask, LaneWrite, LaneSync, LaneFail, FlightDone, FlightFail, vars
<1>5. ASSUME NEW kind, Crash(kind) PROVE CutInv'
  BY Zenon, <1>2, <1>5 DEF Crash
<1>6. CASE Recover
  <2>1. last' \in Nat
    BY Zenon, <1>6, RecoverType DEF Rest, CatalogOK, Recover, Down
  <2> QED BY Zenon, <1>2, <1>6, <2>1 DEF Recover, Down
<1> QED BY Zenon, <1>3, <1>4, <1>5, <1>6 DEF JournalNext

-----------------------------------------------------------------------------
(* The types, the cut, the lock and what a crash leaves, together.          *)
Sound == Rest /\ CutInv /\ LockInv /\ Down

LEMMA SoundInit == JournalInit => Sound
<1> SUFFICES ASSUME JournalInit PROVE Sound
  BY Zenon
<1>1. CutInv
  BY Zenon, CutInitInv DEF JournalInit
<1>2. RunOK /\ CatalogOK
  <2>1. up \in BOOLEAN /\ dirty \in BOOLEAN /\ torn \in BOOLEAN /\ anchored \in BOOLEAN
    BY Zenon DEF JournalInit
  <2> QED BY JournalAssumption, <2>1 DEF JournalInit, RunOK, CatalogOK
<1>3. LanesOK /\ FaultsOK
  BY JournalAssumption DEF JournalInit, LanesOK, FaultsOK
<1>4. FlightOK
  <2>1. NoWindow \in Windows /\ NoFlight \in Flights
    BY Zenon DEF NoWindow, NoFlight, Windows, Flights
  <2> QED BY Zenon, <2>1 DEF JournalInit, FlightOK
<1>5. ThreadsOK
  BY Zenon DEF JournalInit, ThreadsOK, Places, NoPend, Pends, Syncs
<1>6. HistoryOK
  BY JournalAssumption DEF JournalInit, HistoryOK
<1>7. DiskOK
  BY Zenon DEF JournalInit, DiskOK, Files
<1>8. LockInv
  <2>1. "idle" \notin Locked /\ "idle" \notin Grounded
    BY Zenon DEF Locked, Grounded
  <2> QED BY Zenon, <2>1 DEF JournalInit, LockInv, NoFlight
<1>9. Down
  BY Zenon DEF JournalInit, Down
<1> QED BY Zenon, <1>1, <1>2, <1>3, <1>4, <1>5, <1>6, <1>7, <1>8, <1>9 DEF Sound, Rest

LEMMA SoundStep == Sound /\ [JournalNext]_vars => Sound'
BY Zenon, RestStep, CutPart, LockStep, DownStep DEF Sound

(* The types, the shape of the cut, that whoever is between taking and      *)
(* letting go of the writer lock has it, that nobody writes the file while  *)
(* a flight is about, and that nothing is left in memory after a crash.     *)
THEOREM JournalSound == JournalSpec => []Sound
BY SoundInit, SoundStep, PTL DEF JournalSpec

(* The journal keeps its types, whatever its settings, its lanes and the    *)
(* crashes: database.rs, from settle to open_with.                          *)
THEOREM JournalTypes == JournalSpec => []JournalTypeOK
<1>1. Sound => JournalTypeOK
  BY Zenon, TypeParts DEF Sound, Rest, CutInv
<1> QED BY <1>1, JournalSound, PTL

(* In the hands of the journal, with crashes that make it anew and          *)
(* checkpoints that raise it, the cut still ends at the first commit that   *)
(* is missing, and no commit sleeps in its wait once it is reached.         *)
THEOREM JournalCut == JournalSpec => [](CutExact /\ NoSleeper)
<1>1. Sound => CutExact /\ NoSleeper
  BY Zenon, ShapeExact DEF Sound, CutInv
<1> QED BY <1>1, JournalSound, PTL

-----------------------------------------------------------------------------
(* Logs as sets of blocks. *)
Above(B, d) == UNION {b.stmts : b \in {c \in B : c.ts > d}}
UpTo(B, d, n) == UNION {b.stmts : b \in {c \in B : c.ts > d /\ c.ts <= n}}

(* The blocks above d that a replay over a file of the cut d reaches. *)
Met(B, c, d) == c.ts > d + 1 => \E e \in B : e.ts = c.ts - 1
Reaches(B, d) == {b \in B : b.ts > d /\ \A c \in B : c.ts > d /\ c.ts <= b.ts => Met(B, c, d)}
Linked(B, d) == \A c \in B : c.ts > d => Met(B, c, d)

(* The statements of a block that is reached were made over the file or     *)
(* over blocks that are reached before it.                                  *)
Covers(B, D, d, C) == \A b \in Reaches(B, d) : \A s \in b.stmts : D[s] \subseteq C \cup UpTo(B, d, b.ts)
Apart(B, d, C) == \A b \in B : b.ts > d => b.stmts \cap C = {}
Closed(D, S) == \A s \in S : D[s] \subseteq S
Numbered(B) == /\ \A b \in B : b.dep + 1 = b.ts
               /\ \A b, c \in B : b.ts = c.ts => b = c

Same(b, c) == b.ts = c.ts /\ b.dep = c.dep /\ b.lane = c.lane /\ b.stmts = c.stmts /\ b.run = c.run

(* Two logs that differ in how far their blocks got. *)
Like(B, L) == /\ \A b \in B : \E c \in L : Same(b, c)
              /\ \A c \in L : \E b \in B : Same(b, c)

LEMMA Greatest ==
  ASSUME NEW S \in SUBSET Nat, NEW n \in Nat, S # {}, \A i \in S : i <= n
  PROVE  \E i \in S : \A j \in S : j <= i
<1> DEFINE T == {n - i : i \in S}
<1>1. T \subseteq Nat /\ T # {}
  <2>1. \A i \in S : n - i \in Nat
    OBVIOUS
  <2>2. PICK i \in S : TRUE
    BY Zenon
  <2>3. n - i \in T
    BY Zenon, <2>2
  <2> QED BY Zenon, <2>1, <2>3
<1>2. PICK t \in T : \A u \in T : ~(u < t)
  <2>1. IsWellFoundedOn(OpToRel(<, Nat), Nat)
    BY Zenon, NatLessThanWellFounded
  <2>2. \E t \in T : \A u \in T : ~(<<u, t>> \in OpToRel(<, Nat))
    BY Zenon, <1>1, <2>1, WFMin
  <2> QED BY Zenon, <1>1, <2>2 DEF OpToRel
<1>3. PICK i \in S : t = n - i
  BY Zenon, <1>2
<1>4. ASSUME NEW j \in S PROVE j <= i
  <2>1. n - j \in T
    BY Zenon, <1>4
  <2>2. ~(n - j < n - i)
    BY SMTT(40), <1>2, <1>3, <2>1
  <2>3. i \in Nat /\ j \in Nat
    BY Zenon
  <2> QED BY <2>2, <2>3
<1> QED BY Zenon, <1>4

(* Below a block that is reached no number is missing. *)
LEMMA NoGap ==
    ASSUME NEW B \in SUBSET Blocks, NEW d \in Nat, NEW b \in Reaches(B, d),
           NEW n \in Nat, n > d, n <= b.ts
    PROVE  \E e \in B : e.ts = n
<1> DEFINE N == {m \in Nat : m > d /\ m <= b.ts /\ ~\E e \in B : e.ts = m}
<1>1. b \in B /\ b.ts \in Nat /\ b.ts > d
  BY Zenon DEF Reaches, Blocks
<1>2. SUFFICES ASSUME n \in N PROVE FALSE
  BY Zenon
<1>3. PICK m \in N : \A j \in N : j <= m
  <2>1. N \in SUBSET Nat /\ N # {} /\ \A i \in N : i <= b.ts
    BY Zenon, <1>2
  <2> HIDE DEF N
  <2> QED BY Zenon, <1>1, <2>1, Greatest
<1>4. m \in Nat /\ m > d /\ m < b.ts /\ m + 1 \notin N
  BY <1>1, <1>3
<1>5. PICK e \in B : e.ts = m + 1
  BY <1>1, <1>4
<1>6. Met(B, e, d)
  BY <1>1, <1>4, <1>5 DEF Reaches
<1> QED BY <1>3, <1>4, <1>5, <1>6 DEF Met

LEMMA LikeCovers ==
    ASSUME NEW B \in SUBSET Blocks, NEW L \in SUBSET Blocks, Like(B, L),
           NEW D, NEW d \in Nat, NEW C
    PROVE  /\ Covers(B, D, d, C) => Covers(L, D, d, C)
           /\ Apart(B, d, C) => Apart(L, d, C)
           /\ Linked(B, d) => Linked(L, d)
           /\ Above(L, d) = Above(B, d)
<1>1. \A n : UpTo(L, d, n) = UpTo(B, d, n)
  BY DEF Like, Same, UpTo
<1>2. Above(L, d) = Above(B, d)
  BY DEF Like, Same, Above
<1>3. \A b \in B, c \in L : Same(b, c) => (Met(B, b, d) <=> Met(L, c, d))
  BY DEF Like, Same, Met
<1>4. \A c \in Reaches(L, d) : \E b \in Reaches(B, d) : Same(b, c)
  <2> SUFFICES ASSUME NEW c \in Reaches(L, d) PROVE \E b \in Reaches(B, d) : Same(b, c)
    BY Zenon
  <2>1. PICK b \in B : Same(b, c)
    BY Zenon DEF Like, Reaches
  <2>2. ASSUME NEW x \in B, x.ts > d, x.ts <= b.ts PROVE Met(B, x, d)
    <3>1. PICK y \in L : Same(x, y)
      BY Zenon DEF Like
    <3>2. Met(L, y, d)
      BY Zenon, <2>1, <2>2, <3>1 DEF Reaches, Same
    <3> QED BY Zenon, <1>3, <3>1, <3>2
  <2> QED BY Zenon, <2>1, <2>2 DEF Reaches, Same
<1>5. Covers(B, D, d, C) => Covers(L, D, d, C)
  BY ZenonT(30), <1>1, <1>4 DEF Covers, Same
<1>6. Apart(B, d, C) => Apart(L, d, C)
  BY Zenon DEF Apart, Like, Same
<1>7. Linked(B, d) => Linked(L, d)
  BY Zenon, <1>3 DEF Linked, Like, Same
<1> QED BY Zenon, <1>2, <1>5, <1>6, <1>7

(* A log that lost some of its blocks. *)
LEMMA LostCovers ==
    ASSUME NEW B \in SUBSET Blocks, NEW S \in SUBSET B, Numbered(B),
           NEW D, NEW d \in Nat, NEW C
    PROVE  /\ Covers(B, D, d, C) => Covers(S, D, d, C)
           /\ Apart(B, d, C) => Apart(S, d, C)
<1>1. ASSUME NEW b \in Reaches(S, d) PROVE b \in Reaches(B, d) /\ UpTo(B, d, b.ts) \subseteq UpTo(S, d, b.ts)
  <2>1. b \in B /\ b.ts > d
    BY Zenon DEF Reaches
  <2>2. ASSUME NEW c \in B, c.ts > d, c.ts <= b.ts PROVE c \in S
    <3>1. c.ts \in Nat
      BY Zenon DEF Blocks
    <3>2. PICK e \in S : e.ts = c.ts
      BY Zenon, <2>2, <3>1, NoGap
    <3> QED BY Zenon, <3>2 DEF Numbered
  <2>3. ASSUME NEW c \in B, c.ts > d, c.ts <= b.ts PROVE Met(B, c, d)
    BY Zenon, <2>2, <2>3 DEF Reaches, Met
  <2>4. UpTo(B, d, b.ts) \subseteq UpTo(S, d, b.ts)
    BY Zenon, <2>2 DEF UpTo
  <2> QED BY Zenon, <2>1, <2>3, <2>4 DEF Reaches
<1>2. Covers(B, D, d, C) => Covers(S, D, d, C)
  BY Zenon, <1>1 DEF Covers, Reaches
<1> QED BY Zenon, <1>2 DEF Apart

(* A log that lost only what the file of the cut d holds. *)
LEMMA CutCovers ==
    ASSUME NEW B \in SUBSET Blocks, NEW S \in SUBSET B, NEW D, NEW d \in Nat, NEW C,
           \A b \in B : b.ts > d => b \in S
    PROVE  /\ Covers(B, D, d, C) => Covers(S, D, d, C)
           /\ Apart(B, d, C) => Apart(S, d, C)
           /\ Linked(B, d) => Linked(S, d)
           /\ Above(S, d) = Above(B, d)
<1>1. \A c \in B : c.ts > d => (Met(B, c, d) <=> Met(S, c, d))
  BY DEF Met, Blocks
<1>2. Reaches(S, d) = Reaches(B, d)
  BY Zenon, <1>1 DEF Reaches
<1>3. \A n : UpTo(S, d, n) = UpTo(B, d, n)
  BY Zenon DEF UpTo
<1>4. Above(S, d) = Above(B, d)
  BY Zenon DEF Above
<1>5. Covers(B, D, d, C) => Covers(S, D, d, C)
  BY Zenon, <1>2, <1>3 DEF Covers
<1>6. Apart(B, d, C) => Apart(S, d, C)
  BY Zenon DEF Apart
<1>7. Linked(B, d) => Linked(S, d)
  BY Zenon, <1>1 DEF Linked
<1> QED BY Zenon, <1>4, <1>5, <1>6, <1>7

(* A log with a block more, past all of it. *)
Grows(B, L, x, D, d, C, n) ==
    /\ Covers(B, D, d, C) => Covers(L, D, d, C)
    /\ Apart(B, d, C) /\ x.stmts \cap C = {} => Apart(L, d, C)
    /\ Linked(B, d) /\ (n > d => \E b \in B : b.ts = n) => Linked(L, d)
    /\ Above(L, d) = Above(B, d) \cup x.stmts

LEMMA MoreCovers ==
    ASSUME NEW B \in SUBSET Blocks, NEW x \in Blocks, NEW D, NEW d \in Nat, NEW C,
           NEW n \in Nat, \A b \in B : b.ts <= n, x.ts = n + 1, d <= n,
           \A s \in x.stmts : D[s] \subseteq C \cup x.stmts \cup Above(B, d)
    PROVE  Grows(B, B \cup {x}, x, D, d, C, n)
<1> DEFINE L == B \cup {x}
<1>1. \A b \in B : b.ts \in Nat /\ b.ts < x.ts
  BY DEF Blocks
<1>2. \A c \in B : Met(B, c, d) <=> Met(L, c, d)
  BY <1>1 DEF Met
<1>3. \A b \in Reaches(L, d) : b # x => b \in Reaches(B, d)
  BY Zenon, <1>1, <1>2 DEF Reaches
<1>4. \A b \in B : UpTo(B, d, b.ts) \subseteq UpTo(L, d, b.ts)
  BY Zenon DEF UpTo
<1>5. C \cup x.stmts \cup Above(B, d) \subseteq C \cup UpTo(L, d, x.ts)
  BY <1>1 DEF UpTo, Above
<1>6. Covers(B, D, d, C) => Covers(L, D, d, C)
  <2> SUFFICES ASSUME Covers(B, D, d, C), NEW b \in Reaches(L, d), NEW s \in b.stmts
               PROVE  D[s] \subseteq C \cup UpTo(L, d, b.ts)
    BY Zenon DEF Covers
  <2>1. CASE b = x
    BY Zenon, <1>5, <2>1
  <2>2. CASE b # x
    BY Zenon, <1>3, <1>4, <2>2 DEF Covers, Reaches
  <2> QED BY Zenon, <2>1, <2>2
<1>7. Apart(B, d, C) /\ x.stmts \cap C = {} => Apart(L, d, C)
  BY Zenon DEF Apart
<1>8. Linked(B, d) /\ (n > d => \E b \in B : b.ts = n) => Linked(L, d)
  BY <1>2 DEF Linked, Met
<1>9. Above(L, d) = Above(B, d) \cup x.stmts
  BY DEF Above
<1> QED BY Zenon, <1>6, <1>7, <1>8, <1>9 DEF Grows

-----------------------------------------------------------------------------
Flying == flight.status \in {"writing", "done", "landing"}
Past == 1..(next - 1)
Saved == {"recycle", "recycled", "close"}

(* The anchor: a flight is only on over a log that replays, and its file,   *)
(* once written, is the file.                                               *)
FileInv ==
    /\ anchored => file.anchored
    /\ ~file.anchored => file.durable = 0 /\ file.content = {} /\ block = {}
    /\ Flying => Steady
    /\ flight.status = "writing" => file.durable <= flight.durable
    /\ flight.status \in {"done", "landing"} =>
          file.durable = flight.durable /\ file.content = flight.content

(* The numbers: while the log is not torn no number above the cut of the    *)
(* file is missing, up to the last one.                                     *)
StampInv ==
    /\ Numbered(block)
    /\ \A b \in block : b.run <= run /\ (b.run = run => up /\ ~torn)
    /\ up => file.durable <= last /\ \A b \in block : b.ts <= last
    /\ Flying => /\ flight.durable <= last
                 /\ \A b \in block : b.ts > flight.durable => b.lane \in opened
    /\ up /\ ~torn => /\ Linked(block, file.durable)
                      /\ last > file.durable => \E b \in block : b.ts = last

(* A checkpoint that has written the file and still has its log to recycle. *)
SavedInv ==
    \A w \in Committers : pc[w] \in Saved =>
        file.anchored /\ file.durable = last /\ file.content = mem

Frame == FileInv /\ StampInv

(* The statements: what is anywhere was executed, and what the file, its    *)
(* copy in a flight and the catalog show is closed under what was seen.     *)
PastInv ==
    /\ mem \subseteq Past /\ file.content \subseteq Past /\ flight.content \subseteq Past
    /\ \A b \in block : b.stmts \subseteq Past
    /\ Closed(deps, mem) /\ Closed(deps, file.content) /\ Closed(deps, flight.content)
    /\ dirty => staged = {}

(* The file and the log above its cut. *)
DataInv ==
    /\ Covers(block, deps, file.durable, file.content)
    /\ Apart(block, file.durable, file.content)
    /\ up /\ ~dirty => mem \subseteq file.content \cup staged \cup Above(block, file.durable)

(* The file a flight is writing and the log above its cut. *)
FlightInv ==
    flight.status = "writing" =>
        /\ Covers(block, deps, flight.durable, flight.content)
        /\ Apart(block, flight.durable, flight.content)
        /\ ~dirty => mem \subseteq flight.content \cup staged \cup Above(block, flight.durable)
        /\ staged \cap flight.content = {}

(* A commit at p has its records still to queue, with its flight to land    *)
(* for t.                                                                   *)
Owes(p, t) == p \in {"settle", "commit"} \/ (p = "landed" /\ t = "commit")

(* Who the staged records belong to. *)
StagedInv ==
    /\ staged # {} /\ Steady => \E w \in Committers : Owes(pc[w], flight.to)
    /\ staged \cap file.content # {} => \E w \in Committers : pc[w] \in Saved

LogInv == PastInv /\ DataInv /\ FlightInv

LEMMA Types ==
    ASSUME Sound
    PROVE  /\ last \in Nat /\ run \in Nat /\ next \in Nat \ {0} /\ file.durable \in Nat
           /\ flight.durable \in Nat /\ block \in SUBSET Blocks /\ \A b \in block : b.ts \in Nat
           /\ up \in BOOLEAN /\ dirty \in BOOLEAN /\ torn \in BOOLEAN /\ anchored \in BOOLEAN
           /\ file.anchored \in BOOLEAN
           /\ file \in Files /\ flight \in Flights /\ staged \subseteq mem
           /\ deps \in [Statements -> SUBSET Statements] /\ mem \subseteq Statements
<1> USE DEF Sound, Rest
<1>1. last \in Nat /\ run \in Nat /\ next \in Nat \ {0}
  BY DEF RunOK, CatalogOK, HistoryOK
<1>2. block \in SUBSET Blocks /\ file \in Files /\ flight \in Flights
  BY Zenon DEF DiskOK, FlightOK
<1>3. file.durable \in Nat /\ flight.durable \in Nat /\ (\A b \in block : b.ts \in Nat)
      /\ file.anchored \in BOOLEAN
  BY Zenon, <1>2 DEF Blocks, Files, Flights
<1> QED BY Zenon, <1>1, <1>2, <1>3 DEF RunOK, CatalogOK, HistoryOK

LEMMA Unlocked ==
    ASSUME Sound, NEW w \in Committers, lock \in {w, NoOne}, NEW v \in Committers, v # w
    PROVE  pc[v] \notin Locked
BY Zenon, JournalAssumption DEF Sound, LockInv

LEMMA SavedLocked == Saved \subseteq Locked /\ {"settle", "commit", "landed"} \subseteq Locked
BY Zenon DEF Saved, Locked

-----------------------------------------------------------------------------
(* The frame, step by step. *)

LEMMA MovedLike ==
    ASSUME block \in SUBSET Blocks, Numbered(block), NEW ls, NEW from, NEW to
    PROVE  Like(block, Moved(ls, from, to)) /\ Numbered(Moved(ls, from, to))
<1> DEFINE f(b) == IF b.lane \in ls /\ b.run = run /\ b.at = from THEN [b EXCEPT !.at = to] ELSE b
<1>1. \A b \in block : Same(b, f(b))
  BY Zenon DEF Same, Blocks
<1>2. Moved(ls, from, to) = {f(b) : b \in block}
  BY Zenon DEF Moved
<1> HIDE DEF f
<1>3. Like(block, Moved(ls, from, to))
  BY Zenon, <1>1, <1>2 DEF Like
<1>4. Numbered(Moved(ls, from, to))
  BY <1>1, <1>2 DEF Numbered, Same
<1> QED BY Zenon, <1>3, <1>4

(* The blocks may get further on their way to the disk, and a flight that   *)
(* is done may begin to land.                                               *)
Onward ==
    /\ \E ls \in SUBSET Lanes :
          block' \in {block, Moved(ls, "queued", "written"), Moved(ls, "written", "synced")}
    /\ \/ flight' = flight
       \/ flight.status = "done" /\ \E p : flight' = [flight EXCEPT !.status = "landing", !.to = p]

LEMMA OnwardIs ==
    ASSUME Sound, Frame, Onward, Rest'
    PROVE  /\ block \in SUBSET Blocks /\ block' \in SUBSET Blocks
           /\ Like(block, block') /\ Numbered(block')
           /\ flight'.durable = flight.durable /\ flight'.content = flight.content
           /\ \/ flight'.status = flight.status
              \/ flight.status = "done" /\ flight'.status = "landing"
<1>1. block \in SUBSET Blocks /\ block' \in SUBSET Blocks /\ Numbered(block)
  BY Zenon, Types DEF Rest, DiskOK, Frame, StampInv
<1>2. Like(block, block') /\ Numbered(block')
  <2>1. Like(block, block)
    BY Zenon DEF Like, Same
  <2>2. \A ls, from, to : Like(block, Moved(ls, from, to)) /\ Numbered(Moved(ls, from, to))
    BY Zenon, <1>1, MovedLike
  <2>3. PICK ls \in SUBSET Lanes :
           block' \in {block, Moved(ls, "queued", "written"), Moved(ls, "written", "synced")}
    BY Zenon DEF Onward
  <2>4. CASE block' = block
    BY Zenon, <1>1, <2>1, <2>4
  <2>5. ASSUME NEW from, NEW to, block' = Moved(ls, from, to) PROVE Like(block, block') /\ Numbered(block')
    BY Zenon, <2>2, <2>5
  <2> QED BY Zenon, <2>3, <2>4, <2>5
<1>3. /\ flight'.durable = flight.durable /\ flight'.content = flight.content
      /\ \/ flight'.status = flight.status
         \/ flight.status = "done" /\ flight'.status = "landing"
  BY Zenon, Types DEF Flights, Onward
<1> QED BY Zenon, <1>1, <1>2, <1>3

(* What Queue adds to the log. *)
Queued(w, set) ==
    [ts |-> last + 1, dep |-> last, lane |-> w % set.lanes, stmts |-> staged,
     sync |-> set.sync, run |-> run, at |-> "queued"]

LEMMA QueueIs ==
    ASSUME Sound, Rest', NEW w \in Committers, NEW set \in Settings, Queue(w, set)
    PROVE  /\ pc[w] = "commit" /\ lock = w /\ up /\ ~dirty /\ staged # {} /\ ~torn /\ anchored
           /\ block' = block \cup {Queued(w, set)} /\ Queued(w, set) \in Blocks
           /\ opened' = opened \cup {Queued(w, set).lane}
           /\ staged' = {} /\ last' = last + 1
           /\ UNCHANGED <<up, run, mem, dirty, torn, anchored, flight, file>>
           /\ Queued(w, set).ts = last + 1 /\ Queued(w, set).dep = last
           /\ Queued(w, set).stmts = staged /\ Queued(w, set).run = run
<1>1. /\ pc[w] = "commit" /\ ~dirty /\ staged # {} /\ ~torn /\ anchored
      /\ block' = block \cup {Queued(w, set)} /\ opened' = opened \cup {w % set.lanes}
      /\ staged' = {} /\ last' = last + 1
      /\ UNCHANGED <<up, run, mem, dirty, torn, anchored, flight, file>>
  BY Zenon DEF Queue, NeedsCheckpoint, Queued
<1>2. up /\ lock = w
  BY Zenon, <1>1, WorksUp, HolderIs DEF Sound, Locked
<1>3. Queued(w, set) \in Blocks
  BY Zenon, <1>1 DEF Rest, DiskOK
<1> QED BY Zenon, <1>1, <1>2, <1>3 DEF Queued

LEMMA LandedIs ==
    ASSUME Sound, Frame, NEW w \in Committers, Landed(w)
    PROVE  /\ up /\ lock = w /\ flight.status = "landing" /\ file.durable = flight.durable
           /\ Steady /\ anchored' = TRUE /\ flight' = NoFlight
           /\ flight'.status = "none" /\ flight'.content = {}
           /\ UNCHANGED <<up, run, mem, staged, dirty, last, torn, opened, file, next, deps>>
           /\ block' \in SUBSET block /\ \A b \in block : b.ts > file.durable => b \in block'
<1>1. pc[w] = "landed" /\ up /\ lock = w
  BY Zenon, WorksUp, HolderIs DEF Landed, Sound, Locked
<1>2. flight.status = "landing" /\ file.durable = flight.durable /\ Steady
  BY Zenon, <1>1 DEF Sound, LockInv, Frame, FileInv, Flying
<1>3. /\ anchored' = TRUE /\ block' = Recycled(file.durable) /\ flight' = NoFlight
      /\ UNCHANGED <<up, run, mem, staged, dirty, last, torn, opened, file, next, deps>>
  <2>1. UNCHANGED <<next, deps>>
    BY Zenon DEF Landed, Stay, Return, history
  <2> QED BY Zenon, <1>2, <2>1 DEF Landed
<1>4. flight'.status = "none" /\ flight'.content = {}
  BY Zenon, <1>3 DEF NoFlight
<1>5. block' \subseteq block /\ \A b \in block : b.ts > file.durable => b \in block'
  BY Zenon, <1>2, <1>3 DEF Recycled, Frame, StampInv, Flying
<1> QED BY Zenon, <1>1, <1>2, <1>3, <1>4, <1>5

LEMMA ClearedIs ==
    ASSUME Sound, Frame, SavedInv, NEW w \in Committers, Checkpointed(w) \/ CloseLog(w)
    PROVE  /\ up /\ lock = w /\ flight.status = "none"
           /\ file.anchored /\ file.durable = last /\ file.content = mem
           /\ block' = {} /\ staged' = {} /\ dirty' = FALSE /\ Goto(w, "idle")
           /\ UNCHANGED <<up, run, mem, last, flight, file, next, deps>>
           /\ torn' \in {torn, FALSE} /\ anchored' \in {anchored, TRUE}
<1>1. pc[w] \in Saved /\ pc[w] \in Grounded /\ pc[w] # "idle"
  BY Zenon DEF Checkpointed, CloseLog, Saved, Grounded
<1>2. up /\ flight.status = "none" /\ file.anchored /\ file.durable = last /\ file.content = mem
  BY Zenon, <1>1, WorksUp DEF Sound, LockInv, SavedInv
<1>3. lock = w
  BY Zenon, <1>1, SavedLocked, HolderIs DEF Sound
<1>4. block' = {}
  <2>1. \A b \in block : ~(b.ts > last)
    BY <1>2, Types DEF Frame, StampInv
  <2> QED BY Zenon, <2>1 DEF Checkpointed, CloseLog, Recycled
<1>5. UNCHANGED <<next, deps>> /\ Goto(w, "idle")
  BY Zenon DEF Checkpointed, CloseLog, Return
<1>6. /\ staged' = {} /\ dirty' = FALSE
      /\ UNCHANGED <<up, run, mem, last, flight, file>>
      /\ torn' \in {torn, FALSE} /\ anchored' \in {anchored, TRUE}
  BY Zenon DEF Checkpointed, CloseLog
<1> QED BY Zenon, <1>2, <1>3, <1>4, <1>5, <1>6

LEMMA CrashIs ==
    ASSUME Sound, Frame, NEW kind, Crash(kind)
    PROVE  /\ \E S \in SUBSET block : Like(S, block') /\ Numbered(block')
           /\ up' = FALSE /\ run' = run + 1 /\ mem' = {} /\ staged' = {} /\ dirty' = FALSE
           /\ last' = 0 /\ torn' = FALSE /\ anchored' = FALSE /\ UNCHANGED <<file, next, deps>>
           /\ flight'.status = "none" /\ flight'.content = {}
<1>1. CASE block' = {b \in block : b.at # "queued"}
  <2>1. block' \in SUBSET block /\ Numbered(block')
    BY Zenon, <1>1 DEF Frame, StampInv, Numbered
  <2>2. Like(block', block')
    BY Zenon DEF Like, Same
  <2> QED BY Zenon, <2>1, <2>2 DEF Crash, NoFlight
<1>2. ASSUME NEW S \in Survivors, block' = {[b EXCEPT !.at = "synced"] : b \in S}
      PROVE  S \in SUBSET block /\ Like(S, block') /\ Numbered(block')
  <2>1. S \in SUBSET block
    BY Zenon DEF Survivors
  <2> DEFINE f(b) == [b EXCEPT !.at = "synced"]
  <2>2. \A b \in S : Same(b, f(b))
    BY Zenon, <2>1, Types DEF Same, Blocks
  <2>3. block' = {f(b) : b \in S}
    BY Zenon, <1>2
  <2> HIDE DEF f
  <2>4. Like(S, block')
    BY Zenon, <2>2, <2>3 DEF Like
  <2>5. Numbered(block')
    BY <2>1, <2>2, <2>3 DEF Frame, StampInv, Numbered, Same
  <2> QED BY Zenon, <2>1, <2>4, <2>5
<1> QED BY Zenon, <1>1, <1>2 DEF Crash, NoFlight

(* What the replay reaches, in the words of the code and in those of the    *)
(* lemmas.                                                                  *)
LEMMA KeptReaches ==
    ASSUME Sound, Frame
    PROVE  /\ Kept = Reaches(block, file.durable)
           /\ Kept = Replayable => Linked(block, file.durable)
           /\ Linked(block, file.durable) => Kept = Replayable
<1>1. \A b \in Replayable : DependencyMet(b) <=> Met(block, b, file.durable)
  <2> SUFFICES ASSUME NEW b \in Replayable
               PROVE  DependencyMet(b) <=> Met(block, b, file.durable)
    BY Zenon
  <2>1. b \in block /\ b.ts > file.durable /\ b.ts \in Nat /\ b.dep \in Nat /\ b.dep + 1 = b.ts
        /\ file.durable \in Nat
    BY Zenon, Types DEF Replayable, Frame, StampInv, Numbered, Blocks
  <2>2. \A c \in block : c.ts \in Nat
    BY Zenon, Types
  <2> QED BY <2>1, <2>2 DEF DependencyMet, Replayable, Met
<1>2. Kept = Reaches(block, file.durable)
  BY Zenon, <1>1 DEF Kept, Replayable, Reaches
<1>3. Kept = Replayable => Linked(block, file.durable)
  <2>1. \A b \in block : b.ts \in Nat
    BY Zenon, Types
  <2> QED BY <1>1, <2>1 DEF Kept, Replayable, Linked
<1>4. Linked(block, file.durable) => Kept = Replayable
  BY Zenon, <1>1 DEF Kept, Replayable, Linked
<1> QED BY Zenon, <1>2, <1>3, <1>4

LEMMA RecoverIs ==
    ASSUME Sound, Frame, Recover
    PROVE  /\ ~up /\ up' = TRUE /\ mem = {} /\ staged = {} /\ ~dirty /\ last = 0 /\ ~torn
           /\ flight = NoFlight /\ anchored' = file.anchored
           /\ UNCHANGED <<run, staged, dirty, opened, flight, file, next, deps, pc>>
           /\ flight.status = "none" /\ flight.content = {}
           /\ ~file.anchored => block' = {} /\ UNCHANGED <<last, torn, mem>> /\ file.durable = 0
           /\ file.anchored => /\ last' \in {file.durable} \cup {b.ts : b \in Replayable}
                               /\ \A b \in Replayable : b.ts <= last'
                               /\ torn' = (Kept # Replayable)
                               /\ mem' = file.content \cup UNION {b.stmts : b \in Kept}
                               /\ block' = block
<1>1. /\ ~up /\ up' = TRUE /\ mem = {} /\ staged = {} /\ ~dirty /\ last = 0 /\ ~torn
      /\ flight = NoFlight /\ anchored' = file.anchored
      /\ UNCHANGED <<run, staged, dirty, opened, flight, file, next, deps, pc>>
  BY Zenon DEF Recover, Sound, Down, history, threads
<1>2. flight.status = "none" /\ flight.content = {}
  BY Zenon, <1>1 DEF NoFlight
<1>3. ~file.anchored => block' = {} /\ UNCHANGED <<last, torn, mem>> /\ file.durable = 0
  BY Zenon DEF Recover, Frame, FileInv
<1>4. file.anchored => /\ last' \in {file.durable} \cup {b.ts : b \in Replayable}
                       /\ \A b \in Replayable : b.ts <= last'
                       /\ torn' = (Kept # Replayable)
                       /\ mem' = file.content \cup UNION {b.stmts : b \in Kept}
                       /\ block' = block
  BY Zenon DEF Recover
<1> QED BY Zenon, <1>1, <1>2, <1>3, <1>4

-----------------------------------------------------------------------------
(* What a step that is no crash and no recovery does to the log, the file   *)
(* and the flight.                                                          *)
Keeps ==
    /\ UNCHANGED <<up, run, last, torn, anchored, opened, file>>
    /\ \/ UNCHANGED block /\ (flight' = flight \/ flight'.status \in {"none", "failed"})
       \/ Onward
Effect ==
    \/ Keeps
    \/ \E w \in Committers, set \in Settings : Queue(w, set)
    \/ FlightDone
    \/ \E w \in Committers : Launch(w)
    \/ \E w \in Committers : WriteFile(w)
    \/ \E w \in Committers : Landed(w)
    \/ \E w \in Committers : Checkpointed(w) \/ CloseLog(w)

LEMMA QuietKeeps ==
    ASSUME NEW w \in Committers,
           \/ Client(w) \/ MustPersist(w) \/ NothingStaged(w)
           \/ \E set \in Settings : Refuse(w, set)
           \/ LaneSettles(w) \/ LaneErrs(w) \/ CutWaitBegin(w) \/ CutTurn(w) \/ Relock(w)
           \/ CheckpointInline(w) \/ ShortAgain(w) \/ WriteFileFails(w)
    PROVE  Keeps
<1>1. UNCHANGED <<up, run, last, torn, anchored, opened, block, file, flight>>
  BY Zenon DEF Client, Execute, Ask, MustPersist, NothingStaged, Refuse, LaneSettles, LaneErrs,
               CutWaitBegin, CutTurn, Relock, CheckpointInline, ShortAgain, WriteFileFails,
               journal, lanes
<1> QED BY Zenon, <1>1 DEF Keeps

LEMMA LandKeeps ==
    ASSUME Sound, NEW w \in Committers, NEW from, NEW wait, NEW to, Land(w, from, wait, to)
    PROVE  Keeps
<1>1. UNCHANGED <<up, run, last, torn, anchored, opened, file>>
  BY Zenon DEF Land, journal, lanes
<1>2. CASE UNCHANGED <<flight, block>>
  BY Zenon, <1>1, <1>2 DEF Keeps
<1>3. CASE flight' = NoFlight /\ UNCHANGED block
  BY Zenon, <1>1, <1>3 DEF Keeps, NoFlight
<1>4. CASE /\ flight.status = "done" /\ flight' = [flight EXCEPT !.status = "landing", !.to = to]
           /\ block' = Moved(opened, "queued", "written")
  <2>1. opened \in SUBSET Lanes
    BY Zenon DEF Sound, Rest, LanesOK
  <2>2. Onward
    BY Zenon, <1>4, <2>1 DEF Onward
  <2> QED BY Zenon, <1>1, <2>2 DEF Keeps
<1> QED BY Zenon, <1>2, <1>3, <1>4 DEF Land

LEMMA RecycleKeeps ==
    ASSUME Sound, NEW w \in Committers, Recycle(w)
    PROVE  Keeps
<1>1. UNCHANGED <<up, run, last, torn, anchored, opened, file, flight>>
  BY Zenon DEF Recycle, journal, lanes
<1>2. opened \in SUBSET Lanes
  BY Zenon DEF Sound, Rest, LanesOK
<1>3. Onward
  BY Zenon, <1>1, <1>2 DEF Recycle, Onward
<1> QED BY Zenon, <1>1, <1>3 DEF Keeps

LEMMA LaneKeeps ==
    ASSUME Sound, NEW l \in Lanes, LaneWrite(l) \/ LaneSync(l) \/ LaneFail(l)
    PROVE  Keeps
<1>1. UNCHANGED <<up, run, last, torn, anchored, opened, file, flight>>
  BY Zenon DEF LaneWrite, LaneSync, LaneFail, journal, lanes
<1>2. Onward
  <2>1. block' \in {block, Moved({l}, "queued", "written"), Moved({l}, "written", "synced")}
    BY Zenon DEF LaneWrite, LaneSync, LaneFail
  <2>2. {l} \in SUBSET Lanes
    BY Zenon
  <2> QED BY Zenon, <1>1, <2>1, <2>2 DEF Onward
<1> QED BY Zenon, <1>1, <1>2 DEF Keeps

LEMMA StepEffect ==
    ASSUME Sound, [JournalNext]_vars
    PROVE  Effect \/ (\E kind \in Crashes : Crash(kind)) \/ Recover
<1>1. ASSUME NEW w \in Committers, Client(w) PROVE Effect
  BY Zenon, <1>1, QuietKeeps DEF Effect
<1>2. ASSUME NEW w \in Committers, Worker(w) PROVE Effect
  <2>1. ASSUME NEW set \in Settings,
               Refuse(w, set) \/ EnqueueWait(w, set) \/ EnqueueNone(w, set) \/ EnqueueNoneFails(w, set)
        PROVE  Effect
    <3>1. CASE Refuse(w, set)
      BY Zenon, <3>1, QuietKeeps DEF Effect
    <3>2. CASE Queue(w, set)
      BY Zenon, <3>2 DEF Effect
    <3> QED BY Zenon, <2>1, <3>1, <3>2 DEF EnqueueWait, EnqueueNone, EnqueueNoneFails
  <2>2. CASE \/ Land(w, "settle", FALSE, "commit") \/ Land(w, "checkpoint", TRUE, "relaunch")
             \/ Land(w, "persist", TRUE, "write") \/ Land(w, "closing", TRUE, "shut")
    BY Zenon, <2>2, LandKeeps DEF Effect
  <2>3. CASE \/ MustPersist(w) \/ NothingStaged(w)
             \/ LaneSettles(w) \/ LaneErrs(w) \/ CutWaitBegin(w) \/ CutTurn(w) \/ Relock(w)
             \/ CheckpointInline(w) \/ ShortAgain(w) \/ WriteFileFails(w)
    BY Zenon, <2>3, QuietKeeps DEF Effect
  <2>4. CASE Launch(w) \/ WriteFile(w) \/ Landed(w) \/ Checkpointed(w) \/ CloseLog(w)
    BY Zenon, <2>4 DEF Effect
  <2>5. CASE Recycle(w)
    BY Zenon, <2>5, RecycleKeeps DEF Effect
  <2> QED BY Zenon, <1>2, <2>1, <2>2, <2>3, <2>4, <2>5 DEF Worker
<1>3. ASSUME NEW l \in Lanes, LaneWrite(l) \/ LaneSync(l) \/ LaneFail(l) PROVE Effect
  BY Zenon, <1>3, LaneKeeps DEF Effect
<1>4. CASE FlightFail
  <2>1. /\ flight'.status = "failed"
        /\ UNCHANGED <<up, run, last, torn, anchored, opened, block, file>>
    BY Zenon, <1>4, Types DEF FlightFail, Flights, journal, lanes
  <2> QED BY Zenon, <2>1 DEF Effect, Keeps
<1>5. CASE UNCHANGED vars
  BY Zenon, <1>5 DEF vars, journal, lanes, Effect, Keeps
<1> QED BY Zenon, <1>1, <1>2, <1>3, <1>4, <1>5 DEF JournalNext, Effect

LEMMA FrameStep == Sound /\ Rest' /\ Frame /\ SavedInv /\ [JournalNext]_vars => Frame'
(* The log and the file stay as they are, and a flight that is on may end.  *)
<1>SameFrame.
      ASSUME Frame, UNCHANGED <<up, run, last, torn, anchored, opened, block, file>>,
             flight' = flight \/ flight'.status \in {"none", "failed"}
      PROVE  Frame'
  BY Zenon, <1>SameFrame DEF Frame, FileInv, StampInv, Flying, Steady
<1>OnwardFrame.
      ASSUME Sound, Frame, Onward, Rest',
             UNCHANGED <<up, run, last, torn, anchored, opened, file>>
      PROVE  Frame'
  <2> USE <1>OnwardFrame
  <2> USE DEF Frame
  <2>1. block = {} => block' = {}
    BY Zenon, OnwardIs DEF Like
  <2>2. FileInv'
    BY Zenon, <2>1, OnwardIs DEF FileInv, Flying, Steady
  <2>3. Linked(block, file.durable) => Linked(block', file.durable)
    BY Zenon, OnwardIs, Types, LikeCovers
  <2>4. \A c \in block' : \E b \in block : b.ts = c.ts /\ b.run = c.run /\ b.lane = c.lane
    BY Zenon, OnwardIs DEF Like, Same
  <2>5. \A b \in block : \E c \in block' : b.ts = c.ts
    BY Zenon, OnwardIs DEF Like, Same
  <2>6. StampInv'
    BY ZenonT(30), <2>3, <2>4, <2>5, OnwardIs DEF StampInv, Flying
  <2> QED BY Zenon, <2>2, <2>6
<1>FlightFrame.
      ASSUME Sound, Frame, FlightDone
      PROVE  Frame'
  <2> USE <1>FlightFrame
  <2> USE DEF Frame
  <2>1. /\ flight.status = "writing" /\ up
        /\ file'.anchored /\ file'.durable = flight.durable /\ file'.content = flight.content
        /\ flight'.status = "done" /\ flight'.durable = flight.durable
        /\ flight'.content = flight.content
        /\ UNCHANGED <<up, run, last, torn, anchored, opened, block>>
    BY Zenon, Types DEF FlightDone, Flights, journal, lanes
  <2>2. FileInv'
    BY Zenon, <2>1 DEF FileInv, Flying, Steady
  <2>3. ~torn /\ file.durable <= flight.durable /\ flight.durable <= last
    BY Zenon, <2>1 DEF FileInv, StampInv, Flying, Steady
  <2>4. Linked(block, file.durable) => Linked(block, flight.durable)
    BY <2>3, Types DEF Linked, Met
  <2>5. StampInv'
    BY <2>1, <2>3, <2>4, Types DEF StampInv, Flying
  <2> QED BY Zenon, <2>2, <2>5
<1>LaunchFrame.
      ASSUME Sound, Frame, NEW w \in Committers, Launch(w)
      PROVE  Frame'
  <2> USE <1>LaunchFrame
  <2> USE DEF Frame
  <2>1. /\ flight'.status = "writing" /\ flight'.durable = last
        /\ UNCHANGED <<up, run, last, torn, anchored, opened, block, file>>
    BY Zenon DEF Launch, journal, lanes
  <2>2. Steady /\ up
    BY Zenon, WorksUp DEF Launch, Sound
  <2>3. FileInv'
    BY Zenon, <2>1, <2>2 DEF FileInv, Flying, Steady, StampInv
  <2>4. \A b \in block : ~(b.ts > last)
    BY <2>2, Types DEF StampInv
  <2>5. StampInv'
    BY <2>1, <2>4, Types DEF StampInv, Flying
  <2> QED BY Zenon, <2>3, <2>5
<1>WriteFrame.
      ASSUME Sound, Frame, NEW w \in Committers, WriteFile(w)
      PROVE  Frame'
  <2> USE <1>WriteFrame
  <2> USE DEF Frame
  <2>1. /\ file'.anchored /\ file'.durable = last /\ file'.content = mem
        /\ UNCHANGED <<up, run, last, torn, anchored, opened, flight, block>>
    BY Zenon DEF WriteFile, journal, lanes
  <2>2. flight.status = "none" /\ up
    <3>1. pc[w] \in Grounded /\ pc[w] # "idle"
      BY Zenon DEF WriteFile, Grounded
    <3> QED BY Zenon, <3>1, WorksUp DEF Sound, LockInv
  <2>3. \A b \in block : ~(b.ts > last)
    BY <2>2, Types DEF StampInv
  <2>4. FileInv'
    BY Zenon, <2>1, <2>2 DEF FileInv, Flying
  <2>5. StampInv'
    <3>1. last <= last /\ ~(last > last)
      BY Types
    <3> QED BY Zenon, <2>1, <2>2, <2>3, <3>1 DEF StampInv, Flying, Linked
  <2> QED BY Zenon, <2>4, <2>5
<1>QueueFrame.
      ASSUME Sound, Frame, Rest', NEW w \in Committers, NEW set \in Settings, Queue(w, set)
      PROVE  Frame'
  <2> USE <1>QueueFrame
  <2> USE DEF Frame
  <2>1. PICK x : x = Queued(w, set)
    BY Zenon
  <2>2. /\ up /\ ~torn /\ block' = block \cup {x} /\ opened' = opened \cup {x.lane}
        /\ last' = last + 1 /\ UNCHANGED <<up, run, torn, anchored, flight, file>> /\ anchored
        /\ x.ts = last + 1 /\ x.dep = last /\ x.run = run
    BY Zenon, <2>1, QueueIs
  <2>3. \A b \in block : b.ts <= last
    BY Zenon, <2>2 DEF StampInv
  <2>4. FileInv'
    BY Zenon, <2>2 DEF FileInv, Flying, Steady
  <2>5. Numbered(block')
    BY <2>2, <2>3, Types DEF Numbered, StampInv
  <2>6. \A b \in block' : b.run <= run /\ (b.run = run => up /\ ~torn)
    BY <2>2, Types DEF StampInv
  <2>7. file.durable <= last + 1 /\ \A b \in block' : b.ts <= last + 1
    BY <2>2, <2>3, Types DEF StampInv
  <2>8. Flying => /\ flight.durable <= last + 1
                  /\ \A b \in block' : b.ts > flight.durable => b.lane \in opened'
    BY <2>2, Types DEF StampInv
  <2>9. Linked(block', file.durable)
    BY <2>2, Types DEF StampInv, Linked, Met
  <2>10. StampInv'
    BY Zenon, <2>2, <2>5, <2>6, <2>7, <2>8, <2>9 DEF StampInv, Flying
  <2> QED BY Zenon, <2>4, <2>10
<1>LandedFrame.
      ASSUME Sound, Frame, NEW w \in Committers, Landed(w)
      PROVE  Frame'
  <2> USE <1>LandedFrame
  <2> USE DEF Frame
  <2>1. Linked(block, file.durable) => Linked(block', file.durable)
    <3>1. block \in SUBSET Blocks /\ file.durable \in Nat
      BY Zenon, Types
    <3> QED BY Zenon, <3>1, LandedIs, CutCovers
  <2>2. FileInv'
    BY Zenon, LandedIs DEF FileInv, Flying, Steady
  <2>3. Numbered(block')
    BY Zenon, LandedIs DEF StampInv, Numbered
  <2>4. StampInv'
    <3>1. /\ up /\ ~torn /\ flight'.status = "none" /\ UNCHANGED <<up, run, last, torn, file>>
          /\ block' \in SUBSET block /\ \A b \in block : b.ts > file.durable => b \in block'
      BY Zenon, LandedIs DEF Steady
    <3> QED BY Zenon, <2>1, <2>3, <3>1, Types DEF StampInv, Flying
  <2> QED BY Zenon, <2>2, <2>4
<1>ClearedFrame.
      ASSUME Sound, Frame, SavedInv, NEW w \in Committers, Checkpointed(w) \/ CloseLog(w)
      PROVE  Frame'
  <2> USE <1>ClearedFrame
  <2> USE DEF Frame
  <2>1. FileInv'
    BY Zenon, ClearedIs DEF FileInv, Flying
  <2>2. StampInv'
    <3>1. /\ up /\ flight.status = "none" /\ file.durable = last /\ block' = {}
          /\ UNCHANGED <<up, run, last, flight, file>>
      BY Zenon, ClearedIs
    <3> QED BY <3>1, Types DEF StampInv, Flying, Numbered, Linked
  <2> QED BY Zenon, <2>1, <2>2
<1>CrashFrame.
      ASSUME Sound, Frame, Rest', NEW kind, Crash(kind)
      PROVE  Frame'
  <2> USE <1>CrashFrame
  <2> USE DEF Frame
  <2>1. \A c \in block' : \E b \in block : b.run = c.run
    BY Zenon, CrashIs DEF Like, Same
  <2>2. FileInv'
    BY Zenon, <2>1, CrashIs DEF FileInv, Flying
  <2>3. StampInv'
    <3>1. up' = FALSE /\ run' = run + 1 /\ flight'.status = "none" /\ Numbered(block')
      BY Zenon, CrashIs
    <3>2. \A b \in block : b.run \in Nat
      BY Types DEF Blocks
    <3> QED BY <2>1, <3>1, <3>2, Types DEF StampInv, Flying
  <2> QED BY Zenon, <2>2, <2>3
<1>RecoverFrame.
      ASSUME Sound, Frame, Recover
      PROVE  Frame'
  <2> USE <1>RecoverFrame
  <2> USE DEF Frame
  <2>1. CASE ~file.anchored
    <3>1. FileInv'
      BY Zenon, <2>1, RecoverIs DEF FileInv, Flying
    <3>2. block' = {} /\ last' = 0 /\ file.durable = 0 /\ UNCHANGED <<flight, file>>
          /\ flight.status = "none"
      BY Zenon, <2>1, RecoverIs
    <3>3. StampInv'
      BY <3>2 DEF StampInv, Flying, Numbered, Linked
    <3> QED BY Zenon, <3>1, <3>3
  <2>2. CASE file.anchored
    <3>1. FileInv'
      BY Zenon, <2>2, RecoverIs DEF FileInv, Flying
    <3>2. \A b \in block : b.ts \in Nat
      BY Zenon, Types
    <3>3. last' \in Nat /\ file.durable <= last' /\ \A b \in block : b.ts <= last'
      BY SMTT(30), <2>2, <3>2, RecoverIs, Types DEF Replayable
    <3>4. last' > file.durable => \E b \in block : b.ts = last'
      BY <2>2, RecoverIs, Types DEF Replayable
    <3>5. \A b \in block : b.run # run
      BY Zenon, RecoverIs DEF StampInv
    <3>6. ~torn' => Linked(block, file.durable)
      BY Zenon, <2>2, RecoverIs, KeptReaches
    <3>7. StampInv'
      BY Zenon, <2>2, <3>3, <3>4, <3>5, <3>6, RecoverIs DEF StampInv, Flying
    <3> QED BY Zenon, <3>1, <3>7
  <2> QED BY Zenon, <2>1, <2>2
<1> SUFFICES ASSUME Sound, Rest', Frame, SavedInv, [JournalNext]_vars
             PROVE  Frame'
  BY Zenon
<1>1. CASE Keeps
  BY Zenon, <1>1, <1>SameFrame, <1>OnwardFrame DEF Keeps
<1>2. CASE Effect
  BY Zenon, <1>1, <1>2, <1>QueueFrame, <1>FlightFrame, <1>LaunchFrame, <1>WriteFrame,
    <1>LandedFrame, <1>ClearedFrame
  DEF Effect
<1> QED BY Zenon, <1>2, StepEffect, <1>CrashFrame, <1>RecoverFrame

-----------------------------------------------------------------------------
LEMMA ReturnGoes ==
    ASSUME NEW w, NEW how, Return(w, how)
    PROVE  Goto(w, "idle") /\ UNCHANGED <<next, deps>>
BY Zenon DEF Return

LEMMA WaitedGoes ==
    ASSUME NEW w, NEW ok, Waited(w, ok)
    PROVE  \E to \in {"idle", "relock", "relock_err", "checkpoint", "persist"} : Goto(w, to)
BY Zenon, ReturnGoes DEF Waited, Stay

LEMMA SavedStep == Sound /\ Frame /\ SavedInv /\ [JournalNext]_vars => SavedInv'
(* A worker moves and leaves the file and the catalog alone. *)
<1>QuietSaved.
      ASSUME Sound, SavedInv, NEW w \in Committers, NEW to, Goto(w, to), to \notin Saved,
             UNCHANGED <<file, last, mem>>
      PROVE  SavedInv'
  <2> USE <1>QuietSaved
  <2>1. pc \in [Committers -> Places] /\ pc' = [pc EXCEPT ![w] = to]
    BY Zenon DEF Sound, Rest, ThreadsOK, Goto
  <2>2. \A v \in Committers : pc'[v] \in Saved => pc[v] \in Saved
    BY Zenon, <2>1
  <2> QED BY Zenon, <2>2 DEF SavedInv
(* A worker moves with the lock: no other is at a checkpoint. *)
<1>HolderSaved.
      ASSUME Sound, NEW w \in Committers, lock \in {w, NoOne}, NEW to, Goto(w, to),
             to \in Saved => file'.anchored /\ file'.durable = last' /\ file'.content = mem'
      PROVE  SavedInv'
  <2> USE <1>HolderSaved
  <2>1. pc \in [Committers -> Places] /\ pc' = [pc EXCEPT ![w] = to]
    BY Zenon DEF Sound, Rest, ThreadsOK, Goto
  <2>2. \A v \in Committers : pc'[v] \in Saved => v = w /\ to \in Saved
    BY Zenon, <2>1, Unlocked, SavedLocked
  <2> QED BY Zenon, <2>2 DEF SavedInv
<1> SUFFICES ASSUME Sound, Frame, SavedInv, [JournalNext]_vars
             PROVE  SavedInv'
  BY Zenon
<1> DEFINE Plain == {"idle", "settle", "commit", "landed", "lane", "after", "cut", "relock",
                     "relock_err", "checkpoint", "relaunch", "persist", "write", "closing", "shut"}
<1>1. \A to \in Plain : to \notin Saved
  BY Zenon DEF Saved
<1>2. CASE UNCHANGED <<pc, file, last, mem>>
  BY Zenon, <1>2 DEF SavedInv
<1>3. ASSUME NEW w \in Committers, Client(w) PROVE SavedInv'
  <2>1. lock = NoOne /\ \E to \in Plain : Goto(w, to)
    BY Zenon, <1>3 DEF Client, Execute, Ask
  <2> QED BY Zenon, <1>1, <2>1, <1>HolderSaved
<1>4. ASSUME NEW w \in Committers, Worker(w) PROVE SavedInv'
  <2>1. ASSUME NEW set \in Settings,
               Refuse(w, set) \/ EnqueueWait(w, set) \/ EnqueueNone(w, set) \/ EnqueueNoneFails(w, set)
        PROVE  SavedInv'
    <3>1. pc[w] = "commit"
      BY Zenon, <2>1 DEF Refuse, EnqueueWait, EnqueueNone, EnqueueNoneFails, Queue
    <3>3. \E to \in {"lane", "checkpoint", "idle", "persist"} : Goto(w, to)
      BY Zenon, <2>1, ReturnGoes DEF Refuse, EnqueueWait, EnqueueNone, EnqueueNoneFails, Stay
    <3>2. lock = w
      BY Zenon, <3>1, HolderIs DEF Sound, Locked
    <3> QED BY Zenon, <1>1, <3>2, <3>3, <1>HolderSaved
  <2>2. ASSUME NEW from, NEW wait, NEW to \in Plain, Land(w, from, wait, to) PROVE SavedInv'
    <3>1. (\E p \in Plain : Goto(w, p)) /\ UNCHANGED <<file, last, mem>>
      BY Zenon, <2>2, ReturnGoes DEF Land, Stay, journal
    <3> QED BY Zenon, <1>1, <3>1, <1>QuietSaved
  <2>3. CASE Landed(w)
    <3>1. flight.to \in Plain
      <4>1. flight.to # "none"
        BY Zenon, <2>3 DEF Landed, Sound, LockInv
      <4> QED BY Zenon, <4>1, Types DEF Flights
    <3>2. (\E p \in Plain : Goto(w, p)) /\ UNCHANGED <<file, last, mem>>
      BY Zenon, <2>3, <3>1, ReturnGoes DEF Landed, Stay
    <3> QED BY Zenon, <1>1, <3>2, <1>QuietSaved
  <2>4. CASE \/ MustPersist(w) \/ NothingStaged(w)
             \/ LaneSettles(w) \/ LaneErrs(w) \/ CutWaitBegin(w) \/ CutTurn(w) \/ Relock(w)
             \/ CheckpointInline(w) \/ ShortAgain(w) \/ WriteFileFails(w) \/ Launch(w)
    <3>1. /\ (\E p \in Plain : Goto(w, p)) \/ UNCHANGED pc
          /\ UNCHANGED <<file, last, mem>>
      BY Zenon, <2>4, ReturnGoes, WaitedGoes
      DEF MustPersist, NothingStaged, Settled, LaneSettles, LaneErrs, CutWaitBegin, CutTurn,
        Relock,
          CheckpointInline, ShortAgain, WriteFileFails, Launch, Stay, journal, threads
    <3> QED BY Zenon, <1>1, <1>2, <3>1, <1>QuietSaved
  <2>5. CASE WriteFile(w)
    <3>1. pc[w] \in Locked
      BY Zenon, <2>5 DEF WriteFile, Locked
    <3>2. lock = w
      BY Zenon, <3>1, HolderIs DEF Sound
    <3>3. \E p : Goto(w, p)
      BY Zenon, <2>5 DEF WriteFile, Stay
    <3>4. file'.anchored /\ file'.durable = last' /\ file'.content = mem'
      BY Zenon, <2>5 DEF WriteFile, journal
    <3> QED BY Zenon, <3>2, <3>3, <3>4, <1>HolderSaved
  <2>6. CASE Recycle(w)
    <3>1. pc[w] \in Saved
      BY Zenon, <2>6 DEF Recycle, Saved
    <3>2. lock = w
      BY Zenon, <3>1, SavedLocked, HolderIs DEF Sound
    <3>3. (\E p : Goto(w, p)) /\ UNCHANGED <<file, last, mem>>
      BY Zenon, <2>6, ReturnGoes DEF Recycle, Stay, journal
    <3> QED BY Zenon, <3>1, <3>2, <3>3, <1>HolderSaved DEF SavedInv
  <2>7. CASE Checkpointed(w) \/ CloseLog(w)
    BY Zenon, <1>1, <2>7, ClearedIs, <1>HolderSaved
  <2> QED BY Zenon, <1>4, <2>1, <2>2, <2>3, <2>4, <2>5, <2>6, <2>7 DEF Worker
<1>5. CASE (\E l \in Lanes : LaneWrite(l) \/ LaneSync(l) \/ LaneFail(l)) \/ FlightFail \/ UNCHANGED vars
  BY Zenon, <1>2, <1>5 DEF LaneWrite, LaneSync, LaneFail, FlightFail, vars, journal, threads
<1>6. CASE FlightDone
  <2>1. flight.status # "none" /\ UNCHANGED pc
    BY Zenon, <1>6 DEF FlightDone, threads
  <2>2. Saved \subseteq Grounded
    BY Zenon DEF Saved, Grounded
  <2> QED BY Zenon, <2>1, <2>2 DEF Sound, LockInv, SavedInv
<1>7. CASE (\E kind \in Crashes : Crash(kind)) \/ Recover
  <2>1. \A w \in Committers : pc'[w] = "idle"
    BY Zenon, <1>7 DEF Crash, Recover, Sound, Down, threads
  <2> QED BY Zenon, <1>1, <2>1 DEF SavedInv
<1> QED BY Zenon, <1>3, <1>4, <1>5, <1>6, <1>7 DEF JournalNext

(* What the journal keeps in every run, failures and crashes included.      *)
Framed == Sound /\ Frame /\ SavedInv

LEMMA FramedInit == JournalInit => Framed
<1> SUFFICES ASSUME JournalInit PROVE Framed
  BY Zenon
<1>1. Sound
  BY Zenon, SoundInit
<1>2. FileInv /\ SavedInv
  BY Zenon DEF JournalInit, FileInv, Flying, NoFlight, SavedInv, Saved
<1>3. StampInv
  BY DEF JournalInit, StampInv, Flying, NoFlight, Numbered, Linked
<1> QED BY Zenon, <1>1, <1>2, <1>3 DEF Framed, Frame

LEMMA FramedStep == Framed /\ [JournalNext]_vars => Framed'
<1> SUFFICES ASSUME Framed, [JournalNext]_vars PROVE Framed'
  BY Zenon
<1>1. Sound' /\ Rest'
  BY Zenon, SoundStep DEF Framed, Sound
<1>2. Frame' /\ SavedInv'
  BY Zenon, <1>1, FrameStep, SavedStep DEF Framed
<1> QED BY Zenon, <1>1, <1>2 DEF Framed

(* The frame of the log: the file is anchored where it says, the blocks     *)
(* above the anchor are numbered without a gap while the log is not torn,   *)
(* and a checkpoint that wrote the file has written the catalog.            *)
THEOREM JournalFramed == JournalSpec => []Framed
BY FramedInit, FramedStep, PTL DEF JournalSpec

LEMMA FramedReplays == Framed => LoggedReplays
<1> SUFFICES ASSUME Framed, up, NEW b \in Replayable, b.run = run PROVE b \in Kept
  BY Zenon DEF LoggedReplays
<1>1. ~torn
  BY Zenon DEF Framed, Frame, StampInv, Replayable
<1>2. Linked(block, file.durable)
  BY Zenon, <1>1 DEF Framed, Frame, StampInv
<1> QED BY Zenon, <1>2, KeptReaches DEF Framed

(* Nothing is logged behind a gap: if the process ended now, a replay would *)
(* read every block this opening queued above the anchor.  replay stops at  *)
(* the first number that is missing; open_with starts the numbers where the *)
(* last replay stopped, or leaves the log alone when it was torn.           *)
THEOREM JournalReplays == JournalSpec => []LoggedReplays
BY FramedReplays, JournalFramed, PTL
=============================================================================
