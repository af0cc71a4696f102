------------------------------ MODULE Journal ------------------------------
(***************************************************************************)
(* The commit path of a database with a file: rudb/src/journal.rs and the   *)
(* parts of rudb/src/database.rs that drive it (settle, checkpoint, launch, *)
(* land, persist_main, close, open_with).                                   *)
(*                                                                          *)
(* A statement changes the catalog in memory and stages a record under the  *)
(* writer lock.  Its commit queues the staged records as one block in a     *)
(* lane of the log, waits for the lane, and, when the commit before it went *)
(* to another lane, for the durable cut (module Cut).  A checkpoint writes  *)
(* the catalog into the file with the cut it covers, on the spot or on a    *)
(* thread of its own (a Flight), and recycles the log below the cut.        *)
(*                                                                          *)
(* A statement is a number, and the catalog, the file and a block are the   *)
(* sets of statements they hold.  A lane is what module Lane shows it to    *)
(* be: it takes blocks in order, writes and then syncs them in order, and   *)
(* may fail for good.                                                       *)
(***************************************************************************)
EXTENDS Cut, FiniteSets

CONSTANTS MaxStatements,  \* bound: statements executed over the whole run
          Settings,       \* what a commit may find set: records of commit_sync
                          \*   (sync), log_lanes (lanes), visibility (vis)
          Threshold,      \* checkpoint_threshold, in statements logged
          Slack,          \* how many thresholds a log may reach in a flight: 4
          WindowMost,     \* WINDOW_BYTES, in statements
          Crashes,        \* which crashes happen: "process", "power"
          MaxCrashes,     \* bound: crashes
          MaxLaneFails,   \* bound: writes or syncs of a lane that fail
          MaxRefusals,    \* bound: segments that cannot be created at an open
          MaxFileFails,   \* bound: writes of the file that fail
          NoOne           \* the writer lock is free

ASSUME JournalAssumption ==
    /\ Committers \subseteq Nat \ {0}
    /\ MaxStatements \in Nat /\ Threshold \in Nat \ {0} /\ Slack \in Nat \ {0}
    /\ WindowMost \in Nat
    /\ MaxCrashes \in Nat /\ MaxLaneFails \in Nat
    /\ MaxRefusals \in Nat /\ MaxFileFails \in Nat
    /\ Settings \subseteq [sync : {"full", "os", "none"}, lanes : Nat \ {0},
                           vis : {"durable", "committed"}]
    /\ Crashes \subseteq {"process", "power"}
    /\ NoOne \notin Committers

VARIABLES
    up,          \* the database is open
    run,         \* how many crashes there have been, which names the run
    \* The catalog and the journal, all of it lost in a crash.
    mem,         \* the statements the catalog in memory shows
    staged,      \* Journal.staged
    dirty,       \* Journal.dirty
    last,        \* Journal.last
    laneOfLast,  \* Journal.lane_of_last
    torn,        \* Journal.torn
    anchored,    \* Journal.anchored
    logged,      \* Journal.logged
    opened,      \* the lanes opened, Journal.lanes
    found,       \* Journal.found
    laneFailed,  \* the opened lanes whose State.failed is set
    window,      \* Journal.window
    flight,      \* Journal.flight
    \* The threads.
    lock,        \* Inner.writer: who holds it
    pc,          \* where each worker is
    stmt,        \* the statement each worker is committing, 0 for none
    pend,        \* the Pending of each worker
    \* What a crash leaves.
    block,       \* the blocks of the log, each queued, written or synced
    file,        \* the database file: its anchor and what it holds
    \* History.
    next,        \* the next statement's number
    deps,        \* what each statement saw in the catalog it changed
    acked,       \* acknowledged after commit_sync full, or from the file
    soft,        \* acknowledged after commit_sync os, and no power loss since
    laneFails, refusals, fileFails  \* faults so far

journal == <<mem, staged, dirty, last, laneOfLast, torn, anchored, logged>>
lanes == <<opened, found, laneFailed>>
threads == <<lock, pc, stmt, pend>>
history == <<next, deps, acked, soft>>
faults == <<laneFails, refusals, fileFails>>
vars == <<cutVars, up, run, journal, lanes, window, flight, threads, block,
          file, history, faults>>

Statements == 1..MaxStatements
Lanes == {w % s.lanes : w \in Committers, s \in Settings}

NoFlight == [status |-> "none", durable |-> 0, content |-> {}, logged |-> 0,
             to |-> "none"]
NoWindow == [records |-> {}, broken |-> FALSE, kept |-> FALSE]
NoPend == [lane |-> 0, sync |-> "none", ts |-> 0, after |-> NoWait]

(* Mutant of NeedsCheckpoint: a log with blocks left out is written after.  *)
NeedsWhenDirty == dirty \/ (~anchored /\ staged # {})

(* A commit has to checkpoint rather than log.                              *)
NeedsCheckpoint == dirty \/ ((torn \/ ~anchored) /\ staged # {})

(* The log has passed the threshold, a larger one while a flight is on.     *)
OverAt(n) == n >= IF flight.status = "none" THEN Threshold ELSE Slack * Threshold
Over == OverAt(logged)

(* The log replays over the file, which a flight needs.                     *)
Steady == anchored /\ ~torn
-----------------------------------------------------------------------------
(* A database in a new file: no anchor, no log.                             *)
JournalInit ==
    /\ CutInit
    /\ up = TRUE /\ run = 0
    /\ mem = {} /\ staged = {} /\ dirty = FALSE /\ last = 0 /\ laneOfLast = 0
    /\ torn = FALSE /\ anchored = FALSE /\ logged = 0
    /\ opened = {} /\ found = {} /\ laneFailed = {}
    /\ window = NoWindow /\ flight = NoFlight
    /\ lock = NoOne
    /\ pc = [w \in Committers |-> "idle"]
    /\ stmt = [w \in Committers |-> 0]
    /\ pend = [w \in Committers |-> NoPend]
    /\ block = {}
    /\ file = [anchored |-> FALSE, durable |-> 0, content |-> {}]
    /\ next = 1 /\ deps = [s \in Statements |-> {}]
    /\ acked = {} /\ soft = {}
    /\ laneFails = 0 /\ refusals = 0 /\ fileFails = 0

Goto(w, to) == pc' = [pc EXCEPT ![w] = to]

Release(w) == lock' = IF lock = w THEN NoOne ELSE lock

(* The statement of w returns to its client, an error or a promise of how.  *)
Return(w, how) ==
    /\ Goto(w, "idle") /\ Release(w)
    /\ stmt' = [stmt EXCEPT ![w] = 0]
    /\ pend' = [pend EXCEPT ![w] = NoPend]
    /\ acked' = IF how = "full" THEN acked \cup ({stmt[w]} \ {0}) ELSE acked
    /\ soft' = IF how = "os" THEN soft \cup ({stmt[w]} \ {0}) ELSE soft
    /\ UNCHANGED <<next, deps>>

Stay(w, to) == Goto(w, to) /\ UNCHANGED <<lock, stmt, pend, history>>

(* The blocks of lanes ls of this run moved on from one stage to the next.  *)
Moved(ls, from, to) ==
    {IF b.lane \in ls /\ b.run = run /\ b.at = from
        THEN [b EXCEPT !.at = to] ELSE b : b \in block}
-----------------------------------------------------------------------------
(* Mutant of Execute: a commit that owes a checkpoint is forgotten by the   *)
(* next one.                                                                *)
ExecuteForgets(w, kind) ==
    /\ up /\ pc[w] = "idle" /\ lock = NoOne /\ next <= MaxStatements
    /\ lock' = w /\ Goto(w, "settle")
    /\ mem' = mem \cup {next}
    /\ stmt' = [stmt EXCEPT ![w] = next]
    /\ deps' = [deps EXCEPT ![next] = mem]
    /\ next' = next + 1
    /\ staged' = IF kind = "whole" THEN {} ELSE staged \cup {next}
    /\ dirty' = (kind = "whole")
    /\ UNCHANGED <<cutVars, up, run, last, laneOfLast, torn, anchored, logged, lanes,
                   window, flight, pend, block, file, acked, soft, faults>>

(* A statement under the writer lock, or the commit of a transaction, which *)
(* absorbs what it staged apart: it changes the catalog and stages a record *)
(* (log), marks the commit to checkpoint (whole), or changed nothing.       *)
Execute(w, kind) ==
    /\ up /\ pc[w] = "idle" /\ lock = NoOne
    /\ lock' = w /\ Goto(w, "settle")
    /\ IF kind = "nothing"
          THEN UNCHANGED <<mem, staged, dirty, window, stmt, next, deps>>
          ELSE /\ next <= MaxStatements
               /\ mem' = mem \cup {next}
               /\ stmt' = [stmt EXCEPT ![w] = next]
               /\ deps' = [deps EXCEPT ![next] = mem]
               /\ next' = next + 1
               /\ staged' = IF dirty \/ kind = "whole" THEN {} ELSE staged \cup {next}
               /\ dirty' = (dirty \/ kind = "whole")
               /\ window' = IF kind = "whole"
                               THEN [window EXCEPT !.broken = window.kept] ELSE window
    /\ UNCHANGED <<cutVars, up, run, last, laneOfLast, torn, anchored, logged, lanes,
                   flight, pend, block, file, acked, soft, faults>>

(* CHECKPOINT, and close: the file is written for its own sake.             *)
Ask(w, to) ==
    /\ up /\ pc[w] = "idle" /\ lock = NoOne
    /\ lock' = w /\ Goto(w, to)
    /\ UNCHANGED <<cutVars, up, run, journal, lanes, window, flight, stmt, pend,
                   block, file, history, faults>>

(* land: a flight that is done is put back, one that failed is as if it had *)
(* not been, and with wait one still writing is waited for.  Its log has to *)
(* go out first, which a failed lane refuses.                               *)
Land(w, from, wait, to) ==
    /\ pc[w] = from
    /\ \/ /\ flight.status = "none" \/ (~wait /\ flight.status = "writing")
          /\ Stay(w, to)
          /\ UNCHANGED <<window, flight, block>>
       \/ /\ flight.status = "failed"
          /\ window' = NoWindow /\ flight' = NoFlight
          /\ Stay(w, to)
          /\ UNCHANGED block
       \/ /\ flight.status = "done" /\ laneFailed # {}
          /\ window' = NoWindow /\ flight' = NoFlight
          /\ Return(w, "error")
          /\ UNCHANGED block
       \/ /\ flight.status = "done" /\ laneFailed = {}
          /\ window' = NoWindow
          /\ flight' = [flight EXCEPT !.status = "landing", !.to = to]
          /\ block' = Moved(opened, "queued", "written")
          /\ Stay(w, "landed")
    /\ UNCHANGED <<cutVars, up, run, journal, lanes, file, faults>>

(* What a checkpoint at the cut d leaves of the log: the lanes this run has *)
(* not written to go whole, the others keep what is above the cut.          *)
Recycled(d) == {b \in block : b.ts > d /\ b.lane \notin found \ opened}

(* The lane of the Checkpoint record: lane_of_last counts among the opened  *)
(* lanes, and the last of them stands in for a number past their end.       *)
RecordLane ==
    LET most == Cardinality(opened) - 1
        place == IF laneOfLast < most THEN laneOfLast ELSE most
    IN  {l \in opened : Cardinality({k \in opened : k < l}) = place}

(* landed, once the log is out.  The Checkpoint record is written last.     *)
Landed(w) ==
    /\ pc[w] = "landed"
    /\ anchored' = TRUE
    /\ logged' = IF logged > flight.logged THEN logged - flight.logged ELSE 0
    /\ Raise(flight.durable)
    /\ block' = Recycled(flight.durable)
    /\ found' = {}
    /\ flight' = NoFlight
    /\ \/ opened = {} /\ Stay(w, flight.to)
       \/ \E l \in RecordLane :
             IF l \in laneFailed THEN Return(w, "error") ELSE Stay(w, flight.to)
    /\ UNCHANGED <<up, run, mem, staged, dirty, last, laneOfLast, torn, opened,
                   laneFailed, window, file, faults>>
-----------------------------------------------------------------------------
(* settle: the commit checkpoints, has nothing to wait for, or queues.      *)
MustPersist(w) ==
    /\ pc[w] = "commit" /\ NeedsCheckpoint
    /\ Stay(w, "persist")
    /\ UNCHANGED <<cutVars, up, run, journal, lanes, window, flight, block, file, faults>>

(* The commit logged all it has to and waits for nothing more.              *)
Settled(w, how) == IF Over THEN Stay(w, "checkpoint") ELSE Return(w, how)

NothingStaged(w) ==
    /\ pc[w] = "commit" /\ ~NeedsCheckpoint /\ staged = {}
    /\ Settled(w, "none")
    /\ UNCHANGED <<cutVars, up, run, journal, lanes, window, flight, block, file, faults>>

(* The lane refused the block, as one that failed does and one whose first  *)
(* segment cannot be made.  The staged records are gone and the window does *)
(* not hold them.                                                           *)
Refuse(w, set) ==
    /\ pc[w] = "commit" /\ ~NeedsCheckpoint /\ staged # {}
    /\ LET l == w % set.lanes IN
       \/ l \in laneFailed /\ UNCHANGED refusals
       \/ /\ l \notin opened
          /\ refusals < MaxRefusals /\ refusals' = refusals + 1
    /\ staged' = {}
    /\ window' = [window EXCEPT !.broken = window.kept]
    /\ Stay(w, "persist")
    /\ UNCHANGED <<cutVars, up, run, mem, dirty, last, laneOfLast, torn, anchored,
                   logged, lanes, flight, block, file, laneFails, fileFails>>

(* The commit before goes to another lane, so this one waits for it too.    *)
After(l) == IF l # laneOfLast THEN last ELSE NoWait

(* What every enqueue does: one block of all that is staged, in the lane of *)
(* the worker, and in the window of a flight.                               *)
Queue(w, set) ==
    LET l == w % set.lanes
        kept == window.records \cup staged
    IN  /\ pc[w] = "commit" /\ ~NeedsCheckpoint /\ staged # {}
        /\ l \notin laneFailed
        /\ opened' = opened \cup {l}
        /\ block' = block \cup {[ts |-> last + 1, dep |-> last, lane |-> l,
                                 stmts |-> staged, sync |-> set.sync, run |-> run,
                                 at |-> "queued"]}
        /\ window' = IF ~window.kept \/ window.broken THEN window
                     ELSE IF Cardinality(kept) > WindowMost
                          THEN [window EXCEPT !.broken = TRUE]
                          ELSE [window EXCEPT !.records = kept]
        /\ staged' = {} /\ last' = last + 1 /\ laneOfLast' = l
        /\ logged' = logged + Cardinality(staged)
        /\ UNCHANGED <<up, run, mem, dirty, torn, anchored, found, flight, file,
                       refusals, fileFails>>

(* Mutant of EnqueueWait: the commit counts as reached once it is queued.   *)
EnqueueReaches(w, set) ==
    /\ Queue(w, set) /\ set.sync # "none"
    /\ Goto(w, "lane") /\ Reached(last + 1)
    /\ pend' = [pend EXCEPT ![w] = [lane |-> w % set.lanes, sync |-> set.sync,
                                    ts |-> last + 1, after |-> After(w % set.lanes)]]
    /\ lock' = IF set.vis = "committed" THEN NoOne ELSE lock
    /\ UNCHANGED <<laneFailed, laneFails, stmt, history>>

(* A commit that waits is left with what it waits for, and under visibility *)
(* committed lets go of the lock first.                                     *)
EnqueueWait(w, set) ==
    /\ Queue(w, set) /\ set.sync # "none"
    /\ Goto(w, "lane")
    /\ pend' = [pend EXCEPT ![w] = [lane |-> w % set.lanes, sync |-> set.sync,
                                    ts |-> last + 1, after |-> After(w % set.lanes)]]
    /\ lock' = IF set.vis = "committed" THEN NoOne ELSE lock
    /\ UNCHANGED <<cutVars, laneFailed, laneFails, stmt, history>>

(* Under commit_sync none the commit counts as reached and returns.         *)
EnqueueNone(w, set) ==
    /\ Queue(w, set) /\ set.sync = "none"
    /\ Reached(last + 1)
    /\ IF OverAt(logged') THEN Stay(w, "checkpoint") ELSE Return(w, "none")
    /\ UNCHANGED <<laneFailed, laneFails>>

(* Too much was queued, and writing it out failed.                          *)
EnqueueNoneFails(w, set) ==
    /\ Queue(w, set) /\ set.sync = "none"
    /\ Reached(last + 1)
    /\ laneFails < MaxLaneFails /\ laneFails' = laneFails + 1
    /\ laneFailed' = laneFailed \cup {w % set.lanes}
    /\ Stay(w, "persist")
-----------------------------------------------------------------------------
(* Mutant of Far: commit_sync os waits for nothing.                         *)
FarQueued(b, sync) == b.at = "synced" \/ sync = "os"

(* Pending::wait on the lane.  A failed lane fails the cut with it, a block *)
(* far enough is reached, and then the commit before it is waited for.      *)
Far(b, sync) == b.at = "synced" \/ (sync = "os" /\ b.at = "written")

(* What a wait that ended comes to: the error is followed by a checkpoint,  *)
(* and so is a log that is full, both under the lock again.                 *)
Waited(w, ok) ==
    IF ok /\ ~Over THEN Return(w, pend[w].sync)
    ELSE Stay(w, IF lock # w THEN IF ok THEN "relock" ELSE "relock_err"
                             ELSE IF ok THEN "checkpoint" ELSE "persist")

LaneSettles(w) ==
    /\ pc[w] = "lane" /\ pend[w].lane \notin laneFailed
    /\ \A b \in block : b.ts = pend[w].ts => Far(b, pend[w].sync)
    /\ Reached(pend[w].ts)
    /\ IF pend[w].after = NoWait THEN Waited(w, TRUE) ELSE Stay(w, "after")
    /\ UNCHANGED <<up, run, journal, lanes, window, flight, block, file, faults>>

LaneErrs(w) ==
    /\ pc[w] = "lane" /\ pend[w].lane \in laneFailed
    /\ Fail
    /\ Waited(w, FALSE)
    /\ UNCHANGED <<up, run, journal, lanes, window, flight, block, file, faults>>

CutWaitBegin(w) ==
    /\ pc[w] = "after" /\ WaitBegin(w, pend[w].after)
    /\ Stay(w, "cut")
    /\ UNCHANGED <<up, run, journal, lanes, window, flight, block, file, faults>>

CutTurn(w) ==
    /\ pc[w] = "cut"
    /\ \/ WaitOk(w) /\ Waited(w, TRUE)
       \/ WaitErr(w) /\ Waited(w, FALSE)
       \/ Park(w) /\ UNCHANGED <<threads, history>>
    /\ UNCHANGED <<up, run, journal, lanes, window, flight, block, file, faults>>

(* The lock again, after which another commit may have checkpointed.        *)
Relock(w) ==
    /\ lock = NoOne
    /\ \/ /\ pc[w] = "relock" /\ Over
          /\ lock' = w /\ Goto(w, "checkpoint") /\ UNCHANGED <<stmt, pend, history>>
       \/ pc[w] = "relock" /\ ~Over /\ Return(w, pend[w].sync)
       \/ /\ pc[w] = "relock_err"
          /\ lock' = w /\ Goto(w, "persist") /\ UNCHANGED <<stmt, pend, history>>
    /\ UNCHANGED <<cutVars, up, run, journal, lanes, window, flight, block, file, faults>>
-----------------------------------------------------------------------------
(* checkpoint: in the background once the flight before has landed, and     *)
(* inline when the setting, the tables or the log ask for it.               *)
CheckpointInline(w) ==
    /\ pc[w] \in {"checkpoint", "relaunch"}
    /\ pc[w] = "relaunch" => Over
    /\ Stay(w, "persist")
    /\ UNCHANGED <<cutVars, up, run, journal, lanes, window, flight, block, file, faults>>

ShortAgain(w) ==
    /\ pc[w] = "relaunch" /\ ~Over
    /\ Return(w, pend[w].sync)
    /\ UNCHANGED <<cutVars, up, run, journal, lanes, window, flight, block, file, faults>>

(* Mutant of Launch: the anchor is of the commit before.                    *)
LaunchBehind(w) ==
    /\ pc[w] = "relaunch" /\ Over
    /\ Steady /\ ~NeedsCheckpoint
    /\ flight' = [status |-> "writing", durable |-> last - 1, content |-> mem,
                  logged |-> logged, to |-> "none"]
    /\ window' = [NoWindow EXCEPT !.kept = TRUE]
    /\ Return(w, pend[w].sync)
    /\ UNCHANGED <<cutVars, up, run, journal, lanes, block, file, faults>>

(* launch: a copy of the catalog and the anchor as they are now.            *)
Launch(w) ==
    /\ pc[w] = "relaunch" /\ Over
    /\ Steady /\ ~NeedsCheckpoint
    /\ flight' = [status |-> "writing", durable |-> last, content |-> mem,
                  logged |-> logged, to |-> "none"]
    /\ window' = [NoWindow EXCEPT !.kept = TRUE]
    /\ Return(w, pend[w].sync)
    /\ UNCHANGED <<cutVars, up, run, journal, lanes, block, file, faults>>

(* persist_main writes the file whole, with the anchor of everything so far.*)
WriteFile(w) ==
    /\ pc[w] \in {"write", "shut"}
    /\ file' = [anchored |-> TRUE, durable |-> last, content |-> mem]
    /\ Stay(w, IF pc[w] = "shut" THEN "close" ELSE "recycle")
    /\ UNCHANGED <<cutVars, up, run, journal, lanes, window, flight, block, faults>>

WriteFileFails(w) ==
    /\ pc[w] \in {"write", "shut"}
    /\ fileFails < MaxFileFails /\ fileFails' = fileFails + 1
    /\ Return(w, "error")
    /\ UNCHANGED <<cutVars, up, run, journal, lanes, window, flight, block, file,
                   laneFails, refusals>>

(* checkpointed: every lane's queue goes out first, which a failed lane     *)
(* refuses; then the staged state and the log go.                           *)
Recycle(w) ==
    /\ pc[w] = "recycle"
    /\ IF laneFailed # {}
          THEN Return(w, "error") /\ UNCHANGED block
          ELSE Stay(w, "recycled") /\ block' = Moved(opened, "queued", "written")
    /\ UNCHANGED <<cutVars, up, run, journal, lanes, window, flight, file, faults>>

Checkpointed(w) ==
    /\ pc[w] = "recycled"
    /\ staged' = {} /\ dirty' = FALSE
    /\ anchored' = TRUE /\ torn' = FALSE /\ logged' = 0
    /\ Raise(last)
    /\ block' = Recycled(last)
    /\ found' = {}
    /\ \/ opened = {} /\ Return(w, "full")
       \/ \E l \in RecordLane :
             Return(w, IF l \in laneFailed THEN "error" ELSE "full")
    /\ UNCHANGED <<up, run, mem, last, laneOfLast, opened, laneFailed, window, flight,
                   file, faults>>

(* Journal::close: the lanes are let go and every segment is removed.       *)
CloseLog(w) ==
    /\ pc[w] = "close"
    /\ staged' = {} /\ dirty' = FALSE /\ logged' = 0
    /\ opened' = {} /\ laneFailed' = {}
    /\ block' = {}
    /\ Return(w, "full")
    /\ UNCHANGED <<cutVars, up, run, mem, last, laneOfLast, torn, anchored, found,
                   window, flight, file, faults>>
-----------------------------------------------------------------------------
(* The disk.  A leader hands what is queued to the operating system, and    *)
(* later syncs the segment, which carries every block of this run in it.    *)
LaneWrite(l) ==
    /\ up /\ l \in opened \ laneFailed
    /\ block' = Moved({l}, "queued", "written") /\ block' # block
    /\ UNCHANGED <<cutVars, up, run, journal, lanes, window, flight, threads, file,
                   history, faults>>

LaneSync(l) ==
    /\ up /\ l \in opened \ laneFailed
    /\ block' = Moved({l}, "written", "synced") /\ block' # block
    /\ UNCHANGED <<cutVars, up, run, journal, lanes, window, flight, threads, file,
                   history, faults>>

(* A write or a sync fails.  What was being written may be there or not.    *)
LaneFail(l) ==
    /\ up /\ l \in opened \ laneFailed
    /\ laneFails < MaxLaneFails /\ laneFails' = laneFails + 1
    /\ laneFailed' = laneFailed \cup {l}
    /\ block' \in {block, Moved({l}, "queued", "written")}
    /\ UNCHANGED <<cutVars, up, run, journal, opened, found, window, flight, threads,
                   file, history, refusals, fileFails>>

(* The thread of a flight writes the file from its copy, or cannot.         *)
FlightDone ==
    /\ up /\ flight.status = "writing"
    /\ file' = [anchored |-> TRUE, durable |-> flight.durable, content |-> flight.content]
    /\ flight' = [flight EXCEPT !.status = "done"]
    /\ UNCHANGED <<cutVars, up, run, journal, lanes, window, threads, block, history, faults>>

FlightFail ==
    /\ up /\ flight.status = "writing"
    /\ fileFails < MaxFileFails /\ fileFails' = fileFails + 1
    /\ flight' = [flight EXCEPT !.status = "failed"]
    /\ UNCHANGED <<cutVars, up, run, journal, lanes, window, threads, block, file,
                   history, laneFails, refusals>>
-----------------------------------------------------------------------------
(* What the disk may hold after a power loss: all that was synced, and of   *)
(* what one run wrote to one lane without a sync, a first part.             *)
Survivors ==
    LET out == {b \in block : b.at # "queued"}
    IN  {s \in SUBSET out :
           /\ \A b \in out : b.at = "synced" => b \in s
           /\ \A b \in s, c \in out :
                 c.lane = b.lane /\ c.run = b.run /\ c.ts < b.ts => c \in s}

(* The process dies and its memory with it; in a power loss what was not    *)
(* synced may go too.                                                       *)
Crash(kind) ==
    /\ up /\ run < MaxCrashes
    /\ up' = FALSE /\ run' = run + 1
    /\ \/ /\ kind = "process"
          /\ block' = {b \in block : b.at # "queued"}
          /\ UNCHANGED soft
       \/ /\ kind = "power"
          /\ \E s \in Survivors : block' = {[b EXCEPT !.at = "synced"] : b \in s}
          /\ soft' = {}
    /\ mem' = {} /\ staged' = {} /\ dirty' = FALSE /\ last' = 0 /\ laneOfLast' = 0
    /\ torn' = FALSE /\ anchored' = FALSE /\ logged' = 0
    /\ opened' = {} /\ found' = {} /\ laneFailed' = {}
    /\ window' = NoWindow /\ flight' = NoFlight
    /\ lock' = NoOne
    /\ pc' = [w \in Committers |-> "idle"]
    /\ stmt' = [w \in Committers |-> 0]
    /\ pend' = [w \in Committers |-> NoPend]
    /\ waiting' = [w \in Committers |-> NoWait] /\ parked' = {}
    /\ Renew(0)
    /\ UNCHANGED <<file, next, deps, acked, faults>>

(* The blocks above the file's cut, in commit order as far as each depends  *)
(* on one that was replayed or is in the file.                              *)
Replayable == {b \in block : b.ts > file.durable}

(* Mutant of DependencyMet: every block above the cut is replayed.          *)
DependencyTrusted(b) == b.dep <= b.ts

DependencyMet(b) ==
    \/ b.dep <= file.durable
    \/ \E c \in Replayable : c.ts < b.ts /\ b.dep <= c.ts

Kept == {b \in Replayable : \A c \in Replayable : c.ts <= b.ts => DependencyMet(c)}

(* recover and the replay of open_with.  A log beside a file without an     *)
(* anchor is another file's and is removed.                                 *)
Recover ==
    /\ ~up /\ up' = TRUE
    /\ found' = {b.lane : b \in block}
    /\ anchored' = file.anchored
    /\ IF file.anchored
          THEN /\ last' \in {n \in {file.durable} \cup {b.ts : b \in Replayable} :
                              \A b \in Replayable : b.ts <= n}
               /\ torn' = (Kept # Replayable)
               /\ mem' = file.content \cup UNION {b.stmts : b \in Kept}
               /\ logged' = Cardinality(UNION {b.stmts : b \in Kept})
               /\ UNCHANGED block
          ELSE /\ block' = {}
               /\ UNCHANGED <<last, torn, mem, logged>>
    /\ Renew(last')
    /\ UNCHANGED <<waiting, parked, run, staged, dirty, laneOfLast, opened, laneFailed,
                   window, flight, threads, file, history, faults>>
-----------------------------------------------------------------------------
Worker(w) ==
    \/ Land(w, "settle", FALSE, "commit")
    \/ Land(w, "checkpoint", TRUE, "relaunch")
    \/ Land(w, "persist", TRUE, "write")
    \/ Land(w, "closing", TRUE, "shut")
    \/ Landed(w)
    \/ MustPersist(w) \/ NothingStaged(w)
    \/ \E set \in Settings : \/ Refuse(w, set) \/ EnqueueWait(w, set)
                             \/ EnqueueNone(w, set) \/ EnqueueNoneFails(w, set)
    \/ LaneSettles(w) \/ LaneErrs(w) \/ CutWaitBegin(w) \/ CutTurn(w) \/ Relock(w)
    \/ CheckpointInline(w) \/ ShortAgain(w) \/ Launch(w)
    \/ WriteFile(w) \/ WriteFileFails(w)
    \/ Recycle(w) \/ Checkpointed(w) \/ CloseLog(w)

Client(w) ==
    \/ \E kind \in {"log", "whole", "nothing"} : Execute(w, kind)
    \/ Ask(w, "persist")
    \/ (\A v \in Committers : pc[v] = "idle") /\ Ask(w, "closing")

JournalNext ==
    \/ \E w \in Committers : Client(w) \/ Worker(w)
    \/ \E l \in Lanes : LaneWrite(l) \/ LaneSync(l) \/ LaneFail(l)
    \/ FlightDone \/ FlightFail
    \/ \E kind \in Crashes : Crash(kind)
    \/ Recover

(* A thread that can go on goes on, a leader of a lane writes and syncs, a  *)
(* flight ends, and a lock that is let go again and again is had.           *)
JournalSpec ==
    /\ JournalInit /\ [][JournalNext]_vars
    /\ \A w \in Committers : WF_vars(Worker(w)) /\ SF_vars(Relock(w))
    /\ \A l \in Lanes : WF_vars(LaneWrite(l)) /\ WF_vars(LaneSync(l))
    /\ WF_vars(FlightDone)
-----------------------------------------------------------------------------
(* The one type invariant. *)
JournalTypeOK ==
    /\ CutTypeOK
    /\ up \in BOOLEAN /\ run \in 0..MaxCrashes
    /\ mem \subseteq Statements /\ staged \subseteq mem /\ dirty \in BOOLEAN
    /\ last \in Nat /\ laneOfLast \in Lanes \cup {0} /\ torn \in BOOLEAN
    /\ anchored \in BOOLEAN /\ logged \in Nat
    /\ opened \subseteq Lanes /\ found \subseteq Lanes /\ laneFailed \subseteq opened
    /\ window \in [records : SUBSET Statements, broken : BOOLEAN, kept : BOOLEAN]
    /\ flight \in [status : {"none", "writing", "done", "failed", "landing"},
                   durable : Nat, content : SUBSET Statements, logged : Nat,
                   to : {"none", "commit", "relaunch", "write", "shut"}]
    /\ lock \in Committers \cup {NoOne}
    /\ pc \in [Committers -> {"idle", "settle", "commit", "landed", "lane", "after",
                "cut", "relock", "relock_err", "checkpoint", "relaunch", "persist",
                "write", "recycle", "recycled", "closing", "shut", "close"}]
    /\ stmt \in [Committers -> Statements \cup {0}]
    /\ pend \in [Committers -> [lane : Lanes \cup {0}, sync : {"full", "os", "none"},
                                ts : Nat, after : Nat \cup {NoWait}]]
    /\ block \subseteq [ts : Nat, dep : Nat, lane : Lanes, stmts : SUBSET Statements,
                         sync : {"full", "os", "none"}, run : 0..MaxCrashes,
                         at : {"queued", "written", "synced"}]
    /\ file \in [anchored : BOOLEAN, durable : Nat, content : SUBSET Statements]
    /\ next \in 1..(MaxStatements + 1)
    /\ deps \in [Statements -> SUBSET Statements]
    /\ acked \subseteq Statements /\ soft \subseteq Statements
    /\ laneFails \in 0..MaxLaneFails /\ refusals \in 0..MaxRefusals
    /\ fileFails \in 0..MaxFileFails

(* What a client was told is committed is in the catalog of every later     *)
(* open: after commit_sync full or a checkpoint whatever crashed, and after *)
(* commit_sync os while only the process did.                               *)
AckedKept == up => acked \cup soft \subseteq mem

(* Whatever the log and the file bring back, a statement is never there     *)
(* without one whose effect was in the catalog it changed, since a record   *)
(* numbers the rows it changes.  This is what dep_ts is for.                *)
DepsKept == \A s \in mem : deps[s] \subseteq mem

(* No record is replayed over a file that holds its change already, neither *)
(* one staged when a checkpoint took the catalog nor one a flight raced.    *)
NoneTwice ==
    \A b \in block : b.ts > file.durable => b.stmts \cap file.content = {}

(* A block this run logged would be replayed by an open that found all of   *)
(* the log: nothing is ever logged after a gap, which is what torn is for.  *)
LoggedReplays ==
    up => \A b \in Replayable : b.run = run => b \in Kept

(* A commit at or below the cut is in the file, or as far as its            *)
(* commit_sync asked, so one in another lane may be acknowledged after it.  *)
CutSound ==
    up => \A b \in block :
            b.ts <= at /\ b.ts > file.durable =>
              CASE b.sync = "full" -> b.at = "synced"
                [] b.sync = "os"   -> b.at \in {"written", "synced"}
                [] b.sync = "none" -> TRUE

(* A statement a crash now would not bring back is not forgotten: it is     *)
(* staged, or a checkpoint of the catalog is owed or under way.             *)
Owed(w) == pc[w] \in {"settle", "commit", "persist", "write", "landed", "recycle",
                      "closing", "shut", "close"}
NothingForgotten ==
    up /\ ~dirty /\ (\A w \in Committers : ~Owed(w)) =>
        mem \subseteq file.content \cup staged \cup
                     UNION {b.stmts : b \in {c \in block : c.ts > file.durable}}

(* A checkpoint that wrote every commit into the file leaves no failure of  *)
(* the cut behind when it returns, "the ones a lane failed to write         *)
(* included", as checkpointed says of its raise.                            *)
CheckpointClears ==
    [][\A w \in Committers :
         pc[w] \in {"recycle", "recycled"} /\ pc'[w] = "idle" /\ up' => ~failed']_vars

(* The failure of the cut is cleared only when what the failed lane held is *)
(* in the file, so no commit that depends on it waits for what never comes. *)
ClearedWhenCovered ==
    [][failed /\ ~failed' /\ up' =>
         \A b \in block : b.lane \in laneFailed /\ b.run = run => b.ts <= at']_vars

(* A commit returns to its client, with an answer or an error.              *)
CommitReturns == \A w \in Committers : pc[w] # "idle" ~> pc[w] = "idle"
=============================================================================
