-------------------------- MODULE JournalLogProofs --------------------------
(***************************************************************************)
(* What the log and the file hold together.                                 *)
(*                                                                          *)
(* While no lane fails and no block is refused, a statement of the catalog  *)
(* is in the file, in a block above its cut or still staged (none is        *)
(* forgotten), in one of the first two and not in both (none twice), and    *)
(* what it saw is with it (dependencies are kept).  The three are parts of  *)
(* one invariant, Whole, which also says them of the file that a flight is  *)
(* writing, since that file replaces the other in one step.                 *)
(*                                                                          *)
(* When only power is lost, the cut does not pass a commit that is not as   *)
(* far on the disk as its commit_sync asked.  Lanes may fail there.         *)
(***************************************************************************)
EXTENDS JournalProofs

(* No lane fails and no segment is refused.  With a failed lane the three   *)
(* statements are false of the code (run journal_twice and the README).     *)
NoLaneFaults == MaxLaneFails = 0 /\ MaxRefusals = 0

(* What a statement does to the catalog. *)
Changes(kind) ==
    /\ next <= MaxStatements
    /\ mem' = mem \cup {next}
    /\ deps' = [deps EXCEPT ![next] = mem]
    /\ next' = next + 1
    /\ staged' = IF dirty \/ kind = "whole" THEN {} ELSE staged \cup {next}
    /\ dirty' = (dirty \/ kind = "whole")
    /\ UNCHANGED <<up, flight, block, file>>

LEMMA NoneAbove ==
    ASSUME Sound, Frame, up, NEW D, NEW C
    PROVE  Covers(block, D, last, C) /\ Apart(block, last, C)
<1>1. \A b \in block : ~(b.ts > last)
  BY Types DEF Frame, StampInv
<1> QED BY Zenon, <1>1 DEF Covers, Reaches, Apart

(* What StagedInv says to a worker that holds the lock. *)
LEMMA HolderStaged ==
    ASSUME Sound, StagedInv, NEW w \in Committers, lock \in {w, NoOne}
    PROVE  /\ staged # {} /\ Steady => Owes(pc[w], flight.to)
           /\ pc[w] \notin Saved => staged \cap file.content = {}
<1>1. \A v \in Committers : v # w => pc[v] \notin Locked
  BY Zenon, Unlocked
<1> QED BY Zenon, <1>1, SavedLocked DEF StagedInv, Owes

-----------------------------------------------------------------------------
(* All that holds while no lane fails. *)
Whole == LogInv /\ StagedInv /\ laneFailed = {}

LEMMA NoneRefused ==
    ASSUME NoLaneFaults, Sound, laneFailed = {}
    PROVE  /\ \A w \in Committers, set \in Settings : ~Refuse(w, set) /\ ~EnqueueNoneFails(w, set)
           /\ \A l \in Lanes : ~LaneFail(l)
<1>1. laneFails = 0 /\ refusals = 0
  BY DEF NoLaneFaults, Sound, Rest, FaultsOK
<1> QED BY <1>1 DEF NoLaneFaults, Refuse, EnqueueNoneFails, LaneFail

LEMMA LaneFailedStep ==
    ASSUME NoLaneFaults, Sound, laneFailed = {}, [JournalNext]_vars
    PROVE  laneFailed' = {}
<1>1. ASSUME NEW w \in Committers, Client(w) PROVE laneFailed' = {}
  BY Zenon, <1>1 DEF Client, Execute, Ask, lanes
<1>2. ASSUME NEW w \in Committers, Worker(w) PROVE laneFailed' = {}
  <2>1. ASSUME NEW set \in Settings, EnqueueWait(w, set) \/ EnqueueNone(w, set) PROVE laneFailed' = {}
    BY Zenon, <2>1 DEF EnqueueWait, EnqueueNone
  <2>2. CASE \/ Land(w, "settle", FALSE, "commit") \/ Land(w, "checkpoint", TRUE, "relaunch")
             \/ Land(w, "persist", TRUE, "write") \/ Land(w, "closing", TRUE, "shut")
    BY Zenon, <2>2 DEF Land, lanes
  <2>3. CASE \/ MustPersist(w) \/ NothingStaged(w)
             \/ LaneSettles(w) \/ LaneErrs(w) \/ CutWaitBegin(w) \/ CutTurn(w) \/ Relock(w)
             \/ CheckpointInline(w) \/ ShortAgain(w) \/ WriteFileFails(w) \/ Launch(w)
             \/ WriteFile(w) \/ Landed(w) \/ Recycle(w) \/ Checkpointed(w) \/ CloseLog(w)
    BY Zenon, <2>3 DEF MustPersist, NothingStaged, LaneSettles, LaneErrs, CutWaitBegin, CutTurn,
      Relock,
      CheckpointInline, ShortAgain, WriteFileFails, Launch, WriteFile, Landed, Recycle,
      Checkpointed,
      CloseLog, lanes
  <2> QED BY Zenon, <1>2, <2>1, <2>2, <2>3, NoneRefused DEF Worker
<1>3. CASE (\E l \in Lanes : LaneWrite(l) \/ LaneSync(l)) \/ FlightDone \/ FlightFail \/ UNCHANGED vars
  BY Zenon, <1>3 DEF LaneWrite, LaneSync, FlightDone, FlightFail, vars, lanes
<1>4. CASE (\E kind \in Crashes : Crash(kind)) \/ Recover
  BY Zenon, <1>4 DEF Crash, Recover
<1> QED BY Zenon, <1>1, <1>2, <1>3, <1>4, NoneRefused DEF JournalNext

LEMMA StagedStep ==
    NoLaneFaults /\ Sound /\ Frame /\ LogInv /\ StagedInv /\ laneFailed = {} /\
    [JournalNext]_vars
    => StagedInv'
(* A worker that moves and leaves the log as it is. *)
<1>QuietStaged.
      ASSUME Sound, StagedInv, NEW w \in Committers, NEW to \in Places, Goto(w, to),
             UNCHANGED <<staged, torn, anchored, file>>,
             flight' = flight \/ flight.status # "landing",
             pc[w] \notin Saved, pc[w] # "landed",
             pc[w] \in {"settle", "commit"} => to = "commit" \/ staged = {} \/ ~Steady
      PROVE  StagedInv'
  <2> USE <1>QuietStaged
  <2>1. pc \in [Committers -> Places] /\ pc' = [pc EXCEPT ![w] = to]
    BY Zenon DEF Sound, Rest, ThreadsOK, Goto
  <2>2. \A v \in Committers : v # w => pc'[v] = pc[v]
    BY Zenon, <2>1
  <2>3. pc'[w] = to
    BY Zenon, <2>1
  <2>4. \A v \in Committers : pc[v] = "landed" => flight' = flight
    BY Zenon DEF Sound, LockInv
  <2>5. staged' # {} /\ Steady' => \E v \in Committers : Owes(pc'[v], flight'.to)
    <3> SUFFICES ASSUME staged' # {}, Steady'
                 PROVE  \E v \in Committers : Owes(pc'[v], flight'.to)
      BY Zenon
    <3>1. staged # {} /\ Steady
      BY Zenon DEF Steady
    <3>2. PICK v \in Committers : Owes(pc[v], flight.to)
      BY Zenon, <3>1 DEF StagedInv
    <3>3. v = w => to = "commit"
      BY Zenon, <3>1, <3>2 DEF Owes
    <3>4. Owes(pc'[v], flight'.to)
      BY Zenon, <2>2, <2>3, <2>4, <3>2, <3>3 DEF Owes
    <3> QED BY Zenon, <3>4
  <2>6. staged' \cap file'.content # {} => \E v \in Committers : pc'[v] \in Saved
    BY Zenon, <2>2 DEF StagedInv
  <2> QED BY Zenon, <2>5, <2>6 DEF StagedInv
(* A worker that moves with the lock. *)
<1>MovesStaged.
      ASSUME Sound, NEW w \in Committers, NEW to, Goto(w, to),
             staged' # {} /\ Steady' => Owes(to, flight'.to),
             staged' \cap file'.content # {} => to \in Saved
      PROVE  StagedInv'
  <2> USE <1>MovesStaged
  <2>1. pc \in [Committers -> Places] /\ pc' = [pc EXCEPT ![w] = to]
    BY Zenon DEF Sound, Rest, ThreadsOK, Goto
  <2>2. pc'[w] = to
    BY Zenon, <2>1
  <2> QED BY Zenon, <2>2 DEF StagedInv
<1>ExecuteStaged.
      ASSUME Sound, PastInv, StagedInv, NEW w \in Committers, NEW kind, Execute(w, kind)
      PROVE  StagedInv'
  <2> USE <1>ExecuteStaged
  <2>1. lock = NoOne /\ Goto(w, "settle") /\ pc[w] = "idle" /\ file' = file
    BY Zenon DEF Execute
  <2>2. staged \cap file.content = {}
    BY Zenon, <2>1, HolderStaged DEF Saved
  <2>3. staged' \subseteq staged \cup {next}
    BY Zenon DEF Execute
  <2>4. next \notin file.content
    BY Types DEF PastInv, Past
  <2>5. staged' \cap file'.content = {}
    BY Zenon, <2>1, <2>2, <2>3, <2>4
  <2> QED BY Zenon, <2>1, <2>5, <1>MovesStaged DEF Owes
<1>LandStaged.
      ASSUME Sound, StagedInv, laneFailed = {}, NEW w \in Committers,
             \/ Land(w, "settle", FALSE, "commit") \/ Land(w, "checkpoint", TRUE, "relaunch")
             \/ Land(w, "persist", TRUE, "write") \/ Land(w, "closing", TRUE, "shut")
      PROVE  StagedInv'
  <2> USE <1>LandStaged
  <2>1. PICK wait \in BOOLEAN, from \in {"settle", "checkpoint", "persist", "closing"},
             to \in {"commit", "relaunch", "write", "shut"} :
           Land(w, from, wait, to) /\ (from = "settle" <=> to = "commit")
    BY Zenon
  <2>2. pc[w] = from
    BY Zenon, <2>1 DEF Land
  <2>3. lock = w
    BY Zenon, <2>2, HolderIs DEF Locked, Sound
  <2>4. from \notin Saved
    BY Zenon DEF Saved
  <2>5. UNCHANGED <<staged, torn, anchored, file>>
    BY Zenon, <2>1 DEF Land, journal
  <2>6. PICK p \in {to, "landed"} : Goto(w, p) /\ (p = "landed" => flight'.to = to)
    <3>1. CASE flight' = [flight EXCEPT !.status = "landing", !.to = to] /\ Stay(w, "landed")
      BY Zenon, <3>1, Types DEF Flights, Stay
    <3>2. CASE Stay(w, to)
      BY Zenon, <3>2 DEF Stay
    <3> QED BY Zenon, <2>1, <3>1, <3>2 DEF Land
  <2>7. (staged # {} /\ Steady => from = "settle") /\ staged \cap file.content = {}
    BY Zenon, <2>2, <2>3, <2>4, HolderStaged DEF Owes
  <2> QED BY Zenon, <2>1, <2>5, <2>6, <2>7, <1>MovesStaged DEF Steady, Owes
<1>LandedStaged.
      ASSUME Sound, Frame, StagedInv, laneFailed = {}, NEW w \in Committers, Landed(w)
      PROVE  StagedInv'
  <2> USE <1>LandedStaged
  <2>1. pc[w] = "landed" /\ lock = w /\ Steady /\ UNCHANGED <<staged, file>>
    BY Zenon, LandedIs DEF Landed
  <2>2. Goto(w, flight.to)
    BY Zenon DEF Landed, Stay
  <2>3. (staged # {} => flight.to = "commit") /\ staged \cap file.content = {}
    BY Zenon, <2>1, HolderStaged DEF Saved, Owes
  <2> QED BY Zenon, <2>1, <2>2, <2>3, <1>MovesStaged DEF Owes
<1>QueueStaged.
      ASSUME Sound, NEW w \in Committers, NEW set \in Settings,
             EnqueueWait(w, set) \/ EnqueueNone(w, set) \/ EnqueueNoneFails(w, set)
      PROVE  StagedInv'
  <2> USE <1>QueueStaged
  <2>1. staged' = {}
    BY Zenon DEF EnqueueWait, EnqueueNone, EnqueueNoneFails, Queue
  <2> QED BY Zenon, <2>1 DEF StagedInv
<1>WaitsStaged.
      ASSUME Sound, PastInv, StagedInv, NEW w \in Committers,
             \/ MustPersist(w) \/ NothingStaged(w) \/ LaneSettles(w) \/ LaneErrs(w)
             \/ CutWaitBegin(w) \/ CutTurn(w) \/ Relock(w) \/ CheckpointInline(w) \/ ShortAgain(w)
             \/ WriteFileFails(w) \/ Launch(w) \/ Ask(w, "persist") \/ Ask(w, "closing")
      PROVE  StagedInv'
  <2> USE <1>WaitsStaged
  <2>1. UNCHANGED <<staged, torn, anchored, file>>
    BY Zenon DEF MustPersist, NothingStaged, LaneSettles, LaneErrs, CutWaitBegin, CutTurn, Relock,
                 CheckpointInline, ShortAgain, WriteFileFails, Launch, Ask, journal
  <2>2. flight' = flight \/ flight.status # "landing"
    <3>1. Launch(w) => pc[w] \in Grounded
      BY Zenon DEF Launch, Grounded
    <3>2. Launch(w) => flight.status = "none"
      BY Zenon, <3>1 DEF Sound, LockInv
    <3> QED
      BY Zenon, <3>2 DEF MustPersist, NothingStaged, LaneSettles, LaneErrs, CutWaitBegin,
        CutTurn, Relock,
                 CheckpointInline, ShortAgain, WriteFileFails, Ask
  <2>3. pc[w] \in {"commit", "lane", "after", "cut", "relock", "relock_err", "checkpoint", "relaunch",
                   "write", "shut", "idle"}
    BY Zenon DEF MustPersist, NothingStaged, LaneSettles, LaneErrs, CutWaitBegin, CutTurn, Relock,
           CheckpointInline, ShortAgain, WriteFileFails, Launch, Ask
  <2>4. pc[w] \notin Saved /\ pc[w] # "landed" /\ pc[w] # "settle"
    BY Zenon, <2>3 DEF Saved
  <2>5. pc[w] = "commit" => staged = {} \/ ~Steady
    BY Zenon DEF MustPersist, NothingStaged, LaneSettles, LaneErrs, CutWaitBegin, CutTurn, Relock,
           CheckpointInline, ShortAgain, WriteFileFails, Launch, Ask, NeedsCheckpoint, Steady,
           PastInv
  <2>6. \/ \E to \in {"persist", "idle", "checkpoint", "after", "cut", "relock", "relock_err", "closing"} :
              Goto(w, to)
        \/ UNCHANGED threads /\ UNCHANGED flight
    BY Zenon, ReturnGoes, WaitedGoes
    DEF MustPersist, NothingStaged, Settled, LaneSettles, LaneErrs, CutWaitBegin, CutTurn, Relock,
        CheckpointInline, ShortAgain, WriteFileFails, Launch, Ask, Stay
  <2>7. ASSUME NEW to \in {"persist", "idle", "checkpoint", "after", "cut", "relock", "relock_err",
                           "closing"}, Goto(w, to)
        PROVE StagedInv'
    <3>1. to \in Places
      BY Zenon DEF Places
    <3> QED BY Zenon, <2>1, <2>2, <2>4, <2>5, <2>7, <3>1, <1>QuietStaged
  <2>8. CASE UNCHANGED threads /\ UNCHANGED flight
    BY Zenon, <2>1, <2>8 DEF threads, StagedInv, Steady
  <2> QED BY Zenon, <2>6, <2>7, <2>8
<1>FileStaged.
      ASSUME Sound, StagedInv, laneFailed = {}, NEW w \in Committers,
             WriteFile(w) \/ Recycle(w) \/ Checkpointed(w) \/ CloseLog(w)
      PROVE  StagedInv'
  <2> USE <1>FileStaged
  <2>1. pc[w] \in {"write", "shut", "recycle", "recycled", "close"}
    BY Zenon DEF WriteFile, Recycle, Checkpointed, CloseLog
  <2>2. lock = w
    BY Zenon, <2>1, HolderIs DEF Locked, Sound
  <2>3. staged = {} \/ ~Steady
    BY Zenon, <2>1, <2>2, HolderStaged DEF Owes
  <2>4. CASE WriteFile(w) \/ Recycle(w)
    <3>1. PICK to \in {"close", "recycle", "recycled"} : Goto(w, to)
      BY Zenon, <2>4 DEF WriteFile, Recycle, Stay
    <3>2. to \in Saved
      BY Zenon DEF Saved
    <3>3. UNCHANGED <<staged, torn, anchored>>
      BY Zenon, <2>4 DEF WriteFile, Recycle, journal
    <3> QED BY Zenon, <2>3, <3>1, <3>2, <3>3, <1>MovesStaged DEF Steady
  <2>5. CASE Checkpointed(w) \/ CloseLog(w)
    BY Zenon, <2>5 DEF Checkpointed, CloseLog, StagedInv
  <2> QED BY Zenon, <2>4, <2>5
<1>OtherStaged.
      ASSUME Sound, FlightInv, StagedInv,
             \/ \E l \in Lanes : LaneWrite(l) \/ LaneSync(l) \/ LaneFail(l)
             \/ FlightDone \/ FlightFail
             \/ \E kind \in Crashes : Crash(kind)
             \/ Recover
             \/ UNCHANGED vars
      PROVE  StagedInv'
  <2> USE <1>OtherStaged
  <2>1. CASE UNCHANGED <<pc, staged, torn, anchored, file>> /\ flight'.to = flight.to
    BY Zenon, <2>1 DEF StagedInv, Steady
  <2>2. CASE (\E l \in Lanes : LaneWrite(l) \/ LaneSync(l) \/ LaneFail(l)) \/ UNCHANGED vars
    BY Zenon, <2>1, <2>2 DEF LaneWrite, LaneSync, LaneFail, vars, journal, threads
  <2>3. CASE FlightFail
    <3>1. flight'.to = flight.to
      BY Zenon, <2>3, Types DEF FlightFail, Flights
    <3> QED BY Zenon, <2>1, <2>3, <3>1 DEF FlightFail, journal, threads
  <2>4. CASE FlightDone
    <3>1. flight.status = "writing" /\ flight'.to = flight.to /\ file'.content = flight.content
          /\ UNCHANGED <<pc, staged, torn, anchored>>
      BY Zenon, <2>4, Types DEF FlightDone, Flights, journal, threads
    <3> QED BY Zenon, <3>1 DEF StagedInv, FlightInv, Steady
  <2>5. CASE (\E kind \in Crashes : Crash(kind)) \/ Recover
    <3>1. staged' = {}
      BY Zenon, <2>5 DEF Crash, Recover, Sound, Down
    <3> QED BY Zenon, <3>1 DEF StagedInv
  <2> QED BY Zenon, <2>2, <2>3, <2>4, <2>5
<1> SUFFICES ASSUME NoLaneFaults, Sound, Frame, LogInv, StagedInv, laneFailed = {}, [JournalNext]_vars
             PROVE  StagedInv'
  BY Zenon
<1>0. PastInv /\ FlightInv
  BY Zenon DEF LogInv
<1>1. ASSUME NEW w \in Committers, Client(w) PROVE StagedInv'
  BY Zenon, <1>0, <1>1, <1>ExecuteStaged, <1>WaitsStaged DEF Client
<1>2. ASSUME NEW w \in Committers, Worker(w) PROVE StagedInv'
  <2>1. ASSUME NEW set \in Settings, EnqueueWait(w, set) \/ EnqueueNone(w, set) PROVE StagedInv'
    BY Zenon, <2>1, <1>QueueStaged
  <2>2. CASE \/ Land(w, "settle", FALSE, "commit") \/ Land(w, "checkpoint", TRUE, "relaunch")
             \/ Land(w, "persist", TRUE, "write") \/ Land(w, "closing", TRUE, "shut")
    BY Zenon, <2>2, <1>LandStaged
  <2>3. CASE \/ MustPersist(w) \/ NothingStaged(w)
             \/ LaneSettles(w) \/ LaneErrs(w) \/ CutWaitBegin(w) \/ CutTurn(w) \/ Relock(w)
             \/ CheckpointInline(w) \/ ShortAgain(w) \/ WriteFileFails(w) \/ Launch(w)
    BY Zenon, <1>0, <2>3, <1>WaitsStaged
  <2>4. CASE Landed(w)
    BY Zenon, <2>4, <1>LandedStaged
  <2>5. CASE WriteFile(w) \/ Recycle(w) \/ Checkpointed(w) \/ CloseLog(w)
    BY Zenon, <2>5, <1>FileStaged
  <2> QED BY Zenon, <1>2, <2>1, <2>2, <2>3, <2>4, <2>5, NoneRefused DEF Worker
<1> QED BY Zenon, <1>0, <1>1, <1>2, <1>OtherStaged DEF JournalNext

LEMMA LogStep ==
    NoLaneFaults /\ Sound /\ Rest' /\ Frame /\ SavedInv /\ LogInv /\ StagedInv /\
    laneFailed = {} /\ [JournalNext]_vars
    => LogInv'
(* The log, the file and the catalog stay as they are, and a flight that is *)
(* on may end.                                                              *)
<1>SameLog.
      ASSUME LogInv, UNCHANGED <<up, mem, staged, dirty, block, file, next, deps>>,
             \/ flight' = flight
             \/ flight'.status = "failed" /\ flight'.content = flight.content
             \/ flight'.status = "none" /\ flight'.content = {}
      PROVE  LogInv'
  <2> USE <1>SameLog
  <2> USE DEF LogInv
  <2>1. PastInv'
    BY Zenon DEF PastInv, Past, Closed
  <2>2. DataInv' /\ FlightInv'
    BY Zenon DEF DataInv, FlightInv
  <2> QED BY Zenon, <2>1, <2>2
<1>ChangesLog.
      ASSUME Sound, LogInv, NEW kind, Changes(kind)
      PROVE  LogInv'
  <2> USE <1>ChangesLog
  <2> USE DEF LogInv
  <2>1. next \in Nat \ {0} /\ next \notin Past /\ Past' = Past \cup {next} /\ next \in Statements
    BY Types DEF Past, Statements, Changes
  <2>2. UNCHANGED <<up, flight, block, file>>
    BY Zenon DEF Changes
  <2>4. \A s \in Past : deps'[s] = deps[s]
    BY <2>1, Types DEF Changes
  <2>5. deps'[next] = mem /\ mem' = mem \cup {next}
    BY Zenon, <2>1, Types DEF Changes
  <2>6. PastInv'
    <3>1. mem' \subseteq Past' /\ file'.content \subseteq Past' /\ flight'.content \subseteq Past'
          /\ \A b \in block' : b.stmts \subseteq Past'
      BY Zenon, <2>1, <2>2, <2>5 DEF PastInv
    <3>2. Closed(deps', mem') /\ Closed(deps', file'.content) /\ Closed(deps', flight'.content)
      BY Zenon, <2>2, <2>4, <2>5 DEF PastInv, Closed
    <3>3. dirty' => staged' = {}
      BY Zenon DEF PastInv, Changes
    <3> QED BY Zenon, <3>1, <3>2, <3>3 DEF PastInv
  <2>7. ASSUME NEW d, NEW C, Covers(block, deps, d, C) PROVE Covers(block, deps', d, C)
    BY Zenon, <2>4, <2>7 DEF Covers, Reaches, PastInv
  <2>8. ~dirty' => ~dirty /\ mem' \ staged' \subseteq mem \ staged
    BY Zenon, <2>5 DEF Changes
  <2>9. DataInv'
    BY Zenon, <2>2, <2>7, <2>8 DEF DataInv
  <2>10. FlightInv'
    <3>1. next \notin flight.content
      BY Zenon, <2>1 DEF PastInv
    <3>2. staged' \subseteq staged \cup {next}
      BY Zenon DEF Changes
    <3> QED BY Zenon, <2>2, <2>7, <2>8, <3>1, <3>2 DEF FlightInv
  <2> QED BY Zenon, <2>6, <2>9, <2>10
<1>OnwardLog.
      ASSUME Sound, Frame, LogInv, Onward, Rest',
             UNCHANGED <<up, mem, staged, dirty, file, next, deps>>
      PROVE  LogInv'
  <2> USE <1>OnwardLog
  <2> USE DEF LogInv
  <2>1. /\ Covers(block, deps, file.durable, file.content) => Covers(block', deps, file.durable, file.content)
        /\ Apart(block, file.durable, file.content) => Apart(block', file.durable, file.content)
        /\ Above(block', file.durable) = Above(block, file.durable)
    BY ZenonT(60), OnwardIs, Types, LikeCovers
  <2>2. /\ Covers(block, deps, flight.durable, flight.content) => Covers(block', deps, flight.durable, flight.content)
        /\ Apart(block, flight.durable, flight.content) => Apart(block', flight.durable, flight.content)
        /\ Above(block', flight.durable) = Above(block, flight.durable)
    BY ZenonT(60), OnwardIs, Types, LikeCovers
  <2>3. /\ flight'.durable = flight.durable /\ flight'.content = flight.content
        /\ flight'.status = "writing" => flight.status = "writing"
    BY Zenon, OnwardIs
  <2>4. \A c \in block' : \E b \in block : b.stmts = c.stmts
    BY Zenon, OnwardIs DEF Like, Same
  <2>5. PastInv'
    BY Zenon, <2>3, <2>4 DEF PastInv, Past
  <2>6. DataInv' /\ FlightInv'
    BY Zenon, <2>1, <2>2, <2>3 DEF DataInv, FlightInv
  <2> QED BY Zenon, <2>5, <2>6
(* The file a flight wrote. *)
<1>FlightLog.
      ASSUME Sound, LogInv, FlightDone
      PROVE  LogInv'
  <2> USE <1>FlightLog
  <2> USE DEF LogInv
  <2>1. /\ flight.status = "writing" /\ up
        /\ file'.anchored /\ file'.durable = flight.durable /\ file'.content = flight.content
        /\ flight'.status = "done" /\ flight'.content = flight.content
        /\ UNCHANGED <<up, mem, staged, dirty, block, next, deps>>
    BY Zenon, Types DEF FlightDone, Flights, journal, history
  <2>2. PastInv'
    BY Zenon, <2>1 DEF PastInv, Past
  <2>3. DataInv' /\ FlightInv'
    BY Zenon, <2>1 DEF DataInv, FlightInv
  <2> QED BY Zenon, <2>2, <2>3
(* launch: the copy holds everything, and nothing is staged. *)
<1>LaunchLog.
      ASSUME Sound, Frame, LogInv, StagedInv, NEW w \in Committers, Launch(w)
      PROVE  LogInv'
  <2> USE <1>LaunchLog
  <2> USE DEF LogInv
  <2>1. /\ flight'.status = "writing" /\ flight'.durable = last /\ flight'.content = mem
        /\ UNCHANGED <<up, mem, staged, dirty, block, file, next, deps>>
    BY Zenon DEF Launch, journal, lanes, Return
  <2>2. Steady /\ pc[w] = "relaunch" /\ up
    BY Zenon, WorksUp DEF Launch, Sound
  <2>3. staged = {}
    <3>1. lock = w
      BY Zenon, <2>2, HolderIs DEF Sound, Locked
    <3> QED BY Zenon, <2>2, <3>1, HolderStaged DEF Owes
  <2>4. PastInv'
    BY Zenon, <2>1 DEF PastInv, Past
  <2>5. Covers(block, deps, last, mem) /\ Apart(block, last, mem)
    BY Zenon, <2>2, NoneAbove
  <2>6. DataInv' /\ FlightInv'
    BY Zenon, <2>1, <2>3, <2>5 DEF DataInv, FlightInv
  <2> QED BY Zenon, <2>4, <2>6
(* persist_main: no block is above the anchor. *)
<1>WriteLog.
      ASSUME Sound, Frame, LogInv, NEW w \in Committers, WriteFile(w)
      PROVE  LogInv'
  <2> USE <1>WriteLog
  <2> USE DEF LogInv
  <2>1. /\ file'.durable = last /\ file'.content = mem
        /\ UNCHANGED <<up, mem, staged, dirty, flight, block, next, deps>>
    BY Zenon DEF WriteFile, journal, Stay, history
  <2>2. flight.status = "none" /\ up
    <3>1. pc[w] \in Grounded /\ pc[w] # "idle"
      BY Zenon DEF WriteFile, Grounded
    <3> QED BY Zenon, <3>1, WorksUp DEF Sound, LockInv
  <2>3. PastInv'
    BY Zenon, <2>1 DEF PastInv, Past
  <2>4. Covers(block, deps, last, mem) /\ Apart(block, last, mem)
    BY Zenon, <2>2, NoneAbove
  <2>5. DataInv' /\ FlightInv'
    BY Zenon, <2>1, <2>2, <2>4 DEF DataInv, FlightInv
  <2> QED BY Zenon, <2>3, <2>5
(* A block of what is staged is added to the log. *)
<1>QueueLog.
      ASSUME Sound, Frame, LogInv, StagedInv, Rest', NEW w \in Committers, NEW set \in Settings,
             Queue(w, set), UNCHANGED <<next, deps>>
      PROVE  LogInv'
  <2> USE <1>QueueLog
  <2> USE DEF LogInv
  <2>1. PICK x \in Blocks : x = Queued(w, set)
    BY Zenon, QueueIs
  <2>2. /\ pc[w] = "commit" /\ lock = w /\ up /\ ~dirty
        /\ block' = block \cup {x} /\ staged' = {}
        /\ UNCHANGED <<up, mem, dirty, flight, file>>
        /\ x.ts = last + 1 /\ x.stmts = staged
    BY Zenon, <2>1, QueueIs
  <2>3. staged \cap file.content = {}
    BY Zenon, <2>2, HolderStaged DEF Saved
  <2>6. \A b \in block : b.ts <= last
    BY Zenon, <2>2 DEF Frame, StampInv
  <2>8. \A s \in staged : deps[s] \subseteq mem
    BY Zenon, Types DEF PastInv, Closed
  <2>9. ASSUME NEW d \in Nat, NEW C, d <= last, mem \subseteq C \cup staged \cup Above(block, d)
        PROVE  /\ Covers(block, deps, d, C) => Covers(block', deps, d, C)
               /\ Apart(block, d, C) /\ staged \cap C = {} => Apart(block', d, C)
               /\ Above(block', d) = Above(block, d) \cup staged
    <3>1. \A s \in x.stmts : deps[s] \subseteq C \cup x.stmts \cup Above(block, d)
      BY Zenon, <2>2, <2>8, <2>9
    <3>2. last \in Nat /\ block \in SUBSET Blocks /\ x.ts = last + 1
      BY Zenon, <2>2, Types
    <3>3. Grows(block, block \cup {x}, x, deps, d, C, last)
      BY Zenon, <2>6, <2>9, <3>1, <3>2, MoreCovers
    <3> QED BY Zenon, <2>2, <3>3 DEF Grows
  <2>10. file.durable \in Nat /\ file.durable <= last
        /\ mem \subseteq file.content \cup staged \cup Above(block, file.durable)
    BY Zenon, <2>2, Types DEF DataInv, Frame, StampInv
  <2>12. PastInv'
    <3>1. x.stmts \subseteq Past
      BY Zenon, <2>2, Types DEF PastInv
    <3> QED BY Zenon, <2>2, <3>1 DEF PastInv, Past
  <2>13. DataInv'
    BY Zenon, <2>2, <2>3, <2>9, <2>10 DEF DataInv
  <2>14. FlightInv'
    <3> SUFFICES ASSUME flight.status = "writing" PROVE FlightInv'
      BY Zenon, <2>2 DEF FlightInv
    <3>1. flight.durable \in Nat /\ flight.durable <= last
          /\ mem \subseteq flight.content \cup staged \cup Above(block, flight.durable)
      BY Zenon, <2>2, Types DEF FlightInv, Frame, StampInv, Flying
    <3>2. /\ Covers(block, deps, flight.durable, flight.content)
            => Covers(block', deps, flight.durable, flight.content)
          /\ Apart(block, flight.durable, flight.content) /\ staged \cap flight.content = {}
            => Apart(block', flight.durable, flight.content)
          /\ Above(block', flight.durable) = Above(block, flight.durable) \cup staged
      BY Zenon, <2>9, <3>1
    <3> QED BY Zenon, <2>2, <3>1, <3>2 DEF FlightInv
  <2> QED BY Zenon, <2>12, <2>13, <2>14
(* The log above the cut is all that is left, and all there was. *)
<1>LandedLog.
      ASSUME Sound, Frame, LogInv, NEW w \in Committers, Landed(w)
      PROVE  LogInv'
  <2> USE <1>LandedLog
  <2> USE DEF LogInv
  <2>1. /\ flight'.status = "none" /\ flight'.content = {} /\ block' \in SUBSET block
        /\ UNCHANGED <<up, mem, staged, dirty, file, next, deps>>
        /\ \A b \in block : b.ts > file.durable => b \in block'
    BY Zenon, LandedIs
  <2>2. /\ Covers(block, deps, file.durable, file.content) => Covers(block', deps, file.durable, file.content)
        /\ Apart(block, file.durable, file.content) => Apart(block', file.durable, file.content)
        /\ Above(block', file.durable) = Above(block, file.durable)
    <3>1. block \in SUBSET Blocks /\ file.durable \in Nat
      BY Zenon, Types
    <3> QED BY Zenon, <2>1, <3>1, CutCovers
  <2>3. PastInv'
    BY Zenon, <2>1 DEF PastInv, Past, Closed
  <2>4. DataInv' /\ FlightInv'
    BY Zenon, <2>1, <2>2 DEF DataInv, FlightInv
  <2> QED BY Zenon, <2>3, <2>4
(* The file holds everything, and the log goes. *)
<1>ClearedLog.
      ASSUME Sound, Frame, SavedInv, LogInv, NEW w \in Committers, Checkpointed(w) \/ CloseLog(w)
      PROVE  LogInv'
  <2> USE <1>ClearedLog
  <2> USE DEF LogInv
  <2>1. /\ flight.status = "none" /\ file.content = mem
        /\ block' = {} /\ staged' = {} /\ dirty' = FALSE
        /\ UNCHANGED <<up, mem, flight, file, next, deps>>
    BY Zenon, ClearedIs
  <2>2. PastInv'
    BY Zenon, <2>1 DEF PastInv, Past
  <2>3. DataInv' /\ FlightInv'
    BY Zenon, <2>1 DEF DataInv, FlightInv, Covers, Reaches, Apart
  <2> QED BY Zenon, <2>2, <2>3
<1>CrashLog.
      ASSUME Sound, Frame, LogInv, Rest', NEW kind, Crash(kind)
      PROVE  LogInv'
  <2> USE <1>CrashLog
  <2> USE DEF LogInv
  <2>1. PICK S \in SUBSET block : Like(S, block')
    BY Zenon, CrashIs
  <2>2. /\ up' = FALSE /\ mem' = {} /\ staged' = {} /\ dirty' = FALSE
        /\ flight'.status = "none" /\ flight'.content = {} /\ UNCHANGED <<file, next, deps>>
    BY Zenon, CrashIs
  <2>3. \A c \in block' : \E b \in block : b.stmts = c.stmts
    BY Zenon, <2>1 DEF Like, Same
  <2>4. PastInv'
    BY Zenon, <2>2, <2>3 DEF PastInv, Past, Closed
  <2>5. Covers(block', deps, file.durable, file.content) /\ Apart(block', file.durable, file.content)
    <3>1. block \in SUBSET Blocks /\ block' \in SUBSET Blocks /\ S \in SUBSET Blocks
          /\ file.durable \in Nat /\ Numbered(block)
      BY Zenon, Types DEF Rest, DiskOK, Frame, StampInv
    <3>2. Covers(S, deps, file.durable, file.content) /\ Apart(S, file.durable, file.content)
      BY Zenon, <3>1, LostCovers DEF DataInv
    <3> QED BY Zenon, <2>1, <3>1, <3>2, LikeCovers
  <2>6. DataInv' /\ FlightInv'
    BY Zenon, <2>2, <2>5 DEF DataInv, FlightInv
  <2> QED BY Zenon, <2>4, <2>6
<1>RecoverLog.
      ASSUME Sound, Frame, LogInv, Recover
      PROVE  LogInv'
  <2> USE <1>RecoverLog
  <2> USE DEF LogInv
  <2>1. /\ mem = {} /\ staged = {} /\ ~dirty /\ flight.status = "none" /\ flight.content = {}
        /\ UNCHANGED <<staged, dirty, flight, file, next, deps>>
    BY Zenon, RecoverIs
  <2>2. FlightInv'
    BY Zenon, <2>1 DEF FlightInv
  <2>3. CASE ~file.anchored
    <3>1. block' = {} /\ mem' = {}
      BY Zenon, <2>3, RecoverIs
    <3>2. PastInv'
      BY Zenon, <2>1, <3>1 DEF PastInv, Past
    <3>3. DataInv'
      BY Zenon, <2>1, <3>1 DEF DataInv, Covers, Reaches, Apart
    <3> QED BY Zenon, <2>2, <3>2, <3>3
  <2>4. CASE file.anchored
    <3>1. mem' = file.content \cup UNION {b.stmts : b \in Kept} /\ block' = block
      BY Zenon, <2>4, RecoverIs
    <3>2. Kept = Reaches(block, file.durable)
      BY Zenon, KeptReaches
    <3>3. mem' \subseteq Past
      BY Zenon, <3>1 DEF PastInv, Kept, Replayable
    <3>4. Closed(deps, mem')
      <4> SUFFICES ASSUME NEW s \in mem' PROVE deps[s] \subseteq mem'
        BY Zenon DEF Closed
      <4>1. CASE s \in file.content
        BY Zenon, <3>1, <4>1 DEF PastInv, Closed
      <4>2. ASSUME NEW b \in Kept, s \in b.stmts PROVE deps[s] \subseteq mem'
        <5>1. deps[s] \subseteq file.content \cup UpTo(block, file.durable, b.ts)
          BY Zenon, <3>2, <4>2 DEF DataInv, Covers
        <5>2. \A c \in block : c.ts > file.durable /\ c.ts <= b.ts => c \in Kept
          <6>1. \A c \in block : c.ts \in Nat
            BY Zenon, Types
          <6> QED BY <3>2, <4>2, <6>1 DEF Reaches
        <5>3. UpTo(block, file.durable, b.ts) \subseteq UNION {c.stmts : c \in Kept}
          BY Zenon, <5>2 DEF UpTo
        <5> QED BY Zenon, <3>1, <5>1, <5>3
      <4> QED BY Zenon, <3>1, <4>1, <4>2
    <3>5. PastInv'
      BY Zenon, <2>1, <3>1, <3>3, <3>4 DEF PastInv, Past
    <3>6. mem' \subseteq file.content \cup Above(block, file.durable)
      BY Zenon, <3>1 DEF Kept, Replayable, Above
    <3>7. DataInv'
      BY Zenon, <2>1, <3>1, <3>6 DEF DataInv
    <3> QED BY Zenon, <2>2, <3>5, <3>7
  <2> QED BY Zenon, <2>3, <2>4
<1>ExecuteLog.
      ASSUME Sound, LogInv, NEW w \in Committers, NEW kind, Execute(w, kind)
      PROVE  LogInv'
  <2> USE <1>ExecuteLog
  <2>1. UNCHANGED <<up, flight, block, file>>
    BY Zenon DEF Execute
  <2>2. UNCHANGED <<mem, staged, dirty, next, deps>> \/ Changes(kind)
    BY Zenon, <2>1 DEF Execute, Changes
  <2> QED BY Zenon, <2>1, <2>2, <1>SameLog, <1>ChangesLog
<1>QuietLog.
      ASSUME LogInv, NEW w \in Committers,
             \/ Ask(w, "persist") \/ Ask(w, "closing") \/ MustPersist(w) \/ NothingStaged(w)
             \/ LaneSettles(w) \/ LaneErrs(w) \/ CutWaitBegin(w) \/ CutTurn(w) \/ Relock(w)
             \/ CheckpointInline(w) \/ ShortAgain(w) \/ WriteFileFails(w)
      PROVE  LogInv'
  <2> USE <1>QuietLog
  <2>1. UNCHANGED <<up, mem, staged, dirty, block, file, flight>>
    BY Zenon DEF Ask, MustPersist, NothingStaged, LaneSettles, LaneErrs, CutWaitBegin, CutTurn,
      Relock,
                 CheckpointInline, ShortAgain, WriteFileFails, journal
  <2>2. UNCHANGED <<next, deps>>
    <3>1. ASSUME NEW ok, Waited(w, ok) PROVE UNCHANGED <<next, deps>>
      BY Zenon, <3>1, ReturnGoes DEF Waited, Stay, history
    <3> QED
      BY Zenon, <3>1, ReturnGoes
      DEF Ask, MustPersist, NothingStaged, Settled, LaneSettles, LaneErrs, CutWaitBegin, CutTurn,
          Relock, CheckpointInline, ShortAgain, WriteFileFails, Stay, history
  <2> QED BY Zenon, <2>1, <2>2, <1>SameLog
<1>LandLog.
      ASSUME Sound, Frame, LogInv, Rest', laneFailed = {}, NEW w \in Committers,
             NEW from, NEW wait, NEW to, Land(w, from, wait, to)
      PROVE  LogInv'
  <2> USE <1>LandLog
  <2>1. UNCHANGED <<up, mem, staged, dirty, file, next, deps>>
    BY Zenon DEF Land, Stay, journal, history
  <2>2. CASE UNCHANGED <<flight, block>>
    BY Zenon, <2>1, <2>2, <1>SameLog
  <2>3. CASE flight' = NoFlight /\ UNCHANGED block
    BY Zenon, <2>1, <2>3, <1>SameLog DEF NoFlight
  <2>4. CASE /\ flight.status = "done" /\ flight' = [flight EXCEPT !.status = "landing", !.to = to]
             /\ block' = Moved(opened, "queued", "written")
    <3>1. opened \in SUBSET Lanes
      BY Zenon DEF Sound, Rest, LanesOK
    <3>2. Onward
      BY Zenon, <2>4, <3>1 DEF Onward
    <3> QED BY Zenon, <2>1, <3>2, <1>OnwardLog
  <2> QED BY Zenon, <2>2, <2>3, <2>4 DEF Land
<1>RecycleLog.
      ASSUME Sound, Frame, LogInv, Rest', laneFailed = {}, NEW w \in Committers, Recycle(w)
      PROVE  LogInv'
  <2> USE <1>RecycleLog
  <2>1. UNCHANGED <<up, mem, staged, dirty, file, next, deps, flight>>
    BY Zenon DEF Recycle, Stay, journal, history
  <2>2. opened \in SUBSET Lanes
    BY Zenon DEF Sound, Rest, LanesOK
  <2>3. Onward
    BY Zenon, <2>1, <2>2 DEF Recycle, Onward
  <2> QED BY Zenon, <2>1, <2>3, <1>OnwardLog
<1>LaneLog.
      ASSUME Sound, Frame, LogInv, Rest', NEW l \in Lanes, LaneWrite(l) \/ LaneSync(l)
      PROVE  LogInv'
  <2> USE <1>LaneLog
  <2>1. UNCHANGED <<up, mem, staged, dirty, file, next, deps, flight>>
    BY Zenon DEF LaneWrite, LaneSync, journal, history
  <2>2. Onward
    <3>1. {l} \in SUBSET Lanes
      BY Zenon
    <3> QED BY Zenon, <2>1, <3>1 DEF Onward, LaneWrite, LaneSync
  <2> QED BY Zenon, <2>1, <2>2, <1>OnwardLog
<1>EnqueueLog.
      ASSUME Sound, Frame, LogInv, StagedInv, Rest', NEW w \in Committers, NEW set \in Settings,
             EnqueueWait(w, set) \/ EnqueueNone(w, set)
      PROVE  LogInv'
  <2> USE <1>EnqueueLog
  <2>1. Queue(w, set) /\ UNCHANGED <<next, deps>>
    BY Zenon, ReturnGoes DEF EnqueueWait, EnqueueNone, Stay, history
  <2> QED BY Zenon, <2>1, <1>QueueLog
<1> SUFFICES ASSUME NoLaneFaults, Sound, Rest', Frame, SavedInv, LogInv, StagedInv, laneFailed = {}, [JournalNext]_vars
             PROVE  LogInv'
  BY Zenon
<1>1. ASSUME NEW w \in Committers, Client(w) PROVE LogInv'
  BY Zenon, <1>1, <1>ExecuteLog, <1>QuietLog DEF Client
<1>2. ASSUME NEW w \in Committers, Worker(w) PROVE LogInv'
  <2>1. ASSUME NEW set \in Settings, EnqueueWait(w, set) \/ EnqueueNone(w, set) PROVE LogInv'
    BY Zenon, <2>1, <1>EnqueueLog
  <2>2. CASE \/ Land(w, "settle", FALSE, "commit") \/ Land(w, "checkpoint", TRUE, "relaunch")
             \/ Land(w, "persist", TRUE, "write") \/ Land(w, "closing", TRUE, "shut")
    BY Zenon, <2>2, <1>LandLog
  <2>3. CASE \/ MustPersist(w) \/ NothingStaged(w)
             \/ LaneSettles(w) \/ LaneErrs(w) \/ CutWaitBegin(w) \/ CutTurn(w) \/ Relock(w)
             \/ CheckpointInline(w) \/ ShortAgain(w) \/ WriteFileFails(w)
    BY Zenon, <2>3, <1>QuietLog
  <2>4. CASE Launch(w) \/ WriteFile(w) \/ Landed(w)
    BY Zenon, <2>4, <1>LaunchLog, <1>WriteLog, <1>LandedLog
  <2>5. CASE Recycle(w) \/ Checkpointed(w) \/ CloseLog(w)
    BY Zenon, <2>5, <1>RecycleLog, <1>ClearedLog
  <2> QED BY Zenon, <1>2, <2>1, <2>2, <2>3, <2>4, <2>5, NoneRefused DEF Worker
<1>3. ASSUME NEW l \in Lanes, LaneWrite(l) \/ LaneSync(l) PROVE LogInv'
  BY Zenon, <1>3, <1>LaneLog
<1>4. CASE FlightDone
  BY Zenon, <1>4, <1>FlightLog
<1>5. CASE FlightFail
  <2>1. /\ flight'.status = "failed" /\ flight'.content = flight.content
        /\ UNCHANGED <<up, mem, staged, dirty, block, file, next, deps>>
    BY Zenon, <1>5, Types DEF FlightFail, Flights, journal, history
  <2> QED BY Zenon, <2>1, <1>SameLog
<1>6. ASSUME NEW kind, Crash(kind) PROVE LogInv'
  BY Zenon, <1>6, <1>CrashLog
<1>7. CASE Recover
  BY Zenon, <1>7, <1>RecoverLog
<1>8. CASE UNCHANGED vars
  BY Zenon, <1>8, <1>SameLog DEF vars, journal, history
<1> QED BY Zenon, <1>1, <1>2, <1>3, <1>4, <1>5, <1>6, <1>7, <1>8, NoneRefused DEF JournalNext

LEMMA WholeInit == JournalInit => Whole
<1> SUFFICES ASSUME JournalInit PROVE Whole
  BY Zenon
<1>1. PastInv
  BY Zenon DEF JournalInit, PastInv, NoFlight, Closed
<1>2. DataInv /\ FlightInv /\ StagedInv
  BY Zenon DEF JournalInit, DataInv, FlightInv, StagedInv, NoFlight, Covers, Reaches, Apart
<1> QED BY Zenon, <1>1, <1>2 DEF Whole, LogInv, JournalInit

LEMMA WholeStep ==
    NoLaneFaults /\ Framed /\ Whole /\ [JournalNext]_vars => Whole'
<1> SUFFICES ASSUME NoLaneFaults, Framed, Whole, [JournalNext]_vars PROVE Whole'
  BY Zenon
<1>1. Rest'
  BY Zenon, SoundStep DEF Framed, Sound
<1> QED BY Zenon, <1>1, LogStep, StagedStep, LaneFailedStep DEF Framed, Whole

(* All of it, for any number of workers, lanes and crashes of either kind,  *)
(* and with a checkpoint's file failing at will.                            *)
THEOREM JournalWhole == NoLaneFaults => (JournalSpec => []Whole)
<1> SUFFICES ASSUME NoLaneFaults PROVE JournalSpec => []Whole
  BY Zenon
<1>1. Framed /\ Whole /\ [JournalNext]_vars => Whole'
  BY Zenon, WholeStep
<1> QED BY <1>1, WholeInit, JournalFramed, PTL DEF JournalSpec

(* A commit that is kept has what it saw: settle queues the records of a    *)
(* statement after those of the statements before it, replay stops at the   *)
(* first number that is missing in any lane, and a checkpoint writes all of *)
(* the catalog.                                                             *)
THEOREM JournalDeps == NoLaneFaults => (JournalSpec => []DepsKept)
<1>1. Whole => DepsKept
  BY Zenon DEF Whole, LogInv, PastInv, Closed, DepsKept
<1> SUFFICES ASSUME NoLaneFaults PROVE JournalSpec => []DepsKept
  BY Zenon
<1>2. JournalSpec => []Whole
  BY Zenon, JournalWhole
<1> QED BY <1>1, <1>2, PTL

(* No record is replayed over a file that has it: a checkpoint anchors the  *)
(* file at the last number it covers and replay begins above the anchor.    *)
THEOREM JournalNoneTwice == NoLaneFaults => (JournalSpec => []NoneTwice)
<1>1. Whole => NoneTwice
  BY Zenon DEF Whole, LogInv, DataInv, Apart, NoneTwice
<1> SUFFICES ASSUME NoLaneFaults PROVE JournalSpec => []NoneTwice
  BY Zenon
<1>2. JournalSpec => []Whole
  BY Zenon, JournalWhole
<1> QED BY <1>1, <1>2, PTL

(* No statement falls between the staged records, the log, the window of a  *)
(* flight and the file: land carries over what was committed during it.     *)
THEOREM JournalForgets == NoLaneFaults => (JournalSpec => []NothingForgotten)
<1>1. Whole => NothingForgotten
  BY Zenon DEF Whole, LogInv, DataInv, Above, NothingForgotten
<1> SUFFICES ASSUME NoLaneFaults PROVE JournalSpec => []NothingForgotten
  BY Zenon
<1>2. JournalSpec => []Whole
  BY Zenon, JournalWhole
<1> QED BY <1>1, <1>2, PTL

-----------------------------------------------------------------------------
(* Only power is ever lost: what an open finds in the log was synced.  A    *)
(* process that died leaves blocks that were only written, and open_with    *)
(* starts the cut above them.                                               *)
PowerOnly == Crashes \subseteq {"power"}

(* A block as far as its own commit_sync asked. *)
Enough(b) == b.sync = "none" \/ Far(b, b.sync)

(* The cut was told of no commit after the last one, nor of one above the   *)
(* file that is not far enough, and will not be by a commit in a lane.      *)
SpanInv == up => there \subseteq 0..last
EnoughInv == \A b \in block : (up => b.ts \in there /\ b.ts > file.durable) => Enough(b)
LaneInv ==
    \A w \in Committers : pc[w] = "lane" =>
        pend[w].ts <= last /\ \A b \in block : b.ts = pend[w].ts => b.sync = pend[w].sync
ThereInv == SpanInv /\ EnoughInv /\ LaneInv

(* Where the blocks after a step come from. *)
Aged(b, c) == b.ts = c.ts /\ b.sync = c.sync /\ (Enough(b) => Enough(c))
Onwards == \A c \in block' : \E b \in block : Aged(b, c)

LEMMA OnwardAged ==
    ASSUME Sound, Onward
    PROVE  Onwards
<1>1. PICK ls \in SUBSET Lanes :
         block' \in {block, Moved(ls, "queued", "written"), Moved(ls, "written", "synced")}
  BY Zenon DEF Onward
<1>2. CASE block' = block
  BY Zenon, <1>2 DEF Aged, Onwards
<1>3. ASSUME NEW from \in {"queued", "written"}, NEW to \in {"written", "synced"},
             from = "queued" \/ to = "synced", block' = Moved(ls, from, to)
      PROVE  Onwards
  <2> DEFINE f(b) == IF b.lane \in ls /\ b.run = run /\ b.at = from THEN [b EXCEPT !.at = to] ELSE b
  <2>1. block' = {f(b) : b \in block}
    BY Zenon, <1>3 DEF Moved
  <2>2. \A b \in block : /\ f(b).ts = b.ts /\ f(b).sync = b.sync
                         /\ f(b).at = b.at \/ (b.at = from /\ f(b).at = to)
    BY Zenon, Types DEF Blocks
  <2> HIDE DEF f
  <2>3. \A b \in block : Aged(b, f(b))
    BY Zenon, <1>3, <2>2 DEF Aged, Enough, Far
  <2> QED BY Zenon, <2>1, <2>3 DEF Onwards
<1> QED BY Zenon, <1>1, <1>2, <1>3

(* The log goes on and the cut is told nothing. *)
LEMMA QuietThere ==
    ASSUME Sound, Rest', SpanInv, EnoughInv, Onwards, up, UNCHANGED <<up, last, there>>,
           file'.durable >= file.durable
    PROVE  SpanInv' /\ EnoughInv'
<1>1. SpanInv'
  BY Zenon DEF SpanInv
<1>2. file.durable \in Nat /\ file'.durable \in Nat /\ \A c \in block' : c.ts \in Nat
  BY Zenon, Types DEF Rest, DiskOK, Files, Blocks
<1>3. ASSUME NEW c \in block', c.ts \in there, c.ts > file'.durable PROVE Enough(c)
  <2>1. PICK b \in block : Aged(b, c)
    BY Zenon DEF Onwards
  <2>2. b.ts \in there /\ b.ts > file.durable
    BY <1>2, <1>3, <2>1 DEF Aged
  <2> QED BY Zenon, <2>1, <2>2 DEF EnoughInv, Aged
<1> QED BY Zenon, <1>1, <1>3 DEF EnoughInv

(* The cut is told of commits in the file, or of one that is far enough. *)
LEMMA ToldThere ==
    ASSUME Sound, SpanInv, EnoughInv, up, UNCHANGED <<up, last, file>>, block' \in SUBSET block,
           NEW S \in SUBSET (0..last), there' = there \cup S,
           \A b \in block : b.ts \in S /\ b.ts > file.durable => Enough(b)
    PROVE  SpanInv' /\ EnoughInv'
BY Zenon DEF SpanInv, EnoughInv

LEMMA QueueThere ==
    ASSUME Sound, Rest', Frame, SpanInv, EnoughInv, NEW w \in Committers, NEW set \in Settings,
           Queue(w, set), there' = there \/ (set.sync = "none" /\ there' = there \cup {last + 1})
    PROVE  SpanInv' /\ EnoughInv'
<1>1. /\ up /\ up' = up /\ block' = block \cup {Queued(w, set)} /\ last' = last + 1 /\ UNCHANGED file
      /\ Queued(w, set).ts = last + 1
  BY Zenon, QueueIs
<1>2. Queued(w, set).sync = set.sync
  BY Zenon DEF Queued
<1>3. last \in Nat /\ \A b \in block : b.ts <= last /\ b.ts \in Nat
  BY Zenon, <1>1, Types DEF Frame, StampInv
<1>4. SpanInv'
  BY <1>1, <1>3 DEF SpanInv
<1>5. ASSUME NEW b \in block', b.ts \in there', b.ts > file.durable PROVE Enough(b)
  <2>1. CASE b \in block
    <3>1. b.ts \in there
      BY <1>3, <2>1, <1>5
    <3> QED BY Zenon, <2>1, <3>1, <1>5 DEF EnoughInv
  <2>2. CASE b = Queued(w, set)
    <3>1. last + 1 \notin there
      BY <1>1, <1>3 DEF SpanInv
    <3> QED BY Zenon, <1>1, <1>2, <1>5, <2>2, <3>1 DEF Enough
  <2> QED BY Zenon, <1>1, <2>1, <2>2
<1> QED BY Zenon, <1>1, <1>4, <1>5 DEF EnoughInv

LEMMA ReachedTells == ASSUME NEW ts, Reached(ts) PROVE there' = there \cup {ts}
BY Zenon DEF Reached

LEMMA RaiseTells == ASSUME NEW ts, Raise(ts) PROVE there' = there \cup 0..ts
BY Zenon DEF Raise

LEMMA WorkerThere ==
    ASSUME Sound, Rest', Frame, SavedInv, ThereInv, NEW w \in Committers, Worker(w)
    PROVE  SpanInv' /\ EnoughInv'
<1> USE DEF ThereInv
<1>1. up
  BY Zenon, WorkerAway, WorksUp DEF Sound
<1>2. ASSUME NEW set \in Settings, EnqueueWait(w, set) \/ EnqueueNone(w, set) \/ EnqueueNoneFails(w, set)
      PROVE  SpanInv' /\ EnoughInv'
  <2>1. Queue(w, set)
    BY Zenon, <1>2 DEF EnqueueWait, EnqueueNone, EnqueueNoneFails
  <2>2. there' = there \/ (set.sync = "none" /\ there' = there \cup {last + 1})
    BY Zenon, <1>2, ReachedTells DEF EnqueueWait, EnqueueNone, EnqueueNoneFails, cutVars
  <2> QED BY Zenon, <2>1, <2>2, QueueThere
<1>3. CASE LaneSettles(w)
  <2>1. /\ pc[w] = "lane" /\ there' = there \cup {pend[w].ts}
        /\ UNCHANGED <<up, last, file, block>>
        /\ \A b \in block : b.ts = pend[w].ts => Far(b, pend[w].sync)
    BY Zenon, <1>3, ReachedTells DEF LaneSettles, journal
  <2>2. pend[w].ts <= last /\ \A b \in block : b.ts = pend[w].ts => b.sync = pend[w].sync
    BY Zenon, <2>1 DEF LaneInv
  <2>3. pend[w].ts \in Nat /\ last \in Nat
    BY Zenon, Types DEF Sound, Rest, ThreadsOK, Pends
  <2>4. {pend[w].ts} \in SUBSET (0..last)
    BY <2>2, <2>3
  <2>5. \A b \in block : b.ts \in {pend[w].ts} => Enough(b)
    BY Zenon, <2>1, <2>2 DEF Enough
  <2> QED BY Zenon, <1>1, <2>1, <2>4, <2>5, ToldThere
<1>4. CASE Landed(w)
  <2>1. /\ there' = there \cup 0..flight.durable /\ UNCHANGED <<up, last, file>>
        /\ file.durable = flight.durable /\ block' \in SUBSET block
    <3>1. there' = there \cup 0..flight.durable
      BY Zenon, <1>4, RaiseTells DEF Landed
    <3> QED BY Zenon, <1>4, <3>1, LandedIs
  <2>2. flight.durable <= last /\ flight.durable \in Nat /\ last \in Nat
    BY Zenon, <1>1, <2>1, Types DEF Frame, StampInv
  <2>3. 0..flight.durable \in SUBSET (0..last)
    BY <2>2
  <2>4. \A b \in block : b.ts \in 0..flight.durable => ~(b.ts > file.durable)
    BY <2>1, <2>2
  <2> QED BY Zenon, <1>1, <2>1, <2>3, <2>4, ToldThere
<1>5. CASE Checkpointed(w) \/ CloseLog(w)
  <2>1. block' = {} /\ UNCHANGED <<up, last>>
    BY Zenon, <1>5, ClearedIs
  <2>2. there' = there \/ there' = there \cup 0..last
    BY Zenon, <1>5, RaiseTells DEF Checkpointed, CloseLog, cutVars
  <2> QED BY Zenon, <2>1, <2>2 DEF SpanInv, EnoughInv
<1>6. CASE WriteFile(w)
  <2>1. UNCHANGED <<block, up, last, there>> /\ file'.durable = last
    BY Zenon, <1>6 DEF WriteFile, journal, cutVars
  <2>2. last >= file.durable
    BY Zenon, <1>1, Types DEF Frame, StampInv
  <2>3. Onwards
    BY Zenon, <2>1 DEF Onwards, Aged
  <2> QED BY Zenon, <1>1, <2>1, <2>2, <2>3, QuietThere
<1>7. ASSUME Keeps \/ Launch(w), there' = there PROVE SpanInv' /\ EnoughInv'
  <2>1. UNCHANGED <<up, last, file>>
    BY Zenon, <1>7 DEF Keeps, Launch, journal
  <2>2. Onwards
    <3>1. CASE block' = block
      BY Zenon, <3>1 DEF Onwards, Aged
    <3>2. CASE Onward
      BY Zenon, <3>2, OnwardAged
    <3> QED BY Zenon, <1>7, <3>1, <3>2 DEF Keeps, Launch
  <2>3. file'.durable >= file.durable
    BY <2>1, Types
  <2> QED BY Zenon, <1>1, <1>7, <2>1, <2>2, <2>3, QuietThere
<1>8. CASE \/ Land(w, "settle", FALSE, "commit") \/ Land(w, "checkpoint", TRUE, "relaunch")
           \/ Land(w, "persist", TRUE, "write") \/ Land(w, "closing", TRUE, "shut")
  <2>1. there' = there
    BY Zenon, <1>8 DEF Land, cutVars
  <2> QED BY Zenon, <1>7, <1>8, <2>1, LandKeeps
<1>9. CASE \/ MustPersist(w) \/ NothingStaged(w) \/ (\E set \in Settings : Refuse(w, set))
           \/ LaneErrs(w) \/ CutWaitBegin(w) \/ CutTurn(w) \/ Relock(w)
           \/ CheckpointInline(w) \/ ShortAgain(w) \/ WriteFileFails(w)
  <2>1. there' = there
    BY Zenon, <1>9 DEF MustPersist, NothingStaged, Refuse, LaneErrs, Fail, CutWaitBegin,
      WaitBegin,
      CutTurn, WaitOk, WaitErr, Park, Relock, CheckpointInline, ShortAgain, WriteFileFails,
      cutVars
  <2>2. Keeps
    BY Zenon, <1>9, QuietKeeps
  <2> QED BY Zenon, <1>7, <2>1, <2>2
<1>10. CASE Launch(w) \/ Recycle(w)
  <2>1. there' = there
    BY Zenon, <1>10 DEF Launch, Recycle, cutVars
  <2> QED BY Zenon, <1>7, <1>10, <2>1, RecycleKeeps
<1> QED BY Zenon, <1>2, <1>3, <1>4, <1>5, <1>6, <1>8, <1>9, <1>10 DEF Worker

LEMMA CrashThere ==
    ASSUME PowerOnly, Sound, NEW kind \in Crashes, Crash(kind)
    PROVE  ThereInv'
<1>1. PICK S \in Survivors : block' = {[b EXCEPT !.at = "synced"] : b \in S}
  BY Zenon DEF PowerOnly, Crash
<1>2. S \subseteq block
  BY Zenon DEF Survivors
<1>3. \A b \in S : [b EXCEPT !.at = "synced"].at = "synced"
  BY Zenon, <1>2, Types DEF Blocks
<1>4. \A c \in block' : c.at = "synced"
  BY Zenon, <1>1, <1>3
<1>5. ~up' /\ \A w \in Committers : pc'[w] # "lane"
  BY Zenon DEF Crash
<1> QED BY Zenon, <1>4, <1>5 DEF ThereInv, SpanInv, EnoughInv, LaneInv, Enough, Far

LEMMA RecoverThere ==
    ASSUME Sound, Frame, ThereInv, Recover
    PROVE  ThereInv'
<1>1. ~up /\ block' \in SUBSET block /\ there' = 0..last' /\ UNCHANGED pc
  BY Zenon DEF Recover, Renew, threads
<1>2. \A w \in Committers : pc[w] = "idle"
  BY Zenon, <1>1 DEF Sound, Down
<1> QED BY Zenon, <1>1, <1>2 DEF ThereInv, SpanInv, EnoughInv, LaneInv

-----------------------------------------------------------------------------
(* A step adds at most the block after the last one. *)
LEMMA EffectAged ==
    ASSUME Sound, Rest', Frame, SavedInv, Effect
    PROVE  /\ last' >= last
           /\ \A c \in block' : (\E b \in block : b.ts = c.ts /\ b.sync = c.sync) \/ c.ts = last + 1
<1>1. CASE Onwards /\ last' = last
  BY <1>1, Types DEF Onwards, Aged
<1>2. CASE block' \in SUBSET block /\ last' = last
  BY <1>2, Types
<1>3. CASE Keeps
  BY Zenon, <1>1, <1>2, <1>3, OnwardAged DEF Keeps
<1>4. ASSUME NEW w \in Committers, NEW set \in Settings, Queue(w, set)
      PROVE  /\ last' >= last
             /\ \A c \in block' : (\E b \in block : b.ts = c.ts /\ b.sync = c.sync) \/ c.ts = last + 1
  <2>1. last' = last + 1 /\ block' = block \cup {Queued(w, set)} /\ Queued(w, set).ts = last + 1
    BY ZenonT(60), <1>4, QueueIs
  <2> QED BY <2>1, Types
<1>5. CASE FlightDone
  BY Zenon, <1>2, <1>5 DEF FlightDone, journal
<1>6. ASSUME NEW w \in Committers, Launch(w) \/ WriteFile(w)
      PROVE  block' \in SUBSET block /\ last' = last
  BY Zenon, <1>6 DEF Launch, WriteFile, journal
<1>7. ASSUME NEW w \in Committers, Landed(w)
      PROVE  block' \in SUBSET block /\ last' = last
  BY Zenon, <1>7, LandedIs
<1>8. ASSUME NEW w \in Committers, Checkpointed(w) \/ CloseLog(w)
      PROVE  block' \in SUBSET block /\ last' = last
  BY Zenon, <1>8, ClearedIs
<1> QED BY Zenon, <1>2, <1>3, <1>4, <1>5, <1>6, <1>7, <1>8 DEF Effect

Enters(v) == \E set \in Settings : EnqueueWait(v, set)

(* A worker in a lane came there by EnqueueWait and is left alone. *)
LEMMA WorkerLane ==
    ASSUME Sound, NEW w \in Committers, Client(w) \/ Worker(w), NEW v \in Committers, pc'[v] = "lane"
    PROVE  (pc[v] = "lane" /\ pend'[v] = pend[v]) \/ Enters(v)
<1> DEFINE Plain == {"idle", "settle", "commit", "landed", "after", "cut", "relock", "relock_err",
                     "checkpoint", "relaunch", "persist", "write", "closing", "shut", "close",
                     "recycle", "recycled"}
<1> DEFINE Other(p) == pend' \in {pend, [pend EXCEPT ![w] = p]}
<1>1. pc \in [Committers -> Places] /\ pend \in [Committers -> Pends]
  BY Zenon DEF Sound, Rest, ThreadsOK
<1>2. ASSUME NEW to \in Plain, Goto(w, to), NEW p, Other(p)
      PROVE  pc[v] = "lane" /\ pend'[v] = pend[v]
  <2>1. pc' = [pc EXCEPT ![w] = to] /\ to # "lane"
    BY Zenon, <1>2 DEF Goto
  <2> QED BY Zenon, <1>1, <1>2, <2>1
<1>3. CASE UNCHANGED <<pc, pend>>
  BY Zenon, <1>3
<1>4. ASSUME NEW to \in Plain, Stay(w, to) PROVE pc[v] = "lane" /\ pend'[v] = pend[v]
  <2>1. Goto(w, to) /\ Other(NoPend)
    BY Zenon, <1>4 DEF Stay
  <2> QED BY SMTT(40), <1>2, <2>1
<1>5. ASSUME NEW how, Return(w, how) PROVE pc[v] = "lane" /\ pend'[v] = pend[v]
  <2>1. Goto(w, "idle") /\ Other(NoPend)
    BY Zenon, <1>5 DEF Return
  <2> QED BY <1>2, <2>1
<1>6. ASSUME NEW ok, Waited(w, ok) PROVE pc[v] = "lane" /\ pend'[v] = pend[v]
  BY Zenon, <1>4, <1>5, <1>6 DEF Waited
<1>7. CASE Client(w)
  <2>1. (\E to \in {"settle", "persist", "closing"} : Goto(w, to)) /\ UNCHANGED pend
    BY Zenon, <1>7 DEF Client, Execute, Ask
  <2> QED BY Zenon, <1>2, <2>1
<1>8. CASE Worker(w)
  <2>1. ASSUME NEW set \in Settings, EnqueueWait(w, set)
        PROVE  (pc[v] = "lane" /\ pend'[v] = pend[v]) \/ Enters(v)
    <3>1. CASE v = w
      BY Zenon, <2>1, <3>1 DEF Enters
    <3>2. CASE v # w
      <4>1. pc' = [pc EXCEPT ![w] = "lane"]
        BY Zenon, <2>1 DEF EnqueueWait, Goto
      <4>2. pend'[v] = pend[v]
        BY Zenon, <1>1, <2>1, <3>2 DEF EnqueueWait
      <4> QED BY Zenon, <1>1, <3>2, <4>1, <4>2
    <3> QED BY Zenon, <3>1, <3>2
  <2>2. ASSUME NEW set \in Settings, Refuse(w, set) \/ EnqueueNone(w, set) \/ EnqueueNoneFails(w, set)
        PROVE  pc[v] = "lane" /\ pend'[v] = pend[v]
    BY Zenon, <1>4, <1>5, <2>2 DEF Refuse, EnqueueNone, EnqueueNoneFails
  <2>3. ASSUME NEW from, NEW wait, NEW to \in Plain, Land(w, from, wait, to)
        PROVE  pc[v] = "lane" /\ pend'[v] = pend[v]
    BY Zenon, <1>4, <1>5, <2>3 DEF Land
  <2>4. CASE Landed(w)
    <3>1. flight.to \in Plain
      <4>1. flight.to # "none"
        BY Zenon, <2>4 DEF Landed, Sound, LockInv
      <4> QED BY Zenon, <4>1, Types DEF Flights
    <3> QED BY Zenon, <1>4, <1>5, <2>4, <3>1 DEF Landed
  <2>5. CASE \/ MustPersist(w) \/ NothingStaged(w) \/ LaneSettles(w) \/ LaneErrs(w)
             \/ CutWaitBegin(w) \/ CutTurn(w)
    BY Zenon, <1>3, <1>4, <1>5, <1>6, <2>5
    DEF MustPersist, NothingStaged, Settled, LaneSettles, LaneErrs, CutWaitBegin, CutTurn, threads
  <2>6. CASE Relock(w)
    <3>1. CASE (\E to \in Plain : Goto(w, to)) /\ UNCHANGED <<stmt, pend, history>>
      BY Zenon, <1>2, <3>1
    <3> QED BY Zenon, <1>5, <2>6, <3>1 DEF Relock
  <2>7. CASE \/ CheckpointInline(w) \/ ShortAgain(w) \/ Launch(w) \/ WriteFile(w) \/ WriteFileFails(w)
             \/ Recycle(w) \/ Checkpointed(w) \/ CloseLog(w)
    <3>1. CASE WriteFile(w)
      BY Zenon, <1>4, <3>1 DEF WriteFile
    <3> QED
      BY Zenon, <1>4, <1>5, <2>7, <3>1
      DEF CheckpointInline, ShortAgain, Launch, WriteFileFails, Recycle, Checkpointed, CloseLog
  <2> QED BY Zenon, <1>8, <2>1, <2>2, <2>3, <2>4, <2>5, <2>6, <2>7 DEF Worker
<1> QED BY Zenon, <1>7, <1>8

LEMMA LaneStep ==
    ASSUME Sound, Rest', Frame, SavedInv, LaneInv, Effect, NEW v \in Committers, pc'[v] = "lane",
           (pc[v] = "lane" /\ pend'[v] = pend[v]) \/ Enters(v)
    PROVE  pend'[v].ts <= last' /\ \A b \in block' : b.ts = pend'[v].ts => b.sync = pend'[v].sync
<1>1. last \in Nat /\ last' \in Nat
  BY Zenon, Types DEF Rest, CatalogOK
<1>2. pend \in [Committers -> Pends]
  BY Zenon DEF Sound, Rest, ThreadsOK
<1>3. CASE pc[v] = "lane" /\ pend'[v] = pend[v]
  <2>1. pend[v].ts <= last /\ \A b \in block : b.ts = pend[v].ts => b.sync = pend[v].sync
    BY Zenon, <1>3 DEF LaneInv
  <2>2. pend[v].ts \in Nat
    BY Zenon, <1>2 DEF Pends
  <2>3. /\ last' >= last
        /\ \A c \in block' : (\E b \in block : b.ts = c.ts /\ b.sync = c.sync) \/ c.ts = last + 1
    BY Zenon, EffectAged
  <2> QED BY <1>1, <1>3, <2>1, <2>2, <2>3
<1>4. ASSUME NEW set \in Settings, EnqueueWait(v, set)
      PROVE  pend'[v].ts <= last' /\ \A b \in block' : b.ts = pend'[v].ts => b.sync = pend'[v].sync
  <2>1. /\ Queue(v, set)
        /\ pend' = [pend EXCEPT ![v] = [lane |-> v % set.lanes, sync |-> set.sync,
                                        ts |-> last + 1, after |-> After(v % set.lanes)]]
    BY Zenon, <1>4 DEF EnqueueWait
  <2>2. pend'[v].ts = last + 1 /\ pend'[v].sync = set.sync
    BY Zenon, <1>2, <2>1
  <2>3. up /\ last' = last + 1 /\ block' = block \cup {Queued(v, set)}
    BY Zenon, <2>1, QueueIs
  <2>4. Queued(v, set).sync = set.sync
    BY Zenon DEF Queued
  <2>5. \A b \in block : b.ts \in Nat /\ b.ts <= last
    BY Zenon, <2>3, Types DEF Frame, StampInv
  <2> QED BY <1>1, <2>2, <2>3, <2>4, <2>5
<1> QED BY Zenon, <1>3, <1>4 DEF Enters

LEMMA ThereStep ==
    ASSUME PowerOnly, Sound, Rest', Frame, SavedInv, ThereInv, [JournalNext]_vars
    PROVE  ThereInv'
<1>1. CASE (\E kind \in Crashes : Crash(kind)) \/ Recover
  BY Zenon, <1>1, CrashThere, RecoverThere
<1>2. CASE UNCHANGED vars
  <2>1. UNCHANGED <<up, there, last, block, file, pc, pend>>
    BY Zenon, <1>2 DEF vars, cutVars, journal, threads
  <2> QED BY Zenon, <2>1 DEF ThereInv, SpanInv, EnoughInv, LaneInv
<1>3. ASSUME NEW w \in Committers, Client(w) \/ Worker(w), Effect PROVE ThereInv'
  <2>1. LaneInv'
    BY Zenon, <1>3, WorkerLane, LaneStep DEF LaneInv, ThereInv
  <2>2. CASE Worker(w)
    BY Zenon, <2>1, <2>2, WorkerThere DEF ThereInv
  <2>3. CASE Client(w)
    <3>1. up /\ UNCHANGED <<there, last, block, file, up>>
      BY Zenon, <2>3 DEF Client, Execute, Ask, cutVars, journal
    <3>2. SpanInv' /\ EnoughInv'
      BY Zenon, <3>1 DEF ThereInv, SpanInv, EnoughInv
    <3> QED BY Zenon, <2>1, <3>2 DEF ThereInv
  <2> QED BY Zenon, <1>3, <2>2, <2>3
<1>4. ASSUME (\E l \in Lanes : LaneWrite(l) \/ LaneSync(l) \/ LaneFail(l)) \/ FlightDone \/ FlightFail,
             Effect
      PROVE  ThereInv'
  <2>1. up /\ UNCHANGED <<pc, pend, there, last, up>>
    BY Zenon, <1>4
    DEF LaneWrite, LaneSync, LaneFail, FlightDone, FlightFail, cutVars, journal, threads
  <2>2. LaneInv'
    BY Zenon, <1>4, <2>1, LaneStep DEF LaneInv, ThereInv
  <2>3. file'.durable >= file.durable
    <3>1. CASE UNCHANGED file
      BY <3>1, Types
    <3>2. CASE FlightDone
      BY Zenon, <3>2, Types DEF FlightDone, Frame, FileInv
    <3> QED BY Zenon, <1>4, <3>1, <3>2 DEF LaneWrite, LaneSync, LaneFail, FlightFail
  <2>4. Onwards
    <3>1. CASE UNCHANGED block
      BY Zenon, <3>1 DEF Onwards, Aged
    <3>2. ASSUME NEW l \in Lanes, LaneWrite(l) \/ LaneSync(l) \/ LaneFail(l) PROVE Onwards
      <4>1. Keeps
        BY Zenon, <3>2, LaneKeeps
      <4> QED BY Zenon, <3>1, <4>1, OnwardAged DEF Keeps
    <3> QED BY Zenon, <1>4, <3>1, <3>2 DEF FlightDone, FlightFail
  <2>5. SpanInv' /\ EnoughInv'
    BY Zenon, <2>1, <2>3, <2>4, QuietThere DEF ThereInv
  <2> QED BY Zenon, <2>2, <2>5 DEF ThereInv
<1> QED BY Zenon, <1>1, <1>2, <1>3, <1>4, StepEffect DEF JournalNext

LEMMA ThereInit == JournalInit => Framed /\ ThereInv
<1> SUFFICES ASSUME JournalInit PROVE ThereInv
  BY Zenon, FramedInit
<1>1. there = 0..0 /\ last = 0 /\ block = {} /\ \A w \in Committers : pc[w] # "lane"
  BY Zenon DEF JournalInit, CutInit, New
<1> QED BY Zenon, <1>1 DEF ThereInv, SpanInv, EnoughInv, LaneInv

LEMMA ThereSound == Framed /\ ThereInv => CutSound
<1> SUFFICES ASSUME Framed, ThereInv, up, NEW b \in block, b.ts <= at, b.ts > file.durable
             PROVE  CASE b.sync = "full" -> b.at = "synced"
                      [] b.sync = "os"   -> b.at \in {"written", "synced"}
                      [] b.sync = "none" -> TRUE
  BY Zenon DEF CutSound
<1>1. b.ts \in Nat /\ b.sync \in Syncs
  BY Zenon, Types DEF Framed, Blocks
<1>2. 0..at \subseteq there /\ at \in Nat
  BY Zenon DEF Framed, Sound, CutInv, CutTypeOK, CutShape
<1>3. Enough(b)
  BY <1>1, <1>2 DEF ThereInv, EnoughInv
<1> QED BY Zenon, <1>1, <1>3 DEF Enough, Far, Syncs

(* The cut tells the truth: a commit at or below it is in the file, or its  *)
(* block is synced, written or queued as its commit_sync asked.  settle     *)
(* reports a commit only after its lane, and a checkpoint raises the cut to *)
(* what its file covers.                                                    *)
THEOREM JournalCutSound == PowerOnly => (JournalSpec => []CutSound)
<1> SUFFICES ASSUME PowerOnly PROVE JournalSpec => []CutSound
  BY Zenon
<1>1. Framed /\ ThereInv /\ [JournalNext]_vars => (Framed /\ ThereInv)'
  <2> SUFFICES ASSUME Framed, ThereInv, [JournalNext]_vars PROVE Framed' /\ ThereInv'
    BY Zenon
  <2>1. Framed' /\ Rest'
    BY Zenon, FramedStep DEF Framed, Sound
  <2>2. ThereInv'
    BY Zenon, <2>1, ThereStep DEF Framed
  <2> QED BY Zenon, <2>1, <2>2
<1> QED BY <1>1, ThereInit, ThereSound, PTL DEF JournalSpec
=============================================================================
