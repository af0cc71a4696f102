------------------------------- MODULE Lane -------------------------------
(***************************************************************************)
(* One lane of the log, rudb-txn/src/log/lane.rs, down to the files: the    *)
(* queue committers put blocks in, the group commit that writes them, the   *)
(* segments and the spares they are made from, the thread that makes spares *)
(* ahead, the retirement of segments a checkpoint made redundant, and what  *)
(* replay.rs reads back after a crash.                                      *)
(*                                                                          *)
(* A block is a number, the next one for every enqueue, and takes one slot  *)
(* of a segment.  A lane position is the number of the block that ends      *)
(* there, so the positions a lane counts from its opening are counted from  *)
(* the last block before it.                                                *)
(***************************************************************************)
EXTENDS Disk, Sequences

CONSTANTS Committers,     \* threads that commit
          Keeper,         \* the thread that checkpoints
          Syncs,          \* the commit_sync settings a commit may find
          SparesKept,     \* SPARES
          Made,           \* MADE: the first number a spare made ahead is named under
          SpareAhead,     \* Options.spare_ahead
          MaxBlocks,      \* bound: blocks queued over the whole run
          MaxCheckpoints, \* bound: checkpoints
          MaxCloses,      \* bound: times the log is removed
          Crashes,        \* the kinds of crash that happen: process, power
          MaxCrashes,     \* bound: crashes
          MaxFails,       \* bound: operations on the disk that fail
          NoOne

ASSUME LaneAssumption ==
    /\ Keeper \notin Committers /\ NoOne \notin Committers \cup {Keeper}
    /\ Syncs \subseteq {"full", "barrier", "os", "none"}
    /\ SparesKept \in Nat /\ Made \in Nat /\ MaxBlocks \in Nat /\ MaxBlocks < Made
    /\ SpareAhead \in BOOLEAN
    /\ MaxCheckpoints \in Nat /\ MaxCloses \in Nat /\ MaxCrashes \in Nat /\ MaxFails \in Nat
    /\ Crashes \subseteq {"process", "power"}

VARIABLES
    phase,      \* down, opening, up, or removing: the lane's life
    tail,       \* State.tail_sequence, tail_offset: where the next block goes
    pending,    \* State.pending: queued blocks no leader took yet
    open,       \* State.open: the segment writes go to
    marks,      \* State.reserved, written, ordered, durable
    failed,     \* State.failed
    spares,     \* State.spares, names of files
    made,       \* State.made
    maker,      \* the thread making spares, off when State.making is false
    led,        \* what the thread at the disk is at, the leader or Lane::open
    th,         \* every thread in Lane::wait: how far it is and what it waits for
    keep,       \* the checkpoint under way
    acked,      \* blocks a commit returned for and that the crashes must not lose
    covered,    \* every block up to here is in the database file
    bases,      \* the last block before each opening of the lane
    used        \* how much of each bound is used

disk == <<files>>
state == <<tail, pending, open, marks, failed, spares, made>>
ghosts == <<acked, covered, bases>>
laneVars == <<files, phase, tail, pending, open, marks, failed, spares, made, maker, led, th,
              keep, acked, covered, bases, used>>

Threads == Committers \cup {Keeper}
Positions == 0..MaxBlocks

NoSegment == [seq |-> 0, file |-> 0, dirty |-> FALSE]
NoLead == [who |-> NoOne, step |-> "none", pieces |-> <<>>, reach |-> "os", written |-> 0,
           ordered |-> 0, durable |-> 0, rolled |-> FALSE, seq |-> 0, file |-> 0]
Idle == [at |-> "idle", end |-> 0, reach |-> "os"]
NoKeep == [at |-> "idle", below |-> 0, upto |-> 0, writing |-> 0, wanted |-> 0, retired |-> <<>>]
NoMaker == [step |-> "off", file |-> 0]

Flushing == led.who \in Threads
SegmentNumbers(names) == {n[2] : n \in {m \in names : m[1] = "segment"}}
SpareNames(names) == {m \in names : m[1] = "spare"}
Highest(S, least) == IF S = {} THEN least ELSE CHOOSE x \in S : \A y \in S : y <= x
Lowest(S) == CHOOSE x \in S : \A y \in S : x <= y
Larger(a, b) == IF a > b THEN a ELSE b

(* Reach: how far settle waits for a commit of each setting. *)
Reached(reach) == CASE reach = "os" -> marks.written
                    [] reach = "barrier" -> Larger(marks.ordered, marks.durable)
                    [] reach = "full" -> marks.durable

(* Every thread parked on the lane's condition variable looks again. *)
Woken(f) == [t \in Threads |-> IF f[t].at = "parked" THEN [f[t] EXCEPT !.at = "wait"] ELSE f[t]]

Spend(what) == used' = [used EXCEPT ![what] = @ + 1]

-----------------------------------------------------------------------------
(* Opening the lane.  Writing starts in a new segment, one past the last.   *)
(* The directory is listed in no order.                                     *)

Listings(S) == {s \in [1..Cardinality(S) -> S] : \A i, j \in DOMAIN s : i # j => s[i] # s[j]}

Open ==
    /\ phase = "down"
    /\ \E found \in Listings(SpareNames(FileNames)) :
         LET whole(n) == files[At(n)].now.whole
             before(i) == Cardinality({j \in 1..(i - 1) : whole(found[j])})
             taken == {i \in DOMAIN found : whole(found[i]) /\ before(i) < SparesKept}
             kept == SelectSeq(found, LAMBDA n : \E i \in taken : found[i] = n)
             first == Highest(SegmentNumbers(FileNames), 0) + 1
         IN  /\ files' = Removed(files, {At(found[i]) : i \in DOMAIN found \ taken})
             /\ spares' = kept
             /\ made' = Highest({found[i][2] + 1 : i \in taken} \cup {Made}, Made)
             /\ tail' = [seq |-> first, at |-> 0]
             /\ led' = [NoLead EXCEPT !.step = "take", !.seq = first]
    /\ phase' = "opening"
    /\ pending' = <<>> /\ open' = NoSegment /\ failed' = FALSE
    /\ marks' = [m \in DOMAIN marks |-> marks.reserved]
    /\ bases' = Append(bases, marks.reserved)
    /\ UNCHANGED <<maker, th, keep, acked, covered, used>>

-----------------------------------------------------------------------------
(* create_segment, by the leader or by Lane::open: a spare gets its header, *)
(* synced, and then its name; without one a file is filled on the spot.     *)

DiskFails == used.fails < MaxFails /\ Spend("fails")

(* What an error of the thread at the disk does: the leader fails the lane  *)
(* and wakes everyone, and an open that fails leaves the lane closed.       *)
GiveUpQuietly ==
    /\ led' = NoLead
    /\ IF phase = "opening"
         THEN phase' = "down" /\ UNCHANGED <<failed, th>>
         ELSE /\ failed' = TRUE
              /\ th' = [th EXCEPT ![led.who].at = "wait"]
              /\ UNCHANGED phase

GiveUp ==
    /\ led' = NoLead
    /\ IF phase = "opening"
         THEN phase' = "down" /\ UNCHANGED <<failed, th>>
         ELSE /\ failed' = TRUE
              /\ th' = Woken([th EXCEPT ![led.who].at = "wait"])
              /\ UNCHANGED phase

CreateTake ==
    /\ led.step = "take"
    /\ IF spares # <<>>
         THEN LET name == spares[Len(spares)]
              IN  /\ spares' = SubSeq(spares, 1, Len(spares) - 1)
                  /\ IF name \in FileNames
                       THEN /\ files' = Written(files, At(name),
                                                [files[At(name)].now EXCEPT !.head = led.seq])
                            /\ led' = [led EXCEPT !.step = "stamped", !.file = At(name)]
                            /\ UNCHANGED <<phase, failed, th>>
                       ELSE GiveUp /\ UNCHANGED files
         ELSE /\ HasFree
              /\ files' = Created(Free, Segment(led.seq), [Blank EXCEPT !.head = led.seq])
              /\ led' = [led EXCEPT !.step = "fill", !.file = Free]
              /\ UNCHANGED <<phase, spares, failed, th>>
    /\ UNCHANGED <<tail, pending, open, marks, made, maker, keep, ghosts, used>>

CreateStep ==
    /\ \/ /\ led.step = "stamped"
          /\ files' = Synced(files, led.file)
          /\ led' = [led EXCEPT !.step = "rename"]
       \/ /\ led.step = "rename"
          /\ files' = Renamed(files, led.file, Segment(led.seq))
          /\ led' = [led EXCEPT !.step = "dir"]
       \/ /\ led.step = "fill"
          /\ files' = Synced(Written(files, led.file,
                                     [files[led.file].now EXCEPT !.whole = TRUE]), led.file)
          /\ led' = [led EXCEPT !.step = "dir"]
    /\ UNCHANGED <<phase, state, maker, th, keep, ghosts, used>>

(* spare_ahead: a thread starts making spares when the lane is short of     *)
(* them and none is at it.                                                  *)
StartMaker == maker' = IF SpareAhead /\ maker.step = "off" /\ ~failed /\ Len(spares) < SparesKept
                         THEN [maker EXCEPT !.step = "look"] ELSE maker

CreateDirUnsynced ==
    /\ led.step = "dir"
    /\ open' = [seq |-> led.seq, file |-> led.file, dirty |-> FALSE]
    /\ IF phase = "opening"
         THEN phase' = "up" /\ led' = NoLead /\ StartMaker
         ELSE /\ led' = [led EXCEPT !.step = "run", !.rolled = TRUE]
              /\ UNCHANGED <<phase, maker>>
    /\ UNCHANGED <<files, tail, pending, marks, failed, spares, made, th, keep, ghosts, used>>

CreateDir ==
    /\ led.step = "dir"
    /\ files' = DirSynced(files)
    /\ open' = [seq |-> led.seq, file |-> led.file, dirty |-> FALSE]
    /\ IF phase = "opening"
         THEN phase' = "up" /\ led' = NoLead /\ StartMaker
         ELSE /\ led' = [led EXCEPT !.step = "run", !.rolled = TRUE]
              /\ UNCHANGED <<phase, maker>>
    /\ UNCHANGED <<tail, pending, marks, failed, spares, made, th, keep, ghosts, used>>

-----------------------------------------------------------------------------
(* A commit: enqueue, under the lock of the journal that a checkpoint holds *)
(* while it recycles the log, and settle.                                   *)

JournalHeld == keep.at \in {"out", "list", "retire"}

(* Where the next block goes: a block never spans two segments. *)
Placed == IF tail.at = SegmentBlocks THEN [seq |-> tail.seq + 1, at |-> 1]
          ELSE [tail EXCEPT !.at = @ + 1]

Commit(t, sync) ==
    /\ phase = "up" /\ ~failed /\ ~JournalHeld
    /\ t \in Committers /\ th[t].at = "idle"
    /\ marks.reserved < MaxBlocks
    /\ tail' = Placed
    /\ marks' = [marks EXCEPT !.reserved = @ + 1]
    /\ pending' = Append(pending, [number |-> marks'.reserved, seq |-> Placed.seq,
                                   at |-> Placed.at])
    /\ th' = IF sync = "none" THEN th
             ELSE [th EXCEPT ![t] = [at |-> "wait", end |-> marks'.reserved, reach |-> sync]]
    /\ UNCHANGED <<files, phase, open, failed, spares, made, maker, led, keep, ghosts, used>>

(* flush, which the journal's writer thread calls for blocks nobody waits for. *)
Flush(t) ==
    /\ phase = "up" /\ ~failed
    /\ t \in Committers /\ th[t].at = "idle"
    /\ marks.durable < marks.reserved
    /\ th' = [th EXCEPT ![t] = [at |-> "wait", end |-> marks.reserved, reach |-> "full"]]
    /\ UNCHANGED <<disk, phase, state, maker, led, keep, ghosts, used>>

-----------------------------------------------------------------------------
(* Lane::wait: look again until the lane failed or reached the position,    *)
(* parking while somebody leads and leading when nobody does.               *)

(* A commit that returned promised its block to survive the crashes its     *)
(* setting covers: os covers a crash of the process only.                   *)
Promised(reach) == reach # "os" \/ "power" \notin Crashes

Settle(t) ==
    /\ th[t].at = "wait" /\ (failed \/ Reached(th[t].reach) >= th[t].end)
    /\ th' = [th EXCEPT ![t] = Idle]
    /\ acked' = IF ~failed /\ t \in Committers /\ Promised(th[t].reach)
                  THEN acked \cup {th[t].end} ELSE acked
    /\ keep' = IF t # Keeper THEN keep
               ELSE IF failed THEN NoKeep
               ELSE [keep EXCEPT !.at = "list"]
    /\ UNCHANGED <<disk, phase, state, maker, led, covered, bases, used>>

Park(t) ==
    /\ th[t].at = "wait" /\ ~failed /\ Reached(th[t].reach) < th[t].end
    /\ Flushing
    /\ th' = [th EXCEPT ![t].at = "parked"]
    /\ UNCHANGED <<disk, phase, state, maker, led, keep, ghosts, used>>

Lead(t) ==
    /\ th[t].at = "wait" /\ ~failed /\ Reached(th[t].reach) < th[t].end
    /\ ~Flushing
    /\ th' = [th EXCEPT ![t].at = "lead"]
    /\ led' = [NoLead EXCEPT !.who = t, !.step = "run", !.pieces = pending,
                             !.reach = th[t].reach, !.written = marks.written]
    /\ pending' = <<>>
    /\ UNCHANGED <<disk, phase, tail, open, marks, failed, spares, made, maker, keep, ghosts,
                   used>>

-----------------------------------------------------------------------------
(* lead: a segment's run of blocks at a time, the old segment synced before *)
(* a new one gets a byte, and a sync or a barrier at the end.               *)

LeadRollUnsynced ==
    /\ led.step = "run" /\ led.pieces # <<>> /\ led.pieces[1].seq # open.seq
    /\ led' = [led EXCEPT !.step = "take", !.seq = led.pieces[1].seq]
    /\ UNCHANGED <<files, phase, state, maker, th, keep, ghosts, used>>

LeadRoll ==
    /\ led.step = "run" /\ led.pieces # <<>> /\ led.pieces[1].seq # open.seq
    /\ files' = IF open.dirty THEN Synced(files, open.file) ELSE files
    /\ led' = [led EXCEPT !.step = "take", !.seq = led.pieces[1].seq, !.durable = led.written]
    /\ UNCHANGED <<phase, state, maker, th, keep, ghosts, used>>

Run == SelectSeq(led.pieces, LAMBDA p : p.seq = led.pieces[1].seq)
Put(run) == LET holds(k) == {i \in DOMAIN run : run[i].at = k}
                slot(k) == IF holds(k) = {} THEN files[open.file].now.slots[k]
                           ELSE Block(open.seq, run[CHOOSE i \in holds(k) : TRUE].number)
            IN  Written(files, open.file,
                        [files[open.file].now EXCEPT !.slots = [k \in Slots |-> slot(k)]])

LeadWrite ==
    /\ led.step = "run" /\ led.pieces # <<>> /\ led.pieces[1].seq = open.seq
    /\ files' = Put(Run)
    /\ open' = [open EXCEPT !.dirty = TRUE]
    /\ led' = [led EXCEPT !.pieces = SubSeq(@, Len(Run) + 1, Len(@)),
                          !.written = Run[Len(Run)].number]
    /\ UNCHANGED <<phase, tail, pending, marks, failed, spares, made, maker, th, keep, ghosts,
                   used>>

(* The end of the turn.  A barrier is a sync, as it is outside macOS, that  *)
(* leaves the segment dirty.  A leader that started a segment starts the    *)
(* maker before it wakes the others.                                        *)
TurnOver ==
    /\ led.step = "run" /\ led.pieces = <<>>
    /\ open' = [open EXCEPT !.dirty = @ /\ led.reach # "full"]
    /\ led' = NoLead
    /\ th' = IF led.rolled /\ Len(spares) < SparesKept /\ maker.step = "off"
               THEN [th EXCEPT ![led.who].at = "ahead"]
               ELSE Woken([th EXCEPT ![led.who].at = "wait"])
    /\ UNCHANGED <<phase, tail, pending, failed, spares, made, maker, keep, ghosts, used>>

Marked(written) ==
    [marks EXCEPT !.written = Larger(@, written),
                  !.ordered = IF led.reach = "barrier" THEN Larger(@, written) ELSE @,
                  !.durable = Larger(@, IF led.reach = "full" THEN written ELSE led.durable)]

LeadEndHasty == TurnOver /\ marks' = Marked(led.written) /\ UNCHANGED files

LeadEnd ==
    /\ TurnOver
    /\ files' = IF open.dirty /\ led.reach # "os" THEN Synced(files, open.file) ELSE files
    /\ marks' = Marked(led.written)


Ahead(t) ==
    /\ th[t].at = "ahead"
    /\ StartMaker
    /\ th' = Woken([th EXCEPT ![t].at = "wait"])
    /\ UNCHANGED <<disk, phase, state, led, keep, ghosts, used>>

(* Any operation of the leader or of an open fails.  A write that fails     *)
(* may have put a first part of its run on the disk.                        *)
LeadFails ==
    /\ led.step # "none"
    /\ DiskFails
    /\ GiveUp
    /\ \/ UNCHANGED <<files, open>>
       \/ /\ led.step = "run" /\ led.pieces # <<>> /\ led.pieces[1].seq = open.seq
          /\ \E n \in 1..Len(Run) : files' = Put(SubSeq(Run, 1, n))
          /\ UNCHANGED open
    /\ UNCHANGED <<tail, pending, marks, spares, made, maker, keep, ghosts>>

-----------------------------------------------------------------------------
(* make_spares: each spare is filled with zeros and synced, with the        *)
(* directory, before the lane is given it.                                  *)

MakerLook ==
    /\ maker.step = "look"
    /\ IF failed \/ Len(spares) >= SparesKept
         THEN maker' = NoMaker /\ UNCHANGED <<files, made>>
         ELSE /\ HasFree
              /\ made' = made + 1
              /\ files' = Created(Free, Spare(made), Blank)
              /\ maker' = [step |-> "fill", file |-> Free]
    /\ UNCHANGED <<phase, tail, pending, open, marks, failed, spares, led, th, keep, ghosts, used>>

MakerFill ==
    /\ maker.step = "fill"
    /\ files' = Synced(Written(files, maker.file, [Blank EXCEPT !.whole = TRUE]), maker.file)
    /\ maker' = [maker EXCEPT !.step = "dir"]
    /\ UNCHANGED <<phase, state, led, th, keep, ghosts, used>>

MakerGive ==
    /\ maker.step = "dir"
    /\ files' = DirSynced(files)
    /\ spares' = <<files[maker.file].name>> \o spares
    /\ maker' = [step |-> "look", file |-> 0]
    /\ UNCHANGED <<phase, tail, pending, open, marks, failed, made, led, th, keep, ghosts, used>>

(* A spare that cannot be made is removed, when that works, and the maker   *)
(* ends.                                                                    *)
MakerFails ==
    /\ DiskFails
    /\ \/ /\ maker.step = "look" /\ ~failed /\ Len(spares) < SparesKept
          /\ made' = made + 1 /\ UNCHANGED files
       \/ /\ maker.step \in {"fill", "dir"}
          /\ files' \in {files, Removed(files, {maker.file})} /\ UNCHANGED made
    /\ maker' = NoMaker
    /\ UNCHANGED <<phase, tail, pending, open, marks, failed, spares, led, th, keep, ghosts>>

-----------------------------------------------------------------------------
(* A checkpoint: the journal notes the position and the last block, writes  *)
(* the file, and under its lock writes the queue out and retires the        *)
(* segments before the position.                                            *)

Anchor ==
    /\ phase = "up" /\ keep.at = "idle" /\ used.checkpoints < MaxCheckpoints
    /\ keep' = [NoKeep EXCEPT !.at = "flight", !.below = tail.seq, !.upto = marks.reserved]
    /\ Spend("checkpoints")
    /\ UNCHANGED <<disk, phase, state, maker, led, th, ghosts>>

WriteOut ==
    /\ keep.at = "flight"
    /\ covered' = keep.upto
    /\ keep' = [keep EXCEPT !.at = "out"]
    /\ th' = [th EXCEPT ![Keeper] = [at |-> "wait", end |-> marks.reserved, reach |-> "os"]]
    /\ UNCHANGED <<disk, phase, state, maker, led, acked, bases, used>>

Retirable(k) == {n \in SegmentNumbers(FileNames) : n < k.below /\ n # k.writing}

(* With nothing to retire the directory is not synced. *)
RetireBegin ==
    /\ keep.at = "list"
    /\ LET now == [keep EXCEPT !.at = "retire",
                               !.writing = IF Flushing THEN 0 ELSE open.seq,
                               !.wanted = Larger(0, SparesKept - Len(spares))]
       IN  keep' = IF Retirable(now) = {} THEN NoKeep ELSE now
    /\ UNCHANGED <<disk, phase, state, maker, led, th, ghosts, used>>

RetireOne ==
    /\ keep.at = "retire" /\ Retirable(keep) # {}
    /\ LET n == Lowest(Retirable(keep))
           i == At(Segment(n))
       IN  IF keep.wanted > 0 /\ files[i].now.whole
             THEN /\ files' = Renamed(files, i, Spare(n))
                  /\ keep' = [keep EXCEPT !.wanted = @ - 1, !.retired = Append(@, Spare(n))]
             ELSE files' = Removed(files, {i}) /\ UNCHANGED keep
    /\ UNCHANGED <<phase, state, maker, led, th, ghosts, used>>

RetireEndUnsynced ==
    /\ keep.at = "retire" /\ Retirable(keep) = {}
    /\ spares' = spares \o keep.retired
    /\ keep' = NoKeep
    /\ UNCHANGED <<files, phase, tail, pending, open, marks, failed, made, maker, led, th, ghosts,
                   used>>

(* The directory is synced before the lane is given the spares. *)
RetireEnd ==
    /\ keep.at = "retire" /\ Retirable(keep) = {}
    /\ files' = DirSynced(files)
    /\ spares' = spares \o keep.retired
    /\ keep' = NoKeep
    /\ UNCHANGED <<phase, tail, pending, open, marks, failed, made, maker, led, th, ghosts, used>>

RetireFails ==
    /\ keep.at = "retire"
    /\ DiskFails
    /\ keep' = NoKeep
    /\ UNCHANGED <<disk, phase, state, maker, led, th, ghosts>>

-----------------------------------------------------------------------------
(* remove_lane: the log of a database whose file was just written whole.    *)
(* Every segment goes and then every spare, and the directory is not synced.*)

(* What the lane had in memory is gone. *)
Forgotten ==
    /\ tail' = [seq |-> 0, at |-> 0] /\ pending' = <<>> /\ open' = NoSegment
    /\ marks' = [m \in DOMAIN marks |-> marks.reserved]
    /\ failed' = FALSE /\ spares' = <<>> /\ made' = Made /\ maker' = NoMaker
    /\ led' = NoLead /\ th' = [t \in Threads |-> Idle] /\ keep' = NoKeep

Remove ==
    /\ \/ phase = "down"
       \/ /\ phase = "up" /\ keep.at = "idle" /\ maker.step = "off"
          /\ \A t \in Threads : th[t].at = "idle"
    /\ FileNames # {} /\ used.closes < MaxCloses
    /\ Spend("closes")
    /\ phase' = "removing"
    /\ covered' = marks.reserved
    /\ Forgotten
    /\ UNCHANGED <<disk, acked, bases>>

RemoveOne ==
    /\ phase = "removing"
    /\ LET segments == SegmentNumbers(FileNames)
       IN  IF segments # {} THEN files' = Removed(files, {At(Segment(Lowest(segments)))})
           ELSE \E n \in SpareNames(FileNames) : files' = Removed(files, {At(n)})
    /\ UNCHANGED <<phase, state, maker, led, th, keep, ghosts, used>>

RemoveEnd ==
    /\ phase = "removing" /\ FileNames = {}
    /\ phase' = "down"
    /\ UNCHANGED <<disk, state, maker, led, th, keep, ghosts, used>>

-----------------------------------------------------------------------------
(* The process ends, alone or with the power.  What it had in memory is     *)
(* gone; a checkpoint whose file is not written covers nothing.             *)

Crash(kind) ==
    /\ used.crashes < MaxCrashes /\ Spend("crashes")
    /\ phase # "down" \/ kind = "power"
    /\ files' \in IF kind = "power" THEN PowerLost ELSE ProcessLost
    /\ phase' = "down"
    /\ Forgotten
    /\ UNCHANGED ghosts

-----------------------------------------------------------------------------
LaneInit ==
    /\ files = [i \in Inodes |-> NoFile]
    /\ phase = "down" /\ tail = [seq |-> 0, at |-> 0] /\ pending = <<>> /\ open = NoSegment
    /\ marks = [reserved |-> 0, written |-> 0, ordered |-> 0, durable |-> 0]
    /\ failed = FALSE /\ spares = <<>> /\ made = Made /\ maker = NoMaker /\ led = NoLead
    /\ th = [t \in Threads |-> Idle] /\ keep = NoKeep
    /\ acked = {} /\ covered = 0 /\ bases = <<>>
    /\ used = [checkpoints |-> 0, closes |-> 0, crashes |-> 0, fails |-> 0]

Disking == CreateTake \/ CreateStep \/ CreateDir \/ LeadRoll \/ LeadWrite \/ LeadEnd
Making == MakerLook \/ MakerFill \/ MakerGive
Waiting(t) == Settle(t) \/ Park(t) \/ Lead(t) \/ Ahead(t)
Keeping == WriteOut \/ RetireBegin \/ RetireOne \/ RetireEnd

LaneNext ==
    \/ Open \/ Anchor \/ Remove \/ RemoveOne \/ RemoveEnd
    \/ Disking \/ LeadFails \/ Making \/ MakerFails \/ Keeping \/ RetireFails
    \/ \E t \in Committers : Flush(t) \/ \E sync \in Syncs : Commit(t, sync)
    \/ \E t \in Threads : Waiting(t)
    \/ \E kind \in Crashes : Crash(kind)

LaneSpec == /\ LaneInit /\ [][LaneNext]_laneVars
            /\ WF_laneVars(Disking) /\ WF_laneVars(Keeping)
            /\ \A t \in Threads : WF_laneVars(Waiting(t))

-----------------------------------------------------------------------------
(* replay: the blocks of every segment whose header verifies, up to the     *)
(* first record that does not verify under the segment's own sequence.      *)

View == [i \in Inodes |-> [name |-> files[i].name, content |-> files[i].now]]
SureView == [i \in Inodes |-> [name |-> files[i].kept, content |-> files[i].sure]]

ReadBlocksUnseeded(f) ==
    {[seq |-> f.name[2], at |-> k, number |-> f.content.slots[k][2]] :
       k \in {k \in Slots : \A j \in 1..k : f.content.slots[j] # Empty}}
ReadBlocks(f) ==
    {[seq |-> f.name[2], at |-> k, number |-> f.content.slots[k][2]] :
       k \in {k \in Slots : \A j \in 1..k : f.content.slots[j][1] = f.name[2]}}
Verified(view) == {i \in Inodes : view[i].name[1] = "segment" /\ view[i].content.head # 0}
Replay(view) == UNION {ReadBlocks(view[i]) : i \in Verified(view)}

(* recover leaves out the blocks the file has. *)
Fresh(view) == {x \in Replay(view) : x.number > covered}
Numbers(blocks) == {x.number : x \in blocks}

(* The openings of the lane number its lives, and a block has one. *)
Life(b) == Cardinality({r \in DOMAIN bases : bases[r] < b})

-----------------------------------------------------------------------------
(* The one type invariant. *)
LaneTypeOK ==
    /\ phase \in {"down", "opening", "up", "removing"}
    /\ tail \in [seq : Nat, at : 0..SegmentBlocks]
    /\ pending \in Seq([number : Positions, seq : Nat, at : Slots])
    /\ open \in [seq : Nat, file : 0..MaxFiles, dirty : BOOLEAN]
    /\ marks \in [reserved : Positions, written : Positions, ordered : Positions,
                  durable : Positions]
    /\ marks.durable <= marks.written /\ marks.ordered <= marks.written
    /\ marks.written <= marks.reserved
    /\ failed \in BOOLEAN
    /\ \A i \in DOMAIN spares : spares[i][1] = "spare"
    /\ Len(spares) <= 2 * SparesKept
    /\ maker.step \in {"off", "look", "fill", "dir"}
    /\ led.who \in Threads \cup {NoOne}
    /\ led.step \in {"none", "run", "take", "stamped", "rename", "fill", "dir"}
    /\ \A t \in Threads : th[t].at \in {"idle", "wait", "parked", "lead", "ahead"}
    /\ acked \subseteq Positions /\ covered \in Positions

(* A block a commit returned for is read back after every crash its setting *)
(* promises to survive, whatever segment it is in and whatever that segment *)
(* was made from, unless the file has it.                                   *)
AckedReplayed == phase = "down" => \A b \in acked : b <= covered \/ b \in Numbers(Fresh(View))

(* Replay never meets a verified header that names another segment than the *)
(* file's name does, which read_segment refuses the whole log for.          *)
HeadersMatch == \A i \in Verified(View) : View[i].content.head = View[i].name[2]

(* What replay reads is in the order it was queued in, with no block twice: *)
(* the records a recycled segment still holds from its earlier use are      *)
(* never read as its own.                                                   *)
InOrder == \A x, y \in Replay(View) :
             (x.seq < y.seq \/ (x.seq = y.seq /\ x.at < y.at)) => x.number < y.number

(* The blocks one life of the lane leaves are a first part of what it       *)
(* queued: a crash never keeps a block and loses one queued before it.      *)
NoHole == phase = "down" =>
            \A b \in Numbers(Fresh(View)) : \A c \in (covered + 1)..(b - 1) :
               Life(c) = Life(b) => c \in Numbers(Fresh(View))

(* The segment the lane writes to is never retired or removed under it, and *)
(* its name and its header are sure before it gets a block.                 *)
OpenStays == phase = "up" => /\ files[open.file].name = Segment(open.seq)
                             /\ files[open.file].kept = Segment(open.seq)
                             /\ files[open.file].sure.head = open.seq

(* Every spare the lane counts on is a file of its own. *)
SparesThere == phase = "up" =>
                 \A i \in DOMAIN spares : /\ spares[i] \in FileNames
                                           /\ \A j \in DOMAIN spares : i # j => spares[i] # spares[j]

(* The directory says what the lane takes it to say, through renames that   *)
(* fail or are lost in a crash: all three of the above.                     *)
NamesTrue == HeadersMatch /\ OpenStays /\ SparesThere


(* Every wait ends, with the position reached or with the lane failed. *)
WaitReturns == \A t \in Threads : th[t].at # "idle" ~> th[t].at = "idle"

-----------------------------------------------------------------------------
(* The lane as its journal sees it.  The run under way is what the lane's   *)
(* positions say; an earlier run is what a replay of the files reads, and   *)
(* what of it a replay after a loss of power is sure to read.               *)

Running(r) == phase \in {"opening", "up"} /\ r = Len(bases)
Lived(r, blocks) == {b \in blocks : Life(b) = r}
Upto(r, end) == Lived(r, (covered + 1)..end)

AbstractRuns ==
    LET now == Numbers(Fresh(View))
        sure == Numbers(Fresh(SureView))
    IN  [r \in DOMAIN bases |->
           IF Running(r)
             THEN [queued |-> Upto(r, marks.reserved), written |-> Upto(r, marks.written),
                   durable |-> Upto(r, marks.durable)]
             ELSE [queued |-> Lived(r, now), written |-> Lived(r, now), durable |-> Lived(r, sure)]]

Log == INSTANCE LogLane WITH
         runs <- AbstractRuns,
         covered <- covered, last <- marks.reserved, up <- phase \in {"opening", "up"}

(* Every step of the lane is a step of the log lane it promises to be, or   *)
(* none: in particular a crash at any operation on the disk leaves a first  *)
(* part of each run that holds everything the lane said was written, or     *)
(* durable when the power is lost.                                          *)
IsLogLane == Log!LogSpec
=============================================================================
