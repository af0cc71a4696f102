------------------------------ MODULE MCLoads ------------------------------
(***************************************************************************)
(* What snapshots keep, for TLC: Registry under loads that meet in a row,   *)
(* and the slots of Horizons, which share no state with it.  A behaviour is *)
(* one of one of them.                                                      *)
(***************************************************************************)
EXTENDS MCRegistry, MCHorizons

VARIABLE part
snapshotVars == <<part, registryVars, horizonVars>>

Loads == part = "loads" /\ UNCHANGED <<part, horizonVars>>
Scans == part = "slots" /\ UNCHANGED <<part, registryVars>>

SnapshotsInit == part \in {"loads", "slots"} /\ RegistryInit /\ HorizonInit

SnapshotsNext ==
    \/ \E c \in Conns :
          \/ (Loads /\ Apply(c)) \/ (Loads /\ Sleep(c)) \/ (Loads /\ Retry(c))
          \/ (Loads /\ Timeout(c)) \/ (Loads /\ Commit(c)) \/ (Loads /\ Rollback(c))
    \/ \E c \in Conns, own \in BOOLEAN : Loads /\ Start(c, own)
    \/ \E c \in Conns, w \in Writes : (Loads /\ Statement(c, w)) \/ (Loads /\ PointWrite(c, w))
    \/ (Scans /\ Tick) \/ (Scans /\ ScanLoad) \/ (Scans /\ ScanCheck) \/ (Scans /\ Judged)
    \/ (Scans /\ KillNobody) \/ (Scans /\ StillSeen) \/ (Scans /\ ChunkPassed) \/ (Scans /\ AskOldest)
    \/ \E C \in SUBSET Chunks : Scans /\ Advance(C)
    \/ \E t \in Tables : Scans /\ Judge(t)
    \/ \E c \in Chunks : (Scans /\ AskPassed(c)) \/ (Scans /\ CutOut(c))
    \/ \E s \in Slots, T \in SUBSET Tables : Scans /\ BeginHold(s, T)
    \/ \E s \in Slots :
          \/ (Scans /\ LoadEpoch(s)) \/ (Scans /\ StoreEpoch(s)) \/ (Scans /\ LoadClock(s))
          \/ (Scans /\ StoreSnapshot(s)) \/ (Scans /\ Agree(s)) \/ (Scans /\ Disagree(s))
          \/ (Scans /\ ResumeHold(s)) \/ (Scans /\ ResumeLoad(s)) \/ (Scans /\ ResumeStore(s))
          \/ (Scans /\ ResumeSnapshot(s)) \/ (Scans /\ EndSnapshot(s)) \/ (Scans /\ EndEpoch(s))
          \/ (Scans /\ Kill(s))

SnapshotsSpec == SnapshotsInit /\ [][SnapshotsNext]_snapshotVars

(* The clients of one behaviour run one of two loads: additions to a column *)
(* and sets of another, of one row, which a commit puts together, or sets   *)
(* and deletes by key of two rows, which a commit finds again.              *)
Write(s, r) == [op |-> s, row |-> r]
TwoLoads == {{Write(PointAdd("a"), 1), Write(PointSet("b"), 1)},
             {Write(s, r) : s \in {PointSet("b"), PointDelete}, r \in {1, 2}}}
InLoad(w, load) == \E v \in load : w \in {v, Planned(v)}

OneLoad ==
    \E load \in TwoLoads :
        /\ \A c \in Conns : plan[c] = NoWrite \/ InLoad(plan[c], load)
        /\ \A c \in Conns : \A w \in ToSet(did[c]) : InLoad(w, load)
        /\ \A e \in log : InLoad(Write(e.op, e.row), load)

OneEach == OneLoad /\ OneKind
=============================================================================
