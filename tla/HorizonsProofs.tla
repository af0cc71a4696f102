-------------------------- MODULE HorizonsProofs --------------------------
(***************************************************************************)
(* The collector's answers are safe for any number of workers, tables,      *)
(* chunks, commits and rounds: a snapshot somebody reads at is never taken  *)
(* for held by nobody, and no chunk is freed under a statement.             *)
(*                                                                          *)
(* Both are about a scan that has passed some of the slots.  The invariants *)
(* say what such a scan can no longer miss: a statement it should find is   *)
(* in a slot still ahead, or was found, or began after the question.        *)
(***************************************************************************)
EXTENDS Horizons, TLAPS

Begun == Again \cup {"running"}
Published == Begun \cup {"clock", "store", "reread"}
Places == Begun \cup {"away", "epoch", "publish", "clock", "store", "reread", "ending"}
Asks == {"nothing", "held", "kill", "passed"}
Questions ==
    [ask : Asks, of : Tables \cup Chunks \cup {Idle}, upto : Nat,
     slot : 1..(SlotCount + 1), seen : Nat \cup {Idle}, found : SUBSET (Nat \X Slots)]

HorizonTypes ==
    /\ commits \in Nat /\ epoch \in Nat
    /\ slotSnap \in [Slots -> Nat \cup {Idle}] /\ slotEpoch \in [Slots -> Nat \cup {Idle}]
    /\ reads \in [Slots -> SUBSET Tables] /\ killed \in [Slots -> Nat \cup {Idle}]
    /\ act \in [Slots -> Places] /\ loaded \in [Slots -> Nat] /\ reading \in [Slots -> Nat]
    /\ scan \in Questions /\ gone \in [Tables -> SUBSET Nat]
    /\ chunk \in [Chunks -> {"linked", "cut", "freed"}] /\ tag \in [Chunks -> Nat \cup {Idle}]
    /\ reach \in [Slots -> SUBSET Chunks]

(* The scan of snapshots has s ahead of it, or has found it. *)
WillHold(s) ==
    \/ scan.slot < s
    \/ scan.slot = s /\ scan.seen \in {Idle, reading[s]}
    \/ <<reading[s], s>> \in scan.found

SnapInv ==
    /\ \A t \in Tables : \A v \in gone[t] : v < commits
    /\ \A s \in Slots : act[s] \in Begun => slotSnap[s] = reading[s]
    /\ \A s \in Slots : act[s] = "reread" => slotSnap[s] = loaded[s]
    /\ scan.ask = "held" => scan.of \in Tables /\ scan.upto <= commits
    /\ \A s \in Slots :
          /\ scan.ask = "held" /\ act[s] \in Begun /\ scan.of \in reads[s]
          /\ reading[s] < scan.upto /\ killed[s] # reading[s]
          => WillHold(s)
    /\ KeptOrTold

(* The scan of epochs has s ahead of it, or has found somebody. *)
WillSee(s) ==
    \/ scan.slot < s
    \/ scan.slot = s /\ scan.seen \in {Idle, slotEpoch[s]}
    \/ scan.found # {}

EpochInv ==
    /\ \A s \in Slots : slotEpoch[s] # Idle => slotEpoch[s] <= epoch
    /\ \A s \in Slots : act[s] \in {"publish", "publish again"} => loaded[s] <= epoch
    /\ \A s \in Slots : act[s] \in Published => slotEpoch[s] # Idle
    /\ \A s \in Slots : \A c \in reach[s] :
          /\ act[s] = "running" /\ TableOf[c] \in reads[s]
          /\ tag[c] # Idle => slotEpoch[s] <= tag[c]
    /\ \A c \in Chunks : tag[c] # Idle => chunk[c] # "linked"
    /\ scan.ask = "passed" => scan.of \in Chunks /\ chunk[scan.of] = "cut" /\ tag[scan.of] # Idle
    /\ \A s \in Slots : scan.ask = "passed" /\ scan.of \in reach[s] => WillSee(s)
    /\ FreedUnseen

HorizonInv == HorizonTypes /\ SnapInv /\ EpochInv

(* A question is one of Questions, with the fields it is given. *)
LEMMA QuestionTyped ==
    \A ask \in Asks, of \in Tables \cup Chunks \cup {Idle}, upto \in Nat :
        LET q == Question(ask, of, upto)
        IN q \in Questions /\ q.ask = ask /\ q.of = of /\ q.upto = upto /\ q.slot = 1 /\ q.seen = Idle
  BY HorizonAssumption DEF Question, Questions

LEMMA TypeWorker == ASSUME HorizonTypes, NEW s \in Slots, WorkerStep(s) PROVE HorizonTypes'
<1>1. ASSUME NEW T \in SUBSET Tables, BeginHold(s, T) PROVE HorizonTypes'
  BY Zenon, <1>1 DEF HorizonTypes, Places, Begun, Again, BeginHold, Does, slotVars, stmtVars, chunkVars
<1>2. CASE LoadEpoch(s)
  BY Zenon, <1>2 DEF HorizonTypes, Places, Begun, Again, LoadEpoch, Does, slotVars, stmtVars, chunkVars
<1>3. CASE StoreEpoch(s)
  BY Zenon, <1>3 DEF HorizonTypes, Places, Begun, Again, StoreEpoch, Does, Forget, slotVars, stmtVars, chunkVars
<1>4. CASE LoadClock(s)
  BY Zenon, <1>4 DEF HorizonTypes, Places, Begun, Again, LoadClock, Does, slotVars, stmtVars, chunkVars
<1>5. CASE StoreSnapshot(s)
  BY Zenon, <1>5 DEF HorizonTypes, Places, Begun, Again, StoreSnapshot, Does, slotVars, stmtVars, chunkVars
<1>6. CASE Agree(s)
  BY Zenon, <1>6 DEF HorizonTypes, Places, Begun, Again, Agree, Does, Runs, Linked, Forget, slotVars, stmtVars, chunkVars
<1>7. CASE Disagree(s)
  BY Zenon, <1>7 DEF HorizonTypes, Places, Begun, Again, Disagree, Does, Forget, slotVars, stmtVars, chunkVars
<1>8. CASE ResumeHold(s)
  BY Zenon, <1>8 DEF HorizonTypes, Places, Begun, Again, ResumeHold, Does, slotVars, stmtVars, chunkVars
<1>9. CASE ResumeLoad(s)
  BY Zenon, <1>9 DEF HorizonTypes, Places, Begun, Again, ResumeLoad, Does, slotVars, stmtVars, chunkVars
<1>10. CASE ResumeStore(s)
  BY Zenon, <1>10 DEF HorizonTypes, Places, Begun, Again, ResumeStore, Does, Forget, slotVars, stmtVars, chunkVars
<1>11. CASE ResumeSnapshot(s)
  BY Zenon, <1>11 DEF HorizonTypes, Places, Begun, Again, ResumeSnapshot, Does, Runs, Linked, slotVars, stmtVars, chunkVars
<1>12. CASE EndSnapshot(s)
  BY Zenon, <1>12 DEF HorizonTypes, Places, Begun, Again, EndSnapshot, Does, slotVars, stmtVars, chunkVars
<1>13. CASE EndEpoch(s)
  BY Zenon, <1>13 DEF HorizonTypes, Places, Begun, Again, EndEpoch, Does, slotVars, stmtVars, chunkVars
<1> QED BY <1>1, <1>2, <1>3, <1>4, <1>5, <1>6, <1>7, <1>8, <1>9, <1>10, <1>11, <1>12, <1>13 DEF WorkerStep

(* What a worker's step may do to what the scan of snapshots looks at: its  *)
(* statement goes on as it was, or begins at the clock.                     *)
SnapStep(s) ==
    /\ commits' = commits /\ scan' = scan /\ gone' = gone
    /\ \A r \in Slots \ {s} :
          /\ act'[r] = act[r] /\ slotSnap'[r] = slotSnap[r] /\ reading'[r] = reading[r]
          /\ loaded'[r] = loaded[r] /\ reads'[r] = reads[r] /\ killed'[r] = killed[r]
    /\ act'[s] = "reread" => slotSnap'[s] = loaded'[s]
    /\ act'[s] \in Begun =>
          /\ slotSnap'[s] = reading'[s]
          /\ \/ reading'[s] = commits
             \/ /\ act[s] \in Begun /\ reading'[s] = reading[s] /\ reads'[s] = reads[s]
                /\ killed[s] = reading[s] => killed'[s] = reading[s]

LEMMA SnapStepKeeps == ASSUME HorizonTypes, HorizonTypes', SnapInv, NEW s \in Slots, SnapStep(s) PROVE SnapInv'
<1> USE DEF SnapInv, SnapStep, HorizonTypes
<1>1. \A t \in Tables : \A v \in gone'[t] : v < commits'
  OBVIOUS
<1>2. \A r \in Slots : act'[r] \in Begun => slotSnap'[r] = reading'[r]
  BY SMTT(40)
<1>3. \A r \in Slots : act'[r] = "reread" => slotSnap'[r] = loaded'[r]
  BY SMTT(40)
<1>4. scan.ask = "held" => scan.upto \in Nat /\ scan.upto <= commits
  BY DEF Questions
<1>5. ASSUME NEW r \in Slots, scan.ask = "held", act'[r] \in Begun, scan.of \in reads'[r],
             reading'[r] < scan.upto, killed'[r] # reading'[r]
      PROVE WillHold(r)'
  <2>1. reading'[r] # commits
    BY <1>4, <1>5
  <2>2. reading'[r] = reading[r] /\ act[r] \in Begun /\ scan.of \in reads[r] /\ killed[r] # reading[r]
    BY <1>5, <2>1
  <2> QED BY <1>5, <2>2 DEF WillHold
<1>6. KeptOrTold'
  BY SMTT(40) DEF KeptOrTold, Begun
<1> QED BY <1>1, <1>2, <1>3, <1>4, <1>5, <1>6

LEMMA SnapWorker == ASSUME HorizonTypes, SnapInv, NEW s \in Slots, WorkerStep(s) PROVE SnapStep(s)
<1>1. ASSUME NEW T \in SUBSET Tables, BeginHold(s, T) PROVE SnapStep(s)
  BY ZenonT(60), <1>1 DEF SnapStep, SnapInv, HorizonTypes, Begun, Again, BeginHold, Does, slotVars, stmtVars, chunkVars
<1>2. CASE LoadEpoch(s)
  BY Zenon, <1>2 DEF SnapStep, SnapInv, HorizonTypes, Begun, Again, LoadEpoch, Does, slotVars, stmtVars, chunkVars
<1>3. CASE StoreEpoch(s)
  BY Zenon, <1>3 DEF SnapStep, SnapInv, HorizonTypes, Begun, Again, StoreEpoch, Does, Forget, slotVars, stmtVars, chunkVars
<1>4. CASE LoadClock(s)
  BY Zenon, <1>4 DEF SnapStep, SnapInv, HorizonTypes, Begun, Again, LoadClock, Does, slotVars, stmtVars, chunkVars
<1>5. CASE StoreSnapshot(s)
  BY Zenon, <1>5 DEF SnapStep, SnapInv, HorizonTypes, Begun, Again, StoreSnapshot, Does, slotVars, stmtVars, chunkVars
<1>6. CASE Agree(s)
  BY Zenon, <1>6 DEF SnapStep, SnapInv, HorizonTypes, Begun, Again, Agree, Does, Runs, Linked, Forget, slotVars, stmtVars, chunkVars
<1>7. CASE Disagree(s)
  BY Zenon, <1>7 DEF SnapStep, SnapInv, HorizonTypes, Begun, Again, Disagree, Does, Forget, slotVars, stmtVars, chunkVars
<1>8. CASE ResumeHold(s)
  BY Zenon, <1>8 DEF SnapStep, SnapInv, HorizonTypes, Begun, Again, ResumeHold, Does, slotVars, stmtVars, chunkVars
<1>9. CASE ResumeLoad(s)
  BY Zenon, <1>9 DEF SnapStep, SnapInv, HorizonTypes, Begun, Again, ResumeLoad, Does, slotVars, stmtVars, chunkVars
<1>10. CASE ResumeStore(s)
  BY Zenon, <1>10 DEF SnapStep, SnapInv, HorizonTypes, Begun, Again, ResumeStore, Does, Forget, slotVars, stmtVars, chunkVars
<1>11. CASE ResumeSnapshot(s)
  BY Zenon, <1>11 DEF SnapStep, SnapInv, HorizonTypes, Begun, Again, ResumeSnapshot, Does, Runs, Linked, slotVars, stmtVars, chunkVars
<1>12. CASE EndSnapshot(s)
  BY ZenonT(60), <1>12 DEF SnapStep, SnapInv, HorizonTypes, Begun, Again, EndSnapshot, Does, slotVars, stmtVars, chunkVars
<1>13. CASE EndEpoch(s)
  BY Zenon, <1>13 DEF SnapStep, SnapInv, HorizonTypes, Begun, Again, EndEpoch, Does, slotVars, stmtVars, chunkVars
<1> QED BY <1>1, <1>2, <1>3, <1>4, <1>5, <1>6, <1>7, <1>8, <1>9, <1>10, <1>11, <1>12, <1>13 DEF WorkerStep

(* What a worker's step may do to what the scan of epochs looks at: its     *)
(* statement sees what it saw, or only chunks that are linked.              *)
EpochStep(s) ==
    /\ epoch' = epoch /\ scan' = scan /\ chunk' = chunk /\ tag' = tag
    /\ \A r \in Slots \ {s} :
          /\ act'[r] = act[r] /\ slotEpoch'[r] = slotEpoch[r] /\ loaded'[r] = loaded[r]
          /\ reads'[r] = reads[r] /\ reach'[r] = reach[r]
    /\ slotEpoch'[s] # Idle => slotEpoch'[s] <= epoch
    /\ act'[s] \in {"publish", "publish again"} => loaded'[s] <= epoch
    /\ act'[s] \in Published => slotEpoch'[s] # Idle
    /\ \A c \in reach'[s] :
          /\ act'[s] = "running" /\ chunk[c] = "linked" /\ TableOf[c] \in reads'[s]

LEMMA EpochStepKeeps == ASSUME HorizonTypes, HorizonTypes', EpochInv, NEW s \in Slots, EpochStep(s) PROVE EpochInv'
<1> USE DEF EpochInv, EpochStep, HorizonTypes
<1>1. \A r \in Slots : slotEpoch'[r] # Idle => slotEpoch'[r] <= epoch'
  BY ZenonT(60)
<1>2. \A r \in Slots : act'[r] \in {"publish", "publish again"} => loaded'[r] <= epoch'
  BY Zenon
<1>3. \A r \in Slots : act'[r] \in Published => slotEpoch'[r] # Idle
  <2>1. \A r \in Slots \ {s} : act[r] \in Published => slotEpoch[r] # Idle
    BY Zenon
  <2> QED BY ZenonT(60), <2>1
<1>4. \A r \in Slots : \A c \in reach'[r] :
        /\ act'[r] = "running" /\ TableOf[c] \in reads'[r]
        /\ tag'[c] # Idle => slotEpoch'[r] <= tag'[c]
  <2>1. \A c \in reach'[s] : c \in Chunks /\ tag[c] = Idle
    BY ZenonT(60)
  <2>2. \A r \in Slots \ {s} : \A c \in reach[r] :
          /\ act[r] = "running" /\ TableOf[c] \in reads[r]
          /\ tag[c] # Idle => slotEpoch[r] <= tag[c]
    BY Zenon
  <2> QED BY ZenonT(60), <2>1, <2>2
<1>5. \A r \in Slots : scan.ask = "passed" /\ scan.of \in reach'[r] => WillSee(r)'
  BY Zenon DEF WillSee
<1>6. FreedUnseen'
  <2>1. \A c \in reach'[s] : chunk[c] # "freed"
    BY Zenon
  <2>2. \A r \in Slots \ {s} : \A c \in reach[r] : chunk[c] # "freed"
    BY Zenon DEF FreedUnseen
  <2> QED BY ZenonT(60), <2>1, <2>2 DEF FreedUnseen
<1> QED BY ZenonT(60), <1>1, <1>2, <1>3, <1>4, <1>5, <1>6

LEMMA EpochWorker == ASSUME HorizonTypes, EpochInv, NEW s \in Slots, WorkerStep(s) PROVE EpochStep(s)
<1>1. ASSUME NEW T \in SUBSET Tables, BeginHold(s, T) PROVE EpochStep(s)
  BY Zenon, <1>1, HorizonAssumption DEF EpochStep, EpochInv, HorizonTypes, Published, Begun, Again, BeginHold, Does, slotVars, stmtVars, chunkVars
<1>2. CASE LoadEpoch(s)
  <2>1. reach[s] = {}
    BY Zenon, <1>2 DEF LoadEpoch, Does, EpochInv, HorizonTypes
  <2>2. slotEpoch'[s] = slotEpoch[s] /\ loaded'[s] = epoch /\ epoch \in Nat
    BY <1>2 DEF LoadEpoch, Does, slotVars, HorizonTypes
  <2>3. act'[s] \in Published => act[s] \in Published
    BY <1>2 DEF LoadEpoch, Does, HorizonTypes, Published, Begun, Again
  <2>4. slotEpoch'[s] # Idle => slotEpoch'[s] <= epoch
    BY Zenon, <2>2 DEF EpochInv
  <2>5. loaded'[s] <= epoch
    BY <2>2
  <2>6. act'[s] \in Published => slotEpoch'[s] # Idle
    BY Zenon, <2>2, <2>3 DEF EpochInv
  <2> QED BY <1>2, <2>1, <2>4, <2>5, <2>6 DEF EpochStep, HorizonTypes, LoadEpoch, Does, slotVars, stmtVars, chunkVars
<1>3. CASE StoreEpoch(s)
  <2>1. reach[s] = {}
    BY Zenon, <1>3 DEF StoreEpoch, Does, EpochInv, HorizonTypes
  <2>2. loaded[s] \in Nat /\ loaded[s] <= epoch /\ slotEpoch'[s] = loaded[s]
    BY Zenon, <1>3 DEF StoreEpoch, Does, EpochInv, HorizonTypes
  <2>3. act'[s] \notin {"publish", "publish again"}
    BY <1>3 DEF StoreEpoch, Does, HorizonTypes
  <2> QED BY ZenonT(60), <1>3, <2>1, <2>2, <2>3, HorizonAssumption DEF EpochStep, EpochInv, HorizonTypes, StoreEpoch, Does, Forget, slotVars, stmtVars, chunkVars
<1>4. CASE LoadClock(s)
  BY ZenonT(60), <1>4, HorizonAssumption DEF EpochStep, EpochInv, HorizonTypes, Published, Begun, Again, LoadClock, Does, slotVars, stmtVars, chunkVars
<1>5. CASE StoreSnapshot(s)
  BY Zenon, <1>5, HorizonAssumption DEF EpochStep, EpochInv, HorizonTypes, Published, Begun, Again, StoreSnapshot, Does, slotVars, stmtVars, chunkVars
<1>6. CASE Agree(s)
  BY ZenonT(60), <1>6, HorizonAssumption DEF EpochStep, EpochInv, HorizonTypes, Published, Begun, Again, Agree, Does, Runs, Linked, Forget, slotVars, stmtVars, chunkVars
<1>7. CASE Disagree(s)
  BY ZenonT(60), <1>7, HorizonAssumption DEF EpochStep, EpochInv, HorizonTypes, Published, Begun, Again, Disagree, Does, Forget, slotVars, stmtVars, chunkVars
<1>8. CASE ResumeHold(s)
  BY ZenonT(60), <1>8, HorizonAssumption DEF EpochStep, EpochInv, HorizonTypes, Published, Begun, Again, ResumeHold, Does, slotVars, stmtVars, chunkVars
<1>9. CASE ResumeLoad(s)
  <2>1. reach[s] = {}
    BY Zenon, <1>9 DEF ResumeLoad, Does, EpochInv, HorizonTypes
  <2>2. slotEpoch'[s] = slotEpoch[s] /\ loaded'[s] = epoch /\ epoch \in Nat
    BY Zenon, <1>9 DEF ResumeLoad, Does, slotVars, HorizonTypes
  <2>3. act'[s] \in Published => act[s] \in Published
    BY Zenon, <1>9 DEF ResumeLoad, Does, HorizonTypes, Published, Begun, Again
  <2>4. slotEpoch'[s] # Idle => slotEpoch'[s] <= epoch
    BY Zenon, <2>2 DEF EpochInv
  <2>5. loaded'[s] <= epoch
    BY <2>2
  <2>6. act'[s] \in Published => slotEpoch'[s] # Idle
    BY Zenon, <2>2, <2>3 DEF EpochInv
  <2> QED BY Zenon, <1>9, <2>1, <2>4, <2>5, <2>6 DEF EpochStep, HorizonTypes, ResumeLoad, Does, slotVars, stmtVars, chunkVars
<1>10. CASE ResumeStore(s)
  <2>1. reach[s] = {}
    BY Zenon, <1>10 DEF ResumeStore, Does, EpochInv, HorizonTypes
  <2>2. loaded[s] \in Nat /\ loaded[s] <= epoch /\ slotEpoch'[s] = loaded[s]
    BY Zenon, <1>10 DEF ResumeStore, Does, EpochInv, HorizonTypes
  <2>3. act'[s] \notin {"publish", "publish again"}
    BY Zenon, <1>10 DEF ResumeStore, Does, HorizonTypes
  <2> QED BY ZenonT(60), <1>10, <2>1, <2>2, <2>3, HorizonAssumption DEF EpochStep, EpochInv, HorizonTypes, ResumeStore, Does, Forget, slotVars, stmtVars, chunkVars
<1>11. CASE ResumeSnapshot(s)
  BY ZenonT(60), <1>11, HorizonAssumption DEF EpochStep, EpochInv, HorizonTypes, Published, Begun, Again, ResumeSnapshot, Does, Runs, Linked, slotVars, stmtVars, chunkVars
<1>12. CASE EndSnapshot(s)
  BY ZenonT(60), <1>12, HorizonAssumption DEF EpochStep, EpochInv, HorizonTypes, Published, Begun, Again, EndSnapshot, Does, slotVars, stmtVars, chunkVars
<1>13. CASE EndEpoch(s)
  BY ZenonT(60), <1>13, HorizonAssumption DEF EpochStep, EpochInv, HorizonTypes, Published, Begun, Again, EndEpoch, Does, slotVars, stmtVars, chunkVars
<1> QED BY <1>1, <1>2, <1>3, <1>4, <1>5, <1>6, <1>7, <1>8, <1>9, <1>10, <1>11, <1>12, <1>13 DEF WorkerStep

(* The two steps of a scan: a slot is loaded, and passed if it is idle; or  *)
(* what it held is counted and it is passed.                                *)
LEMMA LoadMoves ==
    ASSUME HorizonTypes, ScanLoad
    PROVE  /\ scan' \in Questions /\ scan'.ask = scan.ask /\ scan'.of = scan.of /\ scan'.upto = scan.upto
           /\ scan'.found = scan.found /\ scan.slot \in Slots /\ scan.seen = Idle
           /\ LET v == IF scan.ask = "passed" THEN slotEpoch[scan.slot] ELSE slotSnap[scan.slot]
              IN \/ v = Idle /\ scan'.slot = scan.slot + 1 /\ scan'.seen = Idle
                 \/ v # Idle /\ scan'.slot = scan.slot /\ scan'.seen = v
<1> DEFINE v == IF scan.ask = "passed" THEN slotEpoch[scan.slot] ELSE slotSnap[scan.slot]
<1>1. scan \in Questions /\ scan.slot \in Slots /\ scan.seen = Idle
  BY DEF ScanLoad, Scanning, HorizonTypes
<1>2. v \in Nat \cup {Idle}
  BY <1>1 DEF HorizonTypes
<1>3. scan' = IF v = Idle THEN [scan EXCEPT !.slot = @ + 1] ELSE [scan EXCEPT !.seen = v]
  BY DEF ScanLoad
<1> HIDE DEF v
<1>4. CASE v = Idle
  <2>1. scan' = [scan EXCEPT !.slot = scan.slot + 1] /\ scan.slot + 1 \in 1..(SlotCount + 1)
    BY <1>1, <1>3, <1>4, HorizonAssumption DEF Slots
  <2> QED BY <1>1, <1>4, <2>1 DEF Questions, v
<1>5. CASE v # Idle
  <2>1. scan' = [scan EXCEPT !.seen = v]
    BY <1>3, <1>5
  <2> QED BY <1>1, <1>2, <1>5, <2>1 DEF Questions, v
<1> QED BY <1>4, <1>5

LEMMA CheckMoves ==
    ASSUME HorizonTypes, ScanCheck
    PROVE  /\ scan' \in Questions /\ scan'.ask = scan.ask /\ scan'.of = scan.of /\ scan'.upto = scan.upto
           /\ scan.slot \in Slots /\ scan.seen \in Nat /\ scan'.slot = scan.slot + 1 /\ scan'.seen = Idle
           /\ \A f \in scan.found : f \in scan'.found
           /\ Counts(scan.slot, scan.seen) => <<scan.seen, scan.slot>> \in scan'.found
<1> DEFINE f == IF Counts(scan.slot, scan.seen) THEN scan.found \cup {<<scan.seen, scan.slot>>} ELSE scan.found
<1>1. scan \in Questions /\ scan.slot \in Slots /\ scan.seen \in Nat
  BY DEF ScanCheck, Scanning, HorizonTypes, Questions
<1>2. scan.slot + 1 \in 1..(SlotCount + 1)
  BY <1>1, HorizonAssumption DEF Slots
<1>3. scan.found \in SUBSET (Nat \X Slots) /\ <<scan.seen, scan.slot>> \in Nat \X Slots
  BY <1>1 DEF Questions
<1>4. f \in SUBSET (Nat \X Slots)
  BY <1>3
<1>5. scan' = [scan EXCEPT !.slot = scan.slot + 1, !.seen = Idle, !.found = f]
  BY DEF ScanCheck
<1>6. /\ \A g \in scan.found : g \in f
      /\ Counts(scan.slot, scan.seen) => <<scan.seen, scan.slot>> \in f
  OBVIOUS
<1> HIDE DEF f
<1>7. scan' \in Questions /\ scan'.found = f /\ scan'.ask = scan.ask /\ scan'.of = scan.of /\ scan'.upto = scan.upto
      /\ scan'.slot = scan.slot + 1 /\ scan'.seen = Idle
  BY Zenon, <1>1, <1>2, <1>4, <1>5 DEF Questions
<1> QED BY <1>1, <1>6, <1>7

LEMMA NothingAsked == NoScan \in Questions /\ NoScan.ask = "nothing"
  BY HorizonAssumption DEF NoScan, Question, Questions, Asks

LEMMA TypeCollector == ASSUME HorizonTypes, CollectorStep PROVE HorizonTypes'
<1> USE DEF HorizonTypes, slotVars, stmtVars, chunkVars
<1>1. CASE ScanLoad
  BY <1>1, LoadMoves DEF ScanLoad
<1>2. CASE ScanCheck
  BY <1>2, CheckMoves DEF ScanCheck
<1>3. CASE Judged
  <2>1. scan.upto \in Nat
    BY DEF Questions
  <2>2. {v \in 0..(scan.upto - 1) : \A f \in scan.found : f[1] # v} \in SUBSET Nat
    BY <2>1
  <2>3. gone' \in [Tables -> SUBSET Nat]
    BY Zenon, <1>3, <2>2 DEF Judged
  <2> QED BY <1>3, <2>3, NothingAsked DEF Judged, Scanned
<1>4. CASE KillNobody \/ StillSeen
  BY <1>4, NothingAsked DEF KillNobody, StillSeen, Scanned
<1>5. CASE ChunkPassed
  BY Zenon, <1>5, NothingAsked DEF ChunkPassed, Scanned
<1>6. CASE AskOldest
  BY Zenon, <1>6, QuestionTyped DEF AskOldest, Ask, Asks
<1>7. ASSUME NEW C \in SUBSET Chunks, Advance(C) PROVE HorizonTypes'
  BY <1>7 DEF Advance
<1>8. ASSUME NEW t \in Tables, Judge(t) PROVE HorizonTypes'
  BY <1>8, QuestionTyped DEF Judge, Ask, Asks
<1>9. ASSUME NEW c \in Chunks, AskPassed(c) PROVE HorizonTypes'
  BY <1>9, QuestionTyped DEF AskPassed, Ask, Asks
<1>10. ASSUME NEW c \in Chunks, CutOut(c) PROVE HorizonTypes'
  BY <1>10 DEF CutOut
<1>11. ASSUME NEW s \in Slots, Kill(s) PROVE HorizonTypes'
  BY <1>11, NothingAsked DEF Kill, Scanned
<1> QED BY Zenon, <1>1, <1>2, <1>3, <1>4, <1>5, <1>6, <1>7, <1>8, <1>9, <1>10, <1>11 DEF CollectorStep

(* The collector's steps other than Judged and Kill leave gone and killed   *)
(* alone: only the scan is to be looked at.                                 *)
LEMMA SnapScanKeeps ==
    ASSUME HorizonTypes, SnapInv, UNCHANGED <<commits, slotSnap, reads, killed, act, loaded, reading, gone>>,
           scan'.ask = "held" => scan'.of \in Tables /\ scan'.upto <= commits,
           \A s \in Slots :
              /\ scan'.ask = "held" /\ act[s] \in Begun /\ scan'.of \in reads[s]
              /\ reading[s] < scan'.upto /\ killed[s] # reading[s]
              => WillHold(s)'
    PROVE  SnapInv'
  BY DEF SnapInv, KeptOrTold

LEMMA SnapCollector == ASSUME HorizonTypes, SnapInv, CollectorStep PROVE SnapInv'
<1> USE DEF slotVars, stmtVars
<1> DEFINE Due(s) == /\ scan.ask = "held" /\ act[s] \in Begun /\ scan.of \in reads[s]
                     /\ reading[s] < scan.upto /\ killed[s] # reading[s]
<1>1. CASE ScanLoad
  <2>1. UNCHANGED <<commits, slotSnap, reads, killed, act, loaded, reading, gone>>
    BY <1>1 DEF ScanLoad
  <2>2. ASSUME NEW s \in Slots, Due(s) PROVE WillHold(s)'
    <3>1. WillHold(s) /\ slotSnap[s] = reading[s] /\ reading[s] \in Nat /\ scan.slot \in Nat /\ s \in Nat
      BY SMTT(40), <2>2 DEF SnapInv, HorizonTypes, Questions, Slots
    <3>2. CASE scan.slot < s
      BY <1>1, <2>1, <3>1, <3>2, LoadMoves DEF WillHold
    <3>3. CASE scan.slot = s
      BY <1>1, <2>1, <2>2, <3>1, <3>3, LoadMoves, HorizonAssumption DEF WillHold
    <3>4. CASE <<reading[s], s>> \in scan.found
      BY <1>1, <2>1, <3>4, LoadMoves DEF WillHold
    <3> QED BY <3>1, <3>2, <3>3, <3>4 DEF WillHold
  <2> QED BY Zenon, <1>1, <2>1, <2>2, LoadMoves, SnapScanKeeps DEF SnapInv
<1>2. CASE ScanCheck
  <2>1. UNCHANGED <<commits, slotSnap, reads, killed, act, loaded, reading, gone>>
    BY <1>2 DEF ScanCheck
  <2>2. ASSUME NEW s \in Slots, Due(s) PROVE WillHold(s)'
    <3>1. WillHold(s) /\ reading[s] \in Nat /\ scan.slot \in Nat /\ s \in Nat
      BY <2>2 DEF SnapInv, HorizonTypes, Questions, Slots
    <3>2. CASE scan.slot < s
      BY <1>2, <2>1, <3>1, <3>2, CheckMoves DEF WillHold
    <3>3. CASE scan.slot = s /\ scan.seen \in {Idle, reading[s]}
      <4>1. scan.seen = reading[s]
        BY <1>2, <3>3, CheckMoves, HorizonAssumption
      <4>2. Counts(scan.slot, scan.seen)
        BY <2>2, <3>3, <4>1 DEF Counts
      <4> QED BY <1>2, <2>1, <3>3, <4>1, <4>2, CheckMoves DEF WillHold
    <3>4. CASE <<reading[s], s>> \in scan.found
      BY <1>2, <2>1, <3>4, CheckMoves DEF WillHold
    <3> QED BY <3>1, <3>2, <3>3, <3>4 DEF WillHold
  <2> QED BY <1>2, <2>1, <2>2, CheckMoves, SnapScanKeeps DEF SnapInv
<1>3. CASE Judged
  <2>1. /\ UNCHANGED <<commits, slotSnap, reads, killed, act, loaded, reading>> /\ scan'.ask = "nothing"
        /\ scan.ask = "held" /\ scan.slot \notin Slots
    BY <1>3, NothingAsked DEF Judged, Scanned
  <2>2. scan.of \in Tables /\ scan.upto <= commits /\ scan.upto \in Nat /\ scan.slot \in Nat /\ commits \in Nat
    BY <2>1 DEF SnapInv, HorizonTypes, Questions
  <2>3. \A t \in Tables : \A v \in gone'[t] :
          \/ v \in gone[t]
          \/ t = scan.of /\ v < scan.upto /\ v < commits /\ \A f \in scan.found : f[1] # v
    BY <1>3, <2>2 DEF Judged, HorizonTypes
  <2>4. \A t \in Tables : \A v \in gone'[t] : v < commits
    BY <2>3 DEF SnapInv
  <2>5. ASSUME NEW s \in Slots, NEW t \in Tables, act[s] \in Begun, t \in reads[s], reading[s] \in gone'[t]
        PROVE killed[s] = reading[s]
    <3>1. CASE reading[s] \in gone[t]
      BY <2>5, <3>1 DEF SnapInv, KeptOrTold, Begun
    <3>2. CASE reading[s] \notin gone[t]
      <4>1. t = scan.of /\ reading[s] < scan.upto /\ <<reading[s], s>> \notin scan.found
        BY <2>3, <2>5, <3>2
      <4>2. ~(scan.slot < s) /\ scan.slot # s
        BY <2>1, <2>2, HorizonAssumption DEF HorizonTypes, Questions, Slots
      <4> QED BY <2>1, <2>5, <4>1, <4>2 DEF SnapInv, WillHold
    <3> QED BY <3>1, <3>2
  <2>6. KeptOrTold'
    BY <2>1, <2>5 DEF KeptOrTold, Begun
  <2> QED BY <2>1, <2>4, <2>6 DEF SnapInv
<1>4. CASE KillNobody \/ StillSeen \/ ChunkPassed \/ AskOldest
  <2>1. UNCHANGED <<commits, slotSnap, reads, killed, act, loaded, reading, gone>> /\ scan'.ask # "held"
    BY <1>4, NothingAsked, QuestionTyped DEF KillNobody, StillSeen, ChunkPassed, AskOldest, Scanned, Ask, Asks
  <2> QED BY <2>1, SnapScanKeeps
<1>5. ASSUME NEW C \in SUBSET Chunks, Advance(C) PROVE SnapInv'
  BY <1>5 DEF Advance, SnapInv, KeptOrTold, WillHold
<1>6. ASSUME NEW t \in Tables, Judge(t) PROVE SnapInv'
  <2>1. UNCHANGED <<commits, slotSnap, reads, killed, act, loaded, reading, gone>> /\ scan' = Question("held", t, commits)
    BY <1>6 DEF Judge, Ask
  <2>2. commits \in Nat /\ scan'.of \in Tables /\ scan'.upto = commits /\ scan'.slot = 1 /\ scan'.seen = Idle
    BY <2>1, QuestionTyped DEF HorizonTypes, Asks
  <2>3. \A s \in Slots : WillHold(s)'
    BY <2>2 DEF WillHold, Slots
  <2> QED BY <2>1, <2>2, <2>3, SnapScanKeeps
<1>7. ASSUME NEW c \in Chunks, AskPassed(c) PROVE SnapInv'
  <2>1. UNCHANGED <<commits, slotSnap, reads, killed, act, loaded, reading, gone>> /\ scan'.ask # "held"
    BY <1>7, QuestionTyped DEF AskPassed, Ask, Asks
  <2> QED BY <2>1, SnapScanKeeps
<1>8. ASSUME NEW c \in Chunks, CutOut(c) PROVE SnapInv'
  BY <1>8 DEF CutOut, SnapInv, KeptOrTold, WillHold
<1>9. ASSUME NEW s \in Slots, Kill(s) PROVE SnapInv'
  <2>1. UNCHANGED <<commits, slotSnap, reads, act, loaded, reading, gone>> /\ scan'.ask = "nothing"
    BY <1>9, NothingAsked DEF Kill, Scanned
  <2>2. \A r \in Slots : act[r] \in Begun /\ killed[r] = reading[r] => killed'[r] = reading[r]
    BY <1>9 DEF Kill, SnapInv, HorizonTypes
  <2>3. KeptOrTold'
    BY Zenon, <2>1, <2>2 DEF SnapInv, KeptOrTold, Begun
  <2> QED BY <2>1, <2>3 DEF SnapInv
<1> QED BY <1>1, <1>2, <1>3, <1>4, <1>5, <1>6, <1>7, <1>8, <1>9 DEF CollectorStep

(* The collector's steps that leave the chunks alone. *)
LEMMA EpochScanKeeps ==
    ASSUME EpochInv, UNCHANGED <<epoch, slotEpoch, act, loaded, reads, reach, chunk, tag>>,
           scan'.ask = "passed" => scan'.of \in Chunks /\ chunk[scan'.of] = "cut" /\ tag[scan'.of] # Idle,
           \A s \in Slots : scan'.ask = "passed" /\ scan'.of \in reach[s] => WillSee(s)'
    PROVE  EpochInv'
  BY Zenon DEF EpochInv, FreedUnseen

LEMMA EpochCollector == ASSUME HorizonTypes, EpochInv, CollectorStep PROVE EpochInv'
<1> USE DEF slotVars, stmtVars, chunkVars
<1> DEFINE Due(s) == scan.ask = "passed" /\ scan.of \in reach[s]
<1>1. CASE ScanLoad
  <2>1. UNCHANGED <<epoch, slotEpoch, act, loaded, reads, reach, chunk, tag>>
    BY <1>1 DEF ScanLoad
  <2>2. ASSUME NEW s \in Slots, Due(s) PROVE WillSee(s)'
    <3>1. WillSee(s) /\ slotEpoch[s] # Idle /\ scan.slot \in Nat /\ s \in Nat
      <4>1. act[s] = "running" /\ WillSee(s)
        BY Zenon, <2>2 DEF EpochInv
      <4>2. slotEpoch[s] # Idle
        BY Zenon, <4>1 DEF EpochInv, Published, Begun
      <4>3. scan.slot \in Nat /\ s \in Nat
        BY DEF HorizonTypes, Questions, Slots
      <4> QED BY <4>1, <4>2, <4>3
    <3>2. CASE scan.slot < s
      BY <1>1, <2>1, <3>1, <3>2, LoadMoves DEF WillSee
    <3>3. CASE scan.slot = s
      BY <1>1, <2>1, <2>2, <3>1, <3>3, LoadMoves DEF WillSee
    <3>4. CASE scan.found # {}
      BY <1>1, <2>1, <3>4, LoadMoves DEF WillSee
    <3> QED BY Zenon, <3>1, <3>2, <3>3, <3>4 DEF WillSee
  <2> QED BY Zenon, <1>1, <2>1, <2>2, LoadMoves, EpochScanKeeps DEF EpochInv
<1>2. CASE ScanCheck
  <2>1. UNCHANGED <<epoch, slotEpoch, act, loaded, reads, reach, chunk, tag>>
    BY <1>2 DEF ScanCheck
  <2>2. ASSUME NEW s \in Slots, Due(s) PROVE WillSee(s)'
    <3>1. WillSee(s) /\ scan.slot \in Nat /\ s \in Nat
      <4>1. WillSee(s)
        BY Zenon, <2>2 DEF EpochInv
      <4>2. scan.slot \in Nat /\ s \in Nat
        BY DEF HorizonTypes, Questions, Slots
      <4> QED BY <4>1, <4>2
    <3>2. CASE scan.slot < s
      BY <1>2, <2>1, <3>1, <3>2, CheckMoves DEF WillSee
    <3>3. CASE scan.slot = s /\ scan.seen \in {Idle, slotEpoch[s]}
      <4>1. scan.seen = slotEpoch[s]
        BY <1>2, <3>3, CheckMoves, HorizonAssumption
      <4>2. Counts(scan.slot, scan.seen)
        BY Zenon, <2>2, <3>3, <4>1 DEF Counts, EpochInv
      <4> QED BY <1>2, <4>2, CheckMoves DEF WillSee
    <3>4. CASE scan.found # {}
      BY <1>2, <3>4, CheckMoves DEF WillSee
    <3> QED BY <3>1, <3>2, <3>3, <3>4 DEF WillSee
  <2> QED BY Zenon, <1>2, <2>1, <2>2, CheckMoves, EpochScanKeeps DEF EpochInv
<1>3. CASE Judged \/ KillNobody \/ StillSeen \/ AskOldest
  <2>1. UNCHANGED <<epoch, slotEpoch, act, loaded, reads, reach, chunk, tag>> /\ scan'.ask # "passed"
    BY <1>3, NothingAsked, QuestionTyped DEF Judged, KillNobody, StillSeen, AskOldest, Scanned, Ask, Asks
  <2> QED BY <2>1, EpochScanKeeps
<1>4. CASE ChunkPassed
  <2>1. /\ UNCHANGED <<epoch, slotEpoch, act, loaded, reads, reach, tag>> /\ scan'.ask = "nothing"
        /\ scan.ask = "passed" /\ scan.slot \notin Slots /\ scan.found = {}
        /\ chunk' = [chunk EXCEPT ![scan.of] = "freed"]
    BY <1>4, NothingAsked DEF ChunkPassed, Scanned
  <2>2. ASSUME NEW s \in Slots PROVE scan.of \notin reach[s]
    <3>1. ~(scan.slot < s) /\ scan.slot # s
      BY <2>1, HorizonAssumption DEF HorizonTypes, Questions, Slots
    <3> QED BY Zenon, <2>1, <3>1 DEF EpochInv, WillSee
  <2>3. \A c \in Chunks : chunk'[c] = chunk[c] \/ (c = scan.of /\ chunk'[c] = "freed")
    BY <2>1 DEF HorizonTypes
  <2>4. FreedUnseen'
    <3>1. \A s \in Slots : reach[s] \subseteq Chunks
      BY DEF HorizonTypes
    <3>2. \A s \in Slots : \A c \in reach[s] : chunk[c] # "freed"
      BY Zenon DEF EpochInv, FreedUnseen
    <3> QED BY Zenon, <2>1, <2>2, <2>3, <3>1, <3>2 DEF FreedUnseen
  <2> QED BY ZenonT(60), <2>1, <2>3, <2>4 DEF EpochInv
<1>5. ASSUME NEW C \in SUBSET Chunks, Advance(C) PROVE EpochInv'
  <2>1. /\ UNCHANGED <<slotEpoch, act, loaded, reads, reach, chunk, scan>> /\ scan.ask = "nothing"
        /\ epoch' = epoch + 1
        /\ \A c \in Chunks : \/ tag'[c] = tag[c]
                             \/ chunk[c] = "cut" /\ tag'[c] = epoch
    BY <1>5 DEF Advance
  <2>2. \A s \in Slots : slotEpoch'[s] # Idle => slotEpoch'[s] <= epoch'
    <3>1. \A s \in Slots : slotEpoch[s] # Idle => slotEpoch[s] \in Nat /\ slotEpoch[s] <= epoch
      <4>1. slotEpoch \in [Slots -> Nat \cup {Idle}]
        BY Zenon DEF HorizonTypes
      <4>2. \A s \in Slots : slotEpoch[s] # Idle => slotEpoch[s] <= epoch
        BY Zenon DEF EpochInv
      <4> QED BY <4>1, <4>2
    <3>2. epoch \in Nat
      BY DEF HorizonTypes
    <3> QED BY <2>1, <3>1, <3>2
  <2>3. \A s \in Slots : act'[s] \in {"publish", "publish again"} => loaded'[s] <= epoch'
    <3>1. \A s \in Slots : act[s] \in {"publish", "publish again"} => loaded[s] <= epoch
      BY Zenon DEF EpochInv
    <3>2. epoch \in Nat /\ \A s \in Slots : loaded[s] \in Nat
      BY DEF HorizonTypes
    <3>3. ASSUME NEW s \in Slots, act[s] \in {"publish", "publish again"} PROVE loaded[s] <= epoch + 1
      <4>1. loaded[s] \in Nat /\ epoch \in Nat /\ loaded[s] <= epoch
        BY Zenon, <3>1, <3>2, <3>3
      <4> QED BY <4>1
    <3>4. act' = act /\ loaded' = loaded /\ epoch' = epoch + 1
      BY <2>1
    <3> QED BY Zenon, <3>3, <3>4
  <2>4. ASSUME NEW s \in Slots, NEW c \in reach[s]
        PROVE /\ act[s] = "running" /\ TableOf[c] \in reads[s]
              /\ tag'[c] # Idle => slotEpoch[s] <= tag'[c]
    <3>1. c \in Chunks /\ act[s] = "running" /\ TableOf[c] \in reads[s]
      BY Zenon DEF EpochInv, HorizonTypes
    <3>2. slotEpoch[s] # Idle /\ slotEpoch[s] <= epoch
      BY Zenon, <3>1 DEF EpochInv, Published, Begun
    <3> QED BY Zenon, <2>1, <3>1, <3>2 DEF EpochInv
  <2>5. \A c \in Chunks : tag'[c] # Idle => chunk[c] # "linked"
    BY Zenon, <2>1 DEF EpochInv
  <2>6. FreedUnseen'
    BY Zenon, <2>1 DEF EpochInv, FreedUnseen
  <2>7. \A s \in Slots : act[s] \in Published => slotEpoch[s] # Idle
    BY Zenon DEF EpochInv
  <2> QED BY Zenon, <2>1, <2>2, <2>3, <2>4, <2>5, <2>6, <2>7 DEF EpochInv
<1>6. ASSUME NEW t \in Tables, Judge(t) PROVE EpochInv'
  <2>1. UNCHANGED <<epoch, slotEpoch, act, loaded, reads, reach, chunk, tag>> /\ scan'.ask # "passed"
    BY <1>6, QuestionTyped DEF Judge, Ask, Asks, HorizonTypes
  <2> QED BY <2>1, EpochScanKeeps
<1>7. ASSUME NEW c \in Chunks, AskPassed(c) PROVE EpochInv'
  <2>1. UNCHANGED <<epoch, slotEpoch, act, loaded, reads, reach, chunk, tag>>
    BY Zenon, <1>7 DEF AskPassed, Ask
  <2>2. scan'.of = c /\ scan'.slot = 1 /\ scan'.seen = Idle /\ chunk[c] = "cut" /\ tag[c] # Idle
    BY <1>7, QuestionTyped DEF AskPassed, Ask, Asks
  <2>3. \A s \in Slots : WillSee(s)'
    BY <2>2 DEF WillSee, Slots
  <2> QED BY <2>1, <2>2, <2>3, EpochScanKeeps
<1>8. ASSUME NEW c \in Chunks, CutOut(c) PROVE EpochInv'
  <2>1. /\ UNCHANGED <<epoch, slotEpoch, act, loaded, reads, reach, tag, scan>> /\ scan.ask = "nothing"
        /\ \A d \in Chunks : chunk'[d] = chunk[d] \/ chunk'[d] = "cut"
    BY <1>8 DEF CutOut, HorizonTypes
  <2>2. FreedUnseen'
    BY ZenonT(60), <2>1 DEF EpochInv, FreedUnseen, HorizonTypes
  <2> QED BY ZenonT(60), <2>1, <2>2 DEF EpochInv
<1>9. ASSUME NEW s \in Slots, Kill(s) PROVE EpochInv'
  <2>1. UNCHANGED <<epoch, slotEpoch, act, loaded, reads, reach, chunk, tag>> /\ scan'.ask = "nothing"
    BY <1>9, NothingAsked DEF Kill, Scanned
  <2> QED BY <2>1, EpochScanKeeps
<1> QED BY <1>1, <1>2, <1>3, <1>4, <1>5, <1>6, <1>7, <1>8, <1>9 DEF CollectorStep

LEMMA HorizonStarts == HorizonInit => HorizonInv
  BY NothingAsked, HorizonAssumption
  DEF HorizonInit, HorizonInv, HorizonTypes, SnapInv, EpochInv, KeptOrTold, FreedUnseen, Begun, Places, Published, Again

LEMMA HorizonKeeps == HorizonInv /\ [HorizonNext]_horizonVars => HorizonInv'
<1> SUFFICES ASSUME HorizonInv, [HorizonNext]_horizonVars PROVE HorizonInv'
  OBVIOUS
<1> USE DEF HorizonInv
<1>1. CASE UNCHANGED horizonVars
  BY ZenonT(60), <1>1 DEF horizonVars, slotVars, stmtVars, chunkVars, HorizonTypes, SnapInv, EpochInv, KeptOrTold,
              FreedUnseen, WillHold, WillSee
<1>2. CASE Tick
  <2>1. commits' = commits + 1 /\ UNCHANGED <<epoch, slotVars, stmtVars, scan, gone, chunkVars, reach>>
    BY <1>2 DEF Tick
  <2>2. HorizonTypes'
    BY <2>1 DEF HorizonTypes, slotVars, stmtVars, chunkVars
  <2>3. EpochInv'
    BY Zenon, <2>1 DEF EpochInv, FreedUnseen, WillSee, slotVars, stmtVars, chunkVars
  <2>4. \A t \in Tables : \A v \in gone'[t] : v < commits'
    BY <2>1 DEF SnapInv, HorizonTypes
  <2>5. scan.ask = "held" => scan.of \in Tables /\ scan.upto <= commits'
    BY <2>1 DEF SnapInv, HorizonTypes, Questions
  <2>6. SnapInv'
    BY <2>1, <2>4, <2>5 DEF SnapInv, KeptOrTold, WillHold, slotVars, stmtVars
  <2> QED BY <2>2, <2>3, <2>6
<1>3. CASE CollectorStep
  BY <1>3, TypeCollector, SnapCollector, EpochCollector
<1>4. ASSUME NEW s \in Slots, WorkerStep(s) PROVE HorizonInv'
  BY <1>4, TypeWorker, SnapWorker, SnapStepKeeps, EpochWorker, EpochStepKeeps
<1> QED BY <1>1, <1>2, <1>3, <1>4 DEF HorizonNext

(* However many workers publish their snapshots in slots, and however their *)
(* steps interleave with the loads of the collector's scans, a snapshot a   *)
(* statement reads at is never taken for held by nobody unless it was       *)
(* killed (Horizons::oldest and Horizons::snapshots).                       *)
THEOREM HorizonKept == HorizonSpec => []KeptOrTold
<1>1. HorizonInv => KeptOrTold
  BY Zenon DEF HorizonInv, SnapInv
<1> QED BY <1>1, HorizonStarts, HorizonKeeps, PTL DEF HorizonSpec

(* However the statements' epochs interleave with the rounds of the         *)
(* collector, no chunk is freed that a statement may still look at          *)
(* (UndoSpace::collect, Horizons::passed).                                  *)
THEOREM HorizonFrees == HorizonSpec => []FreedUnseen
<1>1. HorizonInv => FreedUnseen
  BY Zenon DEF HorizonInv, EpochInv
<1> QED BY <1>1, HorizonStarts, HorizonKeeps, PTL DEF HorizonSpec
=============================================================================
