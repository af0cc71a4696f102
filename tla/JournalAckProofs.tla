-------------------------- MODULE JournalAckProofs --------------------------
(***************************************************************************)
(* An acknowledged commit is kept, on one lane.                             *)
(*                                                                          *)
(* The argument follows a statement from the catalog to its answer: staged  *)
(* until its block is queued, then in that block, and from the moment the   *)
(* lane has settled in a block that is as far as its commit_sync asked or   *)
(* in the file (StmtInv).  What was answered stays there (AckInv), because  *)
(* one lane goes out in order and a crash leaves no gap in it (OrderInv).   *)
(* With several lanes, or with a process that dies and then a loss of       *)
(* power, the statement is false of the code: run journal_same_lane and the *)
(* README.                                                                  *)
(***************************************************************************)
EXTENDS JournalProofs

(* Every commit goes to the same lane. *)
SingleLane == \A k, l \in Lanes : k = l

(* One crash, or crashes of one kind: no loss of power comes after a death  *)
(* of the process, whose blocks are replayed though they were never synced. *)
OneCrash == MaxCrashes <= 1 \/ "power" \notin Crashes \/ "process" \notin Crashes

(* A block no crash that may still come takes away. *)
Firm(b) == b.at = "synced" \/ (b.at = "written" /\ "power" \notin Crashes) \/ run = MaxCrashes

(* The log goes out in order, so what a crash leaves of it has no gap.      *)
OrderInv ==
    /\ \A b \in block : b.run < run => Firm(b)
    /\ \A b, c \in block :
          /\ c.run < b.run => c.ts < b.ts
          /\ b.run = run /\ c.run = run /\ c.ts < b.ts =>
                /\ b.at = "synced" => c.at = "synced"
                /\ b.at # "queued" => c.at # "queued"
    /\ ~torn
    /\ ~up => Linked(block, file.durable)

-----------------------------------------------------------------------------

LEMMA OrderStep ==
    SingleLane /\ OneCrash /\ Sound /\ Rest' /\ Frame /\ SavedInv /\ OrderInv /\
    [JournalNext]_vars
    => OrderInv'
<1>SubsetOrder.
      ASSUME OrderInv, block' \in SUBSET block, torn' \in {torn, FALSE}, up', UNCHANGED run
      PROVE  OrderInv'
  <2> USE <1>SubsetOrder
  <2>1. ~torn'
    BY Zenon DEF OrderInv
  <2>2. \A b : Firm(b)' <=> Firm(b)
    BY Zenon DEF Firm
  <2> QED BY Zenon, <2>1, <2>2 DEF OrderInv
<1>MovedOrder.
      ASSUME SingleLane, Sound, OrderInv, NEW ls \in SUBSET Lanes, NEW from, NEW to,
             <<from, to>> \in {<<"queued", "written">>, <<"written", "synced">>},
             block' = Moved(ls, from, to), UNCHANGED <<up, run, torn>>, up
      PROVE  OrderInv'
  <2> USE <1>MovedOrder
  <2> DEFINE f(b) == IF b.lane \in ls /\ b.run = run /\ b.at = from THEN [b EXCEPT !.at = to] ELSE b
  <2>1. block' = {f(b) : b \in block}
    BY Zenon DEF Moved
  <2>2. CASE ls = {}
    <3>1. \A b \in block : f(b) = b
      BY Zenon, <2>2
    <3>2. block' = block
      BY Zenon, <2>1, <3>1
    <3> QED BY Zenon, <3>2, <1>SubsetOrder
  <2>3. CASE ls # {}
    <3>1. \A b \in block : b.lane \in ls
      BY Zenon, <2>3, Types DEF SingleLane, Blocks
    <3>2. \A b \in block : /\ f(b).ts = b.ts /\ f(b).run = b.run
                           /\ b.run # run => f(b).at = b.at
                           /\ b.run = run => f(b).at = IF b.at = from THEN to ELSE b.at
      BY Zenon, <3>1, Types DEF Blocks
    <3> HIDE DEF f
    <3>3. ASSUME NEW b \in block, f(b).run < run PROVE Firm(f(b))
      <4>1. b.run < run /\ b.run # run /\ b.run \in Nat
        BY <3>2, <3>3, Types DEF Blocks
      <4>2. Firm(b)
        BY Zenon, <4>1 DEF OrderInv
      <4> QED BY Zenon, <3>2, <4>1, <4>2 DEF Firm
    <3>4. ASSUME NEW b \in block, NEW c \in block
          PROVE  /\ f(c).run < f(b).run => f(c).ts < f(b).ts
                 /\ f(b).run = run /\ f(c).run = run /\ f(c).ts < f(b).ts =>
                      /\ f(b).at = "synced" => f(c).at = "synced"
                      /\ f(b).at # "queued" => f(c).at # "queued"
      <4>1. b.at \in {"queued", "written", "synced"} /\ c.at \in {"queued", "written", "synced"}
        BY Zenon, Types DEF Blocks
      <4>2. (from = "queued" /\ to = "written") \/ (from = "written" /\ to = "synced")
        BY Zenon
      <4> QED BY ZenonT(30), <3>2, <4>1, <4>2 DEF OrderInv
    <3>5. \A b : Firm(b)' <=> Firm(b)
      BY Zenon DEF Firm
    <3>6. ~torn
      BY Zenon DEF OrderInv
    <3> QED BY <2>1, <3>3, <3>4, <3>5, <3>6 DEF OrderInv
  <2> QED BY Zenon, <2>2, <2>3
<1>QueueOrder.
      ASSUME Sound, Rest', Frame, OrderInv, NEW w \in Committers, NEW set \in Settings, Queue(w, set)
      PROVE  OrderInv'
  <2> USE <1>QueueOrder
  <2>1. PICK x : x = Queued(w, set)
    BY Zenon
  <2>2. /\ up /\ block' = block \cup {x} /\ UNCHANGED <<up, run, torn>>
        /\ x.ts = last + 1 /\ x.run = run
    BY Zenon, <2>1, QueueIs
  <2>3. x.at = "queued"
    BY Zenon, <2>1 DEF Queued
  <2>4. \A b \in block : b.ts \in Nat /\ b.ts <= last /\ b.run <= run /\ b.run \in Nat
    BY <2>2, Types DEF Frame, StampInv, Blocks
  <2>5. \A b : Firm(b)' <=> Firm(b)
    BY Zenon, <2>2 DEF Firm
  <2>6. run \in Nat /\ last \in Nat /\ ~torn
    BY Zenon, Types DEF OrderInv
  <2>7. \A b \in block' : b.run < run => Firm(b)
    BY <2>2, <2>6 DEF OrderInv
  <2>8. ASSUME NEW b \in block', NEW c \in block'
        PROVE  /\ c.run < b.run => c.ts < b.ts
               /\ b.run = run /\ c.run = run /\ c.ts < b.ts =>
                     /\ b.at = "synced" => c.at = "synced"
                     /\ b.at # "queued" => c.at # "queued"
    <3>1. CASE b \in block /\ c \in block
      BY Zenon, <3>1 DEF OrderInv
    <3>2. CASE b = x
      BY <2>2, <2>3, <2>4, <2>6, <3>2
    <3>3. CASE c = x /\ b \in block
      BY <2>2, <2>3, <2>4, <2>6, <3>3
    <3> QED BY Zenon, <2>2, <3>1, <3>2, <3>3
  <2> QED BY Zenon, <2>2, <2>5, <2>6, <2>7, <2>8 DEF OrderInv
(* What is left of the log after a crash has no gap: the block before one   *)
(* that is left is left.                                                    *)
<1>CrashOrder.
      ASSUME SingleLane, OneCrash, Sound, Rest', Frame, OrderInv, NEW kind \in Crashes, Crash(kind)
      PROVE  OrderInv'
  <2> USE <1>CrashOrder
  <2>1. /\ run < MaxCrashes /\ run' = run + 1 /\ up' = FALSE /\ up /\ torn' = FALSE
        /\ UNCHANGED file
    BY Zenon DEF Crash
  <2>2. run \in Nat /\ \A b \in block : b.ts \in Nat /\ b.run \in Nat /\ b.run <= run
                                      /\ b.at \in {"queued", "written", "synced"}
    BY Types DEF Frame, StampInv, Blocks
  <2>3. ~torn /\ Linked(block, file.durable)
    BY Zenon, <2>1 DEF OrderInv, Frame, StampInv
  <2>4. PICK S \in SUBSET block :
           /\ \A b \in S : b.at # "queued"
           /\ \A c \in block' : \E b \in S : Same(b, c)
           /\ \A b \in S : \E c \in block' : Same(b, c)
           /\ \A c \in block' : Firm(c)'
           /\ \A b \in S, e \in block : e.ts + 1 = b.ts => e \in S
    <3>1. ASSUME NEW b \in block, NEW e \in block, e.ts + 1 = b.ts, b.at # "queued", e.run # b.run
          PROVE  e.run < run /\ Firm(e)
      <4>1. e.run < b.run
        BY <2>2, <3>1 DEF OrderInv
      <4> QED BY <2>2, <4>1 DEF OrderInv
    <3>2. ASSUME NEW b \in block, NEW e \in block, e.ts + 1 = b.ts, b.at # "queued"
          PROVE  e.at # "queued"
      <4>1. CASE e.run = run /\ b.run = run
        BY <2>2, <3>2, <4>1 DEF OrderInv
      <4>2. CASE e.run < run
        BY <2>1, <2>2, <4>2 DEF OrderInv, Firm
      <4>3. CASE e.run = run /\ b.run # run
        BY <2>2, <3>1, <3>2, <4>3
      <4> QED BY <2>2, <4>1, <4>2, <4>3
    <3>3. CASE kind = "process" /\ block' = {b \in block : b.at # "queued"}
      <4>1. \A c \in block' : Firm(c)'
        <5>1. "power" \notin Crashes \/ run + 1 = MaxCrashes
          <6>1. MaxCrashes \in Nat
            BY Zenon, JournalAssumption
          <6> QED BY <2>1, <2>2, <3>3, <6>1 DEF OneCrash
        <5> QED BY Zenon, <2>1, <2>2, <3>3, <5>1 DEF Firm
      <4>2. block' \in SUBSET block
        BY Zenon, <3>3
      <4>3. \A b \in block', e \in block : e.ts + 1 = b.ts => e \in block'
        BY Zenon, <3>2, <3>3
      <4>4. \A b \in block' : b.at # "queued"
        BY Zenon, <3>3
      <4>5. \A b \in block' : Same(b, b)
        BY Zenon DEF Same
      <4> QED BY Zenon, <4>1, <4>2, <4>3, <4>4, <4>5
    <3>4. ASSUME kind = "power", NEW S \in Survivors, block' = {[b EXCEPT !.at = "synced"] : b \in S}
          PROVE  /\ S \in SUBSET block
                 /\ \A b \in S : b.at # "queued"
                 /\ \A c \in block' : \E b \in S : Same(b, c)
                 /\ \A b \in S : \E c \in block' : Same(b, c)
                 /\ \A c \in block' : Firm(c)'
                 /\ \A b \in S, e \in block : e.ts + 1 = b.ts => e \in S
      <4>1. S \in SUBSET block /\ \A b \in S : b.at # "queued"
        BY Zenon, <3>4 DEF Survivors
      <4> DEFINE f(b) == [b EXCEPT !.at = "synced"]
      <4>2. \A b \in S : Same(b, f(b)) /\ f(b).at = "synced"
        BY Zenon, <4>1, Types DEF Same, Blocks
      <4>3. block' = {f(b) : b \in S}
        BY Zenon, <3>4
      <4> HIDE DEF f
      <4>4. \A c \in block' : Firm(c)'
        BY Zenon, <4>2, <4>3 DEF Firm
      <4>5. ASSUME NEW b \in S, NEW e \in block, e.ts + 1 = b.ts PROVE e \in S
        <5>1. e.at # "queued"
          BY Zenon, <3>2, <4>1, <4>5
        <5>2. CASE e.run # b.run
          <6>1. Firm(e)
            BY Zenon, <3>1, <4>1, <4>5, <5>2
          <6>2. e.at = "synced"
            BY <2>1, <2>2, <3>4, <6>1 DEF Firm
          <6> QED BY Zenon, <5>1, <6>2 DEF Survivors
        <5>3. CASE e.run = b.run
          <6>1. e.lane = b.lane
            BY Zenon, <4>1, Types DEF SingleLane, Blocks
          <6>2. e.ts < b.ts
            BY <2>2, <4>1, <4>5
          <6> QED BY Zenon, <5>1, <5>3, <6>1, <6>2 DEF Survivors
        <5> QED BY Zenon, <5>2, <5>3
      <4> QED BY Zenon, <4>1, <4>2, <4>3, <4>4, <4>5
    <3> QED BY Zenon, <3>3, <3>4 DEF Crash
  <2>5. Linked(block', file.durable)
    <3> SUFFICES ASSUME NEW c \in block', c.ts > file.durable, c.ts > file.durable + 1
                 PROVE  \E e \in block' : e.ts = c.ts - 1
      BY Zenon DEF Linked, Met
    <3>1. PICK b \in S : Same(b, c)
      BY Zenon, <2>4
    <3>2. PICK e \in block : e.ts = b.ts - 1
      BY Zenon, <2>3, <3>1 DEF Linked, Met, Same
    <3>3. e \in S
      BY <2>2, <2>4, <3>1, <3>2
    <3> QED BY <2>4, <3>1, <3>2, <3>3 DEF Same
  <2>6. \A c \in block' : c.run < run + 1
    BY <2>2, <2>4 DEF Same
  <2>7. \A b, c \in block' : c.run < b.run => c.ts < b.ts
    BY ZenonT(30), <2>4 DEF OrderInv, Same
  <2> QED BY <2>1, <2>2, <2>4, <2>5, <2>6, <2>7 DEF OrderInv
<1>RecoverOrder.
      ASSUME Sound, Frame, OrderInv, Recover
      PROVE  OrderInv'
  <2> USE <1>RecoverOrder
  <2>1. up' = TRUE /\ ~up /\ UNCHANGED run /\ ~torn /\ Linked(block, file.durable)
    BY Zenon, RecoverIs DEF OrderInv
  <2>2. Kept = Replayable
    BY Zenon, <2>1, KeptReaches
  <2>3. CASE file.anchored
    BY Zenon, <2>1, <2>2, <2>3, RecoverIs, <1>SubsetOrder
  <2>4. CASE ~file.anchored
    BY Zenon, <2>1, <2>4, RecoverIs, <1>SubsetOrder
  <2> QED BY Zenon, <2>3, <2>4
<1> SUFFICES ASSUME SingleLane, OneCrash, Sound, Rest', Frame, SavedInv, OrderInv, [JournalNext]_vars
             PROVE  OrderInv'
  BY Zenon
<1>1. CASE Keeps
  <2>1. UNCHANGED <<up, run, torn, file>>
    BY Zenon, <1>1 DEF Keeps
  <2>2. CASE block' = block
    BY Zenon, <2>1, <2>2 DEF OrderInv, Firm
  <2>3. ASSUME NEW ls \in SUBSET Lanes, NEW from, NEW to,
               <<from, to>> \in {<<"queued", "written">>, <<"written", "synced">>},
               block' = Moved(ls, from, to), block' # block
        PROVE  OrderInv'
    <3>1. up
      <4> SUFFICES ASSUME ~up PROVE FALSE
        BY Zenon
      <4>1. \A b \in block : b.run # run
        BY Zenon DEF Frame, StampInv
      <4>2. Moved(ls, from, to) = block
        BY Zenon, <4>1 DEF Moved
      <4> QED BY Zenon, <2>3, <4>2
    <3> QED BY <2>1, <2>3, <3>1, <1>MovedOrder
  <2>4. CASE Onward
    <3>1. PICK ls \in SUBSET Lanes :
             block' \in {block, Moved(ls, "queued", "written"), Moved(ls, "written", "synced")}
      BY Zenon, <2>4 DEF Onward
    <3> QED BY <2>2, <2>3, <3>1
  <2> QED BY Zenon, <1>1, <2>2, <2>4 DEF Keeps
<1>2. ASSUME NEW w \in Committers, NEW set \in Settings, Queue(w, set) PROVE OrderInv'
  BY Zenon, <1>2, <1>QueueOrder
<1>3. CASE FlightDone
  BY Zenon, <1>3, <1>SubsetOrder DEF FlightDone, journal
<1>4. ASSUME NEW w \in Committers, Launch(w) \/ WriteFile(w) PROVE OrderInv'
  <2>1. up /\ UNCHANGED <<up, run, torn, block>>
    BY Zenon, <1>4, WorksUp DEF Launch, WriteFile, journal, Sound
  <2> QED BY Zenon, <2>1, <1>SubsetOrder
<1>5. ASSUME NEW w \in Committers, Landed(w) PROVE OrderInv'
  <2>1. block' \in SUBSET block /\ up /\ UNCHANGED <<up, run, torn>>
    BY Zenon, <1>5, LandedIs
  <2> QED BY Zenon, <2>1, <1>SubsetOrder
<1>6. ASSUME NEW w \in Committers, Checkpointed(w) \/ CloseLog(w) PROVE OrderInv'
  <2>1. block' = {} /\ up /\ UNCHANGED <<up, run>> /\ torn' \in {torn, FALSE}
    BY Zenon, <1>6, ClearedIs
  <2> QED BY Zenon, <2>1, <1>SubsetOrder
<1>7. ASSUME NEW kind \in Crashes, Crash(kind) PROVE OrderInv'
  BY Zenon, <1>7, <1>CrashOrder
<1>8. CASE Recover
  BY Zenon, <1>8, <1>RecoverOrder
<1> QED BY Zenon, <1>1, <1>2, <1>3, <1>4, <1>5, <1>6, <1>7, <1>8, StepEffect DEF Effect

-----------------------------------------------------------------------------
(* A statement is in the file of the cut d, or in a block above it that has *)
(* gone as far as its commit_sync asks, or that is the block n.             *)
Held(s, sync, B, d, C) == s \in C \/ \E b \in B : b.ts > d /\ s \in b.stmts /\ Far(b, sync)
Listed(s, n, B, d, C) == s \in C \/ \E b \in B : b.ts > d /\ s \in b.stmts /\ b.ts = n

(* ... and would be once the flight has written its file. *)
Safe(s, sync, B, F, G) ==
    /\ Held(s, sync, B, F.durable, F.content)
    /\ G.status = "writing" => Held(s, sync, B, G.durable, G.content)
Logged(s, n, B, F, G) ==
    /\ Listed(s, n, B, F.durable, F.content)
    /\ G.status = "writing" => Listed(s, n, B, G.durable, G.content)

(* A commit at p has settled, with its flight to land for t. *)
Through(p, t) ==
    p \in {"after", "cut", "relock", "checkpoint", "relaunch"} \/ (p = "landed" /\ t = "relaunch")

(* What a worker says of the statement it is committing. *)
StmtOK(w) ==
    /\ up => stmt[w] \in mem \cup {0}
    /\ pc[w] = "idle" => stmt[w] = 0
    /\ pc[w] = "idle" \/ Owes(pc[w], flight.to) => pend[w].sync = "none"
    /\ Owes(pc[w], flight.to) /\ ~dirty => stmt[w] \in staged \cup {0}
    /\ pc[w] = "lane" => stmt[w] = 0 \/ Logged(stmt[w], pend[w].ts, block, file, flight)
    /\ Through(pc[w], flight.to) =>
          stmt[w] = 0 \/ pend[w].sync = "none" \/ Safe(stmt[w], pend[w].sync, block, file, flight)

AckInv ==
    /\ up => acked \cup soft \subseteq mem
    /\ \A s \in acked : Safe(s, "full", block, file, flight)
    /\ \A s \in soft : Safe(s, "os", block, file, flight)

(* What a step keeps of the statements in the catalog. *)
Carries ==
    /\ mem \subseteq mem'
    /\ \A s \in mem :
          /\ \A y : Safe(s, y, block, file, flight) => Safe(s, y, block', file', flight')
          /\ \A n : Logged(s, n, block, file, flight) => Logged(s, n, block', file', flight')

LEMMA OnwardFar ==
    ASSUME Sound, Frame, Onward
    PROVE  \A b \in block : \E c \in block' :
              Same(b, c) /\ \A sync : Far(b, sync) => Far(c, sync)
<1>1. PICK ls \in SUBSET Lanes :
         block' \in {block, Moved(ls, "queued", "written"), Moved(ls, "written", "synced")}
  BY Zenon DEF Onward
<1>2. CASE block' = block
  BY Zenon, <1>2 DEF Same
<1>3. ASSUME NEW from \in {"queued", "written"}, NEW to \in {"written", "synced"},
             from = "queued" \/ to = "synced", block' = Moved(ls, from, to), NEW b \in block
      PROVE  \E c \in block' : Same(b, c) /\ \A sync : Far(b, sync) => Far(c, sync)
  <2> DEFINE c == IF b.lane \in ls /\ b.run = run /\ b.at = from THEN [b EXCEPT !.at = to] ELSE b
  <2>1. c \in block'
    BY SMTT(40), <1>3 DEF Moved
  <2>2. Same(b, c) /\ (c.at = b.at \/ (b.at = from /\ c.at = to))
    BY Zenon, Types DEF Same, Blocks
  <2> HIDE DEF c
  <2>3. \A sync : Far(b, sync) => Far(c, sync)
    BY Zenon, <1>3, <2>2 DEF Far
  <2> QED BY Zenon, <2>1, <2>2, <2>3
<1> QED BY Zenon, <1>1, <1>2, <1>3

LEMMA EffectCarries ==
    ASSUME Sound, Rest', Frame, SavedInv, Effect, mem \subseteq mem'
    PROVE  Carries
<1> SUFFICES ASSUME NEW s \in mem
             PROVE  /\ \A y : Safe(s, y, block, file, flight) => Safe(s, y, block', file', flight')
                    /\ \A n : Logged(s, n, block, file, flight) => Logged(s, n, block', file', flight')
  BY Zenon DEF Carries
<1>1. CASE UNCHANGED <<file, block>> /\ (flight' = flight \/ flight'.status # "writing")
  BY Zenon, <1>1 DEF Safe, Logged
<1>2. CASE Onward /\ UNCHANGED file
  <2>1. \A b \in block : \E c \in block' :
           Same(b, c) /\ \A sync : Far(b, sync) => Far(c, sync)
    BY Zenon, <1>2, OnwardFar
  <2>2. /\ \A y, d, C : Held(s, y, block, d, C) => Held(s, y, block', d, C)
        /\ \A n, d, C : Listed(s, n, block, d, C) => Listed(s, n, block', d, C)
    BY <2>1 DEF Held, Listed, Same
  <2>3. /\ flight'.durable = flight.durable /\ flight'.content = flight.content
        /\ flight'.status = "writing" => flight.status = "writing"
    BY Zenon, <1>2, OnwardIs
  <2> QED BY Zenon, <1>2, <2>2, <2>3 DEF Safe, Logged
<1>3. ASSUME NEW w \in Committers, NEW set \in Settings, Queue(w, set)
      PROVE  /\ \A y : Safe(s, y, block, file, flight) => Safe(s, y, block', file', flight')
             /\ \A n : Logged(s, n, block, file, flight) => Logged(s, n, block', file', flight')
  <2>1. block \subseteq block' /\ UNCHANGED <<file, flight>>
    BY Zenon, <1>3 DEF Queue
  <2> QED BY Zenon, <2>1 DEF Safe, Logged, Held, Listed
<1>4. CASE FlightDone
  <2>1. /\ flight.status = "writing" /\ flight'.status = "done" /\ UNCHANGED block
        /\ file'.durable = flight.durable /\ file'.content = flight.content
    BY Zenon, <1>4, Types DEF FlightDone, Flights
  <2> QED BY Zenon, <2>1 DEF Safe, Logged
<1>5. ASSUME NEW w \in Committers, Launch(w)
      PROVE  /\ \A y : Safe(s, y, block, file, flight) => Safe(s, y, block', file', flight')
             /\ \A n : Logged(s, n, block, file, flight) => Logged(s, n, block', file', flight')
  <2>1. flight'.content = mem /\ UNCHANGED <<block, file>>
    BY Zenon, <1>5 DEF Launch
  <2> QED BY Zenon, <2>1 DEF Safe, Logged, Held, Listed
<1>6. CASE s \in file'.content /\ flight'.status # "writing"
  BY Zenon, <1>6 DEF Safe, Logged, Held, Listed
<1>7. ASSUME NEW w \in Committers, WriteFile(w) PROVE s \in file'.content /\ flight'.status # "writing"
  <2>1. pc[w] \in Grounded
    BY Zenon, <1>7 DEF WriteFile, Grounded
  <2> QED BY Zenon, <1>7, <2>1 DEF WriteFile, Sound, LockInv
<1>8. ASSUME NEW w \in Committers, Landed(w)
      PROVE  /\ \A y : Safe(s, y, block, file, flight) => Safe(s, y, block', file', flight')
             /\ \A n : Logged(s, n, block, file, flight) => Logged(s, n, block', file', flight')
  <2>1. /\ flight'.status = "none" /\ UNCHANGED file
        /\ \A b \in block : b.ts > file.durable => b \in block'
    BY Zenon, <1>8, LandedIs
  <2> QED BY Zenon, <2>1 DEF Safe, Logged, Held, Listed
<1>9. ASSUME NEW w \in Committers, Checkpointed(w) \/ CloseLog(w)
      PROVE  s \in file'.content /\ flight'.status # "writing"
  <2>1. file.content = mem /\ UNCHANGED <<file, flight>> /\ flight.status = "none"
    BY Zenon, <1>9, ClearedIs
  <2> QED BY Zenon, <2>1
<1>10. CASE Keeps
  BY Zenon, <1>1, <1>2, <1>10 DEF Keeps
<1> QED BY Zenon, <1>3, <1>4, <1>5, <1>6, <1>7, <1>8, <1>9, <1>10 DEF Effect

(* While the database is open the catalog only grows. *)
LEMMA MemGrows ==
    ASSUME [JournalNext]_vars, ~\E kind \in Crashes : Crash(kind), ~Recover
    PROVE  mem \subseteq mem' /\ UNCHANGED up
<1>1. ASSUME NEW w \in Committers, Client(w) PROVE mem \subseteq mem' /\ UNCHANGED up
  <2>1. (mem' = mem \/ mem' = mem \cup {next}) /\ UNCHANGED up
    BY Zenon, <1>1 DEF Client, Execute, Ask, journal
  <2> QED BY Zenon, <2>1
<1>2. ASSUME NEW w \in Committers, Worker(w) PROVE UNCHANGED <<mem, up>>
  <2>1. ASSUME NEW set \in Settings,
               Refuse(w, set) \/ EnqueueWait(w, set) \/ EnqueueNone(w, set) \/ EnqueueNoneFails(w, set)
        PROVE  UNCHANGED <<mem, up>>
    BY Zenon, <2>1 DEF Refuse, EnqueueWait, EnqueueNone, EnqueueNoneFails, Queue
  <2>2. CASE \/ Land(w, "settle", FALSE, "commit") \/ Land(w, "checkpoint", TRUE, "relaunch")
             \/ Land(w, "persist", TRUE, "write") \/ Land(w, "closing", TRUE, "shut")
    BY Zenon, <2>2 DEF Land, journal
  <2>3. CASE \/ MustPersist(w) \/ NothingStaged(w)
             \/ LaneSettles(w) \/ LaneErrs(w) \/ CutWaitBegin(w) \/ CutTurn(w) \/ Relock(w)
             \/ CheckpointInline(w) \/ ShortAgain(w) \/ WriteFileFails(w) \/ Launch(w)
             \/ WriteFile(w) \/ Landed(w) \/ Recycle(w) \/ Checkpointed(w) \/ CloseLog(w)
    BY Zenon, <2>3 DEF MustPersist, NothingStaged, LaneSettles, LaneErrs, CutWaitBegin, CutTurn,
      Relock,
      CheckpointInline, ShortAgain, WriteFileFails, Launch, WriteFile, Landed, Recycle,
      Checkpointed,
      CloseLog, journal
  <2> QED BY Zenon, <1>2, <2>1, <2>2, <2>3 DEF Worker
<1>3. CASE \/ \E l \in Lanes : LaneWrite(l) \/ LaneSync(l) \/ LaneFail(l)
           \/ FlightDone \/ FlightFail \/ UNCHANGED vars
  BY Zenon, <1>3 DEF LaneWrite, LaneSync, LaneFail, FlightDone, FlightFail, vars, journal
<1> QED BY Zenon, <1>1, <1>2, <1>3 DEF JournalNext

-----------------------------------------------------------------------------
(* Every worker's statement, and every answer that was given. *)
StmtInv == \A w \in Committers : StmtOK(w)
Acks == StmtInv /\ AckInv

(* After a step, the statement of w is as safe as its client was promised. *)
Done(w) == stmt[w] = 0 \/ pend[w].sync = "none" \/ Safe(stmt[w], pend[w].sync, block', file', flight')

LEMMA ThroughDone ==
    ASSUME up, Carries, NEW w, StmtOK(w), Through(pc[w], flight.to) \/ pend[w].sync = "none"
    PROVE  Done(w)
<1>1. stmt[w] \in mem \cup {0}
  BY Zenon DEF StmtOK
<1>2. CASE Through(pc[w], flight.to) /\ stmt[w] # 0 /\ pend[w].sync # "none"
  <2>1. Safe(stmt[w], pend[w].sync, block, file, flight)
    BY Zenon, <1>2 DEF StmtOK
  <2> QED BY Zenon, <1>1, <1>2, <2>1 DEF Carries, Done
<1> QED BY Zenon, <1>2 DEF Done

LEMMA OtherStmt ==
    ASSUME up, Carries, NEW v, StmtOK(v), pc'[v] = pc[v], stmt'[v] = stmt[v], pend'[v] = pend[v],
           pc[v] \in Locked => flight'.to = flight.to /\ UNCHANGED <<staged, dirty>>
    PROVE  StmtOK(v)'
<1>1. stmt[v] \in mem \cup {0} /\ mem \subseteq mem'
  BY Zenon DEF StmtOK, Carries
<1>2. Owes(pc'[v], flight'.to) => Owes(pc[v], flight.to) /\ UNCHANGED <<staged, dirty>>
  BY Zenon DEF Owes, Locked
<1>3. Through(pc'[v], flight'.to) => Through(pc[v], flight.to)
  BY Zenon DEF Through, Locked
<1>4. pc'[v] = "lane" => stmt'[v] = 0 \/ Logged(stmt'[v], pend'[v].ts, block', file', flight')
  BY Zenon, <1>1 DEF StmtOK, Carries
<1>5. Through(pc'[v], flight'.to) =>
         \/ stmt'[v] = 0 \/ pend'[v].sync = "none"
         \/ Safe(stmt'[v], pend'[v].sync, block', file', flight')
  BY Zenon, <1>3, ThroughDone DEF Done
<1>6. pc'[v] = "idle" => stmt'[v] = 0
  BY Zenon DEF StmtOK
<1>7. pc'[v] = "idle" \/ Owes(pc'[v], flight'.to) => pend'[v].sync = "none"
  BY Zenon, <1>2 DEF StmtOK
<1>8. Owes(pc'[v], flight'.to) /\ ~dirty' => stmt'[v] \in staged' \cup {0}
  BY Zenon, <1>2 DEF StmtOK
<1>9. stmt'[v] \in mem' \cup {0}
  BY Zenon, <1>1
<1> QED BY Zenon, <1>4, <1>5, <1>6, <1>7, <1>8, <1>9 DEF StmtOK

LEMMA MovesStmt ==
    ASSUME Sound, StmtInv, up, Carries, NEW w \in Committers, NEW to, Goto(w, to),
           \A v \in Committers : v # w => stmt'[v] = stmt[v] /\ pend'[v] = pend[v],
           lock \in {w, NoOne} \/ UNCHANGED <<flight, staged, dirty>>,
           StmtOK(w)'
    PROVE  StmtInv'
<1> SUFFICES ASSUME NEW v \in Committers, v # w PROVE StmtOK(v)'
  BY Zenon DEF StmtInv
<1>1. pc \in [Committers -> Places] /\ pc' = [pc EXCEPT ![w] = to]
  BY Zenon DEF Sound, Rest, ThreadsOK, Goto
<1>2. pc'[v] = pc[v]
  BY Zenon, <1>1
<1>3. pc[v] \in Locked => lock = v
  BY Zenon DEF Sound, LockInv
<1>4. lock = v => lock \notin {w, NoOne}
  BY Zenon, JournalAssumption, Unlocked
<1>5. StmtOK(v)
  BY Zenon DEF StmtInv
<1> QED BY Zenon, <1>2, <1>3, <1>4, <1>5, OtherStmt

LEMMA StayAck ==
    ASSUME up, Carries, AckInv, UNCHANGED <<acked, soft>>
    PROVE  AckInv'
BY Zenon DEF Carries, AckInv

(* A worker goes on to another place with its statement. *)
LEMMA StayAcks ==
    ASSUME Sound, Acks, up, Carries, NEW w \in Committers, NEW to, Goto(w, to), to \notin {"idle", "lane"},
           UNCHANGED <<stmt, pend, acked, soft>>,
           lock \in {w, NoOne} \/ UNCHANGED <<flight, staged, dirty>>,
           Owes(to, flight'.to) => Owes(pc[w], flight.to) /\ UNCHANGED <<staged, dirty>>,
           Through(to, flight'.to) => Done(w)
    PROVE  Acks'
<1>1. pc \in [Committers -> Places] /\ pc' = [pc EXCEPT ![w] = to]
  BY Zenon DEF Sound, Rest, ThreadsOK, Goto
<1>2. pc'[w] = to
  BY Zenon, <1>1
<1>3. StmtOK(w)
  BY Zenon DEF Acks, StmtInv
<1>4. stmt'[w] \in mem' \cup {0}
  BY Zenon, <1>3 DEF StmtOK, Carries
<1>5. Owes(pc'[w], flight'.to) => pend'[w].sync = "none"
  BY Zenon, <1>2, <1>3 DEF StmtOK
<1>6. Owes(pc'[w], flight'.to) /\ ~dirty' => stmt'[w] \in staged' \cup {0}
  BY Zenon, <1>2, <1>3 DEF StmtOK
<1>7. Through(pc'[w], flight'.to) =>
         \/ stmt'[w] = 0 \/ pend'[w].sync = "none"
         \/ Safe(stmt'[w], pend'[w].sync, block', file', flight')
  BY Zenon, <1>2 DEF Done
<1>8. pc'[w] # "idle" /\ pc'[w] # "lane"
  BY Zenon, <1>2
<1>9. StmtOK(w)'
  BY Zenon, <1>4, <1>5, <1>6, <1>7, <1>8 DEF StmtOK
<1>10. StmtInv'
  BY Zenon, <1>9, MovesStmt DEF Acks
<1> QED BY Zenon, <1>10, StayAck DEF Acks

(* A worker returns to its client with a promise it has kept. *)
LEMMA ReturnAcks ==
    ASSUME Sound, Acks, up, Carries, NEW w \in Committers, NEW how, Return(w, how),
           lock \in {w, NoOne} \/ UNCHANGED <<flight, staged, dirty>>,
           \/ how \notin {"full", "os"}
           \/ stmt[w] = 0
           \/ Safe(stmt[w], how, block', file', flight')
    PROVE  Acks'
<1>1. /\ pc \in [Committers -> Places] /\ pc' = [pc EXCEPT ![w] = "idle"]
      /\ stmt \in [Committers -> Statements \cup {0}] /\ stmt' = [stmt EXCEPT ![w] = 0]
      /\ pend \in [Committers -> Pends] /\ pend' = [pend EXCEPT ![w] = NoPend]
  BY Zenon DEF Sound, Rest, ThreadsOK, Return, Goto
<1>2. pc'[w] = "idle" /\ stmt'[w] = 0 /\ pend'[w].sync = "none"
  BY Zenon, <1>1 DEF NoPend
<1>3. ~Owes(pc'[w], flight'.to) /\ ~Through(pc'[w], flight'.to)
  BY Zenon, <1>2 DEF Owes, Through
<1>4. StmtOK(w)'
  BY Zenon, <1>2, <1>3 DEF StmtOK
<1>5. \A v \in Committers : v # w => stmt'[v] = stmt[v] /\ pend'[v] = pend[v]
  BY Zenon, <1>1
<1>6. StmtInv'
  BY Zenon, <1>4, <1>5, MovesStmt DEF Acks, Return
<1>7. stmt[w] \in mem \cup {0}
  BY Zenon DEF Acks, StmtInv, StmtOK
<1>8. /\ acked' = IF how = "full" THEN acked \cup ({stmt[w]} \ {0}) ELSE acked
      /\ soft' = IF how = "os" THEN soft \cup ({stmt[w]} \ {0}) ELSE soft
  BY Zenon DEF Return
<1>9. acked' \cup soft' \subseteq mem'
  BY Zenon, <1>7, <1>8 DEF Acks, AckInv, Carries
<1>10. \A s \in acked' : Safe(s, "full", block', file', flight')
  BY Zenon, <1>8 DEF Acks, AckInv, Carries
<1>11. \A s \in soft' : Safe(s, "os", block', file', flight')
  BY Zenon, <1>8 DEF Acks, AckInv, Carries
<1> QED BY Zenon, <1>6, <1>9, <1>10, <1>11 DEF Acks, AckInv

(* The disk and the thread of a flight leave the workers alone. *)
LEMMA QuietAcks ==
    ASSUME up, Acks, Carries, UNCHANGED <<pc, stmt, pend, acked, soft, staged, dirty>>,
           flight'.to = flight.to
    PROVE  Acks'
<1>1. ASSUME NEW v \in Committers PROVE StmtOK(v)'
  <2>1. StmtOK(v)
    BY Zenon DEF Acks, StmtInv
  <2> QED BY Zenon, <2>1, OtherStmt
<1>2. StmtInv'
  BY Zenon, <1>1 DEF StmtInv
<1> QED BY Zenon, <1>2, StayAck DEF Acks

LEMMA WaitedAcks ==
    ASSUME Sound, Acks, up, Carries, NEW w \in Committers, NEW ok \in BOOLEAN, Waited(w, ok),
           UNCHANGED <<flight, staged, dirty>>, ok => Done(w)
    PROVE  Acks'
<1>1. CASE ok /\ ~Over
  <2>1. Return(w, pend[w].sync)
    BY Zenon, <1>1 DEF Waited
  <2> QED BY Zenon, <1>1, <2>1, ReturnAcks DEF Done
<1>2. CASE ~(ok /\ ~Over)
  <2>1. PICK to \in {"relock", "relock_err", "checkpoint", "persist"} :
           Stay(w, to) /\ (to \in {"relock", "checkpoint"} => ok)
    BY Zenon, <1>2 DEF Waited
  <2>2. Goto(w, to) /\ UNCHANGED <<stmt, pend, acked, soft>>
    BY Zenon, <2>1 DEF Stay, history
  <2>3. ~Owes(to, flight'.to) /\ (Through(to, flight'.to) => ok)
    BY Zenon, <2>1 DEF Owes, Through
  <2> QED BY Zenon, <2>2, <2>3, StayAcks
<1> QED BY Zenon, <1>1, <1>2

-----------------------------------------------------------------------------
LEMMA ExecuteAcks ==
    ASSUME Sound, Acks, Carries, NEW w \in Committers, NEW kind, Execute(w, kind)
    PROVE  Acks'
<1>1. /\ up /\ pc[w] = "idle" /\ lock = NoOne /\ Goto(w, "settle") /\ UNCHANGED <<flight, pend, acked, soft>>
  BY Zenon DEF Execute
<1>2. /\ pc \in [Committers -> Places] /\ pc' = [pc EXCEPT ![w] = "settle"]
      /\ stmt \in [Committers -> Statements \cup {0}]
  BY Zenon, <1>1 DEF Sound, Rest, ThreadsOK, Goto
<1>3. pc'[w] = "settle"
  BY Zenon, <1>2
<1>4. stmt[w] = 0 /\ pend[w].sync = "none"
  BY Zenon, <1>1 DEF Acks, StmtInv, StmtOK
<1>5. /\ \A v \in Committers : v # w => stmt'[v] = stmt[v]
      /\ stmt'[w] \in mem' \cup {0}
      /\ ~dirty' => stmt'[w] \in staged' \cup {0}
  <2>1. CASE UNCHANGED <<mem, staged, dirty, stmt>>
    BY Zenon, <1>4, <2>1
  <2>2. CASE /\ mem' = mem \cup {next}
             /\ stmt' = [stmt EXCEPT ![w] = next]
             /\ staged' = IF dirty \/ kind = "whole" THEN {} ELSE staged \cup {next}
             /\ dirty' = (dirty \/ kind = "whole")
    <3>1. stmt'[w] = next /\ \A v \in Committers : v # w => stmt'[v] = stmt[v]
      BY Zenon, <1>2, <2>2
    <3>2. ~dirty' => staged' = staged \cup {next}
      BY Zenon, <2>2
    <3> QED BY <2>2, <3>1, <3>2
  <2> QED BY Zenon, <2>1, <2>2 DEF Execute
<1>6. StmtOK(w)'
  <2>1. ~Through(pc'[w], flight'.to) /\ pc'[w] # "idle" /\ pc'[w] # "lane"
    BY Zenon, <1>3 DEF Through
  <2> QED BY Zenon, <1>1, <1>4, <1>5, <2>1 DEF StmtOK
<1>7. StmtInv'
  BY Zenon, <1>1, <1>5, <1>6, MovesStmt DEF Acks
<1> QED BY Zenon, <1>1, <1>7, StayAck DEF Acks

LEMMA AskAcks ==
    ASSUME Sound, Acks, Carries, NEW w \in Committers, NEW to \in {"persist", "closing"}, Ask(w, to)
    PROVE  Acks'
<1>1. up /\ lock = NoOne /\ Goto(w, to) /\ UNCHANGED <<stmt, pend, acked, soft>>
  BY Zenon DEF Ask, history
<1>2. ~Owes(to, flight'.to) /\ ~Through(to, flight'.to)
  BY Zenon DEF Owes, Through
<1> QED BY Zenon, <1>1, <1>2, StayAcks

LEMMA LandAcks ==
    ASSUME Sound, Acks, Carries, NEW w \in Committers,
           \/ Land(w, "settle", FALSE, "commit") \/ Land(w, "checkpoint", TRUE, "relaunch")
           \/ Land(w, "persist", TRUE, "write") \/ Land(w, "closing", TRUE, "shut")
    PROVE  Acks'
<1>1. PICK wait \in BOOLEAN, from \in {"settle", "checkpoint", "persist", "closing"},
           to \in {"commit", "relaunch", "write", "shut"} :
         /\ Land(w, from, wait, to)
         /\ (from = "settle" <=> to = "commit") /\ (from = "checkpoint" <=> to = "relaunch")
  BY Zenon
<1>2. pc[w] = from /\ UNCHANGED <<staged, dirty>>
  BY Zenon, <1>1 DEF Land, journal
<1>3. lock = w /\ up
  BY Zenon, <1>2, HolderIs, WorksUp DEF Locked, Sound
<1>4. CASE Return(w, "error")
  BY Zenon, <1>3, <1>4, ReturnAcks
<1>5. ASSUME NEW p \in {to, "landed"}, Stay(w, p), p = "landed" => flight'.to = to PROVE Acks'
  <2>1. Goto(w, p) /\ UNCHANGED <<stmt, pend, acked, soft>> /\ p \notin {"idle", "lane"}
    BY Zenon, <1>5 DEF Stay, history
  <2>2. StmtOK(w)
    BY Zenon DEF Acks, StmtInv
  <2>3. Owes(p, flight'.to) => Owes(pc[w], flight.to)
    BY Zenon, <1>1, <1>2, <1>5 DEF Owes
  <2>4. Through(p, flight'.to) => Through(pc[w], flight.to)
    BY Zenon, <1>1, <1>2, <1>5 DEF Through
  <2>5. Through(p, flight'.to) => Done(w)
    BY Zenon, <1>3, <2>2, <2>4, ThroughDone
  <2> QED BY Zenon, <1>2, <1>3, <2>1, <2>3, <2>5, StayAcks
<1>6. flight' = [flight EXCEPT !.status = "landing", !.to = to] => flight'.to = to
  BY Zenon, Types DEF Flights
<1> QED BY Zenon, <1>1, <1>4, <1>5, <1>6 DEF Land

LEMMA LandedAcks ==
    ASSUME Sound, Acks, Carries, NEW w \in Committers, Landed(w)
    PROVE  Acks'
<1>1. pc[w] = "landed" /\ UNCHANGED <<staged, dirty>>
  BY Zenon DEF Landed
<1>2. lock = w /\ up
  BY Zenon, <1>1, HolderIs, WorksUp DEF Locked, Sound
<1>3. flight.to \in {"commit", "relaunch", "write", "shut"}
  <2>1. flight.to # "none"
    BY Zenon, <1>1 DEF Sound, LockInv
  <2> QED BY Zenon, <2>1, Types DEF Flights
<1>4. CASE Return(w, "error")
  BY Zenon, <1>2, <1>4, ReturnAcks
<1>5. CASE Stay(w, flight.to)
  <2>1. Goto(w, flight.to) /\ UNCHANGED <<stmt, pend, acked, soft>>
    BY Zenon, <1>5 DEF Stay, history
  <2>2. StmtOK(w)
    BY Zenon DEF Acks, StmtInv
  <2>3. Owes(flight.to, flight'.to) => Owes(pc[w], flight.to)
    BY Zenon, <1>1, <1>3 DEF Owes
  <2>4. Through(flight.to, flight'.to) => Through(pc[w], flight.to)
    BY Zenon, <1>1, <1>3 DEF Through
  <2>5. Through(flight.to, flight'.to) => Done(w)
    BY Zenon, <1>2, <2>2, <2>4, ThroughDone
  <2> QED BY Zenon, <1>1, <1>2, <1>3, <2>1, <2>3, <2>5, StayAcks
<1> QED BY Zenon, <1>4, <1>5 DEF Landed

LEMMA CommitAcks ==
    ASSUME Sound, Rest', Frame, Acks, Carries, NEW w \in Committers,
           \/ MustPersist(w) \/ NothingStaged(w)
           \/ \E set \in Settings : \/ Refuse(w, set) \/ EnqueueWait(w, set)
                                    \/ EnqueueNone(w, set) \/ EnqueueNoneFails(w, set)
    PROVE  Acks'
<1>1. pc[w] = "commit"
  BY ZenonT(30) DEF MustPersist, NothingStaged, Refuse, EnqueueWait, EnqueueNone,
    EnqueueNoneFails, Queue
<1>2. lock = w /\ up
  BY Zenon, <1>1, HolderIs, WorksUp DEF Locked, Sound
<1>3. StmtOK(w)
  BY Zenon DEF Acks, StmtInv
<1>4. pend[w].sync = "none" /\ (~dirty => stmt[w] \in staged \cup {0})
  BY Zenon, <1>1, <1>3 DEF StmtOK, Owes
<1>5. Done(w)
  BY Zenon, <1>4 DEF Done
<1>6. ASSUME NEW to \in {"persist", "checkpoint"}, Stay(w, to) PROVE Acks'
  <2>1. Goto(w, to) /\ UNCHANGED <<stmt, pend, acked, soft>>
    BY Zenon, <1>6 DEF Stay, history
  <2>2. ~Owes(to, flight'.to)
    BY Zenon DEF Owes
  <2> QED BY Zenon, <1>2, <1>5, <2>1, <2>2, StayAcks
<1>7. CASE Return(w, "none")
  BY Zenon, <1>2, <1>7, ReturnAcks
<1>8. ASSUME NEW set \in Settings, EnqueueWait(w, set) PROVE Acks'
  <2>1. /\ Queue(w, set) /\ Goto(w, "lane") /\ UNCHANGED <<stmt, acked, soft>>
        /\ pend' = [pend EXCEPT ![w] = [lane |-> w % set.lanes, sync |-> set.sync,
                                        ts |-> last + 1, after |-> After(w % set.lanes)]]
    BY Zenon, <1>8 DEF EnqueueWait, history
  <2>2. /\ pc \in [Committers -> Places] /\ pc' = [pc EXCEPT ![w] = "lane"]
        /\ pend \in [Committers -> Pends]
    BY Zenon, <2>1 DEF Sound, Rest, ThreadsOK, Goto
  <2>3. pc'[w] = "lane" /\ pend'[w].ts = last + 1
    BY Zenon, <2>1, <2>2
  <2>4. \A v \in Committers : v # w => stmt'[v] = stmt[v] /\ pend'[v] = pend[v]
    BY Zenon, <2>1, <2>2
  <2>5. /\ ~dirty /\ UNCHANGED <<flight, file, mem>> /\ Queued(w, set) \in block'
        /\ Queued(w, set).ts = last + 1 /\ Queued(w, set).stmts = staged
    <3>1. /\ ~dirty /\ block' = block \cup {Queued(w, set)} /\ UNCHANGED <<mem, flight, file>>
          /\ Queued(w, set).ts = last + 1 /\ Queued(w, set).stmts = staged
      BY Zenon, <2>1, QueueIs
    <3> QED BY Zenon, <3>1
  <2>6. last + 1 > file.durable /\ (flight.status = "writing" => last + 1 > flight.durable)
    BY <1>2, Types DEF Frame, StampInv, Flying, Flights, Files
  <2>7. stmt[w] = 0 \/ Logged(stmt[w], last + 1, block', file', flight')
    BY Zenon, <1>4, <2>5, <2>6 DEF Logged, Listed
  <2>8. stmt'[w] \in mem' \cup {0}
    BY Zenon, <1>2, <1>3, <2>1, <2>5 DEF StmtOK
  <2>9. ~Owes(pc'[w], flight'.to) /\ ~Through(pc'[w], flight'.to) /\ pc'[w] # "idle"
    BY Zenon, <2>3 DEF Owes, Through
  <2>10. StmtOK(w)'
    BY Zenon, <2>1, <2>3, <2>7, <2>8, <2>9 DEF StmtOK
  <2>11. StmtInv'
    BY Zenon, <1>2, <2>1, <2>4, <2>10, MovesStmt DEF Acks
  <2> QED BY Zenon, <1>2, <2>1, <2>11, StayAck DEF Acks
<1> QED
  BY Zenon, <1>6, <1>7, <1>8
  DEF MustPersist, NothingStaged, Settled, Refuse, EnqueueNone, EnqueueNoneFails

LEMMA WaitsAcks ==
    ASSUME Sound, Acks, Carries, NEW w \in Committers,
           LaneSettles(w) \/ LaneErrs(w) \/ CutWaitBegin(w) \/ CutTurn(w)
    PROVE  Acks'
<1>1. pc[w] \in {"lane", "after", "cut"} /\ UNCHANGED <<flight, staged, dirty, block, file>>
  BY Zenon DEF LaneSettles, LaneErrs, CutWaitBegin, CutTurn, journal
<1>2. up
  BY Zenon, <1>1, WorksUp DEF Sound
<1>3. StmtOK(w)
  BY Zenon DEF Acks, StmtInv
<1>4. pc[w] \in {"after", "cut"} => Done(w)
  BY Zenon, <1>2, <1>3, ThroughDone DEF Through
<1>5. LaneSettles(w) => Done(w)
  <2> SUFFICES ASSUME LaneSettles(w), stmt[w] # 0
               PROVE  Safe(stmt[w], pend[w].sync, block, file, flight)
    BY Zenon, <1>1 DEF Done
  <2>1. Logged(stmt[w], pend[w].ts, block, file, flight)
    BY Zenon, <1>3 DEF LaneSettles, StmtOK
  <2>2. \A b \in block : b.ts = pend[w].ts => Far(b, pend[w].sync)
    BY Zenon DEF LaneSettles
  <2> QED BY Zenon, <2>1, <2>2 DEF Logged, Listed, Safe, Held
<1>6. ASSUME NEW to \in {"after", "cut"}, Stay(w, to), Done(w) PROVE Acks'
  <2>1. Goto(w, to) /\ UNCHANGED <<stmt, pend, acked, soft>>
    BY Zenon, <1>6 DEF Stay, history
  <2>2. ~Owes(to, flight'.to)
    BY Zenon DEF Owes
  <2> QED BY Zenon, <1>1, <1>2, <1>6, <2>1, <2>2, StayAcks
<1>7. CASE Waited(w, FALSE)
  BY Zenon, <1>1, <1>2, <1>7, WaitedAcks
<1>8. CASE Waited(w, TRUE) /\ Done(w)
  BY Zenon, <1>1, <1>2, <1>8, WaitedAcks
<1>9. CASE UNCHANGED <<threads, history>>
  BY Zenon, <1>1, <1>2, <1>9, QuietAcks DEF threads, history
<1>10. CASE LaneSettles(w)
  BY Zenon, <1>5, <1>6, <1>8, <1>10 DEF LaneSettles
<1>11. CASE LaneErrs(w)
  BY Zenon, <1>7, <1>11 DEF LaneErrs
<1>12. CASE CutWaitBegin(w)
  BY Zenon, <1>4, <1>6, <1>12 DEF CutWaitBegin
<1>13. CASE CutTurn(w)
  <2>1. pc[w] = "cut"
    BY Zenon, <1>13 DEF CutTurn
  <2>2. Done(w)
    BY Zenon, <1>4, <2>1
  <2> QED BY Zenon, <1>7, <1>8, <1>9, <1>13, <2>2 DEF CutTurn
<1> QED BY Zenon, <1>10, <1>11, <1>12, <1>13

LEMMA PersistAcks ==
    ASSUME Sound, Frame, SavedInv, Acks, Carries, NEW w \in Committers,
           \/ Relock(w) \/ CheckpointInline(w) \/ ShortAgain(w) \/ Launch(w)
           \/ WriteFile(w) \/ WriteFileFails(w) \/ Recycle(w) \/ Checkpointed(w) \/ CloseLog(w)
    PROVE  Acks'
<1>1. /\ pc[w] # "idle"
      /\ lock = NoOne \/ pc[w] \in Locked
  BY Zenon DEF Relock, CheckpointInline, ShortAgain, Launch, WriteFile, WriteFileFails, Recycle,
         Checkpointed, CloseLog, Locked
<1>2. up /\ lock \in {w, NoOne}
  BY Zenon, <1>1, WorksUp, HolderIs DEF Sound
<1>3. StmtOK(w)
  BY Zenon DEF Acks, StmtInv
<1>4. pc[w] \in {"relock", "checkpoint", "relaunch"} => Done(w)
  BY Zenon, <1>2, <1>3, ThroughDone DEF Through
<1>5. ASSUME NEW to \in {"checkpoint", "persist", "recycle", "close", "recycled"}, Goto(w, to),
             UNCHANGED <<stmt, pend, history>>, to = "checkpoint" => Done(w)
      PROVE  Acks'
  <2>1. UNCHANGED <<acked, soft>>
    BY Zenon, <1>5 DEF history
  <2>2. ~Owes(to, flight'.to) /\ (Through(to, flight'.to) => Done(w))
    BY Zenon, <1>5 DEF Owes, Through
  <2> QED BY Zenon, <1>2, <1>5, <2>1, <2>2, StayAcks
<1>6. CASE Return(w, "error")
  BY Zenon, <1>2, <1>6, ReturnAcks
<1>7. CASE Return(w, pend[w].sync) /\ Done(w)
  BY Zenon, <1>2, <1>7, ReturnAcks DEF Done
<1>8. CASE (Checkpointed(w) \/ CloseLog(w)) /\ Return(w, "full")
  <2>1. file'.content = mem /\ flight'.status = "none"
    BY Zenon, <1>8, ClearedIs
  <2>2. stmt[w] = 0 \/ Safe(stmt[w], "full", block', file', flight')
    BY Zenon, <1>2, <1>3, <2>1 DEF StmtOK, Safe, Held
  <2> QED BY Zenon, <1>2, <1>8, <2>2, ReturnAcks
<1>9. CASE Relock(w)
  BY Zenon, <1>4, <1>5, <1>7, <1>9 DEF Relock
<1>10. CASE CheckpointInline(w) \/ WriteFile(w) \/ WriteFileFails(w) \/ Recycle(w)
  BY Zenon, <1>5, <1>6, <1>10 DEF CheckpointInline, WriteFile, WriteFileFails, Recycle, Stay
<1>11. CASE ShortAgain(w) \/ Launch(w)
  BY Zenon, <1>4, <1>7, <1>11 DEF ShortAgain, Launch
<1>12. CASE Checkpointed(w) \/ CloseLog(w)
  BY Zenon, <1>6, <1>8, <1>12 DEF Checkpointed, CloseLog
<1> QED BY Zenon, <1>9, <1>10, <1>11, <1>12

-----------------------------------------------------------------------------
LEMMA CrashAcks ==
    ASSUME Sound, Frame, Acks, NEW kind \in Crashes, Crash(kind)
    PROVE  Acks'
<1>1. /\ ~up' /\ flight'.status = "none" /\ UNCHANGED <<file, acked>>
      /\ \A w \in Committers : pc'[w] = "idle" /\ stmt'[w] = 0 /\ pend'[w].sync = "none"
  BY Zenon DEF Crash, NoFlight, NoPend
<1>2. StmtInv'
  <2> SUFFICES ASSUME NEW w \in Committers PROVE StmtOK(w)'
    BY Zenon DEF StmtInv
  <2>1. ~Owes(pc'[w], flight'.to) /\ ~Through(pc'[w], flight'.to) /\ pc'[w] # "lane"
    BY Zenon, <1>1 DEF Owes, Through
  <2> QED BY Zenon, <1>1, <2>1 DEF StmtOK
<1>3. CASE block' = {b \in block : b.at # "queued"} /\ UNCHANGED soft
  <2>1. \A s, y : Held(s, y, block, file.durable, file.content)
                     => Held(s, y, block', file.durable, file.content)
    BY Zenon, <1>3 DEF Held, Far
  <2> QED BY Zenon, <1>1, <1>2, <1>3, <2>1 DEF Acks, AckInv, Safe
<1>4. ASSUME NEW S \in Survivors, block' = {[b EXCEPT !.at = "synced"] : b \in S}, soft' = {}
      PROVE  Acks'
  <2> DEFINE f(b) == [b EXCEPT !.at = "synced"]
  <2>1. \A b \in block : b.at = "synced" => b \in S
    BY Zenon DEF Survivors
  <2>2. S \subseteq block
    BY Zenon DEF Survivors
  <2>3. block' = {f(b) : b \in S}
    BY Zenon, <1>4
  <2>4. \A b \in block : f(b).ts = b.ts /\ f(b).stmts = b.stmts /\ f(b).at = "synced"
    BY Zenon, Types DEF Blocks
  <2> HIDE DEF f
  <2>5. ASSUME NEW s, Held(s, "full", block, file.durable, file.content)
        PROVE  Held(s, "full", block', file.durable, file.content)
    <3>1. CASE s \in file.content
      BY Zenon, <3>1 DEF Held
    <3>2. ASSUME NEW b \in block, b.ts > file.durable, s \in b.stmts, Far(b, "full")
          PROVE  Held(s, "full", block', file.durable, file.content)
      <4>1. f(b) \in block'
        BY Zenon, <2>1, <2>3, <3>2 DEF Far
      <4> QED BY Zenon, <2>4, <3>2, <4>1 DEF Held, Far
    <3> QED BY Zenon, <2>5, <3>1, <3>2 DEF Held
  <2> QED BY Zenon, <1>1, <1>2, <1>4, <2>5 DEF Acks, AckInv, Safe
<1> QED BY Zenon, <1>3, <1>4 DEF Crash

LEMMA RecoverAcks ==
    ASSUME Sound, Frame, OrderInv, Acks, Recover
    PROVE  Acks'
<1>1. /\ ~up /\ flight'.status = "none" /\ flight.status = "none" /\ UNCHANGED <<file, flight, acked, soft>>
      /\ \A w \in Committers : pc'[w] = "idle" /\ pc[w] = "idle" /\ UNCHANGED <<stmt, pend>>
  <2>1. ~up /\ flight.status = "none" /\ UNCHANGED <<file, flight, pc>>
    BY Zenon, RecoverIs
  <2>2. \A w \in Committers : pc[w] = "idle"
    BY Zenon, <2>1 DEF Sound, Down
  <2>3. UNCHANGED <<stmt, pend, acked, soft>>
    BY Zenon DEF Recover, threads, history
  <2> QED BY Zenon, <2>1, <2>2, <2>3
<1>2. StmtInv'
  <2> SUFFICES ASSUME NEW w \in Committers PROVE StmtOK(w)'
    BY Zenon DEF StmtInv
  <2>1. ~Owes(pc'[w], flight'.to) /\ ~Through(pc'[w], flight'.to) /\ pc'[w] # "lane"
    BY Zenon, <1>1 DEF Owes, Through
  <2>2. stmt'[w] = 0 /\ pend'[w].sync = "none"
    BY Zenon, <1>1 DEF Acks, StmtInv, StmtOK
  <2> QED BY Zenon, <1>1, <2>1, <2>2 DEF StmtOK
<1>3. CASE ~file.anchored
  <2>1. file.content = {} /\ block = {}
    BY Zenon, <1>3 DEF Frame, FileInv
  <2>2. acked = {} /\ soft = {}
    BY Zenon, <2>1 DEF Acks, AckInv, Safe, Held
  <2> QED BY Zenon, <1>1, <1>2, <2>2 DEF Acks, AckInv
<1>4. CASE file.anchored
  <2>1. block' = block /\ mem' = file.content \cup UNION {b.stmts : b \in Kept}
    BY Zenon, <1>4 DEF Recover
  <2>2. Kept = Replayable
    BY Zenon, <1>1, KeptReaches DEF OrderInv
  <2>3. \A s, y : Held(s, y, block, file.durable, file.content) => s \in mem'
    BY Zenon, <2>1, <2>2 DEF Held, Replayable
  <2>4. acked \cup soft \subseteq mem'
    BY Zenon, <2>3 DEF Acks, AckInv, Safe
  <2> QED BY Zenon, <1>1, <1>2, <2>1, <2>4 DEF Acks, AckInv
<1> QED BY Zenon, <1>3, <1>4

LEMMA AcksStep ==
    ASSUME Sound, Rest', Frame, SavedInv, OrderInv, Acks, [JournalNext]_vars
    PROVE  Acks'
<1>1. CASE (\E kind \in Crashes : Crash(kind)) \/ Recover
  BY Zenon, <1>1, CrashAcks, RecoverAcks
<1>2. CASE UNCHANGED vars
  <2>1. UNCHANGED <<up, mem, stmt, pc, pend, staged, dirty, block, file, flight, acked, soft>>
    BY Zenon, <1>2 DEF vars, journal, threads, history
  <2> QED BY Zenon, <2>1 DEF Acks, StmtInv, StmtOK, AckInv
<1>3. ASSUME JournalNext, ~\E kind \in Crashes : Crash(kind), ~Recover PROVE Acks'
  <2>1. Carries
    BY Zenon, <1>3, StepEffect, MemGrows, EffectCarries
  <2>2. ASSUME NEW w \in Committers, Client(w) PROVE Acks'
    BY Zenon, <2>1, <2>2, ExecuteAcks, AskAcks DEF Client
  <2>3. ASSUME NEW w \in Committers, Worker(w) PROVE Acks'
    <3>1. CASE \/ Land(w, "settle", FALSE, "commit") \/ Land(w, "checkpoint", TRUE, "relaunch")
               \/ Land(w, "persist", TRUE, "write") \/ Land(w, "closing", TRUE, "shut")
      BY Zenon, <2>1, <3>1, LandAcks
    <3>2. CASE Landed(w)
      BY Zenon, <2>1, <3>2, LandedAcks
    <3>3. CASE \/ MustPersist(w) \/ NothingStaged(w)
               \/ \E set \in Settings : \/ Refuse(w, set) \/ EnqueueWait(w, set)
                                        \/ EnqueueNone(w, set) \/ EnqueueNoneFails(w, set)
      BY Zenon, <2>1, <3>3, CommitAcks
    <3>4. CASE LaneSettles(w) \/ LaneErrs(w) \/ CutWaitBegin(w) \/ CutTurn(w)
      BY Zenon, <2>1, <3>4, WaitsAcks
    <3>5. CASE \/ Relock(w) \/ CheckpointInline(w) \/ ShortAgain(w) \/ Launch(w)
               \/ WriteFile(w) \/ WriteFileFails(w) \/ Recycle(w) \/ Checkpointed(w) \/ CloseLog(w)
      BY Zenon, <2>1, <3>5, PersistAcks
    <3> QED BY Zenon, <2>3, <3>1, <3>2, <3>3, <3>4, <3>5 DEF Worker
  <2>4. CASE (\E l \in Lanes : LaneWrite(l) \/ LaneSync(l) \/ LaneFail(l)) \/ FlightDone \/ FlightFail
    <3>1. up /\ UNCHANGED <<pc, stmt, pend, acked, soft, staged, dirty>>
      BY Zenon, <2>4 DEF LaneWrite, LaneSync, LaneFail, FlightDone, FlightFail, journal,
        threads, history
    <3>2. flight'.to = flight.to
      BY Zenon, <2>4, Types DEF LaneWrite, LaneSync, LaneFail, FlightDone, FlightFail, Flights
    <3> QED BY ZenonT(30), <2>1, <3>1, <3>2, QuietAcks
  <2> QED BY Zenon, <1>3, <2>2, <2>3, <2>4 DEF JournalNext
<1> QED BY Zenon, <1>1, <1>2, <1>3

(* The inductive invariant of the acknowledged commits. *)
AnsweredInv == Framed /\ OrderInv /\ Acks

LEMMA AnsweredInit == JournalInit => AnsweredInv
<1> SUFFICES ASSUME JournalInit PROVE AnsweredInv
  BY Zenon
<1>1. OrderInv
  BY Zenon DEF JournalInit, OrderInv
<1>2. StmtInv
  <2> SUFFICES ASSUME NEW w \in Committers PROVE StmtOK(w)
    BY Zenon DEF StmtInv
  <2>1. pc[w] = "idle" /\ stmt[w] = 0 /\ pend[w].sync = "none"
    BY Zenon DEF JournalInit, NoPend
  <2>2. ~Owes(pc[w], flight.to) /\ ~Through(pc[w], flight.to)
    BY Zenon, <2>1 DEF Owes, Through
  <2> QED BY Zenon, <2>1, <2>2 DEF StmtOK
<1>3. AckInv
  BY Zenon DEF JournalInit, AckInv
<1> QED BY Zenon, <1>1, <1>2, <1>3, FramedInit DEF AnsweredInv, Acks

LEMMA AnsweredStep ==
    ASSUME SingleLane, OneCrash
    PROVE  AnsweredInv /\ [JournalNext]_vars => AnsweredInv'
<1> SUFFICES ASSUME AnsweredInv, [JournalNext]_vars PROVE AnsweredInv'
  BY Zenon
<1>1. Sound /\ Frame /\ SavedInv /\ OrderInv /\ Acks
  BY Zenon DEF AnsweredInv, Framed
<1>2. Framed' /\ Rest'
  BY Zenon, FramedStep DEF AnsweredInv, Framed, Sound
<1>3. OrderInv' /\ Acks'
  BY Zenon, <1>1, <1>2, OrderStep, AcksStep
<1> QED BY Zenon, <1>2, <1>3 DEF AnsweredInv

(* A commit that answered with commit_sync full is in every later opening,  *)
(* and one with os unless power was lost: for any number of workers and     *)
(* statements, with failing lanes, refused blocks and checkpoints of either *)
(* kind, inline or in flight.                                               *)
THEOREM JournalAcked == SingleLane /\ OneCrash => (JournalSpec => []AckedKept)
<1> SUFFICES ASSUME SingleLane, OneCrash PROVE JournalSpec => []AckedKept
  BY Zenon
<1>1. AnsweredInv => AckedKept
  BY Zenon DEF AnsweredInv, Acks, AckInv, AckedKept
<1>2. AnsweredInv /\ [JournalNext]_vars => AnsweredInv'
  BY Zenon, AnsweredStep
<1> QED BY <1>1, <1>2, AnsweredInit, PTL DEF JournalSpec
=============================================================================
