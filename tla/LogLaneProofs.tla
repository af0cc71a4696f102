--------------------------- MODULE LogLaneProofs ---------------------------
(***************************************************************************)
(* What the abstract lane keeps, for any number of blocks and openings.     *)
(* RunsInOrder is inductive with the type invariant: the one action that    *)
(* could break the order of the runs is Enqueue, and every block there is   *)
(* is at most last.  DurableKept follows step by step.                      *)
(***************************************************************************)
EXTENDS LogLane, TLAPS

LogInv == LogTypeOK /\ RunsInOrder

(* What a checkpoint leaves owed of a first part is a first part. *)
LEMMA FirstOfOwed == ASSUME NEW A \in SUBSET Nat, NEW B \in SUBSET Nat, NEW c \in Nat,
                            FirstOf(A, B)
                     PROVE  FirstOf(Owed(A, c), Owed(B, c))
  BY Zenon DEF FirstOf, Owed

(* The initial state has no run. *)
LEMMA LogInitInv == LogInit => LogInv
<1> SUFFICES ASSUME LogInit PROVE LogInv
  OBVIOUS
<1>1. runs \in Seq(Run) /\ DOMAIN runs = {}
  BY DEF LogInit
<1>2. up \in BOOLEAN /\ ~up
  BY Zenon DEF LogInit
<1>3. LogTypeOK
  BY <1>1, <1>2 DEF LogInit, LogTypeOK
<1>4. RunsInOrder
  BY <1>1 DEF RunsInOrder
<1> QED BY <1>3, <1>4 DEF LogInv

(* What every run satisfies on its own, and two runs together. *)
RunSound(r, c, l) == /\ FirstOf(r.written, r.queued)
                     /\ FirstOf(r.durable, r.written)
                     /\ \A b \in r.queued : c < b /\ b <= l
RunBefore(r, s) == \A a \in r.queued, b \in s.queued : a < b

(* A step that gives every run fewer blocks to queue keeps the order. *)
LEMMA Shrinks ==
  ASSUME LogInv, NEW f \in [DOMAIN runs -> Run], NEW c \in Nat,
         runs' = f, last' = last, covered' = c, c <= last, up' \in BOOLEAN,
         up' => up,
         \A i \in DOMAIN runs : f[i].queued \subseteq runs[i].queued /\ RunSound(f[i], c, last)
  PROVE  LogInv'
<1>1. runs \in Seq(Run) /\ DOMAIN runs = 1..Len(runs) /\ Len(runs) \in Nat
  BY DEF LogInv, LogTypeOK
<1>2. f \in Seq(Run) /\ DOMAIN f = DOMAIN runs /\ Len(f) = Len(runs)
  BY <1>1
<1>3. LogTypeOK'
  BY <1>1, <1>2 DEF LogInv, LogTypeOK
<1>4. ASSUME NEW i \in DOMAIN f, NEW j \in DOMAIN f, i < j,
             NEW a \in f[i].queued, NEW b \in f[j].queued
      PROVE  a < b
  BY <1>2, <1>4 DEF LogInv, RunsInOrder
<1>5. RunsInOrder'
  BY <1>2, <1>4 DEF RunsInOrder, RunSound
<1> QED BY <1>3, <1>5 DEF LogInv

(* Every step of the abstract lane keeps the invariant: a commit, a turn of *)
(* a leader, a checkpoint, and the two ends of the process.                 *)
LEMMA LogStep == LogInv /\ [LogNext]_logVars => LogInv'
<1> SUFFICES ASSUME LogInv, [LogNext]_logVars PROVE LogInv'
  OBVIOUS
<1>t. /\ runs \in Seq(Run) /\ DOMAIN runs = 1..Len(runs) /\ Len(runs) \in Nat
      /\ \A i \in DOMAIN runs : runs[i] \in Run /\ RunSound(runs[i], covered, last)
      /\ covered \in Nat /\ last \in Nat /\ covered <= last /\ (up => Len(runs) > 0)
  BY DEF LogInv, LogTypeOK, RunsInOrder, RunSound
<1>1. CASE Begin
  <2>1. NewRun \in Run /\ RunSound(NewRun, covered, last)
    BY DEF NewRun, Run, RunSound, FirstOf
  <2>2. LogTypeOK'
    BY <1>1, <1>t, <2>1 DEF Begin, LogTypeOK
  <2>3. \A i \in DOMAIN runs' : \/ i \in DOMAIN runs /\ runs'[i] = runs[i]
                                \/ i = Len(runs) + 1 /\ runs'[i] = NewRun
    BY <1>1, <1>t DEF Begin
  <2>4. RunsInOrder'
    BY SMTT(40), <1>1, <1>t, <2>1, <2>3 DEF Begin, LogInv, RunsInOrder, RunSound, NewRun
  <2> QED BY <2>2, <2>4 DEF LogInv
<1>2. CASE Enqueue
  <2> DEFINE n == Len(runs)
             r == [queued |-> runs[n].queued \cup {last + 1},
                   written |-> runs[n].written, durable |-> runs[n].durable]
  <2>1. n \in DOMAIN runs
    BY <1>2, <1>t DEF Enqueue
  <2>2. r \in Run /\ r.written = runs[n].written /\ r.durable = runs[n].durable
        /\ r.queued = runs[n].queued \cup {last + 1}
    BY <1>t, <2>1 DEF Run
  <2>3. runs' = [runs EXCEPT ![n] = r] /\ last' = last + 1 /\ covered' = covered /\ up' = up
    BY <1>2 DEF Enqueue
  <2>4. LogTypeOK'
    BY <1>t, <2>1, <2>2, <2>3 DEF LogTypeOK, LogInv
  <2>5. \A i \in DOMAIN runs' : i \in DOMAIN runs /\ runs'[i] = IF i = n THEN r ELSE runs[i]
    BY <1>t, <2>3
  <2>6. RunSound(r, covered', last')
    <3>1. FirstOf(r.durable, r.written)
      BY <1>t, <2>1, <2>2 DEF RunSound
    <3>2. FirstOf(r.written, r.queued)
      BY <1>t, <2>1, <2>2 DEF RunSound, FirstOf, Run
    <3>3. \A b \in r.queued : covered' < b /\ b <= last'
      BY <1>t, <2>1, <2>2, <2>3 DEF RunSound, Run
    <3> QED BY <3>1, <3>2, <3>3 DEF RunSound
  <2>7. ASSUME NEW i \in DOMAIN runs, i # n PROVE RunSound(runs[i], covered', last')
    BY <1>t, <2>3, <2>7 DEF RunSound, Run
  <2>8. ASSUME NEW i \in DOMAIN runs', NEW j \in DOMAIN runs', i < j,
               NEW a \in runs'[i].queued, NEW b \in runs'[j].queued
        PROVE  a < b
    <3>1. i # n /\ i \in DOMAIN runs /\ j \in DOMAIN runs /\ a \in runs[i].queued
      BY <1>t, <2>5, <2>8
    <3>2. a \in Nat /\ a <= last
      BY <1>t, <3>1 DEF RunSound, Run
    <3>3. CASE b = last + 1
      BY <1>t, <3>2, <3>3
    <3>4. CASE b # last + 1
      <4>1. b \in runs[j].queued
        BY <2>2, <2>5, <2>8, <3>4
      <4> QED BY <4>1, <3>1, <2>8 DEF LogInv, RunsInOrder
    <3> QED BY <3>3, <3>4
  <2>9. RunsInOrder'
    BY Zenon, <2>5, <2>6, <2>7, <2>8 DEF RunsInOrder, RunSound
  <2> QED BY <2>4, <2>9 DEF LogInv
<1>3. CASE Turn
  <2> DEFINE n == Len(runs)
             q == runs[n]
  <2>1. n \in DOMAIN runs /\ q \in Run
    BY <1>3, <1>t DEF Turn
  <2>2. PICK w \in SUBSET q.queued : \E d \in SUBSET w :
             /\ FirstOf(w, q.queued) /\ FirstOf(d, w)
             /\ runs' = [runs EXCEPT ![n] = [queued |-> q.queued, written |-> w, durable |-> d]]
    BY Zenon, <1>3 DEF Turn
  <2>3. PICK d \in SUBSET w :
             /\ FirstOf(w, q.queued) /\ FirstOf(d, w)
             /\ runs' = [runs EXCEPT ![n] = [queued |-> q.queued, written |-> w, durable |-> d]]
    BY Zenon, <2>2
  <2> DEFINE r == [queued |-> q.queued, written |-> w, durable |-> d]
             f == [runs EXCEPT ![n] = r]
  <2>4. r \in Run
    BY <2>1 DEF Run
  <2>5. runs' = f
    BY <1>t, <2>1, <2>3 DEF Run
  <2>6. f \in [DOMAIN runs -> Run]
    BY <1>t, <2>1, <2>4
  <2>7. RunSound(r, covered, last)
    BY <1>t, <2>1, <2>3 DEF RunSound
  <2>8. \A i \in DOMAIN runs : f[i].queued \subseteq runs[i].queued /\ RunSound(f[i], covered, last)
    BY <1>t, <2>1, <2>7
  <2>9. last' = last /\ covered' = covered /\ up' = up /\ up \in BOOLEAN
    BY <1>3 DEF Turn, LogInv, LogTypeOK
  <2> HIDE DEF f
  <2> QED BY <1>t, <2>5, <2>6, <2>8, <2>9, Shrinks
<1>4. CASE Cover
  <2>1. PICK c \in covered..last : covered' = c /\ runs' = [i \in DOMAIN runs |-> Less(runs[i], c)]
    BY <1>4 DEF Cover
  <2> DEFINE f == [i \in DOMAIN runs |-> Less(runs[i], c)]
  <2>2. c \in Nat /\ c <= last
    BY <1>t
  <2>3. \A i \in DOMAIN runs : Less(runs[i], c) \in Run
    BY <1>t DEF Less, Owed, Run
  <2>4. ASSUME NEW i \in DOMAIN runs
        PROVE  /\ Less(runs[i], c).queued \subseteq runs[i].queued
               /\ RunSound(Less(runs[i], c), c, last)
    <3>1. runs[i].queued \in SUBSET Nat /\ runs[i].written \in SUBSET Nat
          /\ runs[i].durable \in SUBSET Nat
      BY <1>t DEF Run
    <3>2. FirstOf(Owed(runs[i].written, c), Owed(runs[i].queued, c))
      BY SMTT(40), <1>t, <2>2, <3>1, FirstOfOwed DEF RunSound
    <3>3. FirstOf(Owed(runs[i].durable, c), Owed(runs[i].written, c))
      BY <1>t, <2>2, <3>1, FirstOfOwed DEF RunSound
    <3>4. \A b \in Owed(runs[i].queued, c) : c < b /\ b <= last /\ b \in runs[i].queued
      BY <1>t, <2>2, <3>1 DEF RunSound, Owed
    <3> QED BY <3>2, <3>3, <3>4 DEF RunSound, Less
  <2>5. up' = up /\ up \in BOOLEAN /\ last' = last
    BY <1>4 DEF Cover, LogInv, LogTypeOK
  <2>6. f \in [DOMAIN runs -> Run] /\ \A i \in DOMAIN runs : f[i] = Less(runs[i], c)
    BY <2>3
  <2>7. runs' = f
    BY <2>1
  <2> HIDE DEF f
  <2> QED BY <2>1, <2>2, <2>4, <2>5, <2>6, <2>7, Shrinks
<1>5. CASE Close
  <2> DEFINE f == [i \in DOMAIN runs |-> NewRun]
  <2>1. NewRun \in Run /\ RunSound(NewRun, last, last) /\ NewRun.queued = {}
    BY DEF NewRun, Run, RunSound, FirstOf
  <2>2. f \in [DOMAIN runs -> Run] /\ \A i \in DOMAIN runs : f[i] = NewRun
    BY <2>1
  <2>3. runs' = f /\ last' = last /\ covered' = last /\ up' = FALSE
    BY <1>5 DEF Close
  <2>4. \A i \in DOMAIN runs : f[i].queued \subseteq runs[i].queued /\ RunSound(f[i], last, last)
    BY <2>1, <2>2
  <2>5. last \in Nat /\ last <= last
    BY <1>t
  <2>6. up' \in BOOLEAN /\ (up' => up)
    BY <2>3, Zenon
  <2> HIDE DEF f
  <2> QED BY <2>2, <2>3, <2>4, <2>5, <2>6, Shrinks
<1>6. CASE EndProcess
  <2> DEFINE n == Len(runs)
             q == runs[n]
  <2>1. n \in DOMAIN runs /\ q \in Run
    BY <1>6, <1>t DEF EndProcess
  <2>2. PICK s \in SUBSET q.queued : \E d \in SUBSET s :
             /\ FirstOf(s, q.queued) /\ FirstOf(d, s)
             /\ runs' = [runs EXCEPT ![n] = [queued |-> s, written |-> s, durable |-> d]]
    BY Zenon, <1>6 DEF EndProcess
  <2>3. PICK d \in SUBSET s :
             /\ FirstOf(d, s)
             /\ runs' = [runs EXCEPT ![n] = [queued |-> s, written |-> s, durable |-> d]]
    BY Zenon, <2>2
  <2> DEFINE r == [queued |-> s, written |-> s, durable |-> d]
             f == [runs EXCEPT ![n] = r]
  <2>4. r \in Run /\ RunSound(r, covered, last)
    BY SMTT(40), <1>t, <2>1, <2>3 DEF Run, RunSound, FirstOf
  <2>5. f \in [DOMAIN runs -> Run]
    BY <1>t, <2>1, <2>4
  <2>6. \A i \in DOMAIN runs : f[i].queued \subseteq runs[i].queued /\ RunSound(f[i], covered, last)
    BY <1>t, <2>1, <2>4
  <2>7. last' = last /\ covered' = covered /\ up' = FALSE /\ runs' = f
    BY Zenon, <1>6, <2>3 DEF EndProcess
  <2> HIDE DEF f
  <2> QED BY Zenon, <1>t, <2>5, <2>6, <2>7, Shrinks
<1>7. CASE EndPower
  <2>1. PICK f \in [DOMAIN runs -> UNION {Cut(runs[i]) : i \in DOMAIN runs}] :
            (\A i \in DOMAIN runs : f[i] \in Cut(runs[i])) /\ runs' = f
    BY <1>7 DEF EndPower
  <2>2. ASSUME NEW i \in DOMAIN runs
        PROVE  f[i] \in Run /\ f[i].queued \subseteq runs[i].queued /\ RunSound(f[i], covered, last)
    <3>1. PICK s \in SUBSET runs[i].queued : f[i] = [queued |-> s, written |-> s, durable |-> s]
      BY <2>1 DEF Cut
    <3> QED BY SMTT(40), <1>t, <3>1 DEF Run, RunSound, FirstOf
  <2>3. f \in [DOMAIN runs -> Run]
    BY <2>1, <2>2
  <2>4. last' = last /\ covered' = covered /\ up' = FALSE
    BY <1>7 DEF EndPower
  <2> QED BY Zenon, <1>t, <2>1, <2>2, <2>3, <2>4, Shrinks
<1>8. CASE UNCHANGED logVars
  BY <1>8 DEF logVars, LogInv, LogTypeOK, RunsInOrder
<1> QED BY <1>1, <1>2, <1>3, <1>4, <1>5, <1>6, <1>7, <1>8 DEF LogNext

(* The blocks of every run are in order, whatever steps a lane takes. *)
THEOREM LogInvariant == LogSpec => []LogInv
  BY LogInitInv, LogStep, PTL DEF LogSpec

(* What replay reads of a lane, opening after opening, is in the order the  *)
(* blocks were queued in, without a block the file has and without a hole   *)
(* before what is durable, for any number of blocks, openings and crashes.  *)
THEOREM LogRunsInOrder == LogSpec => []RunsInOrder
<1>1. LogInv => RunsInOrder
  BY DEF LogInv
<1> QED BY <1>1, LogInvariant, PTL

(* One step keeps what is durable and not in the file. *)
KeepsDurable == \A i \in DOMAIN runs :
                   \A b \in runs[i].durable : b > covered' => b \in runs'[i].durable

(* Every step of the abstract lane keeps it, the crashes included. *)
LEMMA DurableStep == LogInv /\ [LogNext]_logVars => [KeepsDurable]_logVars
<1> SUFFICES ASSUME LogInv, LogNext PROVE KeepsDurable
  OBVIOUS
<1>t. /\ runs \in Seq(Run) /\ DOMAIN runs = 1..Len(runs) /\ Len(runs) \in Nat
      /\ \A i \in DOMAIN runs : /\ runs[i] \in Run
                                /\ runs[i].durable \subseteq runs[i].queued
                                /\ \A b \in runs[i].queued : b \in Nat /\ b <= last
      /\ covered \in Nat /\ last \in Nat /\ (up => Len(runs) > 0)
  <2>1. /\ runs \in Seq(Run) /\ DOMAIN runs = 1..Len(runs) /\ Len(runs) \in Nat
        /\ covered \in Nat /\ last \in Nat /\ (up => Len(runs) > 0)
    BY DEF LogInv, LogTypeOK
  <2>2. ASSUME NEW i \in DOMAIN runs
        PROVE  /\ runs[i] \in Run
               /\ runs[i].durable \subseteq runs[i].queued
               /\ \A b \in runs[i].queued : b \in Nat /\ b <= last
    <3>1. runs[i] \in Run
      BY <2>1
    <3>2. runs[i].queued \in SUBSET Nat
      BY <3>1 DEF Run
    <3> QED BY <3>1, <3>2 DEF LogInv, RunsInOrder, FirstOf
  <2> QED BY <2>1, <2>2
<1> SUFFICES ASSUME NEW i \in DOMAIN runs, NEW b \in runs[i].durable, b > covered'
             PROVE  b \in runs'[i].durable
  BY DEF KeepsDurable
<1>1. CASE Begin
  BY <1>1, <1>t DEF Begin
<1>2. CASE Enqueue
  BY <1>2, <1>t DEF Enqueue
<1>3. CASE Turn
  BY <1>3, <1>t DEF Turn
<1>4. CASE Cover
  <2>1. b \in Nat
    BY <1>t
  <2> QED BY <1>4, <2>1, <1>t DEF Cover, Less, Owed
<1>5. CASE Close
  <2>1. b \in Nat /\ b <= last /\ covered' = last
    BY <1>5, <1>t DEF Close
  <2> QED BY <2>1, <1>t
<1>6. CASE EndProcess
  BY <1>6, <1>t DEF EndProcess
<1>7. CASE EndPower
  BY SMTT(40), <1>7, <1>t DEF EndPower, Cut
<1> QED BY <1>1, <1>2, <1>3, <1>4, <1>5, <1>6, <1>7 DEF LogNext

(* No crash, turn or new run of a lane loses a durable block the file does  *)
(* not have.                                                                *)
THEOREM LogKeepsDurable == LogSpec => DurableKept
<1> QED BY DurableStep, LogInvariant, PTL DEF LogSpec, DurableKept, KeepsDurable
=============================================================================
