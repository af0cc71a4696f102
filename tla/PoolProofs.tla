----------------------------- MODULE PoolProofs -----------------------------
(***************************************************************************)
(* No copy of a task outlives its scatter, for any callers, workers and     *)
(* sizes of the pool.                                                       *)
(*                                                                          *)
(* The count of a batch covers its copies: those in the queue, those that   *)
(* run and those its caller took back and has still to run (Covered).  A    *)
(* thread that runs a copy runs one (RunsOne), so that a copy is counted    *)
(* down once.  Outside a scatter the count is 0 (Rests): the join saw it,   *)
(* and nobody runs a copy that could count it down again.                   *)
(***************************************************************************)
EXTENDS Pool, FiniteSetTheorems, TLAPS

Queued(c) == {i \in DOMAIN jobs : jobs[i] = c}
Running(c) == {t \in Workers \cup Callers : job[t] = c}
Owed(c) == IF caller[c] = "own" THEN short[c] ELSE 0

Steps == {"none", "look", "run", "parked", "woken", "gone"}

PoolTypes ==
    /\ threads \in Nat /\ busy \in Int /\ idle \in Int /\ jobs \in Seq(Callers)
    /\ worker \in [Workers -> Steps]
    /\ job \in [Workers \cup Callers -> Callers \cup {NoBatch}]
    /\ caller \in [Callers -> InScatter \cup {"away", "leased"}]
    /\ extra \in [Callers -> Nat] /\ left \in [Callers -> Nat] /\ short \in [Callers -> Nat]

Covered ==
    \A c \in Callers : Cardinality(Queued(c)) + Cardinality(Running(c)) + Owed(c) <= left[c]
RunsOne ==
    /\ \A w \in Workers : worker[w] = "run" <=> job[w] # NoBatch
    /\ \A c \in Callers : caller[c] = "inline" <=> job[c] # NoBatch
Rests == \A c \in Callers : caller[c] \notin InScatter => left[c] = 0

PoolInv == PoolTypes /\ Covered /\ RunsOne /\ Rests

-----------------------------------------------------------------------------
LEMMA Finite ==
    ASSUME jobs \in Seq(Callers), NEW c
    PROVE  /\ IsFiniteSet(Queued(c)) /\ Cardinality(Queued(c)) \in Nat
           /\ IsFiniteSet(Running(c)) /\ Cardinality(Running(c)) \in Nat
<1>1. IsFiniteSet(1..Len(jobs)) /\ Queued(c) \in SUBSET (1..Len(jobs))
  <2>1. Len(jobs) \in Nat /\ DOMAIN jobs = 1..Len(jobs)
    OBVIOUS
  <2> QED BY <2>1, FS_Interval DEF Queued
<1>2. IsFiniteSet(Workers \cup Callers) /\ Running(c) \in SUBSET (Workers \cup Callers)
  BY Zenon, PoolAssumption, FS_Union DEF Running
<1> QED BY Zenon, <1>1, <1>2, FS_Subset, FS_CardinalityType

(* The copies of c are gone once its count is 0. *)
LEMMA NoneLeft ==
    ASSUME PoolInv, NEW c \in Callers, left[c] = 0
    PROVE  Queued(c) = {} /\ Running(c) = {}
<1>1. /\ Cardinality(Queued(c)) \in Nat /\ Cardinality(Running(c)) \in Nat
      /\ IsFiniteSet(Queued(c)) /\ IsFiniteSet(Running(c))
  BY Zenon, Finite DEF PoolInv, PoolTypes
<1>2. Owed(c) \in Nat
  BY DEF PoolInv, PoolTypes, Owed
<1>3. Cardinality(Queued(c)) = 0 /\ Cardinality(Running(c)) = 0
  BY <1>1, <1>2 DEF PoolInv, Covered
<1> QED BY Zenon, <1>1, <1>3, FS_EmptySet

(* The first job leaves the queue. *)
LEMMA Popped ==
    ASSUME jobs \in Seq(Callers), jobs # <<>>, jobs' = Tail(jobs), NEW c
    PROVE  /\ Head(jobs) \in Callers /\ jobs' \in Seq(Callers)
           /\ Cardinality(Queued(c)') + (IF c = Head(jobs) THEN 1 ELSE 0) <= Cardinality(Queued(c))
<1> DEFINE rest == Queued(c) \ {1}
<1> DEFINE f == [i \in Queued(c)' |-> i + 1]
<1>1. Head(jobs) \in Callers /\ jobs' \in Seq(Callers)
  OBVIOUS
<1>2. f \in Injection(Queued(c)', rest)
  <2>1. \A i \in Queued(c)' : i \in Nat /\ i + 1 \in rest
    BY DEF Queued
  <2> QED BY <2>1 DEF Injection, IsInjective
<1>3. IsFiniteSet(Queued(c)) /\ Cardinality(Queued(c)) \in Nat
  BY Zenon, Finite
<1>4. /\ IsFiniteSet(rest)
      /\ Cardinality(rest) = IF 1 \in Queued(c) THEN Cardinality(Queued(c)) - 1
                                                ELSE Cardinality(Queued(c))
  BY Zenon, <1>3, FS_RemoveElement
<1>5. Cardinality(Queued(c)') <= Cardinality(rest)
  BY Zenon, <1>2, <1>4, FS_Injection
<1>6. c = Head(jobs) => 1 \in Queued(c)
  BY DEF Queued
<1>7. Cardinality(Queued(c)') \in Nat
  <2>1. IsFiniteSet(Queued(c)')
    BY Zenon, <1>2, <1>4, FS_Injection
  <2> QED BY Zenon, <2>1, FS_CardinalityType
<1> QED BY <1>1, <1>3, <1>4, <1>5, <1>6, <1>7

(* A thread that runs nothing begins to run a copy of b, or ends one. *)
LEMMA Begins ==
    ASSUME PoolTypes, NEW t \in Workers \cup Callers, NEW b \in Callers, job[t] = NoBatch,
           job' = [job EXCEPT ![t] = b], NEW c \in Callers
    PROVE  Cardinality(Running(c)') = Cardinality(Running(c)) + (IF c = b THEN 1 ELSE 0)
<1>1. IsFiniteSet(Running(c)) /\ Cardinality(Running(c)) \in Nat
  BY Zenon, Finite DEF PoolTypes
<1>2. Running(c)' = IF c = b THEN Running(c) \cup {t} ELSE Running(c)
  BY PoolAssumption DEF PoolTypes, Running
<1>3. t \notin Running(c)
  BY PoolAssumption DEF Running
<1> QED BY <1>1, <1>2, <1>3, FS_AddElement

LEMMA Ends ==
    ASSUME PoolTypes, NEW t \in Workers \cup Callers, job[t] \in Callers,
           job' = [job EXCEPT ![t] = NoBatch], NEW c \in Callers
    PROVE  /\ Cardinality(Running(c)') = Cardinality(Running(c)) - (IF c = job[t] THEN 1 ELSE 0)
           /\ Cardinality(Running(job[t])) > 0
<1>1. \A b : IsFiniteSet(Running(b)) /\ Cardinality(Running(b)) \in Nat
  BY Zenon, Finite DEF PoolTypes
<1>2. Running(c)' = IF c = job[t] THEN Running(c) \ {t} ELSE Running(c)
  BY PoolAssumption DEF PoolTypes, Running
<1>3. t \in Running(job[t])
  BY DEF Running
<1>4. Cardinality(Running(job[t])) # 0
  BY Zenon, <1>1, <1>3, FS_EmptySet
<1>5. Cardinality(Running(job[t])) > 0
  BY <1>1, <1>4
<1>6. Cardinality(Running(c) \ {t}) = IF t \in Running(c) THEN Cardinality(Running(c)) - 1
                                                          ELSE Cardinality(Running(c))
  BY Zenon, <1>1, FS_RemoveElement
<1>7. CASE c = job[t]
  BY <1>1, <1>2, <1>3, <1>5, <1>6, <1>7
<1>8. CASE c # job[t]
  BY <1>1, <1>2, <1>5, <1>8
<1> QED BY Zenon, <1>7, <1>8

(* Retain takes the copies of c out of the queue and no others. *)
LEMMA Retained ==
    ASSUME jobs \in Seq(Callers), NEW c, Retain(c)
    PROVE  /\ jobs' \in Seq(Callers)
           /\ Len(jobs) - Len(jobs') = Cardinality(Queued(c))
           /\ Queued(c)' = {}
           /\ \A b : Cardinality(Queued(b)') <= Cardinality(Queued(b))
<1> DEFINE rest == {i \in DOMAIN jobs : jobs[i] # c}
<1> DEFINE n == Cardinality(rest)
<1>1. PICK at \in [1..n -> rest] : /\ \A i, j \in DOMAIN at : i < j => at[i] < at[j]
                                   /\ jobs' = [i \in DOMAIN at |-> jobs[at[i]]]
  BY Zenon DEF Retain
<1>2. /\ IsFiniteSet(DOMAIN jobs) /\ Cardinality(DOMAIN jobs) = Len(jobs) /\ Len(jobs) \in Nat
      /\ DOMAIN jobs \subseteq Nat
  <2>1. Len(jobs) \in Nat /\ DOMAIN jobs = 1..Len(jobs)
    OBVIOUS
  <2>0. 1 \in Int /\ Len(jobs) \in Int
    BY SMTT(30), <2>1
  <2>2. /\ IsFiniteSet(1..Len(jobs))
        /\ Cardinality(1..Len(jobs)) = IF 1 > Len(jobs) THEN 0 ELSE Len(jobs) - 1 + 1
    BY Zenon, <2>0, FS_Interval
  <2>3. Cardinality(1..Len(jobs)) = Len(jobs)
    BY SMTT(30), <2>1, <2>2
  <2>4. 1..Len(jobs) \subseteq Nat
    BY SMTT(30)
  <2> QED BY Zenon, <2>1, <2>2, <2>3, <2>4
<1>3. rest \in SUBSET DOMAIN jobs
  OBVIOUS
<1>4. IsFiniteSet(rest) /\ n \in Nat
  BY Zenon, <1>2, <1>3, FS_Subset, FS_CardinalityType
<1> HIDE DEF n
<1>5. jobs' \in Seq(Callers) /\ Len(jobs') = n /\ DOMAIN jobs' = 1..n
  <2>1. \A i \in 1..n : jobs[at[i]] \in Callers
    BY <1>1
  <2>2. jobs' = [i \in 1..n |-> jobs[at[i]]]
    BY Zenon, <1>1
  <2> QED BY <1>4, <2>1, <2>2
<1>6. Len(jobs) - n = Cardinality(Queued(c))
  <2>1. Queued(c) \cup rest = DOMAIN jobs /\ Queued(c) \cap rest = {}
    BY Zenon DEF Queued
  <2>2. IsFiniteSet(Queued(c)) /\ Cardinality(Queued(c)) \in Nat
    BY Zenon, Finite
  <2>3. Cardinality(Queued(c) \cup rest) = Cardinality(Queued(c)) + n - Cardinality(Queued(c) \cap rest)
    BY Zenon, <1>4, <2>2, FS_Union DEF n
  <2>4. Cardinality(DOMAIN jobs) = Cardinality(Queued(c)) + n - 0
    BY Zenon, <2>1, <2>3, FS_EmptySet
  <2> QED BY <1>2, <1>4, <2>2, <2>4
<1>7. Queued(c)' = {}
  BY <1>1 DEF Queued
<1>8. ASSUME NEW b PROVE Cardinality(Queued(b)') <= Cardinality(Queued(b))
  <2> DEFINE f == [i \in Queued(b)' |-> at[i]]
  <2>1. \A i \in Queued(b)' : i \in 1..n /\ at[i] \in Queued(b)
    BY SMTT(40), <1>1, <1>5 DEF Queued
  <2>2. \A i, j \in 1..n : at[i] = at[j] => i = j
    <3>1. \A i \in 1..n : at[i] \in Nat
      BY <1>1, <1>2
    <3> QED BY <1>1, <1>4, <3>1
  <2>3. f \in Injection(Queued(b)', Queued(b))
    BY Zenon, <2>1, <2>2 DEF Injection, IsInjective
  <2> QED BY Zenon, <2>3, Finite, FS_Injection
<1> QED BY Zenon, <1>5, <1>6, <1>7, <1>8

-----------------------------------------------------------------------------
(* The types. *)
LEMMA MinOf ==
    ASSUME NEW a \in Nat, NEW b \in Nat
    PROVE  Min({a, b}) \in Nat
<1>1. \E x \in {a, b} : \A y \in {a, b} : x <= y
  OBVIOUS
<1>2. Min({a, b}) \in {a, b}
  BY Zenon, <1>1 DEF Min
<1> QED BY Zenon, <1>2

LEMMA TypeStep ==
    ASSUME PoolInv, [PoolNext]_poolVars
    PROVE  PoolTypes'
<1> DEFINE Spots == InScatter \cup {"away", "leased"}
<1> USE DEF PoolInv
<1>1. ASSUME NEW c \in Callers, NEW n \in Int, Lend(c, n) PROVE PoolTypes'
  <2> DEFINE taken == Min({Less(n, 1), Less(threads - 1, busy)})
  <2>1. taken \in Nat
    <3>1. Less(n, 1) \in Nat /\ Less(threads - 1, busy) \in Nat
      BY DEF PoolTypes, Less
    <3> QED BY Zenon, <3>1, MinOf
  <2> HIDE DEF taken
  <2>2. busy' = busy + taken /\ extra' = [extra EXCEPT ![c] = taken]
    BY Zenon, <1>1 DEF Lend, taken
  <2>3. busy' \in Int /\ extra' \in [Callers -> Nat]
    BY <2>1, <2>2 DEF PoolTypes
  <2>4. caller' \in [Callers -> Spots]
    BY Zenon, <1>1 DEF Lend, Moves, PoolTypes
  <2> QED BY Zenon, <1>1, <2>3, <2>4 DEF Lend, shared, PoolTypes
<1>2. ASSUME NEW c \in Callers, LeaseDrop(c) PROVE PoolTypes'
  <2>1. busy' \in Int /\ extra' \in [Callers -> Nat]
    BY <1>2 DEF LeaseDrop, PoolTypes
  <2> QED BY Zenon, <1>2, <2>1 DEF LeaseDrop, Moves, shared, PoolTypes
<1>3. ASSUME NEW n \in Sizes, Resize(n) PROVE PoolTypes'
  BY Zenon, <1>3, PoolAssumption DEF Resize, shared, lease, PoolTypes
<1>4. ASSUME NEW c \in Callers, NEW m \in Int, Push(c, m) PROVE PoolTypes'
  <2> DEFINE n == Min({extra[c], Less(m, 1)})
  <2>1. n \in Nat
    <3>1. extra[c] \in Nat /\ Less(m, 1) \in Nat
      BY DEF PoolTypes, Less
    <3> QED BY Zenon, <3>1, MinOf
  <2> HIDE DEF n
  <2>2. /\ left' = [left EXCEPT ![c] = n] /\ jobs' = jobs \o [i \in 1..n |-> c]
        /\ short' = [short EXCEPT ![c] = Less(n, idle)]
    BY Zenon, <1>4 DEF Push, n
  <2>3. left' \in [Callers -> Nat] /\ short' \in [Callers -> Nat]
    <3>1. Less(n, idle) \in Nat
      BY <2>1 DEF PoolTypes, Less
    <3> QED BY Zenon, <2>1, <2>2, <3>1 DEF PoolTypes
  <2>4. jobs' \in Seq(Callers)
    BY <2>1, <2>2 DEF PoolTypes
  <2>5. caller' \in [Callers -> Spots]
    BY Zenon, <1>4 DEF Push, Moves, PoolTypes, InScatter
  <2> QED BY Zenon, <1>4, <2>3, <2>4, <2>5 DEF Push, counts, PoolTypes
<1>5. ASSUME NEW c \in Callers,
             \/ HireEnough(c) \/ HireMore(c) \/ HireCounted(c) \/ BodyReturns(c)
             \/ BodyUnwinds(c) \/ OwnRun(c) \/ Join(c)
      PROVE  PoolTypes'
  <2>1. caller' \in [Callers -> Spots]
    BY Zenon, <1>5
    DEF HireEnough, HireMore, HireCounted, BodyReturns, BodyUnwinds, OwnRun, Join, Moves, PoolTypes,
        InScatter
  <2>2. short' \in [Callers -> Nat]
    <3>1. CASE HireMore(c)
      BY <3>1 DEF HireMore, PoolTypes
    <3> QED BY <1>5, <3>1
            DEF HireEnough, HireCounted, BodyReturns, BodyUnwinds, OwnRun, Join, PoolTypes
  <2> QED
    BY Zenon, <1>5, <2>1, <2>2
    DEF HireEnough, HireMore, HireCounted, BodyReturns, BodyUnwinds, OwnRun, Join, counts, shared,
        lease, PoolTypes
<1>6. ASSUME NEW c \in Callers, Notify(c) \/ \E w \in Workers : Spawn(c, w) PROVE PoolTypes'
  <2>1. caller' \in [Callers -> Spots]
    BY Zenon, <1>6 DEF Notify, Spawn, Moves, PoolTypes, InScatter
  <2>2. worker' \in [Workers -> Steps]
    BY Zenon, <1>6 DEF Notify, Spawn, Turns, PoolTypes, Steps
  <2> QED BY Zenon, <1>6, <2>1, <2>2 DEF Notify, Spawn, counts, shared, lease, PoolTypes
<1>7. ASSUME NEW c \in Callers, SpawnFails(c) PROVE PoolTypes'
  <2>1. caller' \in [Callers -> Spots]
    BY Zenon, <1>7 DEF SpawnFails, Moves, PoolTypes, InScatter
  <2>2. jobs' \in Seq(Callers) /\ job' \in [Workers \cup Callers -> Callers \cup {NoBatch}]
    <3>1. CASE jobs = <<>>
      BY Zenon, <1>7, <3>1 DEF SpawnFails, PoolTypes
    <3>2. CASE jobs # <<>>
      <4>1. Head(jobs) \in Callers /\ Tail(jobs) \in Seq(Callers)
        BY <3>2 DEF PoolTypes
      <4> QED BY Zenon, <1>7, <3>2, <4>1 DEF SpawnFails, PoolTypes
    <3> QED BY Zenon, <3>1, <3>2
  <2> QED BY Zenon, <1>7, <2>1, <2>2 DEF SpawnFails, counts, lease, PoolTypes
<1>8. ASSUME NEW t \in Workers \cup Callers, FinishCopy(t), job[t] \in Callers
      PROVE  /\ left' \in [Callers -> Nat]
             /\ job' \in [Workers \cup Callers -> Callers \cup {NoBatch}]
  <2>1. Cardinality(Running(job[t])) \in Nat \ {0}
    <3>1. t \in Running(job[t])
      BY DEF Running
    <3> QED BY Zenon, <3>1, Finite, FS_EmptySet DEF PoolTypes
  <2>2. left[job[t]] > 0
    <3>1. Cardinality(Queued(job[t])) \in Nat /\ Owed(job[t]) \in Nat
      BY <1>8, Finite DEF PoolTypes, Owed
    <3> QED BY <1>8, <2>1, <3>1 DEF Covered, PoolTypes
  <2>3. left' \in [Callers -> Nat]
    BY <1>8, <2>2 DEF FinishCopy, PoolTypes
  <2> QED BY Zenon, <1>8, <2>3 DEF FinishCopy, PoolTypes
<1>9. ASSUME NEW c \in Callers, InlineDone(c) PROVE PoolTypes'
  <2>1. job[c] \in Callers
    BY Zenon, <1>9 DEF InlineDone, Moves, RunsOne, PoolTypes
  <2>2. /\ left' \in [Callers -> Nat]
        /\ job' \in [Workers \cup Callers -> Callers \cup {NoBatch}]
    BY Zenon, <1>8, <1>9, <2>1 DEF InlineDone
  <2> QED BY Zenon, <1>9, <2>2 DEF InlineDone, Moves, counts, shared, lease, PoolTypes, InScatter
<1>10. ASSUME NEW c \in Callers, Reclaim(c) PROVE PoolTypes'
  <2>1. jobs' \in Seq(Callers) /\ Len(jobs) - Len(jobs') \in Nat
    BY <1>10, Retained, Finite DEF Reclaim, PoolTypes
  <2>2. short' \in [Callers -> Nat]
    BY Zenon, <1>10, <2>1 DEF Reclaim, PoolTypes
  <2> QED BY Zenon, <1>10, <2>1, <2>2 DEF Reclaim, Moves, counts, lease, PoolTypes, InScatter
<1>11. ASSUME NEW c \in Callers, RunOwn(c) PROVE PoolTypes'
  <2>1. left[c] > 0 /\ short[c] > 0
    <3>1. Owed(c) > 0 /\ short[c] > 0
      BY <1>11 DEF RunOwn, Owed
    <3>2. Cardinality(Queued(c)) \in Nat /\ Cardinality(Running(c)) \in Nat /\ Owed(c) \in Nat
      BY Finite DEF PoolTypes, Owed
    <3> QED BY <3>1, <3>2 DEF Covered, PoolTypes
  <2>2. left' \in [Callers -> Nat] /\ short' \in [Callers -> Nat]
    BY <1>11, <2>1 DEF RunOwn, PoolTypes
  <2> QED BY Zenon, <1>11, <2>2 DEF RunOwn, counts, shared, lease, PoolTypes
<1>12. ASSUME NEW w \in Workers, Pop(w) PROVE PoolTypes'
  <2>1. jobs' \in Seq(Callers) /\ Head(jobs) \in Callers
    BY <1>12 DEF Pop, PoolTypes
  <2>2. /\ job' \in [Workers \cup Callers -> Callers \cup {NoBatch}]
        /\ worker' \in [Workers -> Steps]
    BY Zenon, <1>12, <2>1 DEF Pop, Turns, PoolTypes, Steps
  <2> QED BY Zenon, <1>12, <2>1, <2>2 DEF Pop, counts, lease, PoolTypes
<1>13. ASSUME NEW w \in Workers, RunDone(w) PROVE PoolTypes'
  <2>1. job[w] \in Callers
    BY Zenon, <1>13 DEF RunDone, Turns, RunsOne, PoolTypes
  <2>2. /\ left' \in [Callers -> Nat]
        /\ job' \in [Workers \cup Callers -> Callers \cup {NoBatch}]
    BY Zenon, <1>8, <1>13, <2>1 DEF RunDone
  <2> QED BY Zenon, <1>13, <2>2 DEF RunDone, Turns, counts, shared, lease, PoolTypes, Steps
<1>14. ASSUME NEW w \in Workers,
              ParkWorker(w) \/ WakeWorker(w) \/ WakesItself(w) \/ Leaves(w)
       PROVE  PoolTypes'
  <2>1. idle' \in Int
    BY <1>14 DEF ParkWorker, WakeWorker, WakesItself, Leaves, shared, PoolTypes
  <2>2. worker' \in [Workers -> Steps]
    BY Zenon, <1>14 DEF ParkWorker, WakeWorker, WakesItself, Leaves, Turns, PoolTypes, Steps
  <2> QED BY Zenon, <1>14, <2>1, <2>2
          DEF ParkWorker, WakeWorker, WakesItself, Leaves, counts, shared, lease, PoolTypes
<1>15. CASE Close
  <2>1. worker' \in [Workers -> Steps]
    BY Zenon, <1>15 DEF Close, PoolTypes, Steps
  <2> QED BY Zenon, <1>15, <2>1 DEF Close, counts, lease, PoolTypes
<1>16. CASE UNCHANGED poolVars
  BY Zenon, <1>16 DEF poolVars, PoolTypes
<1>17. \A n \in 2..Max(Sizes) : n \in Int
  OBVIOUS
<1> QED
  BY Zenon, <1>1, <1>2, <1>3, <1>4, <1>5, <1>6, <1>7, <1>9, <1>10, <1>11, <1>12, <1>13, <1>14, <1>15,
     <1>16, <1>17
  DEF PoolNext, Scatters, WorkerStep

-----------------------------------------------------------------------------
(* A step that leaves the queue, the runs and the counts alone. *)
LEMMA QuietStep ==
    ASSUME PoolInv, PoolTypes', UNCHANGED <<jobs, job, left>>,
           \A w \in Workers : worker'[w] = "run" <=> worker[w] = "run",
           \A c \in Callers : caller'[c] = "inline" <=> caller[c] = "inline",
           \A c \in Callers : Owed(c)' = Owed(c),
           \A c \in Callers : caller'[c] \in InScatter \/ caller[c] \notin InScatter \/ left[c] = 0
    PROVE  PoolInv'
<1>1. \A c : Queued(c)' = Queued(c) /\ Running(c)' = Running(c)
  BY Zenon DEF Queued, Running
<1>2. Covered'
  BY Zenon, <1>1 DEF PoolInv, Covered
<1>3. RunsOne' /\ Rests'
  BY Zenon DEF PoolInv, RunsOne, Rests
<1> QED BY Zenon, <1>2, <1>3 DEF PoolInv

(* One caller moves, and neither runs a copy nor takes one back. *)
LEMMA CallerMoves ==
    ASSUME PoolInv, PoolTypes', UNCHANGED <<jobs, job, left>>,
           \A w \in Workers : worker'[w] = "run" <=> worker[w] = "run",
           NEW c \in Callers, NEW from, NEW to, Moves(c, from, to),
           from # "inline", to \notin {"inline", "own"}, from = "own" => short[c] = 0,
           \A b \in Callers : b # c => short'[b] = short[b],
           to \in InScatter \/ from \notin InScatter \/ left[c] = 0
    PROVE  PoolInv'
<1>1. \A b \in Callers : caller'[b] = IF b = c THEN to ELSE caller[b]
  BY Zenon DEF Moves, PoolInv, PoolTypes
<1>2. ASSUME NEW b \in Callers PROVE Owed(b)' = Owed(b)
  <2>1. CASE b = c
    BY Zenon, <1>1, <2>1 DEF Owed, Moves
  <2>2. CASE b # c
    BY Zenon, <1>1, <2>2 DEF Owed
  <2> QED BY Zenon, <2>1, <2>2
<1>3. \A b \in Callers : caller'[b] = "inline" <=> caller[b] = "inline"
  BY Zenon, <1>1 DEF Moves
<1>4. \A b \in Callers : caller'[b] \in InScatter \/ caller[b] \notin InScatter \/ left[b] = 0
  BY Zenon, <1>1 DEF Moves
<1> QED BY Zenon, <1>2, <1>3, <1>4, QuietStep

(* A thread takes the first job and runs it. *)
LEMMA TakesJob ==
    ASSUME PoolInv, PoolTypes', NEW t \in Workers \cup Callers, job[t] = NoBatch, jobs # <<>>,
           jobs' = Tail(jobs), job' = [job EXCEPT ![t] = Head(jobs)],
           UNCHANGED <<left, short>>, \A c \in Callers : caller'[c] = "own" <=> caller[c] = "own"
    PROVE  Covered'
<1> SUFFICES ASSUME NEW c \in Callers
             PROVE  Cardinality(Queued(c)') + Cardinality(Running(c)') + Owed(c)' <= left'[c]
  BY Zenon DEF Covered
<1>1. jobs \in Seq(Callers) /\ left[c] \in Nat /\ Owed(c) \in Nat
  BY DEF PoolInv, PoolTypes, Owed
<1>2. /\ Head(jobs) \in Callers
      /\ Cardinality(Queued(c)') + (IF c = Head(jobs) THEN 1 ELSE 0) <= Cardinality(Queued(c))
  BY Zenon, <1>1, Popped
<1>3. Cardinality(Running(c)') = Cardinality(Running(c)) + (IF c = Head(jobs) THEN 1 ELSE 0)
  BY Zenon, <1>2, Begins DEF PoolInv
<1>4. Owed(c)' = Owed(c)
  BY Zenon DEF Owed
<1>5. Cardinality(Queued(c)) \in Nat /\ Cardinality(Running(c)) \in Nat
  BY Zenon, <1>1, Finite
<1>6. Cardinality(Queued(c)') \in Nat
  <2>1. IsFiniteSet(Queued(c)')
    <3>1. Len(jobs') \in Nat /\ DOMAIN jobs' = 1..Len(jobs')
      BY DEF PoolTypes
    <3>2. IsFiniteSet(DOMAIN jobs') /\ Queued(c)' \in SUBSET DOMAIN jobs'
      BY <3>1, FS_Interval DEF Queued
    <3> QED BY Zenon, <3>2, FS_Subset
  <2> QED BY Zenon, <2>1, FS_CardinalityType
<1>7. Cardinality(Queued(c)) + Cardinality(Running(c)) + Owed(c) <= left[c]
  BY Zenon DEF PoolInv, Covered
<1>8. left'[c] = left[c]
  BY Zenon
<1>9. CASE c = Head(jobs)
  BY SMTT(40), <1>1, <1>2, <1>3, <1>4, <1>5, <1>6, <1>7, <1>8, <1>9
<1>10. CASE c # Head(jobs)
  BY SMTT(40), <1>1, <1>2, <1>3, <1>4, <1>5, <1>6, <1>7, <1>8, <1>10
<1> QED BY Zenon, <1>9, <1>10

(* A thread ends its copy and counts it down. *)
LEMMA EndsJob ==
    ASSUME PoolInv, PoolTypes', NEW t \in Workers \cup Callers, job[t] \in Callers,
           FinishCopy(t), UNCHANGED <<jobs, short>>,
           \A c \in Callers : caller'[c] = "own" <=> caller[c] = "own",
           \A c \in Callers : caller'[c] \in InScatter <=> caller[c] \in InScatter
    PROVE  Covered' /\ Rests'
<1>1. left' = [left EXCEPT ![job[t]] = @ - 1] /\ job' = [job EXCEPT ![t] = NoBatch]
  BY Zenon DEF FinishCopy
<1>2. ASSUME NEW c \in Callers
      PROVE  /\ Cardinality(Queued(c)') + Cardinality(Running(c)') + Owed(c)' <= left'[c]
             /\ left[c] = 0 => left'[c] = 0
  <2>1. left[c] \in Nat /\ Owed(c) \in Nat /\ Owed(c)' = Owed(c) /\ Queued(c)' = Queued(c)
    BY DEF PoolInv, PoolTypes, Owed, Queued
  <2>2. left'[c] = IF c = job[t] THEN left[c] - 1 ELSE left[c]
    BY <1>1 DEF PoolInv, PoolTypes
  <2>3. /\ Cardinality(Running(c)') = Cardinality(Running(c)) - (IF c = job[t] THEN 1 ELSE 0)
        /\ Cardinality(Running(job[t])) > 0
    BY Zenon, <1>1, Ends DEF PoolInv
  <2>4. Cardinality(Queued(c)) \in Nat /\ Cardinality(Running(c)) \in Nat
    BY Zenon, Finite DEF PoolInv, PoolTypes
  <2>5. Cardinality(Queued(c)) + Cardinality(Running(c)) + Owed(c) <= left[c]
    BY Zenon DEF PoolInv, Covered
  <2> QED BY <2>1, <2>2, <2>3, <2>4, <2>5
<1>3. Covered'
  BY Zenon, <1>2 DEF Covered
<1>4. Rests'
  BY Zenon, <1>2 DEF PoolInv, Rests
<1> QED BY Zenon, <1>3, <1>4

-----------------------------------------------------------------------------
LEMMA PoolInitInv == PoolInit => PoolInv
<1> SUFFICES ASSUME PoolInit PROVE PoolInv
  BY Zenon
<1>1. PoolTypes
  BY PoolAssumption DEF PoolInit, PoolTypes, Steps
<1>2. RunsOne
  BY Zenon DEF PoolInit, RunsOne
<1>3. Rests
  BY Zenon DEF PoolInit, Rests
<1>4. ASSUME NEW c \in Callers
      PROVE  Cardinality(Queued(c)) + Cardinality(Running(c)) + Owed(c) <= left[c]
  <2>1. Queued(c) = {}
    BY DEF PoolInit, Queued
  <2>2. Running(c) = {}
    BY Zenon, PoolAssumption DEF PoolInit, Running
  <2>3. Owed(c) = 0 /\ left[c] = 0
    BY Zenon DEF PoolInit, Owed
  <2> QED BY <2>1, <2>2, <2>3, FS_EmptySet
<1> QED BY Zenon, <1>1, <1>2, <1>3, <1>4 DEF PoolInv, Covered

LEMMA PushStep ==
    ASSUME PoolInv, PoolTypes', NEW c \in Callers, NEW m, Push(c, m)
    PROVE  PoolInv'
<1> DEFINE n == Min({extra[c], Less(m, 1)})
<1>1. /\ left' = [left EXCEPT ![c] = n] /\ jobs' = jobs \o [i \in 1..n |-> c] /\ job' = job
      /\ worker' = worker /\ caller' = [caller EXCEPT ![c] = "notify"] /\ caller[c] = "leased"
      /\ \A b \in Callers : b # c => short'[b] = short[b]
  BY Zenon DEF Push, Moves, PoolInv, PoolTypes
<1>2. n \in Nat
  <2>1. left'[c] \in Nat
    BY Zenon DEF PoolTypes
  <2> QED BY Zenon, <1>1, <2>1 DEF PoolInv, PoolTypes
<1> HIDE DEF n
<1>3. \A b \in Callers : caller'[b] = IF b = c THEN "notify" ELSE caller[b]
  BY Zenon, <1>1 DEF PoolInv, PoolTypes
<1>4. RunsOne'
  <2>1. \A w \in Workers : worker'[w] = "run" <=> job'[w] # NoBatch
    BY Zenon, <1>1 DEF PoolInv, RunsOne
  <2>2. ASSUME NEW b \in Callers PROVE caller'[b] = "inline" <=> job'[b] # NoBatch
    <3>1. caller'[b] = "inline" <=> caller[b] = "inline"
      BY <1>1, <1>3
    <3> QED BY Zenon, <1>1, <3>1 DEF PoolInv, RunsOne
  <2> QED BY Zenon, <2>1, <2>2 DEF RunsOne
<1>5. \A b \in Callers : left'[b] = IF b = c THEN n ELSE left[b]
  BY Zenon, <1>1 DEF PoolInv, PoolTypes
<1>6. Rests'
  BY Zenon, <1>3, <1>5 DEF PoolInv, Rests, InScatter
<1>7. /\ Len(jobs) \in Nat /\ DOMAIN jobs = 1..Len(jobs)
      /\ DOMAIN jobs' = 1..(Len(jobs) + n)
      /\ \A i \in 1..Len(jobs) : jobs'[i] = jobs[i]
      /\ \A i \in (Len(jobs) + 1)..(Len(jobs) + n) : jobs'[i] = c
  <2>1. jobs \in Seq(Callers) /\ [i \in 1..n |-> c] \in Seq(Callers) /\ Len([i \in 1..n |-> c]) = n
    BY <1>2 DEF PoolInv, PoolTypes
  <2> QED BY <1>1, <1>2, <2>1
<1>8. ASSUME NEW b \in Callers
      PROVE  Cardinality(Queued(b)') + Cardinality(Running(b)') + Owed(b)' <= left'[b]
  <2>1. Running(b)' = Running(b)
    BY Zenon, <1>1 DEF Running
  <2>2. CASE b # c
    <3>1. Queued(b)' = Queued(b)
      BY <1>2, <1>7, <2>2 DEF Queued
    <3>2. Owed(b)' = Owed(b)
      BY Zenon, <1>1, <1>3, <2>2 DEF Owed
    <3> QED BY Zenon, <1>5, <2>1, <2>2, <3>1, <3>2 DEF PoolInv, Covered
  <2>3. CASE b = c
    <3>1. left[c] = 0
      BY Zenon, <1>1 DEF PoolInv, Rests, InScatter
    <3>2. Queued(c) = {} /\ Running(c) = {}
      BY Zenon, <3>1, NoneLeft
    <3>3. Queued(c)' = (Len(jobs) + 1)..(Len(jobs) + n)
      BY <1>2, <1>7, <3>2 DEF Queued
    <3>4. Cardinality(Queued(c)') = n
      <4>1. Len(jobs) \in Nat
        BY DEF PoolInv, PoolTypes
      <4> QED BY <1>2, <3>3, <4>1, FS_Interval
    <3>5. Owed(c)' = 0
      BY Zenon, <1>3 DEF Owed
    <3>6. Cardinality(Running(c)') = 0
      BY Zenon, <2>1, <2>3, <3>2, FS_EmptySet
    <3> QED BY <1>2, <1>5, <2>3, <3>4, <3>5, <3>6
  <2> QED BY Zenon, <2>2, <2>3
<1> QED BY Zenon, <1>4, <1>6, <1>8 DEF PoolInv, Covered

LEMMA ReclaimStep ==
    ASSUME PoolInv, PoolTypes', NEW c \in Callers, Reclaim(c)
    PROVE  PoolInv'
<1>1. /\ caller[c] = "reclaim" /\ caller' = [caller EXCEPT ![c] = "own"] /\ Retain(c)
      /\ short' = [short EXCEPT ![c] = Len(jobs) - Len(jobs')] /\ UNCHANGED <<worker, job, left>>
  BY Zenon DEF Reclaim, Moves
<1>2. \A b \in Callers : caller'[b] = IF b = c THEN "own" ELSE caller[b]
  BY Zenon, <1>1 DEF PoolInv, PoolTypes
<1>3. RunsOne' /\ Rests'
  <2>1. \A b \in Callers : caller'[b] = "inline" <=> caller[b] = "inline"
    BY <1>1, <1>2
  <2>2. \A b \in Callers : caller'[b] \notin InScatter => caller[b] \notin InScatter
    BY <1>1, <1>2 DEF InScatter
  <2>3. \A w \in Workers : worker'[w] = "run" <=> job'[w] # NoBatch
    BY Zenon, <1>1 DEF PoolInv, RunsOne
  <2>4. \A b \in Callers : caller'[b] = "inline" <=> job'[b] # NoBatch
    BY Zenon, <1>1, <2>1 DEF PoolInv, RunsOne
  <2>5. Rests'
    BY Zenon, <1>1, <2>2 DEF PoolInv, Rests
  <2> QED BY Zenon, <2>3, <2>4, <2>5 DEF RunsOne
<1>4. /\ Len(jobs) - Len(jobs') = Cardinality(Queued(c)) /\ Queued(c)' = {}
      /\ \A b : Cardinality(Queued(b)') <= Cardinality(Queued(b))
  BY Zenon, <1>1, Retained DEF PoolInv, PoolTypes
<1>5. ASSUME NEW b \in Callers
      PROVE  Cardinality(Queued(b)') + Cardinality(Running(b)') + Owed(b)' <= left'[b]
  <2>1. Running(b)' = Running(b) /\ left'[b] = left[b]
    BY Zenon, <1>1 DEF Running
  <2>2. /\ Cardinality(Queued(b)) \in Nat /\ Cardinality(Running(b)) \in Nat
        /\ left[b] \in Nat /\ Owed(b) \in Nat
        /\ Cardinality(Queued(b)) + Cardinality(Running(b)) + Owed(b) <= left[b]
    BY Finite DEF PoolInv, PoolTypes, Covered, Owed
  <2>3. CASE b = c
    <3>1. Owed(b) = 0 /\ Owed(b)' = Cardinality(Queued(b))
      BY Zenon, <1>1, <1>2, <1>4, <2>3 DEF Owed, PoolInv, PoolTypes
    <3>2. Cardinality(Queued(b)') = 0
      BY Zenon, <1>4, <2>3, FS_EmptySet
    <3> QED BY <2>1, <2>2, <3>1, <3>2
  <2>4. CASE b # c
    <3>1. Owed(b)' = Owed(b)
      BY Zenon, <1>1, <1>2, <2>4 DEF Owed, PoolInv, PoolTypes
    <3>2. IsFiniteSet(Queued(b)')
      <4>1. Len(jobs') \in Nat /\ DOMAIN jobs' = 1..Len(jobs')
        BY DEF PoolTypes
      <4>2. IsFiniteSet(DOMAIN jobs') /\ Queued(b)' \in SUBSET DOMAIN jobs'
        BY <4>1, FS_Interval DEF Queued
      <4> QED BY Zenon, <4>2, FS_Subset
    <3>3. Cardinality(Queued(b)') \in Nat
      BY Zenon, <3>2, FS_CardinalityType
    <3> QED BY <1>4, <2>1, <2>2, <3>1, <3>3
  <2> QED BY Zenon, <2>3, <2>4
<1> QED BY Zenon, <1>3, <1>5 DEF PoolInv, Covered

LEMMA RunOwnStep ==
    ASSUME PoolInv, PoolTypes', NEW c \in Callers, RunOwn(c)
    PROVE  PoolInv'
<1>1. /\ caller[c] = "own" /\ short[c] > 0
      /\ left' = [left EXCEPT ![c] = @ - 1] /\ short' = [short EXCEPT ![c] = @ - 1]
      /\ UNCHANGED <<jobs, worker, job, caller>>
  BY Zenon DEF RunOwn, shared
<1>2. RunsOne'
  BY Zenon, <1>1 DEF PoolInv, RunsOne
<1>3. Rests'
  BY Zenon, <1>1 DEF PoolInv, Rests, InScatter, PoolTypes
<1>4. ASSUME NEW b \in Callers
      PROVE  Cardinality(Queued(b)') + Cardinality(Running(b)') + Owed(b)' <= left'[b]
  <2>1. Running(b)' = Running(b) /\ Queued(b)' = Queued(b)
    BY Zenon, <1>1 DEF Running, Queued
  <2>2. /\ Cardinality(Queued(b)) \in Nat /\ Cardinality(Running(b)) \in Nat
        /\ left[b] \in Nat /\ Owed(b) \in Nat
        /\ Cardinality(Queued(b)) + Cardinality(Running(b)) + Owed(b) <= left[b]
    BY Finite DEF PoolInv, PoolTypes, Covered, Owed
  <2>3. left'[b] = (IF b = c THEN left[b] - 1 ELSE left[b])
    BY <1>1 DEF PoolInv, PoolTypes
  <2>4. Owed(b)' = (IF b = c THEN Owed(b) - 1 ELSE Owed(b))
    BY <1>1 DEF PoolInv, PoolTypes, Owed
  <2> QED BY <2>1, <2>2, <2>3, <2>4
<1> QED BY Zenon, <1>2, <1>3, <1>4 DEF PoolInv, Covered

LEMMA PoolStep == PoolInv /\ [PoolNext]_poolVars => PoolInv'
<1> SUFFICES ASSUME PoolInv, [PoolNext]_poolVars PROVE PoolInv'
  BY Zenon
<1>1. PoolTypes'
  BY Zenon, TypeStep
<1>2. CASE Close \/ (\E n \in Sizes : Resize(n)) \/ UNCHANGED poolVars
  <2>1. UNCHANGED <<jobs, job, left, short, caller>>
    BY Zenon, <1>2 DEF Close, Resize, poolVars, shared, lease
  <2>2. \A w \in Workers : worker'[w] = "run" <=> worker[w] = "run"
    BY Zenon, <1>2 DEF Close, Resize, poolVars
  <2> QED BY Zenon, <1>1, <2>1, <2>2, QuietStep DEF Owed
<1>3. ASSUME NEW c \in Callers, NEW n, Lend(c, n) \/ LeaseDrop(c) PROVE PoolInv'
  <2>1. UNCHANGED <<jobs, job, left, short, worker>>
    BY Zenon, <1>3 DEF Lend, LeaseDrop, shared
  <2>2. Moves(c, "away", "leased") \/ Moves(c, "leased", "away")
    BY Zenon, <1>3 DEF Lend, LeaseDrop
  <2>3. "away" \notin InScatter /\ "leased" \notin InScatter
    BY Zenon DEF InScatter
  <2> QED BY Zenon, <1>1, <2>1, <2>2, <2>3, CallerMoves
<1>4. ASSUME NEW c \in Callers, Scatters(c) PROVE PoolInv'
  <2>1. CASE Notify(c) \/ \E w \in Workers : Spawn(c, w)
    <3>1. UNCHANGED <<jobs, job, left, short>>
      BY Zenon, <2>1 DEF Notify, Spawn, shared
    <3>2. \A w \in Workers : worker'[w] = "run" <=> worker[w] = "run"
      BY Zenon, <2>1 DEF Notify, Spawn, Turns, Sleeping, PoolInv, PoolTypes
    <3>3. Moves(c, "notify", "hire") \/ Moves(c, "spawn", "hired")
      BY Zenon, <2>1 DEF Notify, Spawn
    <3>4. "hire" \in InScatter /\ "hired" \in InScatter
      BY Zenon DEF InScatter
    <3> QED BY Zenon, <1>1, <3>1, <3>2, <3>3, <3>4, CallerMoves
  <2>2. CASE \/ HireEnough(c) \/ HireMore(c) \/ HireCounted(c) \/ BodyReturns(c)
             \/ BodyUnwinds(c) \/ OwnRun(c)
    <3>1. UNCHANGED <<jobs, job, left, worker>>
      BY Zenon, <2>2 DEF HireEnough, HireMore, HireCounted, BodyReturns, BodyUnwinds, OwnRun, shared
    <3>2. \A b \in Callers : b # c => short'[b] = short[b]
      BY Zenon, <2>2
      DEF HireEnough, HireMore, HireCounted, BodyReturns, BodyUnwinds, OwnRun, PoolInv, PoolTypes
    <3>3. \E from \in {"hire", "hired", "body", "own"}, to \in {"body", "spawn", "hire", "reclaim", "join"} :
             Moves(c, from, to) /\ (from = "own" => short[c] = 0)
      BY Zenon, <2>2 DEF HireEnough, HireMore, HireCounted, BodyReturns, BodyUnwinds, OwnRun
    <3>4. {"body", "spawn", "hire", "reclaim", "join"} \subseteq InScatter
      BY Zenon DEF InScatter
    <3> QED BY Zenon, <1>1, <3>1, <3>2, <3>3, <3>4, CallerMoves
  <2>3. CASE Join(c)
    <3>1. UNCHANGED <<jobs, job, left, worker, short>> /\ Moves(c, "join", "leased") /\ left[c] = 0
      BY Zenon, <2>3 DEF Join, shared
    <3> QED BY Zenon, <1>1, <3>1, CallerMoves
  <2>4. CASE SpawnFails(c)
    <3>1. CASE jobs = <<>>
      <4>1. UNCHANGED <<jobs, job, left, worker, short>> /\ Moves(c, "spawn", "hire")
        BY Zenon, <2>4, <3>1 DEF SpawnFails
      <4>2. "hire" \in InScatter
        BY Zenon DEF InScatter
      <4> QED BY Zenon, <1>1, <4>1, <4>2, CallerMoves
    <3>2. CASE jobs # <<>>
      <4>1. /\ UNCHANGED <<left, worker, short>> /\ Moves(c, "spawn", "inline")
            /\ jobs' = Tail(jobs) /\ job' = [job EXCEPT ![c] = Head(jobs)]
        BY Zenon, <2>4, <3>2 DEF SpawnFails
      <4>2. \A b \in Callers : caller'[b] = IF b = c THEN "inline" ELSE caller[b]
        BY Zenon, <4>1 DEF Moves, PoolInv, PoolTypes
      <4>3. job[c] = NoBatch
        BY Zenon, <4>1 DEF Moves, PoolInv, RunsOne
      <4>4. Covered'
        <5>1. \A b \in Callers : caller'[b] = "own" <=> caller[b] = "own"
          BY <4>1, <4>2 DEF Moves
        <5> QED BY Zenon, <1>1, <3>2, <4>1, <4>3, <5>1, TakesJob
      <4>5. Head(jobs) \in Callers
        BY <3>2 DEF PoolInv, PoolTypes
      <4>6. RunsOne'
        BY Zenon, <4>1, <4>2, <4>5, PoolAssumption DEF PoolInv, PoolTypes, RunsOne
      <4>7. Rests'
        BY Zenon, <4>1, <4>2 DEF PoolInv, Rests, InScatter
      <4> QED BY Zenon, <1>1, <4>4, <4>6, <4>7 DEF PoolInv
    <3> QED BY Zenon, <3>1, <3>2
  <2>5. CASE InlineDone(c)
    <3>1. /\ UNCHANGED <<jobs, worker, short>> /\ Moves(c, "inline", "hire") /\ FinishCopy(c)
      BY Zenon, <2>5 DEF InlineDone, shared
    <3>2. \A b \in Callers : caller'[b] = IF b = c THEN "hire" ELSE caller[b]
      BY Zenon, <3>1 DEF Moves, PoolInv, PoolTypes
    <3>3. job[c] \in Callers
      BY Zenon, <3>1 DEF Moves, PoolInv, PoolTypes, RunsOne
    <3>4. Covered' /\ Rests'
      <4>1. \A b \in Callers : caller'[b] = "own" <=> caller[b] = "own"
        BY <3>1, <3>2 DEF Moves
      <4>2. \A b \in Callers : caller'[b] \in InScatter <=> caller[b] \in InScatter
        BY <3>1, <3>2 DEF Moves, InScatter
      <4> QED BY Zenon, <1>1, <3>1, <3>3, <4>1, <4>2, EndsJob
    <3>5. RunsOne'
      BY Zenon, <3>1, <3>2, PoolAssumption DEF PoolInv, PoolTypes, RunsOne, FinishCopy
    <3> QED BY Zenon, <1>1, <3>4, <3>5 DEF PoolInv
  <2> QED BY Zenon, <1>1, <1>4, <2>1, <2>2, <2>3, <2>4, <2>5, ReclaimStep, RunOwnStep DEF Scatters
<1>5. ASSUME NEW w \in Workers, Pop(w) PROVE PoolInv'
  <2>1. /\ UNCHANGED <<left, caller, short>> /\ Turns(w, "look", "run") /\ jobs # <<>>
        /\ jobs' = Tail(jobs) /\ job' = [job EXCEPT ![w] = Head(jobs)]
    BY Zenon, <1>5 DEF Pop
  <2>2. \A v \in Workers : worker'[v] = IF v = w THEN "run" ELSE worker[v]
    BY Zenon, <2>1 DEF Turns, PoolInv, PoolTypes
  <2>3. job[w] = NoBatch
    BY Zenon, <2>1 DEF Turns, PoolInv, RunsOne
  <2>4. Covered'
    BY Zenon, <1>1, <2>1, <2>3, TakesJob
  <2>5. Head(jobs) \in Callers
    BY <2>1 DEF PoolInv, PoolTypes
  <2>6. RunsOne'
    BY Zenon, <2>1, <2>2, <2>5, PoolAssumption DEF PoolInv, PoolTypes, RunsOne
  <2>7. Rests'
    BY Zenon, <2>1 DEF PoolInv, Rests
  <2> QED BY Zenon, <1>1, <2>4, <2>6, <2>7 DEF PoolInv
<1>6. ASSUME NEW w \in Workers, RunDone(w) PROVE PoolInv'
  <2>1. UNCHANGED <<jobs, caller, short>> /\ Turns(w, "run", "look") /\ FinishCopy(w)
    BY Zenon, <1>6 DEF RunDone, shared
  <2>2. \A v \in Workers : worker'[v] = IF v = w THEN "look" ELSE worker[v]
    BY Zenon, <2>1 DEF Turns, PoolInv, PoolTypes
  <2>3. job[w] \in Callers
    BY Zenon, <2>1 DEF Turns, PoolInv, PoolTypes, RunsOne
  <2>4. Covered' /\ Rests'
    BY Zenon, <1>1, <2>1, <2>3, EndsJob
  <2>5. RunsOne'
    BY Zenon, <2>1, <2>2, PoolAssumption DEF PoolInv, PoolTypes, RunsOne, FinishCopy
  <2> QED BY Zenon, <1>1, <2>4, <2>5 DEF PoolInv
<1>7. ASSUME NEW w \in Workers,
             ParkWorker(w) \/ WakeWorker(w) \/ WakesItself(w) \/ Leaves(w)
      PROVE  PoolInv'
  <2>1. UNCHANGED <<jobs, job, left, short, caller>>
    BY Zenon, <1>7 DEF ParkWorker, WakeWorker, WakesItself, Leaves, shared
  <2>2. \A v \in Workers : worker'[v] = "run" <=> worker[v] = "run"
    BY Zenon, <1>7 DEF ParkWorker, WakeWorker, WakesItself, Leaves, Turns, PoolInv, PoolTypes
  <2> QED BY Zenon, <1>1, <2>1, <2>2, QuietStep DEF Owed
<1> QED BY Zenon, <1>1, <1>2, <1>3, <1>4, <1>5, <1>6, <1>7, PushStep DEF PoolNext, WorkerStep

(* The invariant the module's one unsafe block rests on: scatter_at_most    *)
(* does not return while a copy of its task is queued or runs, whoever took *)
(* the copy, whatever threads could not be started and whether the body     *)
(* returned or unwound.                                                     *)
THEOREM PoolScoped == PoolSpec => []NoneOutlives
<1>1. PoolInv => NoneOutlives
  <2> SUFFICES ASSUME PoolInv, NEW c \in Callers, caller[c] \notin InScatter PROVE Copies(c) = {}
    BY Zenon DEF NoneOutlives
  <2>1. Queued(c) = {} /\ Running(c) = {}
    BY Zenon, NoneLeft DEF PoolInv, Rests
  <2>2. DOMAIN job = Workers \cup Callers
    BY Zenon DEF PoolInv, PoolTypes
  <2> QED BY Zenon, <2>1, <2>2 DEF Copies, Queued, Running
<1> QED BY <1>1, PoolInitInv, PoolStep, PTL DEF PoolSpec
=============================================================================
