------------------------------- MODULE Pool -------------------------------
(***************************************************************************)
(* The threads queries run on, rudb-pipeline/src/pool.rs: a caller leases   *)
(* some, scatters copies of a task over them, runs its own body and waits   *)
(* for the copies.                                                          *)
(*                                                                          *)
(* What is done under the mutex of the queue, or under that of a batch, is  *)
(* one action; each other load, store or exchange is its own.  A caller has *)
(* one batch at a time, which is named after it.  A task that panics is     *)
(* counted down as one that returns, so a run of a task is left out; a body *)
(* that unwinds is not.  How much a yielding pool lends is any number.      *)
(***************************************************************************)
EXTENDS Integers, FiniteSets, Sequences, FiniteSetsExt

CONSTANTS Callers,  \* threads that run queries
          Workers,  \* threads the operating system may give the pool
          Sizes,    \* what SET threads sets
          NoBatch

ASSUME PoolAssumption == /\ Sizes \subseteq Nat \ {0} /\ NoBatch \notin Callers
                         /\ IsFiniteSet(Callers) /\ IsFiniteSet(Workers)
                         /\ Callers \cap Workers = {}

VARIABLES threads, busy, live,
          jobs,     \* the queue: a batch for each copy not picked up
          idle,     \* Queue::idle
          closed,
          worker,   \* where each worker is
          job,      \* the batch each thread runs a copy of, workers and callers alike
          caller,   \* where each caller is in lease and scatter
          extra,    \* the threads its lease covers
          left,     \* the copies of its batch not counted down
          short,    \* what enqueue has still to start, or the copies taken back and not run
          wakes     \* how many workers enqueue is to wake

poolVars == <<threads, busy, live, jobs, idle, closed, worker, job, caller, extra, left, short,
              wakes>>
counts == <<threads, busy, live>>
shared == <<jobs, idle, closed>>
lease == <<extra, wakes>>

PoolInit ==
    /\ threads \in Sizes /\ busy = 0 /\ live = 0
    /\ jobs = <<>> /\ idle = 0 /\ closed = FALSE
    /\ worker = [w \in Workers |-> "none"] /\ job = [t \in Workers \cup Callers |-> NoBatch]
    /\ caller = [c \in Callers |-> "away"] /\ extra = [c \in Callers |-> 0]
    /\ left = [c \in Callers |-> 0] /\ short = [c \in Callers |-> 0]
    /\ wakes = [c \in Callers |-> 0]

Moves(c, from, to) == caller[c] = from /\ caller' = [caller EXCEPT ![c] = to]
Turns(w, from, to) == worker[w] = from /\ worker' = [worker EXCEPT ![w] = to]
Less(a, b) == IF a > b THEN a - b ELSE 0

-----------------------------------------------------------------------------
(* lend, and the lease given back. *)

Lend(c, want) ==
    LET taken == Min({Less(want, 1), Less(threads - 1, busy)})
    IN /\ Moves(c, "away", "leased") /\ ~closed
       /\ busy' = busy + taken /\ extra' = [extra EXCEPT ![c] = taken]
       /\ UNCHANGED <<threads, live, shared, worker, job, left, short, wakes>>

LeaseDrop(c) ==
    /\ Moves(c, "leased", "away")
    /\ busy' = busy - extra[c] /\ extra' = [extra EXCEPT ![c] = 0]
    /\ UNCHANGED <<threads, live, shared, worker, job, left, short, wakes>>

Resize(n) ==
    /\ ~closed /\ threads # n
    /\ threads' = n
    /\ UNCHANGED <<busy, live, shared, worker, job, caller, lease, left, short>>

-----------------------------------------------------------------------------
(* scatter_at_most: with nothing to hand out it is the body alone, which    *)
(* changes nothing.  enqueue pushes the copies and reads the shortfall      *)
(* under one lock, wakes workers after it, and then starts threads.         *)

Push(c, most) ==
    LET n == Min({extra[c], Less(most, 1)})
    IN /\ Moves(c, "leased", "notify") /\ n > 0
       /\ left' = [left EXCEPT ![c] = n]
       /\ jobs' = jobs \o [i \in 1..n |-> c]
       /\ short' = [short EXCEPT ![c] = Less(n, idle)]
       /\ wakes' = [wakes EXCEPT ![c] = IF n >= idle THEN Cardinality(Workers) ELSE n]
       /\ UNCHANGED <<counts, idle, closed, worker, job, extra>>

Sleeping == {w \in Workers : worker[w] = "parked"}

(* One for each copy, or all of them when as many copies as parked workers  *)
(* were pushed.                                                             *)
Notify(c) ==
    \E W \in SUBSET Sleeping :
        /\ Cardinality(W) = Min({wakes[c], Cardinality(Sleeping)})
        /\ Moves(c, "notify", "hire")
        /\ worker' = [w \in Workers |-> IF w \in W THEN "woken" ELSE worker[w]]
        /\ wakes' = [wakes EXCEPT ![c] = 0]
        /\ UNCHANGED <<counts, shared, job, extra, left, short>>

HireEnough(c) ==
    /\ Moves(c, "hire", "body")
    /\ short[c] = 0 \/ live >= threads - 1
    /\ short' = [short EXCEPT ![c] = 0]
    /\ UNCHANGED <<counts, shared, worker, job, lease, left>>

HireMore(c) ==
    /\ Moves(c, "hire", "spawn")
    /\ short[c] > 0 /\ live < threads - 1
    /\ short' = [short EXCEPT ![c] = @ - 1]
    /\ UNCHANGED <<counts, shared, worker, job, lease, left>>

(* The thread is there, and counted after that. *)
Spawn(c, w) ==
    /\ Moves(c, "spawn", "hired") /\ Turns(w, "none", "look")
    /\ UNCHANGED <<counts, shared, job, lease, left, short>>

HireCounted(c) ==
    /\ Moves(c, "hired", "hire")
    /\ live' = live + 1
    /\ UNCHANGED <<threads, busy, shared, worker, job, lease, left, short>>

SpawnFailsQuietly(c) ==
    /\ Moves(c, "spawn", "hire")
    /\ UNCHANGED <<counts, shared, worker, job, lease, left, short>>

(* There is no thread to be had: inline runs the first job, anybody's. *)
SpawnFails(c) ==
    /\ Moves(c, "spawn", IF jobs = <<>> THEN "hire" ELSE "inline")
    /\ IF jobs = <<>> THEN UNCHANGED <<jobs, job>>
       ELSE jobs' = Tail(jobs) /\ job' = [job EXCEPT ![c] = Head(jobs)]
    /\ UNCHANGED <<counts, idle, closed, worker, lease, left, short>>

FinishCopy(t) ==
    /\ left' = [left EXCEPT ![job[t]] = @ - 1]
    /\ job' = [job EXCEPT ![t] = NoBatch]

InlineDone(c) ==
    /\ Moves(c, "inline", "hire") /\ FinishCopy(c)
    /\ UNCHANGED <<counts, shared, worker, lease, short>>

-----------------------------------------------------------------------------
(* The body, the copies nobody picked up, and the wait of the guard, which  *)
(* an unwinding body reaches too.                                           *)

BodyReturns(c) ==
    /\ Moves(c, "body", "reclaim")
    /\ UNCHANGED <<counts, shared, worker, job, lease, left, short>>

BodyUnwindsPast(c) ==
    /\ Moves(c, "body", "leased")
    /\ UNCHANGED <<counts, shared, worker, job, lease, left, short>>

BodyUnwinds(c) ==
    /\ Moves(c, "body", "join")
    /\ UNCHANGED <<counts, shared, worker, job, lease, left, short>>

(* The queue without the copies of c, in the order it had. *)
Retain(c) ==
    LET rest == {i \in DOMAIN jobs : jobs[i] # c}
    IN \E at \in [1..Cardinality(rest) -> rest] :
          /\ \A i, j \in DOMAIN at : i < j => at[i] < at[j]
          /\ jobs' = [i \in DOMAIN at |-> jobs[at[i]]]

Reclaim(c) ==
    /\ Moves(c, "reclaim", "own")
    /\ Retain(c)
    /\ short' = [short EXCEPT ![c] = Len(jobs) - Len(jobs')]
    /\ UNCHANGED <<counts, idle, closed, worker, job, lease, left>>

RunOwn(c) ==
    /\ caller[c] = "own" /\ short[c] > 0
    /\ left' = [left EXCEPT ![c] = @ - 1] /\ short' = [short EXCEPT ![c] = @ - 1]
    /\ UNCHANGED <<counts, shared, worker, job, caller, lease>>

OwnRun(c) ==
    /\ Moves(c, "own", "join") /\ short[c] = 0
    /\ UNCHANGED <<counts, shared, worker, job, lease, left, short>>

Join(c) ==
    /\ Moves(c, "join", "leased") /\ left[c] = 0
    /\ UNCHANGED <<counts, shared, worker, job, lease, left, short>>

-----------------------------------------------------------------------------
(* work: a worker's life. *)

Pop(w) ==
    /\ Turns(w, "look", "run") /\ jobs # <<>>
    /\ jobs' = Tail(jobs) /\ job' = [job EXCEPT ![w] = Head(jobs)]
    /\ UNCHANGED <<counts, idle, closed, caller, lease, left, short>>

RunDone(w) ==
    /\ Turns(w, "run", "look") /\ FinishCopy(w)
    /\ UNCHANGED <<counts, shared, caller, lease, short>>

ParkWorker(w) ==
    /\ Turns(w, "look", "parked") /\ jobs = <<>> /\ ~closed
    /\ idle' = idle + 1
    /\ UNCHANGED <<counts, jobs, closed, job, caller, lease, left, short>>

WakeWorker(w) ==
    /\ Turns(w, "woken", "look")
    /\ idle' = idle - 1
    /\ UNCHANGED <<counts, jobs, closed, job, caller, lease, left, short>>

(* A condition variable may wake a thread nobody notified. *)
WakesItself(w) ==
    /\ Turns(w, "parked", "woken")
    /\ UNCHANGED <<counts, shared, job, caller, lease, left, short>>

Leaves(w) ==
    /\ Turns(w, "look", "gone") /\ jobs = <<>> /\ closed
    /\ UNCHANGED <<counts, shared, job, caller, lease, left, short>>

CloseQuietly ==
    /\ ~closed /\ \A c \in Callers : caller[c] = "away"
    /\ closed' = TRUE
    /\ UNCHANGED <<counts, jobs, idle, worker, job, caller, lease, left, short>>

(* The pool is dropped, which no lease outlives. *)
Close ==
    /\ ~closed /\ \A c \in Callers : caller[c] = "away"
    /\ closed' = TRUE
    /\ worker' = [w \in Workers |-> IF worker[w] = "parked" THEN "woken" ELSE worker[w]]
    /\ UNCHANGED <<counts, jobs, idle, job, caller, lease, left, short>>

-----------------------------------------------------------------------------
WorkerStep(w) == Pop(w) \/ RunDone(w) \/ ParkWorker(w) \/ WakeWorker(w) \/ Leaves(w)

(* What scatter does once it began. *)
Scatters(c) == \/ Notify(c) \/ HireEnough(c) \/ HireMore(c) \/ (\E w \in Workers : Spawn(c, w))
               \/ HireCounted(c) \/ SpawnFails(c) \/ InlineDone(c) \/ BodyReturns(c)
               \/ BodyUnwinds(c) \/ Reclaim(c) \/ RunOwn(c) \/ OwnRun(c) \/ Join(c)

PoolNext ==
    \/ Close
    \/ \E n \in Sizes : Resize(n)
    \/ \E c \in Callers, n \in 2..Max(Sizes) : Lend(c, n) \/ Push(c, n)
    \/ \E c \in Callers : Scatters(c) \/ LeaseDrop(c)
    \/ \E w \in Workers : WorkerStep(w) \/ WakesItself(w)

(* Threads run; a body, and a task, comes to its end. *)
PoolSpec == /\ PoolInit /\ [][PoolNext]_poolVars
            /\ \A w \in Workers : WF_poolVars(WorkerStep(w))
            /\ \A c \in Callers : WF_poolVars(Scatters(c))

-----------------------------------------------------------------------------
InScatter == {"notify", "hire", "spawn", "hired", "inline", "body", "reclaim", "own", "join"}

(* The one type invariant. *)
PoolTypeOK ==
    /\ threads \in Sizes /\ busy \in Nat /\ live \in Nat /\ jobs \in Seq(Callers)
    /\ idle \in Nat /\ closed \in BOOLEAN
    /\ worker \in [Workers -> {"none", "look", "run", "parked", "woken", "gone"}]
    /\ job \in [Workers \cup Callers -> Callers \cup {NoBatch}]
    /\ caller \in [Callers -> InScatter \cup {"away", "leased"}] /\ extra \in [Callers -> Nat]
    /\ left \in [Callers -> Nat] /\ short \in [Callers -> Nat] /\ wakes \in [Callers -> Nat]

(* The copies of a batch that are queued or running. *)
Copies(c) == {i \in DOMAIN jobs : jobs[i] = c} \cup {t \in DOMAIN job : job[t] = c}

(* The invariant the module's one unsafe block rests on: scatter does not   *)
(* return while a copy of its task is queued or runs, on a worker, or on    *)
(* another caller that could not start one, and whether the body returned   *)
(* or unwound.                                                              *)
NoneOutlives == \A c \in Callers : caller[c] \notin InScatter => Copies(c) = {}

(* Every scatter returns: no copy is left in the queue with the workers     *)
(* parked, whether they were busy, waking, or could not be started.         *)
ScatterReturns == \A c \in Callers : caller[c] \in InScatter ~> caller[c] \notin InScatter

(* A pool that is dropped sees every thread it started leave. *)
AllLeave == closed ~> \A w \in Workers : worker[w] \in {"none", "gone"}
=============================================================================
