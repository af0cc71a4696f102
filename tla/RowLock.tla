------------------------------ MODULE RowLock ------------------------------
(***************************************************************************)
(* The row locks of the hot table: the lock word taken by HotStripe::claim  *)
(* (rudb-storage/src/hot.rs) and the parking table behind it                *)
(* (rudb-storage/src/park.rs).  A transaction that finds a row held spins,  *)
(* parks and is handed the row by the one that releases it, or dies.        *)
(*                                                                          *)
(* A bucket's mutex is held from the first look at its queue to the last    *)
(* write, so what is done under it is one action; every other load or       *)
(* exchange of the word is its own.  The bit DELTA is set by no code and    *)
(* left out.  What a transaction does between claims is its caller's: it    *)
(* claims, and at a refusal, or when it is through, it lets its rows go     *)
(* one by one.                                                              *)
(***************************************************************************)
EXTENDS Integers, FiniteSets

CONSTANTS Txns,  \* transaction ids: a smaller one is an older transaction
          HotRows, NoTxn, NoRow

ASSUME RowAssumption == Txns \subseteq Nat /\ NoTxn \notin Txns /\ NoRow \notin HotRows

VARIABLES word,   \* the lock word of a row: its holder and the bit WAITERS
          queue,  \* the entries of a row in its bucket: who is parked and whether it was granted
          step,   \* where a transaction is in claim, wait or release
          atRow,  \* the row it is there for
          mine    \* the rows it was told it holds

rowVars == <<word, queue, step, atRow, mine>>

Free == [holder |-> NoTxn, waiters |-> FALSE]
Parked == [me : Txns, granted : BOOLEAN]

RowInit ==
    /\ word = [r \in HotRows |-> Free] /\ queue = [r \in HotRows |-> {}]
    /\ step = [t \in Txns |-> "run"] /\ atRow = [t \in Txns |-> NoRow]
    /\ mine = [t \in Txns |-> {}]

Go(t, from, to) == step[t] = from /\ step' = [step EXCEPT ![t] = to]
IsFree(r) == word[r].holder = NoTxn
Take(r, t) == word' = [word EXCEPT ![r].holder = t]
Waiting(r) == {p.me : p \in {q \in queue[r] : ~q.granted}}
Oldest(S) == CHOOSE t \in S : \A u \in S : t <= u

-----------------------------------------------------------------------------
(* claim: a free row is taken, a held one waited for when wait-die allows   *)
(* it, and refused otherwise.                                               *)

(* Wait::allows, for a timeout that is not zero. *)
Allows(t, holder) == mine[t] = {} \/ t < holder

ClaimFree(t, r) ==
    /\ Go(t, "run", "got") /\ r \notin mine[t] /\ IsFree(r)
    /\ Take(r, t) /\ atRow' = [atRow EXCEPT ![t] = r]
    /\ UNCHANGED <<queue, mine>>

ClaimWaits(t, r) ==
    /\ Go(t, "run", "spin") /\ r \notin mine[t] /\ ~IsFree(r)
    /\ Allows(t, word[r].holder)
    /\ atRow' = [atRow EXCEPT ![t] = r]
    /\ UNCHANGED <<word, queue, mine>>

ClaimDies(t, r) ==
    /\ Go(t, "run", "ending") /\ r \notin mine[t] /\ ~IsFree(r)
    /\ ~Allows(t, word[r].holder)
    /\ UNCHANGED <<word, queue, atRow, mine>>

-----------------------------------------------------------------------------
(* wait: some rereads of the word, then the bucket. *)

SpinFree(t) ==
    /\ Go(t, "spin", "take") /\ IsFree(atRow[t])
    /\ UNCHANGED <<word, queue, atRow, mine>>

SpinOut(t) ==
    /\ Go(t, "spin", "park") /\ ~IsFree(atRow[t])
    /\ UNCHANGED <<word, queue, atRow, mine>>

TakeBlindly(t) ==
    /\ Go(t, "take", "got")
    /\ Take(atRow[t], t)
    /\ UNCHANGED <<queue, atRow, mine>>

(* take, when the row is still free. *)
TakeIt(t) ==
    /\ Go(t, "take", "got") /\ IsFree(atRow[t])
    /\ Take(atRow[t], t)
    /\ UNCHANGED <<queue, atRow, mine>>

(* take lost the row to another: the wait is over before its deadline. *)
TakeLost(t) ==
    /\ Go(t, "take", "ending") /\ ~IsFree(atRow[t])
    /\ atRow' = [atRow EXCEPT ![t] = NoRow]
    /\ UNCHANGED <<word, queue, mine>>

ParkFree(t) ==
    /\ Go(t, "park", "got") /\ IsFree(atRow[t])
    /\ Take(atRow[t], t)
    /\ UNCHANGED <<queue, atRow, mine>>

Enqueue(t) == queue' = [queue EXCEPT ![atRow[t]] = @ \cup {[me |-> t, granted |-> FALSE]}]

ParkUnmarked(t) ==
    /\ Go(t, "park", "parked") /\ ~IsFree(atRow[t])
    /\ Enqueue(t)
    /\ UNCHANGED <<word, atRow, mine>>

ParkHeld(t) ==
    /\ Go(t, "park", "parked") /\ ~IsFree(atRow[t])
    /\ word' = [word EXCEPT ![atRow[t]].waiters = TRUE]
    /\ Enqueue(t)
    /\ UNCHANGED <<atRow, mine>>

Mine(t) == {p \in queue[atRow[t]] : p.me = t}

NeverUnparked(t) ==
    /\ Go(t, "parked", "got") /\ Mine(t) = {}
    /\ UNCHANGED <<word, queue, atRow, mine>>

(* The waiter wakes and finds its entry granted. *)
Granted(t) ==
    /\ Go(t, "parked", "got") /\ \E p \in Mine(t) : p.granted
    /\ queue' = [queue EXCEPT ![atRow[t]] = @ \ Mine(t)]
    /\ UNCHANGED <<word, atRow, mine>>

(* The deadline: the last entry of the row to leave takes WAITERS with it. *)
LockTimeout(t) ==
    /\ Go(t, "parked", "ending") /\ \A p \in Mine(t) : ~p.granted
    /\ queue' = [queue EXCEPT ![atRow[t]] = @ \ Mine(t)]
    /\ word' = [word EXCEPT ![atRow[t]].waiters = @ /\ queue[atRow[t]] # Mine(t)]
    /\ atRow' = [atRow EXCEPT ![t] = NoRow]
    /\ UNCHANGED mine

-----------------------------------------------------------------------------
(* The end of claim: the row is kept, or let go when it is freezing, is     *)
(* deleted or changed after the snapshot.                                   *)

Keep(t) ==
    /\ Go(t, "got", "run")
    /\ mine' = [mine EXCEPT ![t] = @ \cup {atRow[t]}]
    /\ atRow' = [atRow EXCEPT ![t] = NoRow]
    /\ UNCHANGED <<word, queue>>

Refuse(t) ==
    /\ Go(t, "got", "release")
    /\ UNCHANGED <<word, queue, atRow, mine>>

(* commit_write and abort_write let a row of the transaction go. *)
Finish(t) ==
    /\ Go(t, "run", "ending")
    /\ UNCHANGED <<word, queue, atRow, mine>>

LetGoUnnamed(t, r) ==
    /\ Go(t, "ending", "release") /\ r \in mine[t]
    /\ mine' = [mine EXCEPT ![t] = @ \ {r}]
    /\ UNCHANGED <<word, queue, atRow>>

LetGo(t, r) ==
    /\ Go(t, "ending", "release") /\ r \in mine[t]
    /\ mine' = [mine EXCEPT ![t] = @ \ {r}] /\ atRow' = [atRow EXCEPT ![t] = r]
    /\ UNCHANGED <<word, queue>>

Done(t) ==
    /\ Go(t, "ending", "done") /\ mine[t] = {}
    /\ UNCHANGED <<word, queue, atRow, mine>>

-----------------------------------------------------------------------------
(* release: nobody waits and the word is freed, or the bucket's oldest      *)
(* waiter is handed the row.                                                *)

ReleaseFree(t) ==
    /\ Go(t, "release", "ending") /\ ~word[atRow[t]].waiters
    /\ word' = [word EXCEPT ![atRow[t]] = Free]
    /\ atRow' = [atRow EXCEPT ![t] = NoRow]
    /\ UNCHANGED <<queue, mine>>

ReleaseSees(t) ==
    /\ Go(t, "release", "hand") /\ word[atRow[t]].waiters
    /\ UNCHANGED <<word, queue, atRow, mine>>

Grant(r, u) ==
    queue' = [queue EXCEPT ![r] = {IF p.me = u THEN [p EXCEPT !.granted = TRUE] ELSE p : p \in @}]

HandNewest(t) ==
    LET r == atRow[t]
        W == Waiting(r)
        u == CHOOSE v \in W : \A w \in W : w <= v
    IN /\ Go(t, "hand", "ending")
       /\ IF W = {}
            THEN word' = [word EXCEPT ![r] = Free] /\ UNCHANGED queue
            ELSE word' = [word EXCEPT ![r] = [holder |-> u, waiters |-> W # {u}]] /\ Grant(r, u)
       /\ atRow' = [atRow EXCEPT ![t] = NoRow]
       /\ UNCHANGED mine

(* The waiters seen may all have run out of time since. *)
Hand(t) ==
    LET r == atRow[t]
        W == Waiting(r)
        u == Oldest(W)
    IN /\ Go(t, "hand", "ending")
       /\ IF W = {}
            THEN word' = [word EXCEPT ![r] = Free] /\ UNCHANGED queue
            ELSE word' = [word EXCEPT ![r] = [holder |-> u, waiters |-> W # {u}]] /\ Grant(r, u)
       /\ atRow' = [atRow EXCEPT ![t] = NoRow]
       /\ UNCHANGED mine

-----------------------------------------------------------------------------
(* What a transaction does once it started, its deadline aside. *)
Runs(t) == \/ SpinFree(t) \/ SpinOut(t) \/ TakeIt(t) \/ TakeLost(t) \/ ParkFree(t) \/ ParkHeld(t)
           \/ Granted(t) \/ Keep(t) \/ Finish(t) \/ (\E r \in HotRows : LetGo(t, r)) \/ Done(t)
           \/ ReleaseFree(t) \/ ReleaseSees(t) \/ Hand(t)

RowNext ==
    \E t \in Txns : \/ Runs(t) \/ Refuse(t) \/ LockTimeout(t)
                    \/ \E r \in HotRows : ClaimFree(t, r) \/ ClaimWaits(t, r) \/ ClaimDies(t, r)

(* A transaction runs while it can and ends; no deadline need ever pass. *)
RowSpec == RowInit /\ [][RowNext]_rowVars /\ \A t \in Txns : WF_rowVars(Runs(t))

-----------------------------------------------------------------------------
RowSteps == {"run", "got", "spin", "take", "park", "parked", "release", "hand", "ending", "done"}

(* The one type invariant. *)
RowTypeOK ==
    /\ word \in [HotRows -> [holder : Txns \cup {NoTxn}, waiters : BOOLEAN]]
    /\ queue \in [HotRows -> SUBSET Parked] /\ step \in [Txns -> RowSteps]
    /\ atRow \in [Txns -> HotRows \cup {NoRow}] /\ mine \in [Txns -> SUBSET HotRows]
    /\ \A t \in Txns : atRow[t] = NoRow <=> step[t] \in {"run", "ending", "done"}

(* The rows t holds or is about to be told it holds or let go. *)
Holds(t, r) == r \in mine[t] \/ (atRow[t] = r /\ step[t] \in {"got", "release", "hand"})

(* The word is the truth about who holds a row: what a transaction was told *)
(* by claim, by a handoff or by take is its own until it lets go, so two    *)
(* never change one row.                                                    *)
HeldAlone == \A t \in Txns, r \in HotRows : Holds(t, r) => word[r].holder = t

(* Nobody is left parked: a row with a waiter that was not handed it is     *)
(* held and marked, by someone who still has to pass through release, which *)
(* sees the mark.                                                           *)
WaiterSeen ==
    \A r \in HotRows : Waiting(r) # {} =>
        /\ word[r].waiters
        /\ \/ \E t \in Txns : Holds(t, r)
           \/ \E p \in queue[r] : p.granted /\ p.me = word[r].holder

(* A row with waiters is never freed under them or taken by a passer-by: it *)
(* goes to the oldest of them.                                              *)
OldestNext ==
    [][\A r \in HotRows : Waiting(r) # {} /\ word'[r].holder # word[r].holder =>
          word'[r].holder = Oldest(Waiting(r))]_rowVars

WaitsOn(t, u) == step[t] = "parked" /\ t \in Waiting(atRow[t]) /\ word[atRow[t]].holder = u

(* Transactions that all wait on one another. *)
WaitCycle == \E S \in SUBSET Txns \ {{}} : \A t \in S : \E u \in S : WaitsOn(t, u)

(* A wait ends without its deadline, by a handoff, unless the waiters wait  *)
(* on one another.                                                          *)
ParkedLeaves == \A t \in Txns : step[t] = "parked" ~> step[t] # "parked" \/ WaitCycle

(* Wait-die leaves no cycle, so it needs no detector. *)
NoWaitCycle == ~WaitCycle
=============================================================================
