-------------------------------- MODULE Cut --------------------------------
(***************************************************************************)
(* The durable cut that the lanes of one log share, rudb-txn/src/log/cut.rs.*)
(* Commit timestamps are dense, so the cut is a number `at` below which     *)
(* every commit is there and a set `above` of the ones that are there past  *)
(* a gap.  A committer whose commit depends on one in another lane waits    *)
(* for the cut on a condition variable.                                     *)
(*                                                                          *)
(* Every method of the code runs under one mutex, so each is one action.    *)
(* The actions are also the calls the Journal module makes on its cut.      *)
(***************************************************************************)
EXTENDS Naturals

CONSTANTS Committers,   \* the threads that may wait on the cut
          Stamps,       \* the commit timestamps handed out
          NoWait        \* the value of `waiting` of a thread not inside wait

ASSUME StampsAssumption == Stamps \subseteq Nat
ASSUME NoWaitAssumption == NoWait \notin Nat

VARIABLES at,       \* State.at
          above,    \* State.above
          failed,   \* State.failed
          waiting,  \* the timestamp each committer inside `wait` waits for
          parked,   \* the committers asleep on the condition variable
          there     \* history: every timestamp the cut was told is there

cutVars == <<at, above, failed, waiting, parked, there>>

(* Mutant of Stops: the loop stops one short.                               *)
StopsShort(a, s) ==
    {n \in {a} \cup s : /\ n >= a
                        /\ (a + 1)..n \subseteq s
                        /\ n = a \/ n + 1 \in s}

(* Where the loop of `reached` and `raise` stops: the end of the run of     *)
(* timestamps in s that follows a without a gap.                            *)
Stops(a, s) ==
    {n \in {a} \cup s : /\ n >= a
                        /\ (a + 1)..n \subseteq s
                        /\ n + 1 \notin s}

(* A cut at ts, where everything at or below ts is in the file or replayed. *)
New(ts) ==
    /\ at = ts
    /\ above = {}
    /\ failed = FALSE
    /\ there = 0..ts

(* The same, for the cut of a database that is opened again.                *)
Renew(ts) ==
    /\ at' = ts
    /\ above' = {}
    /\ failed' = FALSE
    /\ there' = 0..ts

CutInit ==
    /\ New(0)
    /\ waiting = [c \in Committers |-> NoWait]
    /\ parked = {}

(* Mutant of Reached: a commit above a gap wakes nobody, and neither does   *)
(* the one that closes the gap.                                             *)
ReachedQuietly(ts) ==
    /\ \E n \in Stops(at, above \cup {ts}) :
          at' = n /\ above' = {t \in above \cup {ts} : t > n}
    /\ there' = there \cup {ts}
    /\ UNCHANGED <<failed, waiting, parked>>

(* The commit at ts is there.  A cut already past it returns at once, and   *)
(* the waiters are only told when the cut moved.                            *)
Reached(ts) ==
    /\ \/ /\ ts <= at
          /\ UNCHANGED <<at, above, parked>>
       \/ /\ ts > at
          /\ \E n \in Stops(at, above \cup {ts}) :
                /\ at' = n
                /\ above' = {t \in above \cup {ts} : t > n}
                /\ parked' = IF n # at THEN {} ELSE parked
    /\ there' = there \cup {ts}
    /\ UNCHANGED <<failed, waiting>>

(* A checkpoint wrote every commit up to ts into the file.                  *)
Raise(ts) ==
    /\ \E base \in {IF ts > at THEN ts ELSE at} :
          \E n \in Stops(base, {t \in above : t > base}) :
             /\ at' = n
             /\ above' = {t \in above : t > n}
    /\ failed' = FALSE
    /\ parked' = {}
    /\ there' = there \cup 0..ts
    /\ UNCHANGED waiting

(* A lane failed: every waiter wakes to fail too.                           *)
Fail ==
    /\ failed' = TRUE
    /\ parked' = {}
    /\ UNCHANGED <<at, above, waiting, there>>

(* Committer c calls wait(ts).                                              *)
WaitBegin(c, ts) ==
    /\ waiting[c] = NoWait
    /\ waiting' = [waiting EXCEPT ![c] = ts]
    /\ UNCHANGED <<at, above, failed, parked, there>>

(* One turn of the loop of wait: Ok, an error, or asleep.                   *)
WaitOk(c) ==
    /\ waiting[c] # NoWait /\ c \notin parked
    /\ at >= waiting[c]
    /\ waiting' = [waiting EXCEPT ![c] = NoWait]
    /\ UNCHANGED <<at, above, failed, parked, there>>

WaitErr(c) ==
    /\ waiting[c] # NoWait /\ c \notin parked
    /\ at < waiting[c] /\ failed
    /\ waiting' = [waiting EXCEPT ![c] = NoWait]
    /\ UNCHANGED <<at, above, failed, parked, there>>

Park(c) ==
    /\ waiting[c] # NoWait /\ c \notin parked
    /\ at < waiting[c] /\ ~failed
    /\ parked' = parked \cup {c}
    /\ UNCHANGED <<at, above, failed, waiting, there>>

(* A condition variable may wake a thread nobody told.                      *)
Spurious(c) ==
    /\ c \in parked
    /\ parked' = parked \ {c}
    /\ UNCHANGED <<at, above, failed, waiting, there>>

Turn(c) == WaitOk(c) \/ WaitErr(c) \/ Park(c)

CutNext ==
    \/ \E ts \in Stamps : Reached(ts) \/ Raise(ts)
    \/ Fail
    \/ \E c \in Committers :
          \/ \E ts \in Stamps : WaitBegin(c, ts)
          \/ Turn(c)
          \/ Spurious(c)

(* A thread that holds the mutex or was woken goes on: the turns of a       *)
(* waiter are fair.  Nothing promises that a commit is ever reached.        *)
CutSpec ==
    /\ CutInit /\ [][CutNext]_cutVars
    /\ \A c \in Committers : WF_cutVars(Turn(c))
-----------------------------------------------------------------------------
CutTypeOK ==
    /\ at \in Nat
    /\ above \subseteq Nat
    /\ failed \in BOOLEAN
    /\ waiting \in [Committers -> Nat \cup {NoWait}]
    /\ parked \subseteq Committers
    /\ there \subseteq Nat

(* The cut is exactly what the head of cut.rs says: the largest timestamp   *)
(* at or below which every commit is there.  Everything at or below it was  *)
(* reached or covered by a checkpoint, and no larger number is such.        *)
CutExact ==
    /\ 0..at \subseteq there
    /\ \A ts \in there : 0..ts \subseteq there => ts <= at

(* No waiter of `wait` sleeps through what it waits for: a parked thread's  *)
(* timestamp is past the cut and no lane has failed.  Reached, raise and    *)
(* fail together tell everyone who has to look again.                       *)
NoSleeper ==
    \A c \in parked : /\ waiting[c] # NoWait
                      /\ at < waiting[c]
                      /\ ~failed

(* The cut never goes back, and a commit counted above the cut is never     *)
(* forgotten before the cut passes it, whichever of raise and reached moves *)
(* the cut over it.                                                         *)
CutKeeps ==
    [][at' >= at /\ \A ts \in above : ts \in above' \/ ts <= at']_cutVars

(* A committer inside wait whose commit the cut has reached returns.        *)
WaiterReturns ==
    \A c \in Committers : 
        (waiting[c] # NoWait /\ waiting[c] <= at) ~> (waiting[c] = NoWait)
=============================================================================
