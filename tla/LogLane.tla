------------------------------ MODULE LogLane ------------------------------
(***************************************************************************)
(* What a lane of the log promises the journal, without segments, spares,   *)
(* leaders or files: module Lane implements it and module Journal builds on *)
(* it.                                                                      *)
(*                                                                          *)
(* Every opening of the lane starts a run.  A run queues blocks in the      *)
(* order of their numbers, writes them in that order, and makes them        *)
(* durable in that order.  The end of the process keeps of the run at least *)
(* what was written, and a loss of power keeps of every run at least what   *)
(* was durable, both a first part of what was queued.  A checkpoint covers  *)
(* blocks, which the lane then no longer owes.                              *)
(***************************************************************************)
EXTENDS Naturals, Sequences

VARIABLES runs,     \* per opening, the blocks owed: queued, written, durable
          covered,  \* the last block the database file has
          last,     \* the last block queued
          up        \* whether the lane is open

logVars == <<runs, covered, last, up>>

NewRun == [queued |-> {}, written |-> {}, durable |-> {}]

(* A is what is left of B when some block of B and all after it are lost. *)
FirstOf(A, B) == A \subseteq B /\ \A a \in A, b \in B : b < a => b \in A

LogInit == runs = <<>> /\ covered = 0 /\ last = 0 /\ up = FALSE

Begin ==
    /\ ~up /\ up' = TRUE
    /\ UNCHANGED <<covered, last>>
    /\ runs' = Append(runs, NewRun)

Enqueue ==
    /\ up
    /\ UNCHANGED <<covered, up>>
    /\ last' = last + 1
    /\ LET r == runs[Len(runs)]
       IN  runs' = [runs EXCEPT ![Len(runs)] = [queued |-> r.queued \cup {last + 1},
                                                written |-> r.written, durable |-> r.durable]]

(* A leader's turn writes a first part of what is queued, and makes a first *)
(* part of that durable.                                                    *)
Turn ==
    /\ up
    /\ UNCHANGED <<covered, last, up>>
    /\ LET r == runs[Len(runs)]
       IN  \E w \in SUBSET r.queued : \E d \in SUBSET w :
             /\ r.written \subseteq w /\ FirstOf(w, r.queued)
             /\ r.durable \subseteq d /\ FirstOf(d, w)
             /\ runs' = [runs EXCEPT ![Len(runs)] = [queued |-> r.queued, written |-> w,
                                                      durable |-> d]]

(* A checkpoint: the file has every block up to c, and they are owed no more. *)
Owed(S, c) == {b \in S : b > c}
Less(r, c) == [queued |-> Owed(r.queued, c), written |-> Owed(r.written, c),
               durable |-> Owed(r.durable, c)]
Cover ==
    /\ up
    /\ UNCHANGED <<last, up>>
    /\ \E c \in covered..last :
         /\ covered' = c
         /\ runs' = [i \in DOMAIN runs |-> Less(runs[i], c)]

(* The log is removed once the file has every block. *)
Close ==
    /\ covered' = last
    /\ runs' = [i \in DOMAIN runs |-> NewRun]
    /\ up' = FALSE
    /\ UNCHANGED last

EndProcess ==
    /\ up /\ up' = FALSE
    /\ UNCHANGED <<covered, last>>
    /\ LET r == runs[Len(runs)]
       IN  \E s \in SUBSET r.queued : \E d \in SUBSET s :
             /\ r.written \subseteq s /\ FirstOf(s, r.queued)
             /\ r.durable \subseteq d /\ FirstOf(d, s)
             /\ runs' = [runs EXCEPT ![Len(runs)] = [queued |-> s, written |-> s, durable |-> d]]

(* What power leaves of a run is on the disk, and so durable. *)
Cut(r) == {[queued |-> s, written |-> s, durable |-> s] :
             s \in {s \in SUBSET r.queued : r.durable \subseteq s /\ FirstOf(s, r.queued)}}

EndPower ==
    /\ up' = FALSE
    /\ UNCHANGED <<covered, last>>
    /\ \E left \in [DOMAIN runs -> UNION {Cut(runs[i]) : i \in DOMAIN runs}] :
         /\ \A i \in DOMAIN runs : left[i] \in Cut(runs[i])
         /\ runs' = left

LogNext == Begin \/ Enqueue \/ Turn \/ Cover \/ Close \/ EndProcess \/ EndPower

LogSpec == LogInit /\ [][LogNext]_logVars

-----------------------------------------------------------------------------
Run == [queued : SUBSET Nat, written : SUBSET Nat, durable : SUBSET Nat]

(* The one type invariant. *)
LogTypeOK == /\ runs \in Seq(Run) /\ covered \in Nat /\ last \in Nat /\ up \in BOOLEAN
             /\ covered <= last /\ (up => Len(runs) > 0)

(* Whatever crashes came before, what a run has durable is a first part of  *)
(* what it has written, which is a first part of what it queued, it owes    *)
(* only blocks the file does not have, and the runs follow each other: read *)
(* run by run, as replay reads segment by segment, the blocks come in the   *)
(* order they were queued.                                                  *)
RunsInOrder ==
    /\ \A i \in DOMAIN runs :
         /\ FirstOf(runs[i].written, runs[i].queued)
         /\ FirstOf(runs[i].durable, runs[i].written)
         /\ \A b \in runs[i].queued : covered < b /\ b <= last
    /\ \A i, j \in DOMAIN runs : \A a \in runs[i].queued, b \in runs[j].queued : i < j => a < b

(* No step loses a block that was durable before the file has it: no crash, *)
(* no new run and no turn of a leader.                                      *)
DurableKept == [][\A i \in DOMAIN runs :
                     \A b \in runs[i].durable : b > covered' => b \in runs'[i].durable]_logVars
=============================================================================
