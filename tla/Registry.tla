------------------------------ MODULE Registry ------------------------------
(***************************************************************************)
(* Transactions over one table: the registry of open transactions, their    *)
(* claims on rows and the commits since their snapshots (rudb/src/txn.rs),  *)
(* with the statements and commits of database.rs that use it.              *)
(*                                                                          *)
(* A connection runs one transaction at a time.  A write of a row takes two *)
(* holds of the registry's lock: `claim` looks for a clash and `claimed`    *)
(* marks the row once the change is in the transaction's copy, and any step *)
(* of another connection may come between.  A write that meets a held row   *)
(* waits for the holder when wait-die lets it.  A commit holds the catalog, *)
(* puts the transaction's rows into the committed table, by number while    *)
(* the numbering (the frame) is the snapshot's and by key otherwise, and    *)
(* ends the transaction.                                                    *)
(*                                                                          *)
(* Statements write one row.  A prepared write by key (a point) claims the  *)
(* columns it sets, and a plan claims them all.  A value is an integer:     *)
(* setting a column gives it one no other transaction sets, and an add adds *)
(* one.                                                                     *)
(***************************************************************************)
EXTENDS Integers, FiniteSets, Sequences, SequencesExt

CONSTANTS Conns,       \* connections
          Rows,        \* the rows of the table, numbers in its order; each has a key
          Columns,     \* its columns beside the key
          Addable,     \* the columns of an integer or a decimal type
          Statements,  \* the writes: what one does, to which column, whether by key
          Waits,       \* whether lock_timeout is not zero
          Keyed,       \* whether the table finds its rows by the key
          MaxIds,      \* bound: transactions begun
          MaxClock,    \* bound: the revision past which no point write is made
          MaxWrites    \* bound: writes of a transaction

ASSUME RegistryAssumption ==
    /\ Rows \subseteq Nat /\ IsFiniteSet(Rows) /\ IsFiniteSet(Conns)
    /\ Addable \subseteq Columns /\ Waits \in BOOLEAN /\ Keyed \in BOOLEAN
    /\ Statements \subseteq [kind : {"set", "add", "delete"}, column : Columns,
                             point : BOOLEAN]
    /\ \A s \in Statements : s.point => Keyed
    /\ MaxIds \in Nat /\ MaxClock \in Nat /\ MaxWrites \in Nat

VARIABLES next,     \* Registry::next
          done,     \* Registry::done: marks with the revision of their commit
          clock,    \* the revisions, one for each commit
          table,    \* the committed table
          st,       \* what each connection is at
          auto,     \* whether its transaction is one statement's own
          id,       \* its transaction's number, 0 for none in the registry
          at,       \* Claims::at, the revision of the snapshot
          held,     \* Claims::tables, the marks
          holder,   \* the transaction it waits for
          snap,     \* Snapshot::base
          copy,     \* the transaction's copy of the table
          plan,     \* the write under way
          did,      \* Written::changes
          log,      \* ghost: every committed mark, with its snapshot, commit and row
          want      \* ghost: the committed writes applied in the order of the commits

txns == <<st, auto, id, at, held, holder, snap, copy, plan, did>>
registryVars == <<next, done, clock, table, txns, log, want>>

Writes == {[op |-> s, row |-> r] : s \in Statements, r \in Rows}
NoWrite == [op |-> [kind |-> "none", column |-> "", point |-> FALSE], row |-> 0]

FirstTable == [live |-> Rows, cell |-> [r \in Rows |-> [k \in Columns |-> 0]],
               frame |-> 0, revision |-> 0]

RegistryInit ==
    /\ next = 0 /\ done = {} /\ clock = 0 /\ table = FirstTable
    /\ st = [c \in Conns |-> "idle"] /\ auto = [c \in Conns |-> FALSE]
    /\ id = [c \in Conns |-> 0] /\ at = [c \in Conns |-> 0] /\ held = [c \in Conns |-> {}]
    /\ holder = [c \in Conns |-> 0]
    /\ snap = [c \in Conns |-> FirstTable] /\ copy = [c \in Conns |-> FirstTable]
    /\ plan = [c \in Conns |-> NoWrite] /\ did = [c \in Conns |-> <<>>]
    /\ log = {} /\ want = FirstTable

Opened == {c \in Conns : id[c] # 0}

-----------------------------------------------------------------------------
(* Rows and marks.  A row's number is how many rows of its table come       *)
(* before it, and means a row only together with the frame.                 *)

Number(t, r) == Cardinality({q \in t.live : q < r})

MarkOf(t, w) ==
    [frame |-> t.frame, row |-> Number(t, w.row),
     claims |-> IF w.op.point /\ w.op.kind # "delete" THEN {w.op.column} ELSE Columns,
     delta |-> w.op.point /\ w.op.kind = "add" /\ Waits]

(* A write by key that meets a clash is run again as a plan. *)
Planned(w) == [w EXCEPT !.op.point = FALSE]

Shares(m, n) == m.frame = n.frame /\ m.row = n.row

Meets(m, n) == /\ ~(m.delta /\ n.delta)
               /\ m.delta \/ n.delta => m.claims \cap n.claims # {}
               /\ Shares(m, n)

(* What a write does to a table. *)
Applied(t, w, value) ==
    CASE w.op.kind = "set" -> [t EXCEPT !.cell[w.row][w.op.column] = value]
      [] w.op.kind = "add" -> [t EXCEPT !.cell[w.row][w.op.column] = @ + 1]
      [] OTHER -> [t EXCEPT !.live = @ \ {w.row}]

(* A value no other transaction sets. *)
Own(n) == 10 * n

-----------------------------------------------------------------------------
(* Registry::end, with Board::end's wake: what a commit wrote is kept for   *)
(* the transactions still open, and what none of those can need goes.       *)

Dropped(c) ==
    /\ id' = [id EXCEPT ![c] = 0] /\ at' = [at EXCEPT ![c] = 0]
    /\ held' = [held EXCEPT ![c] = {}] /\ did' = [did EXCEPT ![c] = <<>>]
    /\ snap' = [snap EXCEPT ![c] = FirstTable] /\ copy' = [copy EXCEPT ![c] = FirstTable]

Kept == UNCHANGED <<id, at, held, snap, copy, did, done>>

End(c, marks) ==
    /\ Dropped(c)
    /\ LET others == Opened \ {c}
           kept == IF others = {} THEN {} ELSE done \cup {[at |-> clock', mark |-> m] : m \in marks}
       IN  done' = {d \in kept : \E o \in others : d.at > at[o]}

(* Where the connections are once c is at to and the sleepers are woken. *)
WokenNone(c, to) == [st EXCEPT ![c] = to]
Woken(c, to) == [x \in Conns |-> IF x = c THEN to
                                 ELSE IF st[x] = "asleep" THEN "waiting" ELSE st[x]]

(* The transaction leaves the registry with nothing committed. *)
Undone(c) == End(c, {}) /\ st' = Woken(c, "idle")

-----------------------------------------------------------------------------
(* A transaction's first statement takes the snapshot and the number,       *)
(* holding the catalog.                                                     *)
Start(c, own) ==
    /\ st[c] = "idle" /\ next < MaxIds
    /\ next' = next + 1
    /\ st' = [st EXCEPT ![c] = "open"] /\ auto' = [auto EXCEPT ![c] = own]
    /\ id' = [id EXCEPT ![c] = next + 1] /\ at' = [at EXCEPT ![c] = clock]
    /\ snap' = [snap EXCEPT ![c] = table] /\ copy' = [copy EXCEPT ![c] = table]
    /\ did' = [did EXCEPT ![c] = <<>>]
    /\ UNCHANGED <<done, clock, table, held, holder, plan, log, want>>

(* Registry::clashes: a row committed since the snapshot, or one that other *)
(* open transactions hold.                                                  *)
Met(m, since) == \E d \in done : d.at > since /\ Meets(d.mark, m)
Holders(c, m) == {id[o] : o \in {o \in Opened \ {c} : \E h \in held[o] : Meets(h, m)}}
Clear(c, m) == ~Met(m, at[c]) /\ Holders(c, m) = {}

(* Registry::may_wait, wait-die. *)
MayWaitAnyone(c, h) == TRUE
MayWait(c, h) == held[c] = {} \/ id[c] < h

(* The statement fails.  The first one of a transaction gives its snapshot  *)
(* up and runs again while lock_timeout lasts, which is the transaction     *)
(* begun later; any other aborts a transaction that BEGIN opened, and undoes*)
(* one that was the statement's own.                                        *)
Fails(c) ==
    /\ plan' = [plan EXCEPT ![c] = NoWrite]
    /\ \/ /\ auto[c] \/ (Waits /\ did[c] = <<>>)
          /\ Undone(c)
       \/ /\ ~auto[c]
          /\ st' = [st EXCEPT ![c] = "aborted"] /\ Kept
    /\ holder' = [holder EXCEPT ![c] = 0]

(* The statement waits.  One that was its own transaction is undone first   *)
(* and waits with nothing open.                                             *)
Blocked(c, w, h) ==
    /\ holder' = [holder EXCEPT ![c] = h]
    /\ plan' = [plan EXCEPT ![c] = w]
    /\ \/ /\ auto[c]
          /\ End(c, {}) /\ st' = Woken(c, "waiting")
       \/ /\ ~auto[c]
          /\ st' = [st EXCEPT ![c] = "waiting"] /\ Kept

(* Nothing clashed, and the change is about to be made. *)
Passed(c, w) ==
    /\ st' = [st EXCEPT ![c] = "checked"]
    /\ plan' = [plan EXCEPT ![c] = w] /\ holder' = [holder EXCEPT ![c] = 0]
    /\ Kept

(* claim and clashed: the look for a clash, which may wait for the oldest   *)
(* holder.                                                                  *)
Claim(c, w) ==
    LET m == MarkOf(snap[c], w) IN
    \/ Clear(c, m) /\ Passed(c, w)
    \/ Met(m, at[c]) /\ Fails(c)
    \/ \E h \in Holders(c, m) :
          /\ ~Met(m, at[c])
          /\ \A g \in Holders(c, m) : h <= g
          /\ \/ Waits /\ MayWait(c, h) /\ Blocked(c, w, h)
             \/ ~(Waits /\ MayWait(c, h)) /\ Fails(c)

Statement(c, w) ==
    /\ st[c] = "open" /\ Len(did[c]) < (IF auto[c] THEN 1 ELSE MaxWrites)
    /\ w.row \in copy[c].live
    /\ auto[c] => ~w.op.point
    /\ \/ w.op.point /\ Clear(c, MarkOf(snap[c], w)) /\ Passed(c, w)
       \/ w.op.point /\ ~Clear(c, MarkOf(snap[c], w)) /\ Claim(c, Planned(w))
       \/ ~w.op.point /\ Claim(c, w)
    /\ UNCHANGED <<next, clock, table, auto, log, want>>

(* The change goes into the copy, and claimed marks the row. *)
Apply(c) ==
    /\ st[c] = "checked"
    /\ copy' = [copy EXCEPT ![c] = Applied(@, plan[c], Own(id[c]))]
    /\ held' = [held EXCEPT ![c] = @ \cup {MarkOf(snap[c], plan[c])}]
    /\ did' = [did EXCEPT ![c] = Append(@, plan[c])]
    /\ plan' = [plan EXCEPT ![c] = NoWrite]
    /\ st' = [st EXCEPT ![c] = "open"]
    /\ UNCHANGED <<next, done, clock, table, auto, id, at, holder, snap, log, want>>

-----------------------------------------------------------------------------
(* Board::wait_for: a look under the registry's lock, and the sleep; then   *)
(* the statement runs again, as a new transaction when it was its own.      *)

Sleep(c) ==
    /\ st[c] = "waiting" /\ \E o \in Opened : id[o] = holder[c]
    /\ st' = [st EXCEPT ![c] = "asleep"]
    /\ Kept /\ UNCHANGED <<next, clock, table, auto, holder, plan, log, want>>

Retry(c) ==
    /\ st[c] = "waiting" /\ \A o \in Opened : id[o] # holder[c]
    /\ \/ ~auto[c] /\ Claim(c, plan[c])
       \/ /\ auto[c]
          /\ st' = [st EXCEPT ![c] = "idle"] /\ plan' = [plan EXCEPT ![c] = NoWrite]
          /\ holder' = [holder EXCEPT ![c] = 0] /\ Kept
    /\ UNCHANGED <<next, clock, table, auto, log, want>>

(* lock_timeout passes. *)
Timeout(c) ==
    /\ st[c] \in {"waiting", "asleep"}
    /\ st' = [st EXCEPT ![c] = IF auto[c] THEN "idle" ELSE "aborted"]
    /\ plan' = [plan EXCEPT ![c] = NoWrite] /\ holder' = [holder EXCEPT ![c] = 0]
    /\ Kept /\ UNCHANGED <<next, clock, table, auto, log, want>>

-----------------------------------------------------------------------------
(* merge and rebase: a transaction's rows are put into the committed table. *)

Deleted(c) == {w.row : w \in {w \in ToSet(did[c]) : w.op.kind = "delete"}}
Updated(c) == {w.row : w \in ToSet(did[c])} \ Deleted(c)

(* Registry::blends. *)
BlendsNever(c) == FALSE
Blends(c) == \E d \in done : d.at > at[c] /\ \E m \in held[c] : Shares(m, d.mark)

(* blended: a cell of the snapshot, now committed and as the transaction    *)
(* has it, put together.                                                    *)
Blended(was, is, mine) == IF is = was THEN mine ELSE IF mine = was THEN is ELSE is + mine - was

(* Whether every cell that both changed can be added to. *)
Addition(c) ==
    \A r \in Updated(c), k \in Columns \ Addable :
        table.cell[r][k] = snap[c].cell[r][k] \/ copy[c].cell[r][k] = snap[c].cell[r][k]

SameFrame(c) == table.frame = snap[c].frame

(* found_again: by key, when the rows are as they were in the snapshot. *)
FoundAgain(c) ==
    /\ Keyed
    /\ \A r \in Updated(c) \cup Deleted(c) :
          r \in table.live /\ table.cell[r] = snap[c].cell[r]

(* Whether the commit fits. *)
Fits(c) ==
    \/ table.revision = snap[c].revision
    \/ SameFrame(c) /\ (Blends(c) => Addition(c))
    \/ ~SameFrame(c) /\ FoundAgain(c)

(* Where a row of the snapshot goes: by its number, or by its key. *)
Spot(c, r) ==
    IF SameFrame(c) THEN {q \in table.live : Number(table, q) = Number(snap[c], r)} ELSE {r}

(* The row r of the transaction, over the row q committed. *)
RowOf(c, r, q) ==
    IF SameFrame(c) /\ Blends(c)
    THEN [k \in Columns |-> Blended(snap[c].cell[r][k], table.cell[q][k], copy[c].cell[r][k])]
    ELSE copy[c].cell[r]

(* The table a commit leaves.  When nobody changed it since the snapshot    *)
(* the copy takes its place, which is the same table.                       *)
Merged(c) ==
    [live |-> table.live \ UNION {Spot(c, r) : r \in Deleted(c)},
     cell |-> [q \in Rows |->
         IF \E r \in Updated(c) : q \in Spot(c, r)
         THEN RowOf(c, CHOOSE r \in Updated(c) : q \in Spot(c, r), q) ELSE table.cell[q]],
     frame |-> IF Deleted(c) = {} THEN table.frame ELSE clock',
     revision |-> clock']

(* What the log of commits says of a write. *)
Logged(by, since, t, w) ==
    [by |-> by, since |-> since, at |-> clock', row |-> w.row, op |-> w.op, mark |-> MarkOf(t, w)]

(* COMMIT, and the end of a statement that was its own transaction.  The    *)
(* catalog is held from before the merge to after the end.                  *)
Commit(c) ==
    /\ st[c] = "open"
    /\ \/ /\ did[c] # <<>> /\ Fits(c)
          /\ clock' = clock + 1
          /\ table' = Merged(c)
          /\ log' = log \cup {Logged(id[c], at[c], snap[c], w) : w \in ToSet(did[c])}
          /\ want' = FoldLeft(LAMBDA t, w : Applied(t, w, Own(id[c])), want, did[c])
          /\ End(c, held[c])
       \/ /\ did[c] = <<>> \/ ~Fits(c)
          /\ UNCHANGED <<clock, table, log, want>>
          /\ End(c, {})
    /\ st' = Woken(c, "idle")
    /\ UNCHANGED <<next, auto, holder, plan>>

(* ROLLBACK, COMMIT of an aborted transaction, and a connection dropped. *)
Rollback(c) ==
    /\ st[c] \in {"open", "aborted"} /\ ~auto[c]
    /\ Undone(c)
    /\ UNCHANGED <<next, clock, table, auto, holder, plan, log, want>>

(* Registry::committed. *)
CommittedUnnoted(m) == done' = done
Committed(m) == done' = IF Opened = {} THEN done ELSE done \cup {[at |-> clock', mark |-> m]}

(* write_point and delete_point outside a transaction: the row is written   *)
(* in the committed table, holding the catalog, unless somebody holds it.   *)
PointWrite(c, w) ==
    /\ st[c] = "idle" /\ clock < MaxClock
    /\ w.op.point /\ w.row \in table.live
    /\ Holders(c, MarkOf(table, w)) = {}
    /\ clock' = clock + 1
    /\ table' = [Applied(table, w, Own(MaxIds + clock')) EXCEPT
                   !.revision = clock', !.frame = IF w.op.kind = "delete" THEN clock' ELSE @]
    /\ Committed(MarkOf(table, w))
    /\ log' = log \cup {Logged(0, clock, table, w)}
    /\ want' = Applied(want, w, Own(MaxIds + clock'))
    /\ UNCHANGED <<next, txns>>

-----------------------------------------------------------------------------
RegistryNext ==
    \E c \in Conns :
        \/ \E own \in BOOLEAN : Start(c, own)
        \/ \E w \in Writes : Statement(c, w)
        \/ Apply(c) \/ Sleep(c) \/ Retry(c) \/ Timeout(c) \/ Commit(c) \/ Rollback(c)
        \/ \E w \in Writes : PointWrite(c, w)

RegistrySpec == RegistryInit /\ [][RegistryNext]_registryVars

-----------------------------------------------------------------------------
(* Types. *)
Places == {"idle", "open", "checked", "waiting", "asleep", "aborted"}
Marks == [frame : Nat, row : Nat, claims : SUBSET Columns, delta : BOOLEAN]

RegistryTypeOK ==
    /\ next \in 0..MaxIds /\ clock \in 0..(MaxClock + MaxIds)
    /\ done \subseteq [at : 0..clock, mark : Marks]
    /\ table.live \subseteq Rows /\ table.frame \in 0..clock /\ table.revision \in 0..clock
    /\ st \in [Conns -> Places] /\ auto \in [Conns -> BOOLEAN]
    /\ id \in [Conns -> 0..MaxIds] /\ at \in [Conns -> 0..clock]
    /\ held \in [Conns -> SUBSET Marks] /\ holder \in [Conns -> 0..MaxIds]
    /\ \A c \in Conns : plan[c] \in Writes \cup {Planned(w) : w \in Writes} \cup {NoWrite}

(* Wait-die leaves no deadlock: no set of transactions each wait for one of *)
(* the set (the doc of txn.rs on waiting, and Registry::may_wait).          *)
NoCycle ==
    \A S \in (SUBSET Opened) \ {{}} :
        \E c \in S : st[c] \notin {"waiting", "asleep"} \/ \A d \in S : id[d] # holder[c]

(* Registry::end and Registry::committed forget no commit that an open      *)
(* transaction's writes still have to be compared with.                     *)
DoneKept ==
    \A c \in Opened, e \in log :
        e.at > at[c] => [at |-> e.at, mark |-> e.mark] \in done

(* The first to update a row wins: of two transactions that ran at once, no *)
(* two committed a write of one cell, unless both only added to it          *)
(* (Registry::clashes and Marks::meets, and the commit that blends).        *)
NoLostUpdate ==
    \A e, f \in log :
        /\ e.row = f.row /\ e.by # f.by /\ f.since < e.at /\ e.at < f.at
        /\ e.op.kind # "delete" /\ f.op.kind # "delete" /\ e.op.column = f.op.column
        => e.op.kind = "add" /\ f.op.kind = "add"

(* An update is not lost to a delete of its row that ran at the same time   *)
(* and commits after it (the doc of Registry::clashes).                     *)
NoLostToDelete ==
    \A e, f \in log :
        /\ e.row = f.row /\ e.by # f.by /\ f.since < e.at /\ e.at < f.at
        => e.op.kind = "delete" \/ f.op.kind # "delete"

(* What is committed is what the committed writes make, one transaction     *)
(* after the other: merge puts a transaction's rows among the ones committed*)
(* since and loses neither side's (Registry::blends, rebase, found_again).  *)
Reflected ==
    /\ table.live = want.live
    /\ \A r \in table.live : table.cell[r] = want.cell[r]

(* A connection that can go on does, and a client ends its transactions.    *)
ConnStep(c) == Commit(c) \/ Rollback(c) \/ Apply(c) \/ Sleep(c) \/ Retry(c)
RegistryFair == \A c \in Conns : WF_registryVars(ConnStep(c))
RegistryLive == RegistrySpec /\ RegistryFair

(* Waiting ends without lock_timeout, when every client ends its            *)
(* transactions: whoever ends one wakes the sleepers (Board::end).          *)
WaitEnds ==
    \A c \in Conns, h \in 1..MaxIds :
        LET WaitsFor == st[c] \in {"waiting", "asleep"} /\ holder[c] = h IN WaitsFor ~> ~WaitsFor
=============================================================================
