-------------------------------- MODULE Undo --------------------------------
(***************************************************************************)
(* The undo chain of one row of a hot stripe (rudb-storage, hot.rs) and    *)
(* the collector that takes its records back (undo.rs).                    *)
(*                                                                         *)
(* An update writes in place: it publishes a record of the values it is    *)
(* about to overwrite at the head of the chain and then overwrites them. A *)
(* reader copies the values in place and then walks the chain, putting     *)
(* back every value its snapshot does not see yet. The collector takes     *)
(* records nobody needs out of the chain while both go on, and makes them  *)
(* again for later updates.                                                *)
(*                                                                         *)
(* Left out of the model: a row's lock word and queue (RowLock), the slots *)
(* of the running statements (Horizons, whose answers are taken in one     *)
(* step here), deletes, several updates of one row in one transaction, and *)
(* the spill file. A chunk holds one record and is sealed when written.    *)
(***************************************************************************)
EXTENDS Integers, SequencesExt

CONSTANTS
    Readers,      \* the workers whose statements read the row
    Writers,      \* the workers whose statements update it
    Columns,      \* the columns of the row
    Updates,      \* the sets of columns an update may change
    MaxRecord,    \* records that exist at once: the bound of the undo space
    MaxUpdates,   \* how many updates are made in all
    MaxReads      \* how many statements read the row

ASSUME UndoAssumption ==
    /\ MaxRecord \in Nat \ {0} /\ MaxUpdates \in Nat /\ MaxReads \in Nat
    /\ Updates \subseteq SUBSET Columns \ {{}}

VARIABLES
    cell,     \* the values in place
    head,     \* the row's newest record, 0 for none
    rec,      \* the records: ts, the images, prev
    place,    \* where the collector has each record
    owes,     \* the statements each found or cut record still waits for
    pruned,   \* the records taken out of the chain on their own
    row,      \* the worker holding the row, or Nobody
    now,      \* the commit clock
    hist,     \* the row after each commit: hist[ts + 1]
    made,     \* updates begun so far, each writing a value of its own
    readCount,  \* statements that read so far
    pc,       \* what each worker is doing
    snapAt,   \* its statement's snapshot
    out,      \* the values a reader has copied
    left,     \* the columns a worker has still to copy or write
    next,     \* the record a worker looks at next
    base,     \* the head a writer found before it wrote its record
    cpc,      \* what the collector is doing
    upto,     \* the clock when its round began
    held,     \* the snapshots it read
    chain     \* the records it has still to judge, newest first

Workers == Readers \cup Writers

rowVars == <<cell, head, rec, row>>
clockVars == <<now, hist, made, readCount>>
workVars == <<pc, snapAt, out, left, next, base>>
roundVars == <<cpc, upto, held, chain>>
spaceVars == <<place, owes, pruned>>
undoVars == <<rowVars, clockVars, workVars, roundVars, spaceVars>>

Nobody == 0
\* The collector's round that is still going on, in `owes`.
Round == 0
Aborted == -1
Uncommitted == -2
Records == 1..MaxRecord
NoRecord == [ts |-> Uncommitted, images |-> <<>>, prev |-> 0]

Committed(ts) == ts >= 0
Running == {w \in Workers : pc[w] # "away"}

\* `Horizons::oldest` and `Horizons::snapshots`, each answered in one step.
OldestSnapshot == Min({now} \cup {snapAt[w] : w \in Running})
Snapshots == {snapAt[w] : w \in Running}

\* Records are interchangeable: `make` gives the first that is free.
Free == {r \in Records : place[r] = "free"}
Fresh == Min(Free)

\* The records from `r` down, newest first.
Chain(r) ==
    LET down[at \in Records \cup {0}] ==
            IF at = 0 THEN <<>> ELSE <<at>> \o down[rec[at].prev]
    IN  down[r]

-----------------------------------------------------------------------------
UndoInit ==
    /\ cell = [c \in Columns |-> 0] /\ head = 0
    /\ rec = [r \in Records |-> NoRecord]
    /\ place = [r \in Records |-> "free"]
    /\ owes = [r \in Records |-> {}] /\ pruned = {}
    /\ row = Nobody
    /\ now = 0 /\ hist = <<cell>> /\ made = 0 /\ readCount = 0
    /\ pc = [w \in Workers |-> "away"] /\ snapAt = [w \in Workers |-> 0]
    /\ out = [w \in Workers |-> cell] /\ left = [w \in Workers |-> {}]
    /\ next = [w \in Workers |-> 0] /\ base = [w \in Workers |-> 0]
    /\ cpc = "rest" /\ upto = 0 /\ held = {} /\ chain = <<>>

Goes(w, step) == pc' = [pc EXCEPT ![w] = step]

-----------------------------------------------------------------------------
(* Statements: begin and end.                                              *)

BeginRead(w) ==
    /\ w \in Readers /\ pc[w] = "away" /\ Goes(w, "copy")
    /\ readCount < MaxReads /\ readCount' = readCount + 1
    /\ snapAt' = [snapAt EXCEPT ![w] = now]
    /\ left' = [left EXCEPT ![w] = Columns]
    /\ UNCHANGED <<rowVars, now, hist, made, roundVars, spaceVars, out, next, base>>

BeginUpdate(w) ==
    /\ w \in Writers /\ pc[w] = "away" /\ made < MaxUpdates /\ Goes(w, "claim")
    /\ snapAt' = [snapAt EXCEPT ![w] = now]
    /\ UNCHANGED <<rowVars, clockVars, roundVars, spaceVars, out, left, next, base>>

\* A statement that ended is waited for no longer.
EndStatement(w) ==
    /\ pc[w] \in {"read", "over"} /\ Goes(w, "away")
    /\ snapAt' = [snapAt EXCEPT ![w] = 0]
    /\ out' = [out EXCEPT ![w] = [c \in Columns |-> 0]]
    /\ owes' = [r \in Records |-> owes[r] \ {w}]
    /\ UNCHANGED <<rowVars, clockVars, roundVars, place, pruned, left, next, base>>

-----------------------------------------------------------------------------
(* A read: the values in place, and then what the chain says instead.      *)

CopyCell(w) ==
    /\ pc[w] = "copy" /\ left[w] # {}
    /\ out' = [out EXCEPT ![w][Min(left[w])] = cell[Min(left[w])]]
    /\ left' = [left EXCEPT ![w] = @ \ {Min(@)}]
    /\ UNCHANGED <<rowVars, clockVars, roundVars, spaceVars, pc, snapAt, next, base>>

LoadHead(w) ==
    /\ pc[w] = "copy" /\ left[w] = {} /\ Goes(w, "walk")
    /\ next' = [next EXCEPT ![w] = head]
    /\ UNCHANGED <<rowVars, clockVars, roundVars, spaceVars, snapAt, out, left, base>>

\* The end of the chain, or a record the reader sees.
Stops(w) == next[w] # 0 => rec[next[w]].ts \in 0..snapAt[w]

StopWalk(w) ==
    /\ pc[w] = "walk" /\ Stops(w) /\ Goes(w, "read")
    /\ next' = [next EXCEPT ![w] = 0]
    /\ UNCHANGED <<rowVars, clockVars, roundVars, spaceVars, snapAt, out, left, base>>

\* A record the reader does not see stays one it does not see, and its images
\* do not change, so they are read in the step that reads where it points.
Apply(w) ==
    /\ pc[w] = "walk" /\ ~Stops(w)
    /\ LET images == rec[next[w]].images
       IN  out' = [out EXCEPT ![w] =
               [c \in Columns |-> IF c \in DOMAIN images THEN images[c] ELSE @[c]]]
    /\ next' = [next EXCEPT ![w] = rec[@].prev]
    /\ UNCHANGED <<rowVars, clockVars, roundVars, spaceVars, pc, snapAt, left, base>>

-----------------------------------------------------------------------------
(* An update: the row, the newest change, the record, the values.          *)

Claim(w) ==
    /\ pc[w] = "claim" /\ row = Nobody /\ row' = w
    /\ Goes(w, "check")
    /\ next' = [next EXCEPT ![w] = head]
    /\ UNCHANGED <<cell, head, rec, clockVars, roundVars, spaceVars, snapAt, out, left, base>>

\* Somebody else holds it and the statement does not wait.
ClaimRefused(w) ==
    /\ pc[w] = "claim" /\ row # Nobody
    /\ Goes(w, "over")
    /\ UNCHANGED <<rowVars, clockVars, roundVars, spaceVars, snapAt, out, left, next, base>>

SkipAborted(w) ==
    /\ pc[w] = "check" /\ next[w] # 0 /\ rec[next[w]].ts = Aborted
    /\ next' = [next EXCEPT ![w] = rec[@].prev]
    /\ UNCHANGED <<rowVars, clockVars, roundVars, spaceVars, pc, snapAt, out, left, base>>

\* Mutant: a commit the clock has not taken yet is not looked at.
NewestPublished(w) ==
    IF next[w] = 0 \/ rec[next[w]].ts > now THEN 0 ELSE rec[next[w]].ts

NewestChange(w) == IF next[w] = 0 THEN 0 ELSE rec[next[w]].ts

Conflict(w) ==
    /\ pc[w] = "check" /\ NewestChange(w) # Aborted
    /\ NewestChange(w) > snapAt[w]
    /\ row' = Nobody /\ Goes(w, "over")
    /\ next' = [next EXCEPT ![w] = 0]
    /\ UNCHANGED <<cell, head, rec, clockVars, roundVars, spaceVars, snapAt, out, left, base>>

\* The images are the values in place, and the record is written before it is
\* published. Its chunk is one the collector freed, or one never used.
WriteRecord(w, C) ==
    LET r == Fresh IN
    /\ pc[w] = "check" /\ NewestChange(w) # Aborted /\ NewestChange(w) <= snapAt[w]
    /\ made < MaxUpdates /\ made' = made + 1
    /\ Free # {} /\ place' = [place EXCEPT ![r] = "waiting"]
    /\ rec' = [rec EXCEPT ![r] =
           [ts |-> Uncommitted, images |-> [c \in C |-> cell[c]], prev |-> head]]
    /\ base' = [base EXCEPT ![w] = head]
    /\ next' = [next EXCEPT ![w] = r]
    /\ left' = [left EXCEPT ![w] = C] /\ Goes(w, "publish")
    /\ UNCHANGED <<cell, head, row, now, hist, readCount, roundVars, owes, pruned, snapAt, out>>

Publish(w) ==
    /\ pc[w] = "publish" /\ head = base[w]
    /\ head' = next[w] /\ Goes(w, "write")
    /\ base' = [base EXCEPT ![w] = 0]
    /\ UNCHANGED <<cell, rec, row, clockVars, roundVars, spaceVars, snapAt, out, left, next>>

\* The collector moved the head since: the record is pointed at the new one.
Repoint(w) ==
    /\ pc[w] = "publish" /\ head # base[w]
    /\ rec' = [rec EXCEPT ![next[w]].prev = head]
    /\ base' = [base EXCEPT ![w] = head]
    /\ UNCHANGED <<cell, head, row, clockVars, roundVars, spaceVars, pc, snapAt, out, left, next>>

WriteCell(w) ==
    LET c == Min(left[w]) IN
    /\ pc[w] = "write" /\ left[w] # {}
    /\ cell' = [cell EXCEPT ![c] = made]
    /\ left' = [left EXCEPT ![w] = @ \ {c}]
    /\ UNCHANGED <<head, rec, row, clockVars, roundVars, spaceVars, pc, snapAt, out, next, base>>

-----------------------------------------------------------------------------
(* Its end: a commit stamps the record and lets the row go, and then the   *)
(* clock takes the timestamp. An abort puts the values back first.         *)

StampCommit(w) ==
    /\ pc[w] = "write" /\ left[w] = {} /\ Goes(w, "tick")
    /\ rec' = [rec EXCEPT ![next[w]].ts = now + 1]
    /\ next' = [next EXCEPT ![w] = 0]
    /\ row' = Nobody /\ hist' = Append(hist, cell)
    /\ UNCHANGED <<cell, head, now, made, readCount, roundVars, spaceVars, snapAt, out, left, base>>

\* The caller publishes the timestamp.
Ticks(w) ==
    /\ pc[w] = "tick" /\ Goes(w, "over")
    /\ now' = now + 1
    /\ UNCHANGED <<rowVars, hist, made, readCount, roundVars, spaceVars, snapAt, out, left, next, base>>

BeginAbort(w) ==
    /\ pc[w] = "write" /\ left[w] = {} /\ Goes(w, "abort")
    /\ left' = [left EXCEPT ![w] = DOMAIN rec[next[w]].images]
    /\ UNCHANGED <<rowVars, clockVars, roundVars, spaceVars, snapAt, out, next, base>>

UnwriteCell(w) ==
    LET c == Min(left[w]) IN
    /\ pc[w] = "abort" /\ left[w] # {}
    /\ cell' = [cell EXCEPT ![c] = rec[next[w]].images[c]]
    /\ left' = [left EXCEPT ![w] = @ \ {c}]
    /\ UNCHANGED <<head, rec, row, clockVars, roundVars, spaceVars, pc, snapAt, out, next, base>>

StampAborted(w) ==
    /\ pc[w] = "abort" /\ left[w] = {} /\ Goes(w, "over")
    /\ rec' = [rec EXCEPT ![next[w]].ts = Aborted]
    /\ next' = [next EXCEPT ![w] = 0] /\ row' = Nobody
    /\ UNCHANGED <<cell, head, clockVars, roundVars, spaceVars, snapAt, out, left, base>>

-----------------------------------------------------------------------------
(* The collector's round.                                                  *)

InChain == Range(Chain(head))

\* The head, and the records as `recs` has them, once the record before `r` in
\* the chain, or the head, points at `to`.
HeadPast(r, to) == IF head = r THEN to ELSE head
Past(recs, r, to) == [n \in Records |->
    IF n \in InChain /\ rec[n].prev = r THEN [recs[n] EXCEPT !.prev = to] ELSE recs[n]]
Relink(r, to) == head' = HeadPast(r, to) /\ rec' = Past(rec, r, to)

CollectIdle == UNCHANGED <<cell, row, clockVars, workVars>>

\* Mutant: what was cut is free at the next round, whoever still reads it.
StartRoundHasty ==
    /\ cpc = "rest" /\ cpc' = "cut"
    /\ upto' = now
    /\ place' = [r \in Records |->
           CASE place[r] = "cut" -> "free"
             [] place[r] = "found" /\ owes[r] = {} -> "cutting"
             [] OTHER -> place[r]]
    /\ rec' = [r \in Records |-> IF place[r] = "cut" THEN NoRecord ELSE rec[r]]
    /\ UNCHANGED <<head, owes, pruned, held, chain>> /\ CollectIdle

\* The clock is read before any slot. What was cut and is waited for by nobody
\* is free again, and what was found and is waited for by nobody is to be cut.
StartRound ==
    /\ cpc = "rest" /\ cpc' = "cut"
    /\ upto' = now
    /\ place' = [r \in Records |->
           IF owes[r] # {} THEN place[r]
           ELSE CASE place[r] = "cut" -> "free"
                  [] place[r] = "found" -> "cutting"
                  [] OTHER -> place[r]]
    /\ rec' = [r \in Records |->
           IF place[r] = "cut" /\ owes[r] = {} THEN NoRecord ELSE rec[r]]
    /\ UNCHANGED <<head, owes, pruned, held, chain>> /\ CollectIdle

Cutting == {r \in Records : place[r] = "cutting"}
CutCommitted == {r \in Cutting \ pruned : rec[r].ts # Aborted}
CutAborted == {r \in Cutting \ pruned : rec[r].ts = Aborted}

Cuts(S) ==
    /\ place' = [r \in Records |-> IF r \in S THEN "cut" ELSE place[r]]
    /\ owes' = [r \in Records |-> IF r \in S THEN {Round} ELSE owes[r]]

\* The newest committed one goes with everything older than it.
CutNewest ==
    /\ cpc = "cut" /\ CutCommitted # {}
    /\ \E r \in CutCommitted :
           /\ \A n \in CutCommitted : rec[n].ts <= rec[r].ts
           /\ Relink(r, 0)
    /\ Cuts(CutCommitted)
    /\ UNCHANGED <<pruned, cpc, upto, held, chain>> /\ CollectIdle

\* An aborted one goes alone.
CutOne(r) ==
    /\ cpc = "cut" /\ CutCommitted = {} /\ r \in CutAborted
    /\ Relink(r, rec[r].prev)
    /\ Cuts({r})
    /\ UNCHANGED <<pruned, cpc, upto, held, chain>> /\ CollectIdle

Below(r) ==
    \/ rec[r].ts = Aborted
    \/ r \in pruned
    \/ Committed(rec[r].ts) /\ rec[r].ts <= OldestSnapshot

\* One that is out of the chain already is cut without a walk. Then the sealed
\* chunks are judged, and for those that stay the snapshots and the chain are
\* read.
Find ==
    /\ cpc = "cut" /\ CutCommitted = {} /\ CutAborted = {} /\ cpc' = "prune"
    /\ LET found == {r \in Records : place[r] = "waiting" /\ Below(r)}
       IN  /\ place' = [r \in Records |->
                  IF r \in found THEN "found"
                  ELSE IF r \in Cutting THEN "cut" ELSE place[r]]
           /\ owes' = [r \in Records |->
                  IF r \in found \cup Cutting THEN {Round} ELSE owes[r]]
    /\ pruned' = pruned \ Cutting
    /\ held' = Snapshots /\ chain' = Chain(head)
    /\ UNCHANGED <<head, rec, upto>> /\ CollectIdle

\* Mutant: the columns of the older record are not compared.
SpareAnyColumns(r) ==
    /\ Committed(rec[r].ts) /\ rec[r].ts <= upto
    /\ rec[r].prev # 0
    /\ LET older == rec[rec[r].prev]
       IN  /\ Committed(older.ts) /\ older.ts < rec[r].ts
           /\ \A s \in held : s \notin older.ts .. (rec[r].ts - 1)

\* A committed update above a committed update of all its columns, with no
\* snapshot from the one's timestamp up to the other's.
Spare(r) ==
    /\ Committed(rec[r].ts) /\ rec[r].ts <= upto
    /\ rec[r].prev # 0
    /\ LET older == rec[rec[r].prev]
       IN  /\ Committed(older.ts) /\ older.ts < rec[r].ts
           /\ \A s \in held : s \notin older.ts .. (rec[r].ts - 1)
           /\ DOMAIN rec[r].images \subseteq DOMAIN older.images

\* The places in the chain of the records to take out, the head's never one.
\* The answer for a record stays the same until it is the oldest one left.
Spares == {i \in 2..Len(chain) :
    place[chain[i]] = "waiting" /\ chain[i] \notin pruned /\ Spare(chain[i])}

\* The oldest one goes, and the others are judged against what is left.
PruneOne ==
    /\ cpc = "prune" /\ Spares # {}
    /\ LET i == Max(Spares)
       IN  /\ rec' = [rec EXCEPT ![chain[i - 1]].prev = rec[chain[i]].prev]
           /\ pruned' = pruned \cup {chain[i]}
           /\ chain' = SubSeq(chain, 1, i - 1)
    /\ UNCHANGED <<head, place, owes, cpc, upto, held>> /\ CollectIdle

\* A record left almost alone in its chunk is copied into the collector's own
\* and the copy is put in the chain where the record is, if it is in the chain.
Pruned == cpc = "prune" /\ Spares = {}

Move(r) ==
    /\ Pruned \/ cpc = "moved"
    /\ place[r] = "waiting" /\ Committed(rec[r].ts) /\ ~Below(r)
    /\ Free # {} /\ place' = [place EXCEPT ![Fresh] = "waiting"]
    /\ head' = HeadPast(r, Fresh)
    /\ rec' = Past([rec EXCEPT ![Fresh] = rec[r]], r, Fresh)
    /\ pruned' = IF r \in InChain THEN pruned \cup {r} ELSE pruned
    /\ cpc' = "moved" /\ held' = {} /\ chain' = <<>>
    /\ UNCHANGED <<owes, upto>> /\ CollectIdle

\* The epoch moves on: what this round found or cut waits for the statements
\* that are running now.
EndRound ==
    /\ Pruned \/ cpc = "moved"
    /\ cpc' = "rest" /\ upto' = 0 /\ held' = {} /\ chain' = <<>>
    /\ owes' = [r \in Records |-> IF Round \in owes[r] THEN Running ELSE owes[r]]
    /\ UNCHANGED <<head, rec, place, pruned>> /\ CollectIdle

-----------------------------------------------------------------------------
Work(w) ==
    \/ BeginRead(w) \/ BeginUpdate(w) \/ EndStatement(w)
    \/ CopyCell(w) \/ LoadHead(w) \/ StopWalk(w) \/ Apply(w)
    \/ Claim(w) \/ ClaimRefused(w) \/ SkipAborted(w) \/ Conflict(w)
    \/ \E C \in Updates : WriteRecord(w, C)
    \/ Publish(w) \/ Repoint(w) \/ WriteCell(w)
    \/ StampCommit(w) \/ Ticks(w)
    \/ BeginAbort(w) \/ UnwriteCell(w) \/ StampAborted(w)

Collect ==
    \/ StartRound \/ CutNewest \/ Find
    \/ \E r \in Records : CutOne(r) \/ Move(r)
    \/ PruneOne \/ EndRound

UndoNext == Collect \/ \E w \in Workers : Work(w)

UndoSpec == UndoInit /\ [][UndoNext]_undoVars

-----------------------------------------------------------------------------
\* A read returns the row as the last commit at or below its snapshot left it,
\* whatever was updated, aborted, cut, pruned, moved or made again meanwhile
\* (`HotStripe::read_as_of`).
ReadsSnapshot == \A w \in Workers : pc[w] = "read" => out[w] = hist[snapAt[w] + 1]

\* No worker looks at a record of a chunk that is on the free list, the wait of
\* the collector's third round (`UndoSpace::collect`).
NoneFreedUnder ==
    \A w \in Workers : next[w] # 0 => place[next[w]] # "free"

\* First updater wins: an update that has written in place has seen every commit
\* of the row, so the chain still shows `newest_change` whatever was taken out.
NoLostChange ==
    \A w \in Workers : pc[w] \in {"publish", "write"} => snapAt[w] + 1 = Len(hist)
=============================================================================
