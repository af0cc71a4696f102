--------------------------- MODULE RegistryProofs ---------------------------
(***************************************************************************)
(* Two facts about the registry, for any number of connections, rows and    *)
(* transactions: wait-die leaves no cycle of waits, and no commit that an   *)
(* open transaction has to be compared with is forgotten.                   *)
(*                                                                          *)
(* WaitInv: a transaction that waits and holds rows is older than the one   *)
(* it waits for, and the one that is waited for holds rows, so among the    *)
(* transactions of a cycle every one would be older than the next.          *)
(*                                                                          *)
(* DoneInv: every commit is at most the clock, and a transaction has marked *)
(* every row it wrote, so what its commit logs it leaves in done.           *)
(***************************************************************************)
EXTENDS Registry, TLAPS, WellFoundedInduction

Waiting(c) == st[c] \in {"waiting", "asleep"}

WaitType ==
    /\ next \in Nat /\ st \in [Conns -> Places]
    /\ id \in [Conns -> Nat] /\ holder \in [Conns -> Nat]
    /\ held = [c \in Conns |-> held[c]]

Numbered ==
    /\ \A c \in Conns : id[c] <= next /\ holder[c] <= next
    /\ \A c, o \in Conns : id[c] # 0 /\ id[c] = id[o] => c = o

(* Wait-die, kept while the wait lasts. *)
OlderWaits == \A c \in Conns : Waiting(c) /\ id[c] # 0 => held[c] = {} \/ id[c] < holder[c]
HolderHolds ==
    \A c, o \in Conns : Waiting(c) /\ id[o] # 0 /\ id[o] = holder[c] => held[o] # {}

WaitInv == WaitType /\ Numbered /\ OlderWaits /\ HolderHolds

-----------------------------------------------------------------------------
(* A set of numbers below a bound has a greatest one. *)
LEMMA Greatest ==
  ASSUME NEW S \in SUBSET Nat, NEW n \in Nat, S # {}, \A i \in S : i <= n
  PROVE  \E i \in S : \A j \in S : j <= i
<1> DEFINE T == {n - i : i \in S}
<1>1. T \subseteq Nat /\ T # {}
  <2>1. \A i \in S : n - i \in Nat
    OBVIOUS
  <2>2. PICK i \in S : TRUE
    BY Zenon
  <2>3. n - i \in T
    BY <2>2
  <2> QED BY <2>1, <2>3
<1>2. PICK t \in T : \A u \in T : ~(u < t)
  <2>1. IsWellFoundedOn(OpToRel(<, Nat), Nat)
    BY Zenon, NatLessThanWellFounded
  <2>2. \E t \in T : \A u \in T : ~(<<u, t>> \in OpToRel(<, Nat))
    BY Zenon, <1>1, <2>1, WFMin
  <2> QED BY Zenon, <1>1, <2>2 DEF OpToRel
<1>3. PICK i \in S : t = n - i
  BY <1>2
<1>4. ASSUME NEW j \in S PROVE j <= i
  <2>1. n - j \in T
    BY Zenon, <1>4
  <2>2. ~(n - j < n - i)
    BY SMTT(40), <1>2, <1>3, <2>1
  <2>3. i \in Nat /\ j \in Nat
    BY <1>3, <1>4
  <2> HIDE DEF T
  <2> QED BY <2>2, <2>3
<1> QED BY <1>4

(* The invariant leaves no cycle.  The members that some member waits for   *)
(* hold rows, so each of them is older than the one it waits for, which is  *)
(* another such member: the youngest has none to wait for.                  *)
LEMMA InvNoCycle == WaitInv => NoCycle
<1> SUFFICES ASSUME WaitInv,
                    NEW S \in (SUBSET Opened) \ {{}},
                    \A c \in S : Waiting(c) /\ \E d \in S : id[d] = holder[c]
             PROVE  FALSE
  BY DEF NoCycle, Waiting
<1> DEFINE H == {d \in S : \E c \in S : id[d] = holder[c]}
<1>1. S \subseteq Conns /\ (\A c \in S : id[c] # 0) /\ S # {} /\ id \in [Conns -> Nat] /\ next \in Nat
      /\ holder \in [Conns -> Nat]
  BY DEF Opened, WaitInv, WaitType
<1>2. H # {} /\ H \subseteq S
  BY <1>1
<1>3. ASSUME NEW d \in H PROVE held[d] # {}
  BY <1>1, <1>3 DEF WaitInv, HolderHolds
<1>4. ASSUME NEW d \in H PROVE id[d] < holder[d]
  BY <1>1, <1>2, <1>3, <1>4 DEF WaitInv, OlderWaits
<1>5. ASSUME NEW d \in H PROVE \E e \in H : id[d] < id[e]
  BY <1>2, <1>4, <1>5
<1> DEFINE Ids == {id[d] : d \in H}
<1>6. Ids \subseteq Nat /\ Ids # {} /\ \A i \in Ids : i <= next
  BY <1>1, <1>2 DEF WaitInv, Numbered
<1>7. PICK i \in Ids : \A j \in Ids : j <= i
  <2> HIDE DEF Ids
  <2> QED BY Zenon, <1>1, <1>6, Greatest
<1>8. PICK d \in H : id[d] = i
  BY <1>7
<1>9. PICK e \in H : id[d] < id[e]
  BY <1>5, <1>8
<1>10. id[e] <= id[d] /\ id[d] \in Nat /\ id[e] \in Nat
  BY <1>1, <1>2, <1>7, <1>8, <1>9
<1> HIDE DEF H, Ids
<1> QED BY <1>9, <1>10

-----------------------------------------------------------------------------
(* A transaction that leaves the registry, and perhaps waits outside it. *)
LEMMA LeaveKeeps ==
  ASSUME WaitInv, NEW c \in Conns, NEW h \in Nat, NEW to \in Places, h <= next,
         next' = next, id' = [id EXCEPT ![c] = 0], held' = [held EXCEPT ![c] = {}],
         holder' = [holder EXCEPT ![c] = h], st' = Woken(c, to),
         to \in {"waiting", "asleep"} =>
            \E p \in Conns : p # c /\ id[p] # 0 /\ id[p] = h /\ held[p] # {}
  PROVE  WaitInv'
<1>1. WaitType'
  BY Zenon DEF WaitInv, WaitType, Woken, Places
<1>2. Numbered'
  BY DEF WaitInv, WaitType, Numbered
<1>3. \A x \in Conns : x # c => (Waiting(x)' <=> Waiting(x))
  BY DEF Waiting, Woken, WaitInv, WaitType, Places
<1>4. OlderWaits'
  BY <1>3 DEF WaitInv, WaitType, OlderWaits
<1>5. HolderHolds'
  <2> SUFFICES ASSUME NEW x \in Conns, NEW o \in Conns, Waiting(x)', id'[o] # 0, id'[o] = holder'[x]
               PROVE  held'[o] # {}
    BY DEF HolderHolds
  <2>1. o # c /\ id'[o] = id[o] /\ held'[o] = held[o]
    BY DEF WaitInv, WaitType
  <2>2. CASE x # c
    BY <1>3, <2>1, <2>2 DEF WaitInv, WaitType, HolderHolds
  <2>3. CASE x = c
    <3>1. to \in {"waiting", "asleep"} /\ holder'[x] = h
      BY <2>3 DEF Waiting, Woken, WaitInv, WaitType
    <3> QED BY <2>1, <3>1 DEF WaitInv, Numbered
  <2> QED BY <2>2, <2>3
<1> QED BY <1>1, <1>2, <1>4, <1>5 DEF WaitInv

(* A transaction that stays, and waits only when wait-die lets it. *)
LEMMA StayKeeps ==
  ASSUME WaitInv, NEW c \in Conns, NEW h \in Nat, NEW to \in Places, h <= next,
         next' = next, id' = id, held' = held,
         holder' = [holder EXCEPT ![c] = h], st' = [st EXCEPT ![c] = to],
         to \in {"waiting", "asleep"} =>
            /\ id[c] # 0 => held[c] = {} \/ id[c] < h
            /\ \A o \in Conns : id[o] # 0 /\ id[o] = h => held[o] # {}
  PROVE  WaitInv'
<1>1. WaitType'
  BY DEF WaitInv, WaitType
<1>2. Numbered'
  BY DEF WaitInv, WaitType, Numbered
<1>3. \A x \in Conns : x # c => (Waiting(x)' <=> Waiting(x))
  BY DEF Waiting, WaitInv, WaitType
<1>4. Waiting(c)' <=> to \in {"waiting", "asleep"}
  BY DEF Waiting, WaitInv, WaitType
<1>5. OlderWaits'
  BY <1>3, <1>4 DEF WaitInv, WaitType, OlderWaits
<1>6. HolderHolds'
  BY <1>3, <1>4 DEF WaitInv, WaitType, HolderHolds
<1> QED BY <1>1, <1>2, <1>5, <1>6 DEF WaitInv

(* What a clash gives: somebody else, open, with rows. *)
LEMMA HoldersHold ==
  ASSUME WaitInv, NEW c \in Conns, NEW m, NEW h \in Holders(c, m)
  PROVE  /\ h \in Nat /\ h <= next
         /\ \E p \in Conns : p # c /\ id[p] # 0 /\ id[p] = h /\ held[p] # {}
         /\ \A o \in Conns : id[o] # 0 /\ id[o] = h => held[o] # {}
<1>1. PICK p \in Opened \ {c} : h = id[p] /\ \E k \in held[p] : Meets(k, m)
  BY DEF Holders
<1> QED BY <1>1 DEF Opened, WaitInv, WaitType, Numbered

(* The places a connection goes to without waiting. *)
LEMMA Awake ==
  ASSUME WaitInv
  PROVE  /\ 0 \in Nat /\ 0 <= next
         /\ \A to \in {"idle", "open", "checked", "aborted"} :
               to \in Places /\ to \notin {"waiting", "asleep"}
  BY DEF WaitInv, WaitType, Places

(* A statement that fails, and one that waits. *)
LEMMA FailsKeeps ==
  ASSUME WaitInv, NEW c \in Conns, Fails(c), next' = next
  PROVE  WaitInv'
<1>1. CASE Undone(c)
  BY Zenon, <1>1, LeaveKeeps, Awake DEF Fails, Undone, End, Dropped
<1>2. CASE st' = [st EXCEPT ![c] = "aborted"] /\ Kept
  BY Zenon, <1>2, StayKeeps, Awake DEF Fails, Kept
<1> QED BY <1>1, <1>2 DEF Fails

LEMMA BlockedKeeps ==
  ASSUME WaitInv, NEW c \in Conns, NEW m, NEW h \in Holders(c, m), NEW w,
         MayWait(c, h), Blocked(c, w, h), next' = next
  PROVE  WaitInv'
<1>1. "waiting" \in Places
  BY DEF Places
<1>2. CASE auto[c] /\ End(c, {}) /\ st' = Woken(c, "waiting")
  BY ZenonT(60), <1>1, <1>2, LeaveKeeps, HoldersHold DEF Blocked, End, Dropped
<1>3. CASE st' = [st EXCEPT ![c] = "waiting"] /\ Kept
  BY ZenonT(60), <1>1, <1>3, StayKeeps, HoldersHold DEF Blocked, Kept, MayWait
<1> QED BY <1>2, <1>3 DEF Blocked

LEMMA PassedKeeps ==
  ASSUME WaitInv, NEW c \in Conns, NEW w, Passed(c, w), next' = next
  PROVE  WaitInv'
  BY Zenon, StayKeeps, Awake DEF Passed, Kept

LEMMA ClaimKeeps ==
  ASSUME WaitInv, NEW c \in Conns, NEW w, Claim(c, w), next' = next
  PROVE  WaitInv'
<1> DEFINE m == MarkOf(snap[c], w)
<1>1. CASE Passed(c, w)
  BY <1>1, PassedKeeps
<1>2. CASE Fails(c)
  BY <1>2, FailsKeeps
<1>3. CASE \E h \in Holders(c, m) : MayWait(c, h) /\ Blocked(c, w, h)
  BY <1>3, BlockedKeeps
<1> QED BY <1>1, <1>2, <1>3 DEF Claim

LEMMA WaitStep == WaitInv /\ [RegistryNext]_registryVars => WaitInv'
<1> SUFFICES ASSUME WaitInv, [RegistryNext]_registryVars PROVE WaitInv'
  OBVIOUS
<1>1. ASSUME NEW c \in Conns, NEW own \in BOOLEAN, Start(c, own) PROVE WaitInv'
  <2>1. WaitType'
    BY <1>1 DEF Start, WaitInv, WaitType, Places
  <2>2. Numbered'
    BY SMTT(40), <1>1 DEF Start, WaitInv, WaitType, Numbered
  <2>3. \A x \in Conns : Waiting(x)' => x # c /\ Waiting(x)
    BY <1>1 DEF Start, Waiting, WaitInv, WaitType
  <2>4. OlderWaits'
    BY <1>1, <2>3 DEF Start, WaitInv, WaitType, OlderWaits
  <2>5. HolderHolds'
    BY <1>1, <2>3 DEF Start, WaitInv, WaitType, Numbered, HolderHolds
  <2> QED BY <2>1, <2>2, <2>4, <2>5 DEF WaitInv
<1>2. ASSUME NEW c \in Conns, NEW w \in Writes, Statement(c, w) PROVE WaitInv'
  BY <1>2, PassedKeeps, ClaimKeeps DEF Statement
<1>3. ASSUME NEW c \in Conns, Apply(c) PROVE WaitInv'
  <2>1. WaitType'
    BY Zenon, <1>3 DEF Apply, WaitInv, WaitType, Places
  <2>2. Numbered'
    BY <1>3 DEF Apply, WaitInv, WaitType, Numbered
  <2>3. \A x \in Conns : Waiting(x)' => x # c /\ Waiting(x)
    BY <1>3 DEF Apply, Waiting, WaitInv, WaitType
  <2>4. OlderWaits'
    BY <1>3, <2>3 DEF Apply, WaitInv, WaitType, OlderWaits
  <2>5. HolderHolds'
    BY Zenon, <1>3, <2>3 DEF Apply, WaitInv, WaitType, HolderHolds
  <2> QED BY <2>1, <2>2, <2>4, <2>5 DEF WaitInv
<1>4. ASSUME NEW c \in Conns, Sleep(c) PROVE WaitInv'
  <2>1. Waiting(c) /\ "asleep" \in Places
    BY <1>4 DEF Sleep, Waiting, Places
  <2>2. holder' = [holder EXCEPT ![c] = holder[c]]
    BY <1>4 DEF Sleep, WaitInv, WaitType
  <2>3. holder[c] \in Nat /\ holder[c] <= next
    BY DEF WaitInv, WaitType, Numbered
  <2>4. id[c] # 0 => held[c] = {} \/ id[c] < holder[c]
    BY <2>1 DEF WaitInv, OlderWaits
  <2>5. \A o \in Conns : id[o] # 0 /\ id[o] = holder[c] => held[o] # {}
    BY <2>1 DEF WaitInv, HolderHolds
  <2> QED BY Zenon, <1>4, <2>1, <2>2, <2>3, <2>4, <2>5, StayKeeps DEF Sleep, Kept
<1>5. ASSUME NEW c \in Conns, Retry(c) PROVE WaitInv'
  <2>1. CASE Claim(c, plan[c])
    BY <1>5, <2>1, ClaimKeeps DEF Retry
  <2>2. CASE st' = [st EXCEPT ![c] = "idle"] /\ holder' = [holder EXCEPT ![c] = 0] /\ Kept
    BY Zenon, <1>5, <2>2, StayKeeps, Awake DEF Retry, Kept
  <2> QED BY <1>5, <2>1, <2>2 DEF Retry
<1>6. ASSUME NEW c \in Conns, Timeout(c) PROVE WaitInv'
  <2> DEFINE to == IF auto[c] THEN "idle" ELSE "aborted"
  <2>1. to \in Places /\ to \notin {"waiting", "asleep"}
    BY DEF Places
  <2>2. st' = [st EXCEPT ![c] = to]
    BY <1>6 DEF Timeout
  <2> HIDE DEF to
  <2> QED BY Zenon, <1>6, <2>1, <2>2, StayKeeps, Awake DEF Timeout, Kept
<1>7. ASSUME NEW c \in Conns, Commit(c) \/ Rollback(c) PROVE WaitInv'
  <2>1. /\ id' = [id EXCEPT ![c] = 0] /\ held' = [held EXCEPT ![c] = {}]
        /\ st' = Woken(c, "idle") /\ next' = next /\ holder' = holder
    BY Zenon, <1>7 DEF Commit, Rollback, Undone, End, Dropped
  <2>2. holder' = [holder EXCEPT ![c] = holder[c]] /\ holder[c] \in Nat /\ holder[c] <= next
    BY <2>1 DEF WaitInv, WaitType, Numbered
  <2> QED BY Zenon, <2>1, <2>2, LeaveKeeps, Awake
<1>8. CASE UNCHANGED <<next, txns>>
  BY <1>8 DEF txns, WaitInv, WaitType, Numbered, OlderWaits, HolderHolds, Waiting
<1> QED
  BY Zenon, <1>1, <1>2, <1>3, <1>4, <1>5, <1>6, <1>7, <1>8 DEF RegistryNext, registryVars, PointWrite

(* Wait-die keeps its order: a transaction that waits and holds rows is     *)
(* older than the one it waits for, which holds rows (Registry::may_wait).  *)
THEOREM WaitsInOrder == RegistrySpec => []WaitInv
<1>1. RegistryInit => WaitInv
  BY DEF RegistryInit, WaitInv, WaitType, Numbered, OlderWaits, HolderHolds, Waiting, Places
<1> QED BY <1>1, WaitStep, PTL DEF RegistrySpec

(* No set of transactions wait for each other, for any number of            *)
(* connections (Registry::may_wait and Registry::clashes, which names the   *)
(* oldest holder).                                                          *)
THEOREM WaitDieNoCycle == RegistrySpec => []NoCycle
  BY WaitsInOrder, InvNoCycle, PTL

-----------------------------------------------------------------------------
(* What a connection may be writing. *)
Plans == Writes \cup {Planned(w) : w \in Writes} \cup {NoWrite}

DoneType ==
    /\ clock \in Nat /\ at \in [Conns -> Nat] /\ id = [c \in Conns |-> id[c]]
    /\ held = [c \in Conns |-> held[c]] /\ snap = [c \in Conns |-> snap[c]]
    /\ plan \in [Conns -> Plans] /\ did \in [Conns -> Seq(Plans)]

LogPast == \A e \in log : e.at \in Nat /\ e.at <= clock
Marked == \A c \in Conns : \A w \in ToSet(did[c]) : MarkOf(snap[c], w) \in held[c]

DoneInv == DoneType /\ LogPast /\ Marked /\ DoneKept

(* A sequence's elements after one more. *)
LEMMA ToSetAppend ==
  ASSUME NEW S, NEW s \in Seq(S), NEW e \in S
  PROVE  ToSet(Append(s, e)) = ToSet(s) \cup {e}
<1>1. DOMAIN s = 1..Len(s) /\ Len(s) \in Nat
  OBVIOUS
<1>2. DOMAIN Append(s, e) = 1..(Len(s) + 1)
  OBVIOUS
<1>3. \A i \in 1..Len(s) : Append(s, e)[i] = s[i]
  OBVIOUS
<1>4. Append(s, e)[Len(s) + 1] = e
  OBVIOUS
<1>5. 1..(Len(s) + 1) = 1..Len(s) \cup {Len(s) + 1}
  BY <1>1
<1>6. ToSet(s) = {s[i] : i \in 1..Len(s)}
  BY <1>1 DEF ToSet
<1>7. ToSet(Append(s, e)) = {Append(s, e)[i] : i \in 1..Len(s) \cup {Len(s) + 1}}
  BY <1>2, <1>5 DEF ToSet
<1> QED BY <1>3, <1>4, <1>6, <1>7

(* What a transaction that leaves keeps: it commits the marks it logs. *)
LEMMA EndKeeps ==
  ASSUME DoneInv, NEW c \in Conns, NEW M, End(c, M),
         clock' \in Nat, clock <= clock', plan' \in [Conns -> Plans],
         \A e \in log' : e \in log \/ (e.at = clock' /\ e.mark \in M)
  PROVE  DoneInv'
<1>1. DoneType'
  <2>1. <<>> \in Seq(Plans)
    OBVIOUS
  <2>2. did' \in [Conns -> Seq(Plans)]
    BY <2>1 DEF End, Dropped, DoneInv, DoneType
  <2> QED BY Zenon, <2>2 DEF End, Dropped, DoneInv, DoneType
<1>2. LogPast'
  BY DEF DoneInv, LogPast, DoneType
<1>3. Marked'
  <2>1. ToSet(did'[c]) = {}
    BY DEF End, Dropped, DoneInv, DoneType, ToSet
  <2>2. \A x \in Conns : x # c => did'[x] = did[x] /\ snap'[x] = snap[x] /\ held'[x] = held[x]
    BY DEF End, Dropped, DoneInv, DoneType
  <2> QED BY <2>1, <2>2 DEF DoneInv, Marked
<1>4. DoneKept'
  <2> SUFFICES ASSUME NEW o \in Opened', NEW e \in log', e.at > at'[o]
               PROVE  [at |-> e.at, mark |-> e.mark] \in done'
    BY DEF DoneKept
  <2>1. o \in Opened \ {c} /\ at'[o] = at[o]
    BY DEF Opened, End, Dropped, DoneInv, DoneType
  <2> DEFINE d == [at |-> e.at, mark |-> e.mark]
             kept == done \cup {[at |-> clock', mark |-> m] : m \in M}
  <2>2. d \in kept
    BY <2>1 DEF DoneInv, DoneKept
  <2>3. done' = {x \in kept : \E p \in Opened \ {c} : x.at > at[p]}
    BY <2>1 DEF End
  <2>4. d.at > at[o]
    BY <2>1
  <2> HIDE DEF kept, d
  <2> QED BY <2>1, <2>2, <2>3, <2>4 DEF d
<1> QED BY <1>1, <1>2, <1>3, <1>4 DEF DoneInv

(* A step of a transaction that stays. *)
LEMMA KeptKeeps ==
  ASSUME DoneInv, Kept, UNCHANGED <<clock, log>>, plan' \in [Conns -> Plans]
  PROVE  DoneInv'
  BY DEF DoneInv, DoneType, LogPast, Marked, DoneKept, Kept, Opened

LEMMA ClaimDone ==
  ASSUME DoneInv, NEW c \in Conns, NEW w \in Plans, Claim(c, w), UNCHANGED <<clock, log>>
  PROVE  DoneInv'
<1>1. plan' = [plan EXCEPT ![c] = w] \/ plan' = [plan EXCEPT ![c] = NoWrite]
  BY DEF Claim, Passed, Fails, Blocked
<1>2. plan' \in [Conns -> Plans]
  BY Zenon, <1>1 DEF DoneInv, DoneType, Plans
<1>3. Kept \/ End(c, {})
  BY DEF Claim, Passed, Fails, Blocked, Undone
<1>4. CASE Kept
  BY <1>2, <1>4, KeptKeeps
<1>5. CASE End(c, {})
  <2>1. clock' \in Nat /\ clock <= clock'
    BY DEF DoneInv, DoneType
  <2> QED BY <1>2, <1>5, <2>1, EndKeeps
<1> QED BY <1>3, <1>4, <1>5

LEMMA DoneStep == DoneInv /\ [RegistryNext]_registryVars => DoneInv'
<1> SUFFICES ASSUME DoneInv, [RegistryNext]_registryVars PROVE DoneInv'
  OBVIOUS
<1>1. ASSUME NEW c \in Conns, NEW own \in BOOLEAN, Start(c, own) PROVE DoneInv'
  <2>1. DoneType'
    <3>1. <<>> \in Seq(Plans)
      OBVIOUS
    <3>2. did' \in [Conns -> Seq(Plans)]
      BY <1>1, <3>1 DEF Start, DoneInv, DoneType
    <3> QED BY Zenon, <1>1, <3>2 DEF Start, DoneInv, DoneType
  <2>2. LogPast'
    BY <1>1 DEF Start, DoneInv, LogPast
  <2>3. Marked'
    <3>1. ToSet(did'[c]) = {}
      BY <1>1 DEF Start, DoneInv, DoneType, ToSet
    <3>2. \A x \in Conns : x # c => did'[x] = did[x] /\ snap'[x] = snap[x] /\ held'[x] = held[x]
      BY <1>1 DEF Start, DoneInv, DoneType
    <3> QED BY <3>1, <3>2 DEF DoneInv, Marked
  <2>4. DoneKept'
    <3> SUFFICES ASSUME NEW o \in Opened', NEW e \in log', e.at > at'[o]
                 PROVE  [at |-> e.at, mark |-> e.mark] \in done'
      BY DEF DoneKept
    <3>1. e \in log /\ done' = done /\ e.at \in Nat /\ e.at <= clock
      BY <1>1 DEF Start, DoneInv, LogPast
    <3>2. o \in Conns
      BY DEF Opened
    <3>3. CASE o = c
      BY <1>1, <3>1, <3>3 DEF Start, DoneInv, DoneType
    <3>4. CASE o # c
      <4>1. o \in Opened /\ at'[o] = at[o]
        BY <1>1, <3>2, <3>4 DEF Start, DoneInv, DoneType, Opened
      <4> QED BY <3>1, <4>1 DEF DoneInv, DoneKept
    <3> QED BY <3>3, <3>4
  <2> QED BY <2>1, <2>2, <2>3, <2>4 DEF DoneInv
<1>2. ASSUME NEW c \in Conns, NEW w \in Writes, Statement(c, w) PROVE DoneInv'
  <2>1. w \in Plans /\ Planned(w) \in Plans /\ UNCHANGED <<clock, log>>
    BY <1>2 DEF Plans, Statement
  <2>2. CASE Passed(c, w)
    <3>1. plan' \in [Conns -> Plans]
      BY <2>1, <2>2 DEF Passed, DoneInv, DoneType
    <3> QED BY <2>1, <2>2, <3>1, KeptKeeps DEF Passed
  <2>3. CASE Claim(c, Planned(w)) \/ Claim(c, w)
    BY <2>1, <2>3, ClaimDone
  <2> QED BY <1>2, <2>2, <2>3 DEF Statement
<1>3. ASSUME NEW c \in Conns, Apply(c) PROVE DoneInv'
  <2>1. plan[c] \in Plans /\ did[c] \in Seq(Plans) /\ NoWrite \in Plans
    BY Zenon DEF DoneInv, DoneType, Plans
  <2>2. did' = [did EXCEPT ![c] = Append(did[c], plan[c])] /\ Append(did[c], plan[c]) \in Seq(Plans)
    BY <1>3, <2>1 DEF Apply
  <2>3. DoneType'
    BY ZenonT(60), <1>3, <2>1, <2>2 DEF Apply, DoneInv, DoneType
  <2>4. LogPast' /\ DoneKept'
    BY <1>3 DEF Apply, DoneInv, LogPast, DoneKept, Opened
  <2>5. Marked'
    <3>1. ToSet(did'[c]) = ToSet(did[c]) \cup {plan[c]}
      BY <2>1, <2>2, ToSetAppend DEF DoneInv, DoneType
    <3>2. held'[c] = held[c] \cup {MarkOf(snap[c], plan[c])} /\ snap' = snap
      BY <1>3 DEF Apply, DoneInv, DoneType
    <3>3. \A x \in Conns : x # c => did'[x] = did[x] /\ held'[x] = held[x]
      BY <1>3 DEF Apply, DoneInv, DoneType
    <3> QED BY <3>1, <3>2, <3>3 DEF DoneInv, Marked
  <2> QED BY <2>3, <2>4, <2>5 DEF DoneInv
<1>4. ASSUME NEW c \in Conns, Sleep(c) PROVE DoneInv'
  BY SMTT(40), <1>4, KeptKeeps DEF Sleep, DoneInv, DoneType
<1>5. ASSUME NEW c \in Conns, Retry(c) PROVE DoneInv'
  <2>1. plan[c] \in Plans /\ NoWrite \in Plans /\ UNCHANGED <<clock, log>>
    BY <1>5 DEF Plans, Retry, DoneInv, DoneType
  <2>2. CASE Claim(c, plan[c])
    BY <2>1, <2>2, ClaimDone
  <2>3. CASE plan' = [plan EXCEPT ![c] = NoWrite] /\ Kept
    <3>1. plan' \in [Conns -> Plans]
      BY <2>1, <2>3 DEF DoneInv, DoneType
    <3> QED BY <2>1, <2>3, <3>1, KeptKeeps
  <2> QED BY <1>5, <2>2, <2>3 DEF Retry
<1>6. ASSUME NEW c \in Conns, Timeout(c) PROVE DoneInv'
  <2>1. plan' \in [Conns -> Plans]
    BY <1>6 DEF Timeout, Plans, DoneInv, DoneType
  <2> QED BY <1>6, <2>1, KeptKeeps DEF Timeout
<1>7. ASSUME NEW c \in Conns, Commit(c) PROVE DoneInv'
  <2>1. plan' \in [Conns -> Plans]
    BY Zenon, <1>7 DEF Commit, DoneInv, DoneType
  <2>2. CASE clock' = clock + 1 /\ End(c, held[c])
             /\ log' = log \cup {Logged(id[c], at[c], snap[c], w) : w \in ToSet(did[c])}
    <3>1. clock' \in Nat /\ clock <= clock'
      BY <2>2 DEF DoneInv, DoneType
    <3>2. \A e \in log' : e \in log \/ (e.at = clock' /\ e.mark \in held[c])
      BY <2>2 DEF Logged, DoneInv, Marked
    <3> QED BY <2>1, <2>2, <3>1, <3>2, EndKeeps
  <2>3. CASE UNCHANGED <<clock, log>> /\ End(c, {})
    <3>1. clock' \in Nat /\ clock <= clock'
      BY <2>3 DEF DoneInv, DoneType
    <3> QED BY <2>1, <2>3, <3>1, EndKeeps
  <2> QED BY Zenon, <1>7, <2>2, <2>3 DEF Commit
<1>8. ASSUME NEW c \in Conns, Rollback(c) PROVE DoneInv'
  <2>1. plan' \in [Conns -> Plans] /\ clock' \in Nat /\ clock <= clock' /\ log' = log
    BY <1>8 DEF Rollback, DoneInv, DoneType
  <2> QED BY <1>8, <2>1, EndKeeps DEF Rollback, Undone
<1>9. ASSUME NEW c \in Conns, NEW w \in Writes, PointWrite(c, w) PROVE DoneInv'
  <2>1. DoneType' /\ LogPast' /\ Marked'
    BY <1>9 DEF PointWrite, txns, Logged, DoneInv, DoneType, LogPast, Marked
  <2>2. DoneKept'
    BY <1>9 DEF PointWrite, txns, Logged, Committed, DoneInv, DoneKept, Opened
  <2> QED BY <2>1, <2>2 DEF DoneInv
<1>10. CASE UNCHANGED registryVars
  BY <1>10 DEF registryVars, txns, DoneInv, DoneType, LogPast, Marked, DoneKept, Opened
<1> QED
  BY <1>1, <1>2, <1>3, <1>4, <1>5, <1>6, <1>7, <1>8, <1>9, <1>10 DEF RegistryNext

(* No commit that an open transaction's writes have to be compared with is  *)
(* forgotten, for any number of connections and commits (Registry::end,     *)
(* Registry::committed, and the snapshot numbered under the catalog's lock).*)
THEOREM CommitsRemembered == RegistrySpec => []DoneKept
<1>1. RegistryInit => DoneInv
  <2> SUFFICES ASSUME RegistryInit PROVE DoneInv
    OBVIOUS
  <2>1. DoneType
    BY DEF RegistryInit, DoneType, Plans
  <2>2. Marked
    BY DEF RegistryInit, Marked, ToSet
  <2> QED BY <2>1, <2>2 DEF RegistryInit, DoneInv, LogPast, DoneKept
<1>2. DoneInv => DoneKept
  BY DEF DoneInv
<1> QED BY <1>1, <1>2, DoneStep, PTL DEF RegistrySpec
=============================================================================
