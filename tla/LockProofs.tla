----------------------------- MODULE LockProofs -----------------------------
(***************************************************************************)
(* The three locks, each by itself and for any number of actors: the lock   *)
(* of the catalog, the locks of hot rows and the advisory locks.            *)
(***************************************************************************)
EXTENDS ReadMostly, RowLock, Advisory, FiniteSetTheorems, WellFoundedInduction, TLAPS

(***************************************************************************)
(* The lock excludes, for any number of threads and slots.  The invariant   *)
(* says who is counted in each slot, who holds the mutex, who raised the    *)
(* flag, and of the slots a scanning writer has passed, that no thread of   *)
(* theirs reads: a thread that counts itself in behind the scan finds the   *)
(* flag up.                                                                 *)
(***************************************************************************)

In(s) == {t \in Threads : SlotOf[t] = s /\ pc[t] \in Counted}
CountsExact == \A s \in Slots : count[s] = Cardinality(In(s))
MutexOwned == \A t \in Threads : writers = t <=> pc[t] \in Held
Passed == \A t, u \in Threads :
             /\ t # u
             /\ \/ pc[t] \in {"writing", "downgraded"}
                \/ pc[t] = "scan" /\ SlotOf[u] < scan[t]
             => pc[u] \notin Reading

MostlyInv == MostlyTypeOK /\ CountsExact /\ MutexOwned /\ FlagOwned /\ Passed

(* Every slot counts finitely many threads. *)
LEMMA InFinite == \A s \in Slots : IsFiniteSet(In(s)) /\ Cardinality(In(s)) \in Nat
<1> SUFFICES ASSUME NEW s \in Slots PROVE IsFiniteSet(In(s)) /\ Cardinality(In(s)) \in Nat
  BY Zenon
<1>1. In(s) \in SUBSET Threads
  BY Zenon DEF In
<1>2. IsFiniteSet(In(s))
  BY Zenon, <1>1, MostlyAssumption, FS_Subset
<1> QED BY Zenon, <1>2, FS_CardinalityType

(* A thread that is not counted counts itself in. *)
LEMMA Joins ==
  ASSUME MostlyTypeOK, CountsExact, NEW t \in Threads, NEW to \in Counted,
         pc[t] \notin Counted, pc' = [pc EXCEPT ![t] = to],
         count' = [count EXCEPT ![SlotOf[t]] = @ + 1]
  PROVE  CountsExact' /\ count' \in [Slots -> Nat]
<1> DEFINE c == SlotOf[t]
<1>1. c \in Slots /\ pc' \in [Threads -> MostlyPlaces] /\ pc \in [Threads -> MostlyPlaces]
  BY Zenon, MostlyAssumption DEF MostlyTypeOK, Slots, Counted, MostlyPlaces
<1>2. In(c)' = In(c) \cup {t} /\ t \notin In(c)
  BY Zenon, <1>1 DEF In
<1>3. \A s \in Slots \ {c} : In(s)' = In(s)
  BY Zenon, <1>1 DEF In
<1>4. Cardinality(In(c)') = Cardinality(In(c)) + 1
  BY Zenon, <1>1, <1>2, InFinite, FS_AddElement
<1>5. count' \in [Slots -> Nat]
  BY <1>1 DEF MostlyTypeOK
<1>6. ASSUME NEW s \in Slots PROVE count'[s] = Cardinality(In(s)')
  <2>1. CASE s = c
    BY Zenon, <1>1, <1>4, <2>1 DEF CountsExact, MostlyTypeOK
  <2>2. CASE s # c
    BY Zenon, <1>1, <1>3, <2>2 DEF CountsExact, MostlyTypeOK
  <2> QED BY Zenon, <2>1, <2>2
<1> QED BY Zenon, <1>5, <1>6 DEF CountsExact

(* A thread that is counted takes itself out. *)
LEMMA Departs ==
  ASSUME MostlyTypeOK, CountsExact, NEW t \in Threads, NEW to \in MostlyPlaces \ Counted,
         pc[t] \in Counted, pc' = [pc EXCEPT ![t] = to],
         count' = [count EXCEPT ![SlotOf[t]] = @ + -1]
  PROVE  CountsExact' /\ count' \in [Slots -> Nat]
<1> DEFINE c == SlotOf[t]
<1>1. c \in Slots /\ pc' \in [Threads -> MostlyPlaces] /\ pc \in [Threads -> MostlyPlaces]
  BY Zenon, MostlyAssumption DEF MostlyTypeOK, Slots, Counted, MostlyPlaces
<1>2. In(c)' = In(c) \ {t} /\ t \in In(c)
  BY Zenon, <1>1 DEF In
<1>3. \A s \in Slots \ {c} : In(s)' = In(s)
  BY Zenon, <1>1 DEF In
<1>4. Cardinality(In(c)') = Cardinality(In(c)) - 1
  <2>1. IsFiniteSet(In(c)) /\ t \in In(c)
    BY Zenon, <1>1, <1>2, InFinite
  <2>2. Cardinality(In(c) \ {t}) = Cardinality(In(c)) - 1
    <3> HIDE DEF c
    <3> QED BY Zenon, <2>1, FS_RemoveElement
  <2> QED BY Zenon, <1>2, <2>2
<1>5. Cardinality(In(c)) \in Nat /\ Cardinality(In(c)) # 0
  <2>1. In(c) # {}
    BY Zenon, <1>2
  <2>2. IsFiniteSet(In(c)) /\ Cardinality(In(c)) \in Nat
    BY Zenon, <1>1, InFinite
  <2> HIDE DEF c
  <2> QED BY <2>1, <2>2, FS_EmptySet, Zenon
<1>6. count[c] \in Nat /\ count[c] = Cardinality(In(c))
  BY Zenon, <1>1 DEF CountsExact, MostlyTypeOK
<1>7. count' \in [Slots -> Nat]
  BY <1>1, <1>5, <1>6 DEF MostlyTypeOK
<1>8. ASSUME NEW s \in Slots PROVE count'[s] = Cardinality(In(s)')
  <2>1. CASE s = c
    BY Zenon, <1>1, <1>4, <1>5, <1>6, <2>1 DEF MostlyTypeOK
  <2>2. CASE s # c
    BY Zenon, <1>1, <1>3, <2>2 DEF CountsExact, MostlyTypeOK
  <2> QED BY Zenon, <2>1, <2>2
<1> QED BY Zenon, <1>7, <1>8 DEF CountsExact

(* A thread moves without being counted in or out. *)
LEMMA Stays ==
  ASSUME MostlyTypeOK, CountsExact, NEW t \in Threads, NEW to \in MostlyPlaces,
         pc[t] \in Counted <=> to \in Counted, pc' = [pc EXCEPT ![t] = to], count' = count
  PROVE  CountsExact' /\ count' \in [Slots -> Nat]
<1>1. pc \in [Threads -> MostlyPlaces]
  BY Zenon DEF MostlyTypeOK
<1>2. \A s \in Slots : In(s)' = In(s)
  BY Zenon, <1>1 DEF In
<1> QED BY Zenon, <1>2 DEF CountsExact, MostlyTypeOK

-----------------------------------------------------------------------------
(* Nobody uses the lock at first. *)
LEMMA MostlyInitInv == MostlyInit => MostlyInv
<1> SUFFICES ASSUME MostlyInit PROVE MostlyInv
  BY Zenon
<1>1. writing \in BOOLEAN /\ ~writing
  BY Zenon DEF MostlyInit
<1>2. \A t \in Threads : pc[t] = "idle"
  BY Zenon DEF MostlyInit
<1>3. MostlyTypeOK
  BY <1>1, MostlyAssumption DEF MostlyInit, MostlyTypeOK, MostlyPlaces, Slots
<1>4. \A s \in Slots : In(s) = {}
  BY Zenon, <1>2 DEF In, Counted
<1>5. CountsExact
  BY Zenon, <1>4, FS_EmptySet DEF CountsExact, MostlyInit
<1>6. MutexOwned
  BY Zenon, <1>2, MostlyAssumption DEF MutexOwned, MostlyInit, Held
<1>7. FlagOwned
  BY Zenon, <1>1, <1>2 DEF FlagOwned, Flagged
<1>8. Passed
  BY Zenon, <1>2 DEF Passed
<1> QED BY Zenon, <1>3, <1>5, <1>6, <1>7, <1>8 DEF MostlyInv

(* The thread that holds the mutex is the only one between taking it and    *)
(* letting it go.                                                           *)
LEMMA OneHolder == ASSUME MutexOwned, NEW t \in Threads, NEW u \in Threads,
                          pc[t] \in Held, pc[u] \in Held
                   PROVE  t = u
  BY Zenon DEF MutexOwned

(* The parts of the invariant that say where the threads are, for a step of *)
(* t from one place to another that leaves the mutex and the flag alone.    *)
LEMMA MovesOn ==
  ASSUME MostlyInv, NEW t \in Threads, NEW from \in MostlyPlaces, NEW to \in MostlyPlaces,
         pc[t] = from, pc' = [pc EXCEPT ![t] = to],
         writers' = writers, writing' = writing, scan' = scan,
         from \in Held <=> to \in Held, from \in Flagged <=> to \in Flagged,
         to \in Reading => from \in Reading \/ from = "writing" \/ ~writing,
         to \in {"scan", "writing", "downgraded"} => from = to \/ from = "writing"
  PROVE  MutexOwned' /\ FlagOwned' /\ Passed' /\ pc' \in [Threads -> MostlyPlaces]
<1>1. /\ pc \in [Threads -> MostlyPlaces] /\ pc' \in [Threads -> MostlyPlaces]
      /\ \A u \in Threads : pc'[u] = IF u = t THEN to ELSE pc[u]
  BY Zenon DEF MostlyInv, MostlyTypeOK
<1>2. MutexOwned'
  BY Zenon, <1>1 DEF MostlyInv, MutexOwned
<1>3. FlagOwned'
  BY Zenon, <1>1 DEF MostlyInv, FlagOwned
<1>4. ASSUME NEW u \in Threads, NEW v \in Threads, u # v,
             \/ pc'[u] \in {"writing", "downgraded"}
             \/ pc'[u] = "scan" /\ SlotOf[v] < scan'[u]
      PROVE  pc'[v] \notin Reading
  <2>1. \/ pc[u] \in {"writing", "downgraded"}
        \/ pc[u] = "scan" /\ SlotOf[v] < scan[u]
    BY Zenon, <1>1, <1>4
  <2>2. pc[v] \notin Reading
    BY Zenon, <1>4, <2>1 DEF MostlyInv, Passed
  <2>3. pc[u] \in Flagged /\ writing
    BY Zenon, <2>1 DEF Flagged, MostlyInv, FlagOwned
  <2>4. pc[v] # "writing"
    <3>1. pc[u] \in Held
      BY Zenon, <2>1 DEF Held
    <3> QED BY Zenon, <1>4, <3>1, OneHolder DEF Held, MostlyInv
  <2> QED BY Zenon, <1>1, <2>2, <2>3, <2>4
<1> QED BY Zenon, <1>1, <1>2, <1>3, <1>4 DEF Passed

(* Every step of every thread keeps the invariant. *)
LEMMA MostlyStep == MostlyInv /\ [MostlyNext]_mostlyVars => MostlyInv'
<1> SUFFICES ASSUME MostlyInv, [MostlyNext]_mostlyVars PROVE MostlyInv'
  BY Zenon
<1>u. CASE UNCHANGED mostlyVars
  BY Zenon, <1>u DEF mostlyVars, MostlyInv, MostlyTypeOK, CountsExact, In, MutexOwned, FlagOwned, Passed
<1>n. CASE MostlyNext
  <2>1. PICK t \in Threads : GoesOn(t) \/ CountIn(t) \/ Knock(t) \/ Acquire(t) \/ Downgrade(t)
    BY Zenon, <1>n DEF MostlyNext
  <2>t. /\ MostlyTypeOK /\ CountsExact /\ MutexOwned /\ FlagOwned /\ Passed
        /\ pc \in [Threads -> MostlyPlaces] /\ scan \in [Threads -> Slots]
        /\ writers \in Threads \cup {NoOne} /\ SlotCount \in Nat \ {0}
        /\ Slots = 1..SlotCount /\ SlotOf \in [Threads -> Slots]
    BY SMTT(40), MostlyAssumption DEF MostlyInv, MostlyTypeOK, Slots
  <2>w. writing \in BOOLEAN
    BY Zenon DEF MostlyInv, MostlyTypeOK
  <2>2. CASE CountIn(t)
    <3>1. CountsExact' /\ count' \in [Slots -> Nat]
      BY Zenon, <2>2, <2>t, Joins DEF CountIn, Goto, Add, Counted
    <3>2. MutexOwned' /\ FlagOwned' /\ Passed' /\ pc' \in [Threads -> MostlyPlaces]
      BY Zenon, <2>2, MovesOn DEF CountIn, Goto, MostlyPlaces, Held, Flagged, Reading
    <3> QED BY Zenon, <2>2, <2>t, <2>w, <3>1, <3>2 DEF CountIn, MostlyInv, MostlyTypeOK
  <2>3. CASE Enter(t)
    <3>1. CountsExact' /\ count' \in [Slots -> Nat]
      BY Zenon, <2>3, <2>t, Stays DEF Enter, Goto, Counted, MostlyPlaces
    <3>2. MutexOwned' /\ FlagOwned' /\ Passed' /\ pc' \in [Threads -> MostlyPlaces]
      BY Zenon, <2>3, MovesOn DEF Enter, Goto, MostlyPlaces, Held, Flagged, Reading
    <3> QED BY SMTT(40), <2>3, <2>t, <2>w, <3>1, <3>2 DEF Enter, MostlyInv, MostlyTypeOK
  <2>4. CASE SeeFlag(t)
    <3>1. CountsExact' /\ count' \in [Slots -> Nat]
      BY Zenon, <2>4, <2>t, Stays DEF SeeFlag, Goto, Counted, MostlyPlaces
    <3>2. MutexOwned' /\ FlagOwned' /\ Passed' /\ pc' \in [Threads -> MostlyPlaces]
      BY Zenon, <2>4, MovesOn DEF SeeFlag, Goto, MostlyPlaces, Held, Flagged, Reading
    <3> QED BY SMTT(40), <2>4, <2>t, <2>w, <3>1, <3>2 DEF SeeFlag, MostlyInv, MostlyTypeOK
  <2>5. CASE BackOut(t)
    <3>1. CountsExact' /\ count' \in [Slots -> Nat]
      BY Zenon, <2>5, <2>t, Departs DEF BackOut, Goto, Add, Counted, MostlyPlaces
    <3>2. MutexOwned' /\ FlagOwned' /\ Passed' /\ pc' \in [Threads -> MostlyPlaces]
      BY ZenonT(60), <2>5, MovesOn DEF BackOut, Goto, MostlyPlaces, Held, Flagged, Reading
    <3> QED BY Zenon, <2>5, <2>t, <2>w, <3>1, <3>2 DEF BackOut, MostlyInv, MostlyTypeOK
  <2>6. CASE Knock(t)
    <3>1. CountsExact' /\ count' \in [Slots -> Nat]
      BY Zenon, <2>6, <2>t, Stays DEF Knock, Goto, Counted, MostlyPlaces
    <3>2. MutexOwned' /\ FlagOwned' /\ Passed' /\ pc' \in [Threads -> MostlyPlaces]
      BY Zenon, <2>6, MovesOn DEF Knock, Goto, MostlyPlaces, Held, Flagged, Reading
    <3> QED BY SMTT(40), <2>6, <2>t, <2>w, <3>1, <3>2 DEF Knock, MostlyInv, MostlyTypeOK
  <2>7. CASE Leave(t)
    <3>1. CountsExact' /\ count' \in [Slots -> Nat]
      BY Zenon, <2>7, <2>t, Departs DEF Leave, Goto, Add, Counted, MostlyPlaces
    <3>2. MutexOwned' /\ FlagOwned' /\ Passed' /\ pc' \in [Threads -> MostlyPlaces]
      BY Zenon, <2>7, MovesOn DEF Leave, Goto, MostlyPlaces, Held, Flagged, Reading
    <3> QED BY Zenon, <2>7, <2>t, <2>w, <3>1, <3>2 DEF Leave, MostlyInv, MostlyTypeOK
  <2>8. CASE Downgrade(t)
    <3>1. CountsExact' /\ count' \in [Slots -> Nat]
      BY Zenon, <2>8, <2>t, Joins DEF Downgrade, Goto, Add, Counted
    <3>2. MutexOwned' /\ FlagOwned' /\ Passed' /\ pc' \in [Threads -> MostlyPlaces]
      BY Zenon, <2>8, MovesOn DEF Downgrade, Goto, MostlyPlaces, Held, Flagged, Reading
    <3> QED BY Zenon, <2>8, <2>t, <2>w, <3>1, <3>2 DEF Downgrade, MostlyInv, MostlyTypeOK
  <2>9. CASE Acquire(t)
    <3>1. CountsExact' /\ count' \in [Slots -> Nat]
      BY Zenon, <2>9, <2>t, Stays DEF Acquire, Goto, Counted, MostlyPlaces
    <3>2. /\ pc' \in [Threads -> MostlyPlaces]
          /\ \A u \in Threads : pc'[u] = IF u = t THEN "raise" ELSE pc[u]
      BY Zenon, <2>9, <2>t DEF Acquire, Goto, MostlyPlaces
    <3>3. MutexOwned'
      BY Zenon, <2>9, <2>t, <3>2, MostlyAssumption DEF Acquire, MutexOwned, Held
    <3>4. FlagOwned'
      BY Zenon, <2>9, <2>t, <3>2 DEF Acquire, Goto, FlagOwned, Flagged
    <3>5. Passed'
      BY SMTT(40), <2>9, <2>t, <3>2 DEF Acquire, Passed, Reading
    <3> QED BY Zenon, <2>9, <2>t, <2>w, <3>1, <3>2, <3>3, <3>4, <3>5 DEF Acquire, MostlyInv, MostlyTypeOK
  <2>10. CASE RaiseFlag(t)
    <3>1. CountsExact' /\ count' \in [Slots -> Nat]
      BY Zenon, <2>10, <2>t, Stays DEF RaiseFlag, Goto, Counted, MostlyPlaces
    <3>2. /\ pc' \in [Threads -> MostlyPlaces] /\ scan' \in [Threads -> Slots] /\ scan'[t] = 1
          /\ \A u \in Threads : pc'[u] = IF u = t THEN "scan" ELSE pc[u]
          /\ \A u \in Threads : u # t => scan'[u] = scan[u]
      BY <2>10, <2>t DEF RaiseFlag, Goto, MostlyPlaces
    <3>3. MutexOwned'
      BY Zenon, <2>10, <2>t, <3>2 DEF RaiseFlag, Goto, MutexOwned, Held
    <3>4. writing' = TRUE /\ writing' \in BOOLEAN
      BY <2>10, Zenon DEF RaiseFlag
    <3>5. FlagOwned'
      BY Zenon, <3>2, <3>4 DEF FlagOwned, Flagged
    <3>6. Passed'
      BY SMTT(40), <2>t, <3>2 DEF Passed, Reading
    <3> QED BY SMTT(40), <2>10, <2>t, <3>1, <3>2, <3>3, <3>4, <3>5, <3>6
            DEF RaiseFlag, MostlyInv, MostlyTypeOK
  <2>11. CASE ScanPasses(t)
    <3>1. /\ pc' \in [Threads -> MostlyPlaces] /\ scan' \in [Threads -> Slots]
          /\ \A u \in Threads : u # t => pc'[u] = pc[u] /\ scan'[u] = scan[u]
          /\ pc'[t] = "scan" => scan'[t] = scan[t] + 1
          /\ pc'[t] # "scan" => pc'[t] = "writing" /\ scan[t] = SlotCount
          /\ pc[t] = "scan" /\ scan[t] \in Slots
      <4>1. pc[t] = "scan" /\ scan[t] \in Slots
        BY Zenon, <2>11, <2>t DEF ScanPasses
      <4>2. CASE scan[t] = SlotCount
        BY Zenon, <2>11, <2>t, <4>1, <4>2 DEF ScanPasses, MostlyPlaces
      <4>3. CASE scan[t] # SlotCount
        <5>1. scan[t] + 1 \in Slots
          BY <4>1, <4>3, MostlyAssumption DEF Slots
        <5> QED BY Zenon, <2>11, <2>t, <4>1, <4>3, <5>1 DEF ScanPasses, MostlyPlaces
      <4> QED BY Zenon, <4>2, <4>3
    <3>2. \A s \in Slots : In(s)' = In(s)
      BY SMTT(40), <2>t, <3>1 DEF In, Counted
    <3>3. CountsExact' /\ count' \in [Slots -> Nat]
      BY Zenon, <2>11, <2>t, <3>2 DEF ScanPasses, CountsExact, MostlyTypeOK
    <3>4. MutexOwned'
      BY Zenon, <2>11, <2>t, <3>1 DEF ScanPasses, MutexOwned, Held
    <3>5. FlagOwned'
      BY Zenon, <2>11, <2>t, <3>1 DEF ScanPasses, FlagOwned, Flagged
    <3>6. In(scan[t]) = {}
      <4>1. Cardinality(In(scan[t])) = 0
        BY Zenon, <2>11, <2>t, <3>1 DEF ScanPasses, CountsExact
      <4>2. IsFiniteSet(In(scan[t]))
        BY Zenon, <3>1, InFinite
      <4> QED BY <4>1, <4>2, FS_EmptySet, Zenon
    <3>7. ASSUME NEW v \in Threads, v # t,
                 pc'[t] = "writing" \/ (pc'[t] = "scan" /\ SlotOf[v] < scan'[t])
          PROVE  pc'[v] \notin Reading
      <4>1. SlotOf[v] \in 1..SlotCount /\ SlotOf[v] <= scan[t]
        BY <2>t, <3>1, <3>7
      <4>2. CASE SlotOf[v] = scan[t]
        BY Zenon, <2>t, <3>1, <3>6, <3>7, <4>2 DEF In, Counted, Reading
      <4>3. CASE SlotOf[v] < scan[t]
        BY Zenon, <2>t, <3>1, <3>7, <4>3 DEF Passed
      <4> QED BY <2>t, <3>1, <4>1, <4>2, <4>3
    <3>8. ASSUME NEW u \in Threads, NEW v \in Threads, u # v, u # t,
                 \/ pc'[u] \in {"writing", "downgraded"}
                 \/ pc'[u] = "scan" /\ SlotOf[v] < scan'[u]
          PROVE  FALSE
      <4>1. pc[u] \in Held /\ pc[t] \in Held
        BY Zenon, <2>11, <3>1, <3>8 DEF ScanPasses, Held
      <4> QED BY Zenon, <2>t, <3>8, <4>1, OneHolder
    <3>9. Passed'
      BY Zenon, <3>1, <3>7, <3>8 DEF Passed
    <3> QED BY SMTT(40), <2>11, <2>t, <2>w, <3>1, <3>3, <3>4, <3>5, <3>9
            DEF ScanPasses, MostlyInv, MostlyTypeOK
  <2>12. ASSUME NEW to \in MostlyPlaces, pc[t] \in Flagged, pc' = [pc EXCEPT ![t] = to],
                to \notin Flagged, to \in Held, writing' = FALSE, writers' = writers, scan' = scan
         PROVE  MutexOwned' /\ FlagOwned' /\ Passed' /\ pc' \in [Threads -> MostlyPlaces]
                /\ writing' \in BOOLEAN
    <3>1. /\ pc' \in [Threads -> MostlyPlaces]
          /\ \A u \in Threads : pc'[u] = IF u = t THEN to ELSE pc[u]
      BY Zenon, <2>t, <2>12
    <3>2. pc[t] \in Held
      BY Zenon, <2>12 DEF Flagged, Held
    <3>3. MutexOwned'
      BY Zenon, <2>t, <2>12, <3>1, <3>2 DEF MutexOwned
    <3>4. \A u \in Threads : pc'[u] \notin Flagged
      BY Zenon, <2>t, <2>12, <3>1, <3>2, OneHolder DEF Flagged, Held
    <3>5. FlagOwned'
      BY Zenon, <2>12, <3>4 DEF FlagOwned
    <3>6. Passed'
      BY Zenon, <3>4 DEF Passed, Flagged
    <3>7. writing' \in BOOLEAN
      BY <2>12, Zenon
    <3> QED BY Zenon, <3>1, <3>3, <3>5, <3>6, <3>7
  <2>13. CASE Lower(t)
    <3>1. CountsExact' /\ count' \in [Slots -> Nat]
      BY Zenon, <2>13, <2>t, Stays DEF Lower, Goto, Counted, MostlyPlaces
    <3>2. MutexOwned' /\ FlagOwned' /\ Passed' /\ pc' \in [Threads -> MostlyPlaces] /\ writing' \in BOOLEAN
      BY Zenon, <2>13, <2>12 DEF Lower, Goto, MostlyPlaces, Flagged, Held
    <3> QED BY SMTT(40), <2>13, <2>t, <3>1, <3>2 DEF Lower, MostlyInv, MostlyTypeOK
  <2>14. CASE DowngradeLower(t)
    <3>1. CountsExact' /\ count' \in [Slots -> Nat]
      BY Zenon, <2>14, <2>t, Stays DEF DowngradeLower, Goto, Counted, MostlyPlaces
    <3>2. MutexOwned' /\ FlagOwned' /\ Passed' /\ pc' \in [Threads -> MostlyPlaces] /\ writing' \in BOOLEAN
      BY Zenon, <2>14, <2>12 DEF DowngradeLower, Goto, MostlyPlaces, Flagged, Held
    <3> QED BY SMTT(40), <2>14, <2>t, <3>1, <3>2 DEF DowngradeLower, MostlyInv, MostlyTypeOK
  <2>15. ASSUME NEW to \in MostlyPlaces, pc[t] \in {"unlock", "lowered"}, pc' = [pc EXCEPT ![t] = to],
                to \in {"idle", "reading"}, writers' = NoOne, writing' = writing, scan' = scan
         PROVE  MutexOwned' /\ FlagOwned' /\ Passed' /\ pc' \in [Threads -> MostlyPlaces]
    <3>1. /\ pc' \in [Threads -> MostlyPlaces]
          /\ \A u \in Threads : pc'[u] = IF u = t THEN to ELSE pc[u]
      BY Zenon, <2>t, <2>15
    <3>2. \A u \in Threads : u # t => pc[u] \notin Held
      BY Zenon, <2>t, <2>15, OneHolder DEF Held
    <3>3. \A u \in Threads : pc'[u] \notin Held
      BY Zenon, <2>15, <3>1, <3>2 DEF Held
    <3>4. MutexOwned'
      BY Zenon, <2>15, <3>3, MostlyAssumption DEF MutexOwned
    <3>5. FlagOwned'
      BY Zenon, <2>t, <2>15, <3>1 DEF FlagOwned, Flagged
    <3>6. Passed'
      BY Zenon, <3>3 DEF Passed, Held
    <3> QED BY Zenon, <3>1, <3>4, <3>5, <3>6
  <2>16. CASE Unlock(t)
    <3>1. CountsExact' /\ count' \in [Slots -> Nat]
      BY Zenon, <2>16, <2>t, Stays DEF Unlock, Goto, Counted, MostlyPlaces
    <3>2. MutexOwned' /\ FlagOwned' /\ Passed' /\ pc' \in [Threads -> MostlyPlaces]
      BY Zenon, <2>16, <2>15 DEF Unlock, Goto, MostlyPlaces
    <3> QED BY SMTT(40), <2>16, <2>t, <2>w, <3>1, <3>2 DEF Unlock, MostlyInv, MostlyTypeOK
  <2>17. CASE DowngradeUnlock(t)
    <3>1. CountsExact' /\ count' \in [Slots -> Nat]
      BY Zenon, <2>17, <2>t, Stays DEF DowngradeUnlock, Goto, Counted, MostlyPlaces
    <3>2. MutexOwned' /\ FlagOwned' /\ Passed' /\ pc' \in [Threads -> MostlyPlaces]
      BY Zenon, <2>17, <2>15 DEF DowngradeUnlock, Goto, MostlyPlaces
    <3> QED BY SMTT(40), <2>17, <2>t, <2>w, <3>1, <3>2 DEF DowngradeUnlock, MostlyInv, MostlyTypeOK
  <2> QED BY Zenon, <2>1, <2>2, <2>3, <2>4, <2>5, <2>6, <2>7, <2>8, <2>9, <2>10, <2>11, <2>13, <2>14,
             <2>16, <2>17 DEF GoesOn
<1> QED BY Zenon, <1>u, <1>n

(* The invariant of the lock. *)
THEOREM MostlyInvariant == MostlySpec => []MostlyInv
  BY MostlyInitInv, MostlyStep, PTL DEF MostlySpec

(* A `&mut T` of the catalog never exists beside a `&T` or another `&mut T`, *)
(* which is what the lock's unsafe code rests on, for any number of threads *)
(* and slots and whichever threads share one.                               *)
THEOREM LockExcludes == MostlySpec => []Exclusion
<1>1. MostlyInv => Exclusion
  <2> SUFFICES ASSUME MostlyInv, NEW t \in Threads, NEW u \in Threads, t # u, pc[t] = "writing"
               PROVE  pc[u] \notin Reading /\ pc[u] # "writing"
    BY Zenon DEF Exclusion
  <2>1. pc[u] \notin Reading
    BY Zenon DEF MostlyInv, Passed
  <2>2. pc[u] # "writing"
    BY Zenon, OneHolder DEF MostlyInv, Held
  <2> QED BY Zenon, <2>1, <2>2
<1> QED BY <1>1, MostlyInvariant, PTL

(* The flag a reader waits for is always some writer's, for any number of   *)
(* threads.                                                                 *)
THEOREM FlagHasOwner == MostlySpec => []FlagOwned
<1>1. MostlyInv => FlagOwned
  BY Zenon DEF MostlyInv
<1> QED BY <1>1, MostlyInvariant, PTL

-----------------------------------------------------------------------------
(***************************************************************************)
(* The row locks, for any transactions and rows: a row is held by one       *)
(* transaction, the word says by which, no waiter is left without a holder  *)
(* that will see it, and a row with waiters goes to the oldest of them.     *)
(*                                                                          *)
(* RowInv adds what ties the parking table to the words.  An entry belongs  *)
(* to a transaction that is parked at that row, and each has one.  A        *)
(* granted entry's transaction is the holder.  A holder is a transaction    *)
(* that was told so, or one whose granted entry waits for it.  And a row    *)
(* with an entry that was not granted is held and marked: this is what      *)
(* makes a release without a look at the bucket safe, and every taker of a  *)
(* free row sure that it takes it from nobody.                              *)
(***************************************************************************)

Entries ==
    \A r \in HotRows : \A p \in queue[r] : step[p.me] = "parked" /\ atRow[p.me] = r
OneEntry == \A r \in HotRows : \A p, q \in queue[r] : p.me = q.me => p = q
GrantedHolds == \A r \in HotRows : \A p \in queue[r] : p.granted => word[r].holder = p.me
HolderReal ==
    \A r \in HotRows : word[r].holder # NoTxn =>
        \/ Holds(word[r].holder, r)
        \/ \E p \in queue[r] : p.granted /\ p.me = word[r].holder
Marked ==
    \A r \in HotRows : \A p \in queue[r] : ~p.granted => word[r].waiters /\ ~IsFree(r)
NotMine == \A t \in Txns : atRow[t] \notin mine[t]

RowInv ==
    /\ RowTypeOK /\ HeldAlone /\ Entries /\ OneEntry
    /\ GrantedHolds /\ HolderReal /\ Marked /\ NotMine

(* What a step may do to the transactions other than its own. *)
Only(t) == \A u \in Txns \ {t} : step'[u] = step[u] /\ atRow'[u] = atRow[u] /\ mine'[u] = mine[u]

-----------------------------------------------------------------------------
LEMMA OldestIs ==
  ASSUME NEW W \in SUBSET Nat, W # {}
  PROVE  Oldest(W) \in W /\ \A u \in W : Oldest(W) <= u
<1>1. IsWellFoundedOn(OpToRel(<, Nat), Nat)
  BY Zenon, NatLessThanWellFounded
<1>2. PICK t \in W : \A u \in W : ~(<<u, t>> \in OpToRel(<, Nat))
  BY Zenon, <1>1, WFMin
<1>3. \A u \in W : ~(u < t)
  BY Zenon, <1>2 DEF OpToRel
<1>4. \A u \in W : t <= u
  BY <1>3
<1> QED BY Zenon, <1>2, <1>4 DEF Oldest

LEMMA InvIsSafe == RowInv => HeldAlone /\ WaiterSeen
<1> SUFFICES ASSUME RowInv, NEW r \in HotRows, Waiting(r) # {}
             PROVE  /\ word[r].waiters
                    /\ \/ \E t \in Txns : Holds(t, r)
                       \/ \E p \in queue[r] : p.granted /\ p.me = word[r].holder
  BY Zenon DEF RowInv, WaiterSeen
<1>1. PICK p \in queue[r] : ~p.granted
  BY Zenon DEF Waiting
<1>2. word[r].waiters /\ word[r].holder # NoTxn
  BY Zenon, <1>1 DEF RowInv, Marked, IsFree
<1>3. word[r].holder \in Txns
  BY Zenon, <1>2 DEF RowInv, RowTypeOK
<1> QED BY Zenon, <1>2, <1>3 DEF RowInv, HolderReal

-----------------------------------------------------------------------------
(* A step that leaves the words and the queues, and what t holds, alone. *)
LEMMA QuietKeeps ==
  ASSUME RowInv, NEW t \in Txns, Only(t), RowTypeOK', word' = word, queue' = queue,
         step[t] # "parked", atRow'[t] \notin mine'[t],
         \A r \in HotRows : Holds(t, r)' <=> Holds(t, r)
  PROVE  RowInv'
<1>1. \A u \in Txns, r \in HotRows : Holds(u, r)' <=> Holds(u, r)
  BY Zenon DEF Only, Holds
<1>2. HeldAlone'
  BY Zenon, <1>1 DEF RowInv, HeldAlone
<1>3. Entries'
  BY DEF RowInv, Entries, Only, RowTypeOK, Parked
<1>4. HolderReal'
  BY Zenon, <1>1 DEF RowInv, HolderReal, RowTypeOK
<1>5. OneEntry' /\ GrantedHolds' /\ Marked' /\ NotMine'
  BY Zenon DEF RowInv, OneEntry, GrantedHolds, Marked, NotMine, Only, IsFree
<1> QED BY Zenon, <1>2, <1>3, <1>4, <1>5 DEF RowInv

(* t takes a row that is free. *)
LEMMA TakeKeeps ==
  ASSUME RowInv, NEW t \in Txns, NEW r \in HotRows, Only(t), RowTypeOK', IsFree(r), Take(r, t),
         queue' = queue, step[t] # "parked", step'[t] = "got", atRow'[t] = r,
         mine'[t] = mine[t], r \notin mine[t], step[t] \notin {"got", "release", "hand"}
  PROVE  RowInv'
<1>1. \A u \in Txns, s \in HotRows : Holds(u, s)' <=> Holds(u, s) \/ (u = t /\ s = r)
  BY Zenon DEF Only, Holds
<1>2. /\ \A s \in HotRows : word'[s].waiters = word[s].waiters
      /\ \A s \in HotRows : word'[s].holder = IF s = r THEN t ELSE word[s].holder
  BY Zenon DEF Take, RowInv, RowTypeOK
<1>3. \A u \in Txns : ~Holds(u, r)
  BY Zenon, RowAssumption DEF RowInv, HeldAlone, IsFree
<1>4. \A p \in queue[r] : FALSE
  BY RowAssumption DEF RowInv, GrantedHolds, Marked, IsFree, RowTypeOK, Parked
<1>5. HeldAlone'
  BY <1>1, <1>2, <1>3 DEF RowInv, HeldAlone
<1>6. Entries'
  BY DEF RowInv, Entries, Only, RowTypeOK, Parked
<1>7. HolderReal'
  BY <1>1, <1>2 DEF RowInv, HolderReal, RowTypeOK
<1>8. GrantedHolds' /\ Marked'
  BY SMTT(30), <1>2, <1>4 DEF RowInv, GrantedHolds, Marked, IsFree
<1>9. OneEntry' /\ NotMine'
  BY Zenon DEF RowInv, OneEntry, NotMine, Only
<1> QED BY Zenon, <1>5, <1>6, <1>7, <1>8, <1>9 DEF RowInv

(* t lets go of a row nobody waits for. *)
LEMMA FreeKeeps ==
  ASSUME RowInv, NEW t \in Txns, Only(t), RowTypeOK', atRow[t] \in HotRows, step[t] \in {"release", "hand"},
         \A p \in queue[atRow[t]] : p.granted,
         word' = [word EXCEPT ![atRow[t]] = Free], queue' = queue,
         step'[t] = "ending", atRow'[t] = NoRow, mine'[t] = mine[t]
  PROVE  RowInv'
<1> DEFINE r == atRow[t]
<1>1. /\ \A s \in HotRows : s # r => word'[s] = word[s]
      /\ word'[r].holder = NoTxn
  BY Zenon DEF RowInv, RowTypeOK, Free
<1>2. word[r].holder = t /\ r \notin mine[t]
  BY Zenon DEF RowInv, HeldAlone, NotMine, Holds
<1>3. \A p \in queue[r] : FALSE
  <2> SUFFICES ASSUME NEW p \in queue[r] PROVE FALSE
    BY Zenon
  <2>1. p.me = t
    BY Zenon, <1>2 DEF RowInv, GrantedHolds
  <2> QED BY Zenon, <2>1 DEF RowInv, Entries
<1>4. \A u \in Txns, s \in HotRows : Holds(u, s)' <=> Holds(u, s) /\ ~(u = t /\ s = r)
  BY Zenon, <1>2, RowAssumption DEF Only, Holds
<1>5. \A u \in Txns : Holds(u, r) => u = t
  BY Zenon, <1>2 DEF RowInv, HeldAlone
<1> HIDE DEF r
<1>6. HeldAlone'
  BY <1>1, <1>4, <1>5 DEF RowInv, HeldAlone
<1>7. Entries'
  BY DEF RowInv, Entries, Only, RowTypeOK, Parked
<1>8. HolderReal'
  <2> SUFFICES ASSUME NEW s \in HotRows, word'[s].holder # NoTxn
               PROVE  \/ Holds(word[s].holder, s)'
                      \/ \E p \in queue[s] : p.granted /\ p.me = word'[s].holder
    BY Zenon DEF HolderReal
  <2>1. s # r /\ word'[s] = word[s] /\ word[s].holder \in Txns
    BY ZenonT(30), <1>1 DEF RowInv, RowTypeOK
  <2>2. Holds(word[s].holder, s) => Holds(word[s].holder, s)'
    BY <1>4, <2>1 DEF Holds, Only, RowInv
  <2> QED BY Zenon, <2>1, <2>2 DEF RowInv, HolderReal
<1>9. GrantedHolds' /\ Marked'
  BY <1>1, <1>3 DEF RowInv, GrantedHolds, Marked, IsFree
<1>10. OneEntry' /\ NotMine'
  BY ZenonT(30), RowAssumption DEF RowInv, OneEntry, NotMine, Only, RowTypeOK
<1> QED BY Zenon, <1>6, <1>7, <1>8, <1>9, <1>10 DEF RowInv

-----------------------------------------------------------------------------
(* The three steps that change a queue. *)

LEMMA ParkKeeps ==
  ASSUME RowInv, NEW t \in Txns, ParkHeld(t)
  PROVE  RowInv'
<1> DEFINE r == atRow[t]
           e == [me |-> t, granted |-> FALSE]
<1>1. r \in HotRows /\ step[t] = "park" /\ r \notin mine[t]
  BY Zenon DEF RowInv, RowTypeOK, NotMine, ParkHeld, Go
<1>2. /\ \A s \in HotRows : word'[s].holder = word[s].holder
      /\ \A s \in HotRows : word[s].waiters => word'[s].waiters
      /\ word'[r].waiters
  BY Zenon, <1>1 DEF RowInv, RowTypeOK, ParkHeld
<1>3. /\ \A s \in HotRows : s # r => queue'[s] = queue[s]
      /\ queue'[r] = queue[r] \cup {e}
  BY Zenon, <1>1 DEF RowInv, RowTypeOK, ParkHeld, Enqueue
<1>4. Only(t) /\ step'[t] = "parked" /\ atRow' = atRow /\ mine' = mine
  BY Zenon DEF RowInv, RowTypeOK, ParkHeld, Go, Only
<1>5. RowTypeOK'
  <2>1. word' \in [HotRows -> [holder : Txns \cup {NoTxn}, waiters : BOOLEAN]]
    <3>1. [word[r] EXCEPT !.waiters = TRUE] \in [holder : Txns \cup {NoTxn}, waiters : BOOLEAN]
      BY ZenonT(60), <1>1 DEF RowInv, RowTypeOK
    <3> QED BY Zenon, <1>1, <3>1 DEF RowInv, RowTypeOK, ParkHeld
  <2>2. queue' \in [HotRows -> SUBSET Parked]
    <3>1. e \in Parked
      BY Zenon DEF Parked
    <3>2. queue[r] \subseteq Parked
      BY Zenon, <1>1 DEF RowInv, RowTypeOK
    <3> QED BY Zenon, <1>1, <3>1, <3>2 DEF RowInv, RowTypeOK, ParkHeld, Enqueue
  <2>3. step' \in [Txns -> RowSteps]
    BY Zenon DEF RowInv, RowTypeOK, ParkHeld, Go, RowSteps
  <2> QED BY SMTT(40), <1>1, <1>4, <2>1, <2>2, <2>3 DEF RowInv, RowTypeOK, Only
<1>6. \A p \in queue[r] : p.me # t
  BY Zenon, <1>1 DEF RowInv, Entries
<1>7. \A u \in Txns, s \in HotRows : Holds(u, s)' <=> Holds(u, s)
  BY Zenon, <1>1, <1>4 DEF Holds, Only
<1>8. HeldAlone'
  BY Zenon, <1>2, <1>7 DEF RowInv, HeldAlone
<1>9. e.me = t /\ ~e.granted /\ word[r].holder # NoTxn
  BY Zenon DEF ParkHeld, IsFree
<1> HIDE DEF r, e
<1>10. Entries'
  <2> SUFFICES ASSUME NEW s \in HotRows, NEW p \in queue'[s]
               PROVE  step'[p.me] = "parked" /\ atRow'[p.me] = s
    BY Zenon DEF Entries
  <2>1. CASE p = e /\ s = r
    BY Zenon, <1>4, <1>9, <2>1 DEF r
  <2>2. CASE p \in queue[s]
    <3>1. p.me \in Txns /\ step[p.me] = "parked" /\ atRow[p.me] = s
      BY <2>2 DEF RowInv, RowTypeOK, Parked, Entries
    <3> QED BY Zenon, <1>1, <1>4, <3>1 DEF Only
  <2> QED BY Zenon, <1>3, <2>1, <2>2
<1>11. OneEntry'
  BY <1>3, <1>6, <1>9 DEF RowInv, OneEntry
<1>12. GrantedHolds'
  BY Zenon, <1>2, <1>3, <1>9 DEF RowInv, GrantedHolds
<1>13. HolderReal'
  BY <1>2, <1>3, <1>7 DEF RowInv, HolderReal, RowTypeOK
<1>14. Marked'
  BY Zenon, <1>2, <1>3, <1>9 DEF RowInv, Marked, IsFree
<1>15. NotMine'
  BY Zenon, <1>4 DEF RowInv, NotMine
<1> QED BY Zenon, <1>5, <1>8, <1>10, <1>11, <1>12, <1>13, <1>14, <1>15 DEF RowInv

(* t's entry leaves the queue. *)
LEMMA LeaveQueue ==
  ASSUME RowInv, NEW t \in Txns, step[t] = "parked", atRow[t] \in HotRows, Only(t),
         queue' = [queue EXCEPT ![atRow[t]] = queue[atRow[t]] \ Mine(t)]
  PROVE  /\ \A s \in HotRows : \A p \in queue'[s] : p \in queue[s] /\ p.me # t
         /\ \A s \in HotRows : \A p \in queue[s] : p.me # t => p \in queue'[s]
         /\ Entries' /\ OneEntry'
<1>1. \A s \in HotRows : queue'[s] = IF s = atRow[t] THEN queue[s] \ Mine(t) ELSE queue[s]
  BY Zenon DEF RowInv, RowTypeOK
<1>2. \A s \in HotRows : \A p \in queue'[s] : p \in queue[s] /\ p.me # t
  <2> TAKE s \in HotRows
  <2> TAKE p \in queue'[s]
  <2>1. p \in queue[s]
    BY <1>1
  <2>2. atRow[p.me] = s
    <3>1. Entries
      BY Zenon DEF RowInv
    <3> QED BY <2>1, <3>1, Zenon DEF Entries
  <2>3. s = atRow[t] => p.me # t
    <3>1. s = atRow[t] => p \notin Mine(t)
      BY <1>1
    <3> QED BY <2>1, <3>1, Zenon DEF Mine
  <2> QED BY Zenon, <2>1, <2>2, <2>3
<1>3. \A s \in HotRows : \A p \in queue[s] : p.me # t => p \in queue'[s]
  BY <1>1 DEF Mine
<1>4. Entries'
  BY <1>2 DEF RowInv, Entries, RowTypeOK, Parked, Only
<1>5. OneEntry'
  BY Zenon, <1>2 DEF RowInv, OneEntry
<1> QED BY Zenon, <1>2, <1>3, <1>4, <1>5

LEMMA GrantedKeeps ==
  ASSUME RowInv, NEW t \in Txns, Granted(t)
  PROVE  RowInv'
<1>1. atRow[t] \in HotRows /\ step[t] = "parked" /\ atRow[t] \notin mine[t]
  BY Zenon DEF RowInv, RowTypeOK, NotMine, Granted, Go
<1>2. Only(t) /\ step'[t] = "got" /\ atRow' = atRow /\ mine' = mine /\ word' = word
  BY Zenon DEF RowInv, RowTypeOK, Granted, Go, Only
<1>3. RowTypeOK'
  BY Zenon, <1>1 DEF RowInv, RowTypeOK, Granted, Go, RowSteps, Mine
<1>4. PICK e \in queue[atRow[t]] : e.me = t /\ e.granted
  BY Zenon DEF Granted, Mine
<1>5. word[atRow[t]].holder = t
  BY Zenon, <1>1, <1>4 DEF RowInv, GrantedHolds
<1>6. /\ \A s \in HotRows : \A p \in queue'[s] : p \in queue[s] /\ p.me # t
      /\ \A s \in HotRows : \A p \in queue[s] : p.me # t => p \in queue'[s]
      /\ Entries' /\ OneEntry'
  BY Zenon, <1>1, <1>2, LeaveQueue DEF Granted
<1>7. \A u \in Txns, s \in HotRows : Holds(u, s)' <=> Holds(u, s) \/ (u = t /\ s = atRow[t])
  BY Zenon, <1>1, <1>2 DEF Holds, Only
<1>8. HeldAlone'
  BY Zenon, <1>2, <1>5, <1>7 DEF RowInv, HeldAlone
<1>9. GrantedHolds' /\ Marked' /\ NotMine'
  BY Zenon, <1>2, <1>6 DEF RowInv, GrantedHolds, Marked, IsFree, NotMine
<1>10. HolderReal'
  <2> SUFFICES ASSUME NEW s \in HotRows, word[s].holder # NoTxn
               PROVE  \/ Holds(word[s].holder, s)'
                      \/ \E p \in queue'[s] : p.granted /\ p.me = word[s].holder
    BY Zenon, <1>2 DEF HolderReal
  <2>1. word[s].holder \in Txns
    BY Zenon DEF RowInv, RowTypeOK
  <2>2. CASE Holds(word[s].holder, s)
    <3>1. Holds(word[s].holder, s)'
      BY Zenon, <1>2, <2>1, <2>2 DEF Holds, Only
    <3> QED BY Zenon, <3>1
  <2>3. ASSUME NEW p \in queue[s], p.granted, p.me = word[s].holder, p.me # t
        PROVE  \E q \in queue'[s] : q.granted /\ q.me = word[s].holder
    BY Zenon, <1>6, <2>3
  <2>4. ASSUME NEW p \in queue[s], p.me = word[s].holder, p.me = t
        PROVE  Holds(word[s].holder, s)'
    <3>1. s = atRow[t]
      BY Zenon, <2>4 DEF RowInv, Entries
    <3> QED BY Zenon, <1>2, <2>4, <3>1 DEF Holds
  <2> QED BY Zenon, <2>2, <2>3, <2>4 DEF RowInv, HolderReal
<1> QED BY Zenon, <1>3, <1>6, <1>8, <1>9, <1>10 DEF RowInv

LEMMA TimeoutKeeps ==
  ASSUME RowInv, NEW t \in Txns, LockTimeout(t)
  PROVE  RowInv'
<1>1. atRow[t] \in HotRows /\ step[t] = "parked"
  BY Zenon DEF RowInv, RowTypeOK, LockTimeout, Go
<1>2. Only(t) /\ step'[t] = "ending" /\ atRow'[t] = NoRow /\ mine' = mine
  BY Zenon DEF RowInv, RowTypeOK, LockTimeout, Go, Only
<1>3. RowTypeOK'
  <2>1. word' \in [HotRows -> [holder : Txns \cup {NoTxn}, waiters : BOOLEAN]]
    <3>1. /\ word \in [HotRows -> [holder : Txns \cup {NoTxn}, waiters : BOOLEAN]]
          /\ word' = [word EXCEPT ![atRow[t]].waiters = @ /\ queue[atRow[t]] # Mine(t)]
      BY Zenon DEF RowInv, RowTypeOK, LockTimeout
    <3>2. (word[atRow[t]].waiters /\ queue[atRow[t]] # Mine(t)) \in BOOLEAN
      BY Zenon
    <3> QED BY ZenonT(60), <1>1, <3>1, <3>2
  <2>2. queue' \in [HotRows -> SUBSET Parked]
    BY Zenon, <1>1 DEF RowInv, RowTypeOK, LockTimeout, Mine
  <2>3. /\ step' \in [Txns -> RowSteps] /\ atRow' \in [Txns -> HotRows \cup {NoRow}]
        /\ mine' \in [Txns -> SUBSET HotRows]
        /\ \A u \in Txns : atRow'[u] = NoRow <=> step'[u] \in {"run", "ending", "done"}
    BY Zenon, <1>1 DEF RowInv, RowTypeOK, LockTimeout, Go, RowSteps
  <2> QED BY Zenon, <2>1, <2>2, <2>3 DEF RowTypeOK
<1>4. /\ \A s \in HotRows : word'[s].holder = word[s].holder
      /\ \A s \in HotRows : s # atRow[t] => word'[s] = word[s]
      /\ word[atRow[t]].waiters /\ queue[atRow[t]] # Mine(t) => word'[atRow[t]].waiters
  BY ZenonT(30), <1>1 DEF RowInv, RowTypeOK, LockTimeout
<1>5. /\ \A s \in HotRows : \A p \in queue'[s] : p \in queue[s] /\ p.me # t
      /\ \A s \in HotRows : \A p \in queue[s] : p.me # t => p \in queue'[s]
      /\ Entries' /\ OneEntry'
  BY Zenon, <1>1, <1>2, LeaveQueue DEF LockTimeout
<1>6. \A u \in Txns, s \in HotRows : Holds(u, s)' <=> Holds(u, s)
  BY Zenon, <1>1, <1>2, RowAssumption DEF Holds, Only
<1>7. HeldAlone'
  BY Zenon, <1>4, <1>6 DEF RowInv, HeldAlone
<1>8. GrantedHolds' /\ NotMine'
  BY <1>2, <1>4, <1>5, RowAssumption DEF RowInv, GrantedHolds, NotMine, Only, RowTypeOK
<1>9. Marked'
  <2> SUFFICES ASSUME NEW s \in HotRows, NEW p \in queue'[s], ~p.granted
               PROVE  word'[s].waiters /\ word'[s].holder # NoTxn
    BY Zenon DEF Marked, IsFree
  <2>1. p \in queue[s] /\ p.me # t /\ word[s].waiters /\ word[s].holder # NoTxn
    BY Zenon, <1>5 DEF RowInv, Marked, IsFree
  <2>2. s = atRow[t] => queue[atRow[t]] # Mine(t)
    BY Zenon, <2>1 DEF Mine
  <2> QED BY Zenon, <1>4, <2>1, <2>2
<1>10. HolderReal'
  <2> SUFFICES ASSUME NEW s \in HotRows, word[s].holder # NoTxn
               PROVE  \/ Holds(word[s].holder, s)'
                      \/ \E p \in queue'[s] : p.granted /\ p.me = word[s].holder
    BY <1>4 DEF HolderReal, Holds
  <2>1. word[s].holder \in Txns /\ word'[s].holder = word[s].holder
    BY Zenon, <1>4 DEF RowInv, RowTypeOK
  <2>2. CASE Holds(word[s].holder, s)
    <3>1. word[s].holder # t \/ s \in mine[t]
      BY Zenon, <1>1, <2>2 DEF Holds
    <3> QED BY Zenon, <1>2, <2>1, <2>2, <3>1 DEF Holds, Only
  <2>3. ASSUME NEW p \in queue[s], p.granted, p.me = word[s].holder
        PROVE  \E q \in queue'[s] : q.granted /\ q.me = word[s].holder
    <3>1. p.me # t
      BY <2>3 DEF RowInv, Entries, LockTimeout, Mine
    <3> QED BY Zenon, <1>5, <2>3, <3>1
  <2> QED BY Zenon, <2>2, <2>3 DEF RowInv, HolderReal
<1> QED BY Zenon, <1>3, <1>5, <1>7, <1>8, <1>9, <1>10 DEF RowInv

(* The row goes to the oldest waiter: its entry is granted. *)
Handed(Q, u) == {IF p.me = u THEN [p EXCEPT !.granted = TRUE] ELSE p : p \in Q}

LEMMA GrantEntry ==
  ASSUME NEW Q \in SUBSET Parked, NEW u \in Txns, \A p \in Q : ~p.granted
  PROVE  /\ Handed(Q, u) \subseteq Parked
         /\ \A q \in Handed(Q, u) : \E p \in Q : q.me = p.me /\ (q.granted <=> p.me = u) /\ (p.me # u => q = p)
         /\ \A p \in Q : \E q \in Handed(Q, u) : q.me = p.me /\ (q.granted <=> p.me = u)
<1>1. \A p \in Parked : /\ [p EXCEPT !.granted = TRUE] \in Parked
                         /\ [p EXCEPT !.granted = TRUE].me = p.me
                         /\ [p EXCEPT !.granted = TRUE].granted
  BY Zenon DEF Parked
<1>2. Handed(Q, u) \subseteq Parked
  BY ZenonT(30), <1>1 DEF Handed
<1>3. ASSUME NEW q \in Handed(Q, u)
      PROVE  \E p \in Q : q.me = p.me /\ (q.granted <=> p.me = u) /\ (p.me # u => q = p)
  <2>1. PICK p \in Q : q = IF p.me = u THEN [p EXCEPT !.granted = TRUE] ELSE p
    BY Zenon, <1>3 DEF Handed
  <2> QED BY Zenon, <1>1, <2>1
<1>4. ASSUME NEW p \in Q
      PROVE  \E q \in Handed(Q, u) : q.me = p.me /\ (q.granted <=> p.me = u)
  <2> DEFINE q == IF p.me = u THEN [p EXCEPT !.granted = TRUE] ELSE p
  <2>1. q \in Handed(Q, u)
    BY Zenon DEF Handed
  <2>2. q.me = p.me /\ (q.granted <=> p.me = u)
    BY Zenon, <1>1
  <2> QED BY Zenon, <2>1, <2>2
<1> QED BY Zenon, <1>2, <1>3, <1>4

LEMMA HandKeeps ==
  ASSUME RowInv, NEW t \in Txns, Hand(t)
  PROVE  RowInv'
<1> DEFINE r == atRow[t]
           W == Waiting(r)
           u == Oldest(W)
<1>1. r \in HotRows /\ step[t] = "hand" /\ r \notin mine[t]
  BY Zenon DEF RowInv, RowTypeOK, NotMine, Hand, Go
<1>2. Only(t) /\ step'[t] = "ending" /\ atRow'[t] = NoRow /\ mine' = mine
  BY Zenon DEF RowInv, RowTypeOK, Hand, Go, Only
<1>3. word[r].holder = t
  BY Zenon, <1>1 DEF RowInv, HeldAlone, Holds
<1>4. \A p \in queue[r] : ~p.granted
  <2> SUFFICES ASSUME NEW p \in queue[r], p.granted PROVE FALSE
    BY Zenon
  <2>1. p.me = t
    BY Zenon, <1>1, <1>3 DEF RowInv, GrantedHolds
  <2> QED BY Zenon, <1>1, <2>1 DEF RowInv, Entries
<1>5. queue \in [HotRows -> SUBSET Parked] /\ queue[r] \subseteq Parked
  BY Zenon, <1>1 DEF RowInv, RowTypeOK
<1>6. CASE W = {}
  <2>1. word' = [word EXCEPT ![r] = Free] /\ queue' = queue
    BY Zenon, <1>6 DEF Hand
  <2>2. \A p \in queue[r] : FALSE
    BY Zenon, <1>4, <1>6 DEF Waiting
  <2>3. RowTypeOK'
    <3>1. Free \in [holder : Txns \cup {NoTxn}, waiters : BOOLEAN]
      BY Zenon DEF Free
    <3> QED BY Zenon, <1>1, <1>2, <2>1, <3>1 DEF RowInv, RowTypeOK, Only, Hand, Go, RowSteps
  <2> QED BY Zenon, <1>1, <1>2, <2>1, <2>2, <2>3, FreeKeeps
<1>7. CASE W # {}
  <2>1. W \subseteq Txns
    BY Zenon, <1>5 DEF Waiting, Parked
  <2>2. u \in W
    <3> HIDE DEF W
    <3> QED BY Zenon, <1>7, <2>1, RowAssumption, OldestIs
  <2>3. PICK e \in queue[r] : e.me = u
    BY SMTT(40), <2>2 DEF Waiting
  <2>4. /\ word' = [word EXCEPT ![r] = [holder |-> u, waiters |-> W # {u}]]
        /\ queue' = [queue EXCEPT ![r] = Handed(queue[r], u)]
    BY Zenon, <1>7 DEF Hand, Grant, Handed
  <2>5. \A p \in queue[r] : p.me # u => W # {u}
    BY Zenon, <1>4 DEF Waiting
  <2>6. u \in Txns
    BY Zenon, <2>1, <2>2
  <2> HIDE DEF u, W
  <2>7. /\ \A s \in HotRows : s # r => word'[s] = word[s] /\ queue'[s] = queue[s]
        /\ word'[r].holder = u /\ word'[r].waiters = (W # {u})
        /\ queue'[r] = Handed(queue[r], u)
    BY Zenon, <1>1, <1>5, <2>4 DEF RowInv, RowTypeOK
  <2>8. /\ queue'[r] \subseteq Parked
        /\ \A q \in queue'[r] : \E p \in queue[r] :
              q.me = p.me /\ (q.granted <=> p.me = u) /\ (p.me # u => q = p)
        /\ \A p \in queue[r] : \E q \in queue'[r] : q.me = p.me /\ (q.granted <=> p.me = u)
    BY SMTT(30), <1>4, <1>5, <2>6, <2>7, GrantEntry
  <2>9. RowTypeOK'
    <3>1. [holder |-> u, waiters |-> W # {u}] \in [holder : Txns \cup {NoTxn}, waiters : BOOLEAN]
      BY Zenon, <2>6
    <3>2. word' \in [HotRows -> [holder : Txns \cup {NoTxn}, waiters : BOOLEAN]]
      BY Zenon, <1>1, <2>4, <3>1 DEF RowInv, RowTypeOK
    <3>3. queue' \in [HotRows -> SUBSET Parked]
      BY Zenon, <1>5, <2>4, <2>7, <2>8
    <3> QED BY Zenon, <1>1, <1>2, <3>2, <3>3 DEF RowInv, RowTypeOK, Only, Hand, Go, RowSteps
  <2>10. \A x \in Txns, s \in HotRows : Holds(x, s)' <=> Holds(x, s) /\ ~(x = t /\ s = r)
    BY Zenon, <1>1, <1>2, RowAssumption DEF Only, Holds
  <2>11. HeldAlone'
    BY <1>3, <2>7, <2>10 DEF RowInv, HeldAlone
  <2>12. Entries'
    <3> SUFFICES ASSUME NEW s \in HotRows, NEW q \in queue'[s]
                 PROVE  step'[q.me] = "parked" /\ atRow'[q.me] = s
      BY Zenon DEF Entries
    <3>1. PICK p \in queue[s] : q.me = p.me
      BY Zenon, <2>7, <2>8
    <3>2. p.me \in Txns /\ step[p.me] = "parked" /\ atRow[p.me] = s
      BY <1>5, <3>1 DEF RowInv, Entries, Parked
    <3> QED BY Zenon, <1>1, <1>2, <3>1, <3>2 DEF Only
  <2>13. OneEntry'
    <3> SUFFICES ASSUME NEW s \in HotRows, NEW a \in queue'[s], NEW b \in queue'[s], a.me = b.me
                 PROVE  a = b
      BY Zenon DEF OneEntry
    <3>1. CASE s # r
      BY Zenon, <2>7, <3>1 DEF RowInv, OneEntry
    <3>2. CASE s = r
      <4>1. PICK p \in queue[r] : a = IF p.me = u THEN [p EXCEPT !.granted = TRUE] ELSE p
        BY Zenon, <2>7, <3>2 DEF Handed
      <4>2. PICK q \in queue[r] : b = IF q.me = u THEN [q EXCEPT !.granted = TRUE] ELSE q
        BY Zenon, <2>7, <3>2 DEF Handed
      <4>3. a.me = p.me /\ b.me = q.me
        BY Zenon, <1>5, <4>1, <4>2 DEF Parked
      <4>4. p = q
        BY Zenon, <1>1, <4>3 DEF RowInv, OneEntry
      <4> QED BY Zenon, <4>1, <4>2, <4>4
    <3> QED BY Zenon, <3>1, <3>2
  <2>14. GrantedHolds'
    <3> SUFFICES ASSUME NEW s \in HotRows, NEW q \in queue'[s], q.granted
                 PROVE  word'[s].holder = q.me
      BY Zenon DEF GrantedHolds
    <3>1. CASE s # r
      BY ZenonT(30), <2>7, <3>1 DEF RowInv, GrantedHolds
    <3>2. CASE s = r
      BY Zenon, <2>7, <2>8, <3>2
    <3> QED BY Zenon, <3>1, <3>2
  <2>15. HolderReal'
    <3> SUFFICES ASSUME NEW s \in HotRows, word'[s].holder # NoTxn
                 PROVE  \/ Holds(word[s].holder, s)'
                        \/ \E q \in queue'[s] : q.granted /\ q.me = word'[s].holder
      BY Zenon DEF HolderReal
    <3>1. CASE s = r
      BY <2>3, <2>7, <2>8, <3>1
    <3>2. CASE s # r
      <4>1. word'[s] = word[s] /\ queue'[s] = queue[s] /\ word[s].holder \in Txns
        BY <2>7, <3>2 DEF RowInv, RowTypeOK
      <4>2. Holds(word[s].holder, s) => Holds(word[s].holder, s)'
        BY Zenon, <1>1, <1>2, <3>2, <4>1 DEF Holds, Only
      <4> QED BY Zenon, <4>1, <4>2 DEF RowInv, HolderReal
    <3> QED BY Zenon, <3>1, <3>2
  <2>16. Marked'
    <3> SUFFICES ASSUME NEW s \in HotRows, NEW q \in queue'[s], ~q.granted
                 PROVE  word'[s].waiters /\ word'[s].holder # NoTxn
      BY Zenon DEF Marked, IsFree
    <3>1. CASE s # r
      BY Zenon, <2>7, <3>1 DEF RowInv, Marked, IsFree
    <3>2. CASE s = r
      BY Zenon, <2>5, <2>6, <2>7, <2>8, <3>2, RowAssumption
    <3> QED BY Zenon, <3>1, <3>2
  <2>17. NotMine'
    BY Zenon, <1>2, RowAssumption DEF RowInv, NotMine, Only, RowTypeOK
  <2> QED BY Zenon, <2>9, <2>11, <2>12, <2>13, <2>14, <2>15, <2>16, <2>17 DEF RowInv
<1> QED BY Zenon, <1>6, <1>7

-----------------------------------------------------------------------------
LEMMA RowStarts == RowInit => RowInv
BY RowAssumption DEF RowInit, RowInv, RowTypeOK, RowSteps, Free, HeldAlone, Holds, Entries,
   OneEntry, GrantedHolds, HolderReal, Marked, NotMine

LEMMA StepKeeps ==
  ASSUME RowInv, NEW t \in Txns,
         \/ Runs(t) \/ Refuse(t) \/ LockTimeout(t)
         \/ \E r \in HotRows : ClaimFree(t, r) \/ ClaimWaits(t, r) \/ ClaimDies(t, r)
  PROVE  RowInv'
<1>0. atRow[t] \notin mine[t]
  BY Zenon DEF RowInv, NotMine
<1>1. ASSUME NEW r \in HotRows, ClaimWaits(t, r) PROVE RowInv'
  <2>1. Only(t) /\ word' = word /\ queue' = queue /\ step[t] # "parked"
    BY Zenon, <1>1 DEF ClaimWaits, Go, Only, RowInv, RowTypeOK
  <2>2. RowTypeOK'
    BY Zenon, <1>1, RowAssumption DEF ClaimWaits, Go, RowInv, RowTypeOK, RowSteps
  <2>3. atRow'[t] \notin mine'[t]
    BY Zenon, <1>1, <1>0, RowAssumption DEF ClaimWaits, Go, RowInv, RowTypeOK
  <2>4. \A s \in HotRows : Holds(t, s)' <=> Holds(t, s)
    BY Zenon, <1>1, RowAssumption DEF ClaimWaits, Go, Holds, RowInv, RowTypeOK
  <2> QED BY Zenon, <2>1, <2>2, <2>3, <2>4, QuietKeeps
<1>2. ASSUME NEW r \in HotRows, ClaimDies(t, r) PROVE RowInv'
  <2>1. Only(t) /\ word' = word /\ queue' = queue /\ step[t] # "parked"
    BY Zenon, <1>2 DEF ClaimDies, Go, Only, RowInv, RowTypeOK
  <2>2. RowTypeOK'
    BY Zenon, <1>2, RowAssumption DEF ClaimDies, Go, RowInv, RowTypeOK, RowSteps
  <2>3. atRow'[t] \notin mine'[t]
    BY Zenon, <1>2, <1>0, RowAssumption DEF ClaimDies, Go, RowInv, RowTypeOK
  <2>4. \A s \in HotRows : Holds(t, s)' <=> Holds(t, s)
    BY Zenon, <1>2, RowAssumption DEF ClaimDies, Go, Holds, RowInv, RowTypeOK
  <2> QED BY Zenon, <2>1, <2>2, <2>3, <2>4, QuietKeeps
<1>3. CASE SpinFree(t)
  <2>1. Only(t) /\ word' = word /\ queue' = queue /\ step[t] # "parked"
    BY Zenon, <1>3 DEF SpinFree, Go, Only, RowInv, RowTypeOK
  <2>2. RowTypeOK'
    BY Zenon, <1>3, RowAssumption DEF SpinFree, Go, RowInv, RowTypeOK, RowSteps
  <2>3. atRow'[t] \notin mine'[t]
    BY Zenon, <1>3, <1>0, RowAssumption DEF SpinFree, Go, RowInv, RowTypeOK
  <2>4. \A s \in HotRows : Holds(t, s)' <=> Holds(t, s)
    BY Zenon, <1>3, RowAssumption DEF SpinFree, Go, Holds, RowInv, RowTypeOK
  <2> QED BY Zenon, <2>1, <2>2, <2>3, <2>4, QuietKeeps
<1>4. CASE SpinOut(t)
  <2>1. Only(t) /\ word' = word /\ queue' = queue /\ step[t] # "parked"
    BY Zenon, <1>4 DEF SpinOut, Go, Only, RowInv, RowTypeOK
  <2>2. RowTypeOK'
    BY Zenon, <1>4, RowAssumption DEF SpinOut, Go, RowInv, RowTypeOK, RowSteps
  <2>3. atRow'[t] \notin mine'[t]
    BY Zenon, <1>4, <1>0, RowAssumption DEF SpinOut, Go, RowInv, RowTypeOK
  <2>4. \A s \in HotRows : Holds(t, s)' <=> Holds(t, s)
    BY Zenon, <1>4, RowAssumption DEF SpinOut, Go, Holds, RowInv, RowTypeOK
  <2> QED BY Zenon, <2>1, <2>2, <2>3, <2>4, QuietKeeps
<1>5. CASE TakeLost(t)
  <2>1. Only(t) /\ word' = word /\ queue' = queue /\ step[t] # "parked"
    BY Zenon, <1>5 DEF TakeLost, Go, Only, RowInv, RowTypeOK
  <2>2. RowTypeOK'
    BY Zenon, <1>5, RowAssumption DEF TakeLost, Go, RowInv, RowTypeOK, RowSteps
  <2>3. atRow'[t] \notin mine'[t]
    BY Zenon, <1>5, <1>0, RowAssumption DEF TakeLost, Go, RowInv, RowTypeOK
  <2>4. \A s \in HotRows : Holds(t, s)' <=> Holds(t, s)
    BY Zenon, <1>5, RowAssumption DEF TakeLost, Go, Holds, RowInv, RowTypeOK
  <2> QED BY Zenon, <2>1, <2>2, <2>3, <2>4, QuietKeeps
<1>6. CASE Keep(t)
  <2>1. Only(t) /\ word' = word /\ queue' = queue /\ step[t] # "parked"
    BY Zenon, <1>6 DEF Keep, Go, Only, RowInv, RowTypeOK
  <2>2. RowTypeOK'
    BY Zenon, <1>6, RowAssumption DEF Keep, Go, RowInv, RowTypeOK, RowSteps
  <2>3. atRow'[t] \notin mine'[t]
    BY Zenon, <1>6, <1>0, RowAssumption DEF Keep, Go, RowInv, RowTypeOK
  <2>4. \A s \in HotRows : Holds(t, s)' <=> Holds(t, s)
    BY Zenon, <1>6, RowAssumption DEF Keep, Go, Holds, RowInv, RowTypeOK
  <2> QED BY Zenon, <2>1, <2>2, <2>3, <2>4, QuietKeeps
<1>7. CASE Refuse(t)
  <2>1. Only(t) /\ word' = word /\ queue' = queue /\ step[t] # "parked"
    BY Zenon, <1>7 DEF Refuse, Go, Only, RowInv, RowTypeOK
  <2>2. RowTypeOK'
    BY Zenon, <1>7, RowAssumption DEF Refuse, Go, RowInv, RowTypeOK, RowSteps
  <2>3. atRow'[t] \notin mine'[t]
    BY Zenon, <1>7, <1>0, RowAssumption DEF Refuse, Go, RowInv, RowTypeOK
  <2>4. \A s \in HotRows : Holds(t, s)' <=> Holds(t, s)
    BY Zenon, <1>7, RowAssumption DEF Refuse, Go, Holds, RowInv, RowTypeOK
  <2> QED BY Zenon, <2>1, <2>2, <2>3, <2>4, QuietKeeps
<1>8. CASE Finish(t)
  <2>1. Only(t) /\ word' = word /\ queue' = queue /\ step[t] # "parked"
    BY Zenon, <1>8 DEF Finish, Go, Only, RowInv, RowTypeOK
  <2>2. RowTypeOK'
    BY Zenon, <1>8, RowAssumption DEF Finish, Go, RowInv, RowTypeOK, RowSteps
  <2>3. atRow'[t] \notin mine'[t]
    BY Zenon, <1>8, <1>0, RowAssumption DEF Finish, Go, RowInv, RowTypeOK
  <2>4. \A s \in HotRows : Holds(t, s)' <=> Holds(t, s)
    BY Zenon, <1>8, RowAssumption DEF Finish, Go, Holds, RowInv, RowTypeOK
  <2> QED BY Zenon, <2>1, <2>2, <2>3, <2>4, QuietKeeps
<1>9. ASSUME NEW r \in HotRows, LetGo(t, r) PROVE RowInv'
  <2>1. Only(t) /\ word' = word /\ queue' = queue /\ step[t] # "parked"
    BY Zenon, <1>9 DEF LetGo, Go, Only, RowInv, RowTypeOK
  <2>2. RowTypeOK'
    BY ZenonT(30), <1>9, RowAssumption DEF LetGo, Go, RowInv, RowTypeOK, RowSteps
  <2>3. atRow'[t] \notin mine'[t]
    BY Zenon, <1>9, <1>0, RowAssumption DEF LetGo, Go, RowInv, RowTypeOK
  <2>4. \A s \in HotRows : Holds(t, s)' <=> Holds(t, s)
    BY Zenon, <1>9, RowAssumption DEF LetGo, Go, Holds, RowInv, RowTypeOK
  <2> QED BY Zenon, <2>1, <2>2, <2>3, <2>4, QuietKeeps
<1>10. CASE Done(t)
  <2>1. Only(t) /\ word' = word /\ queue' = queue /\ step[t] # "parked"
    BY Zenon, <1>10 DEF Done, Go, Only, RowInv, RowTypeOK
  <2>2. RowTypeOK'
    BY Zenon, <1>10, RowAssumption DEF Done, Go, RowInv, RowTypeOK, RowSteps
  <2>3. atRow'[t] \notin mine'[t]
    BY Zenon, <1>10, <1>0, RowAssumption DEF Done, Go, RowInv, RowTypeOK
  <2>4. \A s \in HotRows : Holds(t, s)' <=> Holds(t, s)
    BY Zenon, <1>10, RowAssumption DEF Done, Go, Holds, RowInv, RowTypeOK
  <2> QED BY Zenon, <2>1, <2>2, <2>3, <2>4, QuietKeeps
<1>11. CASE ReleaseSees(t)
  <2>1. Only(t) /\ word' = word /\ queue' = queue /\ step[t] # "parked"
    BY Zenon, <1>11 DEF ReleaseSees, Go, Only, RowInv, RowTypeOK
  <2>2. RowTypeOK'
    BY Zenon, <1>11, RowAssumption DEF ReleaseSees, Go, RowInv, RowTypeOK, RowSteps
  <2>3. atRow'[t] \notin mine'[t]
    BY Zenon, <1>11, <1>0, RowAssumption DEF ReleaseSees, Go, RowInv, RowTypeOK
  <2>4. \A s \in HotRows : Holds(t, s)' <=> Holds(t, s)
    BY Zenon, <1>11, RowAssumption DEF ReleaseSees, Go, Holds, RowInv, RowTypeOK
  <2> QED BY Zenon, <2>1, <2>2, <2>3, <2>4, QuietKeeps
<1>12. ASSUME NEW r \in HotRows, ClaimFree(t, r) PROVE RowInv'
  <2>1. /\ r \in HotRows /\ r \notin mine[t] /\ IsFree(r) /\ Take(r, t) /\ queue' = queue
        /\ step[t] \notin {"parked", "got", "release", "hand"}
    BY Zenon, <1>12, <1>0 DEF ClaimFree, Go, RowInv, RowTypeOK
  <2>2. Only(t) /\ step'[t] = "got" /\ atRow'[t] = r /\ mine'[t] = mine[t]
    BY Zenon, <1>12 DEF ClaimFree, Go, Only, RowInv, RowTypeOK
  <2>3. RowTypeOK'
    <3>1. [word[r] EXCEPT !.holder = t] \in [holder : Txns \cup {NoTxn}, waiters : BOOLEAN]
      BY ZenonT(30), <2>1 DEF RowInv, RowTypeOK
    <3>2. word' \in [HotRows -> [holder : Txns \cup {NoTxn}, waiters : BOOLEAN]]
      BY Zenon, <2>1, <3>1 DEF Take, RowInv, RowTypeOK
    <3> QED BY Zenon, <1>12, <2>1, <3>2, RowAssumption DEF ClaimFree, Go, RowInv, RowTypeOK, RowSteps
  <2> QED BY Zenon, <2>1, <2>2, <2>3, TakeKeeps
<1>13. CASE TakeIt(t)
  <2>1. /\ atRow[t] \in HotRows /\ atRow[t] \notin mine[t] /\ IsFree(atRow[t]) /\ Take(atRow[t], t) /\ queue' = queue
        /\ step[t] \notin {"parked", "got", "release", "hand"}
    BY Zenon, <1>13, <1>0 DEF TakeIt, Go, RowInv, RowTypeOK
  <2>2. Only(t) /\ step'[t] = "got" /\ atRow'[t] = atRow[t] /\ mine'[t] = mine[t]
    BY Zenon, <1>13 DEF TakeIt, Go, Only, RowInv, RowTypeOK
  <2>3. RowTypeOK'
    <3>1. [word[atRow[t]] EXCEPT !.holder = t] \in [holder : Txns \cup {NoTxn}, waiters : BOOLEAN]
      BY ZenonT(30), <2>1 DEF RowInv, RowTypeOK
    <3>2. word' \in [HotRows -> [holder : Txns \cup {NoTxn}, waiters : BOOLEAN]]
      BY Zenon, <2>1, <3>1 DEF Take, RowInv, RowTypeOK
    <3> QED BY Zenon, <1>13, <2>1, <3>2, RowAssumption DEF TakeIt, Go, RowInv, RowTypeOK, RowSteps
  <2> QED BY Zenon, <2>1, <2>2, <2>3, TakeKeeps
<1>14. CASE ParkFree(t)
  <2>1. /\ atRow[t] \in HotRows /\ atRow[t] \notin mine[t] /\ IsFree(atRow[t]) /\ Take(atRow[t], t) /\ queue' = queue
        /\ step[t] \notin {"parked", "got", "release", "hand"}
    BY Zenon, <1>14, <1>0 DEF ParkFree, Go, RowInv, RowTypeOK
  <2>2. Only(t) /\ step'[t] = "got" /\ atRow'[t] = atRow[t] /\ mine'[t] = mine[t]
    BY Zenon, <1>14 DEF ParkFree, Go, Only, RowInv, RowTypeOK
  <2>3. RowTypeOK'
    <3>1. [word[atRow[t]] EXCEPT !.holder = t] \in [holder : Txns \cup {NoTxn}, waiters : BOOLEAN]
      BY ZenonT(30), <2>1 DEF RowInv, RowTypeOK
    <3>2. word' \in [HotRows -> [holder : Txns \cup {NoTxn}, waiters : BOOLEAN]]
      BY Zenon, <2>1, <3>1 DEF Take, RowInv, RowTypeOK
    <3> QED BY Zenon, <1>14, <2>1, <3>2, RowAssumption DEF ParkFree, Go, RowInv, RowTypeOK, RowSteps
  <2> QED BY Zenon, <2>1, <2>2, <2>3, TakeKeeps
<1>15. CASE ReleaseFree(t)
  <2>1. /\ atRow[t] \in HotRows /\ step[t] = "release" /\ queue' = queue
        /\ word' = [word EXCEPT ![atRow[t]] = Free]
    BY Zenon, <1>15 DEF ReleaseFree, Go, RowInv, RowTypeOK
  <2>2. Only(t) /\ step'[t] = "ending" /\ atRow'[t] = NoRow /\ mine'[t] = mine[t]
    BY Zenon, <1>15 DEF ReleaseFree, Go, Only, RowInv, RowTypeOK
  <2>3. RowTypeOK'
    <3>1. Free \in [holder : Txns \cup {NoTxn}, waiters : BOOLEAN]
      BY Zenon DEF Free
    <3> QED BY <1>15, <2>1, <3>1 DEF ReleaseFree, Go, RowInv, RowTypeOK, RowSteps
  <2>4. \A p \in queue[atRow[t]] : p.granted
    BY Zenon, <1>15, <2>1 DEF ReleaseFree, RowInv, Marked
  <2> QED BY Zenon, <2>1, <2>2, <2>3, <2>4, FreeKeeps
<1> QED
  BY Zenon, <1>1, <1>2, <1>3, <1>4, <1>5, <1>6, <1>7, <1>8, <1>9, <1>10, <1>11, <1>12, <1>13, <1>14, <1>15,
     ParkKeeps, GrantedKeeps, TimeoutKeeps, HandKeeps DEF Runs

LEMMA RowKeeps == RowInv /\ [RowNext]_rowVars => RowInv'
<1> SUFFICES ASSUME RowInv, [RowNext]_rowVars PROVE RowInv'
  BY Zenon
<1>1. CASE UNCHANGED rowVars
  BY <1>1 DEF rowVars, RowInv, RowTypeOK, HeldAlone, Holds, Entries, OneEntry, GrantedHolds,
     HolderReal, Marked, NotMine, IsFree
<1>2. CASE RowNext
  BY Zenon, <1>2, StepKeeps DEF RowNext
<1> QED BY Zenon, <1>1, <1>2

(* For any transactions and rows: two never hold one row at once (claim and *)
(* release of hot.rs, park.rs).                                             *)
THEOREM RowAlone == RowSpec => []HeldAlone
BY InvIsSafe, RowStarts, RowKeeps, PTL DEF RowSpec

(* For any transactions and rows: a waiter that was not handed its row has  *)
(* a marked row and a holder before it that will pass through release and   *)
(* see it, so no wakeup is lost (release of hot.rs, Parking::park).         *)
THEOREM RowSeen == RowSpec => []WaiterSeen
BY InvIsSafe, RowStarts, RowKeeps, PTL DEF RowSpec

(* A row with a waiter is held and marked, so nobody takes it and no        *)
(* release frees it: its holder changes only by a handoff.                  *)
LEMMA StepHands ==
  ASSUME RowInv, NEW r \in HotRows, Waiting(r) # {}, word'[r].holder # word[r].holder, RowNext
  PROVE  word'[r].holder = Oldest(Waiting(r))
<1>1. ~IsFree(r) /\ word[r].waiters
  <2>1. PICK p \in queue[r] : ~p.granted
    BY Zenon DEF Waiting
  <2> QED BY Zenon, <2>1 DEF RowInv, Marked
<1>2. word \in [HotRows -> [holder : Txns \cup {NoTxn}, waiters : BOOLEAN]]
  BY Zenon DEF RowInv, RowTypeOK
<1>3. PICK t \in Txns : \/ Runs(t) \/ Refuse(t) \/ LockTimeout(t)
                        \/ \E s \in HotRows : ClaimFree(t, s) \/ ClaimWaits(t, s) \/ ClaimDies(t, s)
  BY Zenon DEF RowNext
<1>4. ASSUME NEW s \in HotRows, ClaimFree(t, s) PROVE FALSE
  BY Zenon, <1>1, <1>2, <1>4 DEF ClaimFree, Take
<1>5. CASE TakeIt(t) \/ ParkFree(t)
  BY Zenon, <1>1, <1>2, <1>5 DEF TakeIt, ParkFree, Take
<1>6. CASE ParkHeld(t)
  BY Zenon, <1>2, <1>6 DEF ParkHeld
<1>7. CASE LockTimeout(t)
  BY Zenon, <1>2, <1>7 DEF LockTimeout
<1>8. CASE ReleaseFree(t)
  BY Zenon, <1>1, <1>2, <1>8 DEF ReleaseFree
<1>9. CASE Hand(t)
  <2>1. CASE atRow[t] = r
    BY <1>2, <1>9, <2>1 DEF Hand
  <2>2. CASE atRow[t] # r
    BY Zenon, <1>2, <1>9, <2>2 DEF Hand
  <2> QED BY Zenon, <2>1, <2>2
<1>10. word' # word
  BY Zenon
<1> QED
  BY Zenon, <1>3, <1>4, <1>5, <1>6, <1>7, <1>8, <1>9, <1>10 DEF Runs, Refuse, ClaimWaits, ClaimDies, SpinFree,
     SpinOut, TakeLost, Granted, Keep, Finish, LetGo, Done, ReleaseSees

(* For any transactions and rows: the holder of a row with waiters is       *)
(* followed by the oldest of them (Parking::hand of park.rs).               *)
THEOREM RowHanded == RowSpec => OldestNext
<1>1. RowInv /\ [RowNext]_rowVars =>
        [\A r \in HotRows : Waiting(r) # {} /\ word'[r].holder # word[r].holder =>
            word'[r].holder = Oldest(Waiting(r))]_rowVars
  BY Zenon, StepHands
<1> QED BY <1>1, RowStarts, RowKeeps, PTL DEF RowSpec, OldestNext

-----------------------------------------------------------------------------
(***************************************************************************)
(* Two facts about the advisory locks, for any number of sessions, keys and *)
(* locks: what is held is compatible, and no deadlock goes unseen though a  *)
(* session looks for one only once in a wait.                               *)
(*                                                                          *)
(* The second is inductive as it stands.  A step takes the lock table       *)
(* forward for one session.  If that session does not wait after the step   *)
(* it is in no ring, and the waits among the others are what they were.  If *)
(* it has just begun to wait its look is to come.  And if it has looked and *)
(* found nothing, the sessions it reaches by waits are a closed set without *)
(* it, which cuts every ring it could be in.                                *)
(***************************************************************************)

Counts == [session : Nat, transaction : Nat]
Table == holds \in [Keys -> [Owners -> [Modes -> Counts]]]
Waiters == wait \in [Owners -> WaitEntries \cup {NoWait}]

(* A step that leaves the locks of every session but o as they were. *)
OnlyHolds(o) == \A k \in Keys, p \in Owners \ {o}, m \in Modes : holds'[k][p][m] = holds[k][p][m]
OnlyWaits(o) == \A p \in Owners \ {o} : wait'[p] = wait[p]

-----------------------------------------------------------------------------
(* The waits among the others are decided by their own locks and requests. *)
LEMMA SameWaits ==
  ASSUME Waiters, NEW o \in Owners, OnlyHolds(o), OnlyWaits(o),
         NEW p \in Owners, NEW q \in Owners, p # o, q # o
  PROVE  q \in WaitsFor(p)' <=> q \in WaitsFor(p)
<1>1. wait'[p] = wait[p]
  BY Zenon DEF OnlyWaits
<1>2. CASE wait[p] = NoWait
  BY Zenon, <1>1, <1>2 DEF WaitsFor
<1>3. CASE wait[p] # NoWait
  <2>1. wait[p].key \in Keys
    BY Zenon, <1>3 DEF Waiters, WaitEntries
  <2>2. q \in Blockers(wait[p].key, p, wait[p].mode)' <=> q \in Blockers(wait[p].key, p, wait[p].mode)
    <3>1. q \in Blockers(wait[p].key, p, wait[p].mode)' <=>
          \E m \in Modes : holds'[wait'[p].key][q][m] # Nothing /\ q # p /\ "exclusive" \in {wait'[p].mode, m}
      BY Zenon DEF Blockers, Has
    <3>2. q \in Blockers(wait[p].key, p, wait[p].mode) <=>
          \E m \in Modes : holds[wait[p].key][q][m] # Nothing /\ q # p /\ "exclusive" \in {wait[p].mode, m}
      BY Zenon DEF Blockers, Has
    <3>3. \A m \in Modes : holds'[wait[p].key][q][m] = holds[wait[p].key][q][m]
      BY Zenon, <2>1 DEF OnlyHolds
    <3> QED BY Zenon, <1>1, <3>1, <3>2, <3>3
  <2> QED BY Zenon, <1>1, <1>3, <2>2 DEF WaitsFor
<1> QED BY Zenon, <1>2, <1>3

(* Every session of a ring waits for another one of it. *)
LEMMA RingWaits ==
  ASSUME NEW S \in SUBSET Owners, Ring(S), NEW o \in S
  PROVE  \E p \in S : p # o /\ p \in WaitsFor(o)
<1>1. {o} \in SUBSET S /\ {o} # {} /\ {o} # S
  BY Zenon DEF Ring
<1>2. \E a \in {o}, p \in S \ {o} : p \in WaitsFor(a)
  BY Zenon, <1>1 DEF Ring
<1> QED BY Zenon, <1>2

(* A ring of the others was there before the step. *)
LEMMA RingOfOthers ==
  ASSUME Waiters, RingHasLooker, NEW o \in Owners, OnlyHolds(o), OnlyWaits(o),
         NEW S \in SUBSET Owners, Ring(S)', o \notin S
  PROVE  \E p \in S : ~wait'[p].looked
<1>1. \A p, q \in S : q \in WaitsFor(p)' <=> q \in WaitsFor(p)
  BY Zenon, SameWaits
<1>2. Ring(S)
  <2>1. \E a, b \in S : a # b
    BY Zenon DEF Ring
  <2>2. ASSUME NEW P \in SUBSET S, P # {}, P # S
        PROVE  \E a \in P, b \in S \ P : b \in WaitsFor(a)
    <3>1. \E a \in P, b \in S \ P : b \in WaitsFor(a)'
      BY Zenon, <2>2 DEF Ring
    <3> QED BY Zenon, <1>1, <3>1
  <2> QED BY Zenon, <2>1, <2>2 DEF Ring
<1>3. PICK p \in S : ~wait[p].looked
  BY Zenon, <1>2 DEF RingHasLooker
<1> QED BY Zenon, <1>3 DEF OnlyWaits

(* A session that does not wait after its step. *)
LEMMA NotWaitingKeeps ==
  ASSUME Waiters, RingHasLooker, NEW o \in Owners, OnlyHolds(o), OnlyWaits(o), wait'[o] = NoWait
  PROVE  RingHasLooker'
<1> SUFFICES ASSUME NEW S \in SUBSET Owners, Ring(S)'
             PROVE  \E p \in S : ~wait'[p].looked
  BY Zenon DEF RingHasLooker
<1>1. WaitsFor(o)' = {}
  BY Zenon DEF WaitsFor
<1>2. o \notin S
  <2> SUFFICES ASSUME o \in S PROVE FALSE
    BY Zenon
  <2>1. \E p \in S \ {o} : p \in WaitsFor(o)'
    <3>1. {o} \in SUBSET S /\ {o} # {} /\ {o} # S
      BY Zenon DEF Ring
    <3>2. \E a \in {o}, p \in S \ {o} : p \in WaitsFor(a)'
      BY Zenon, <3>1 DEF Ring
    <3> QED BY Zenon, <3>2
  <2> QED BY Zenon, <1>1, <2>1
<1> QED BY Zenon, <1>2, RingOfOthers

-----------------------------------------------------------------------------
(* A session that looked and was not in a deadlock is in no ring. *)
LEMMA LookedAway ==
  ASSUME NEW o \in Owners, ~Deadlocked(o), NEW S \in SUBSET Owners, Ring(S)
  PROVE  o \notin S
<1> SUFFICES ASSUME o \in S PROVE FALSE
  BY Zenon
<1>1. PICK C \in SUBSET Owners : WaitsFor(o) \subseteq C /\ (\A p \in C : WaitsFor(p) \subseteq C) /\ o \notin C
  BY Zenon DEF Deadlocked
<1> DEFINE P == S \cap C
<1>2. PICK p \in S : p \in WaitsFor(o)
  BY Zenon, RingWaits
<1>3. P \in SUBSET S /\ P # {} /\ P # S
  BY Zenon, <1>1, <1>2
<1>4. PICK a \in P, b \in S \ P : b \in WaitsFor(a)
  BY Zenon, <1>3 DEF Ring
<1> QED BY Zenon, <1>1, <1>4

LEMMA LookKeeps ==
  ASSUME Waiters, RingHasLooker, NEW o \in Owners, Look(o)
  PROVE  RingHasLooker'
<1>1. OnlyHolds(o) /\ OnlyWaits(o) /\ holds' = holds
  BY Zenon DEF Look, OnlyHolds, OnlyWaits, Waiters
<1>2. CASE Deadlocked(o)
  <2>1. wait'[o] = NoWait
    BY Zenon, <1>2 DEF Look, Waiters
  <2> QED BY Zenon, <1>1, <2>1, NotWaitingKeeps
<1>3. CASE ~Deadlocked(o)
  <2> SUFFICES ASSUME NEW S \in SUBSET Owners, Ring(S)'
               PROVE  \E p \in S : ~wait'[p].looked
    BY Zenon DEF RingHasLooker
  <2>1. wait'[o] = [wait[o] EXCEPT !.looked = TRUE] /\ wait[o] \in WaitEntries
    BY Zenon, <1>3 DEF Look, Waiters
  <2>2. wait'[o].key = wait[o].key /\ wait'[o].mode = wait[o].mode
    BY Zenon, <2>1 DEF WaitEntries
  <2>3. \A q \in WaitsFor(o)' : q \in WaitsFor(o)
    BY Zenon, <1>1, <2>2 DEF WaitsFor, Blockers, Has, Look
  <2>4. \A p, q \in S : q \in WaitsFor(p)' => q \in WaitsFor(p)
    <3> TAKE p, q \in S
    <3>1. CASE p = o
      BY Zenon, <2>3, <3>1
    <3>2. CASE p # o
      BY Zenon, <1>1, <3>2 DEF WaitsFor, Blockers, Has, OnlyWaits
    <3> QED BY Zenon, <3>1, <3>2
  <2>5. Ring(S)
    <3>1. \E a, b \in S : a # b
      BY Zenon DEF Ring
    <3>2. ASSUME NEW P \in SUBSET S, P # {}, P # S
          PROVE  \E a \in P, b \in S \ P : b \in WaitsFor(a)
      <4>1. \E a \in P, b \in S \ P : b \in WaitsFor(a)'
        BY Zenon, <3>2 DEF Ring
      <4> QED BY Zenon, <2>4, <4>1
    <3> QED BY Zenon, <3>1, <3>2 DEF Ring
  <2>6. o \notin S
    BY Zenon, <1>3, <2>5, LookedAway
  <2> QED BY Zenon, <1>1, <2>6, RingOfOthers
<1> QED BY Zenon, <1>2, <1>3

(* A session that begins to wait has its look to come. *)
LEMMA BlockedKeeps ==
  ASSUME Waiters, RingHasLooker, NEW o \in Owners, OnlyHolds(o), OnlyWaits(o), ~wait'[o].looked
  PROVE  RingHasLooker'
<1> SUFFICES ASSUME NEW S \in SUBSET Owners, Ring(S)'
             PROVE  \E p \in S : ~wait'[p].looked
  BY Zenon DEF RingHasLooker
<1>1. CASE o \in S
  BY Zenon, <1>1
<1>2. CASE o \notin S
  BY Zenon, <1>2, RingOfOthers
<1> QED BY Zenon, <1>1, <1>2

-----------------------------------------------------------------------------
(* What a step does to the locks and the waits: those of one session, and   *)
(* a lock is added only where none blocks it.                               *)

LEMMA GrantAdds ==
  ASSUME Table, Compatible, NEW o \in Owners, NEW k \in Keys, NEW m \in Modes, NEW level \in Levels,
         Blockers(k, o, m) = {}, GrantLock(k, o, m, level)
  PROVE  Table' /\ OnlyHolds(o) /\ Compatible'
<1> DEFINE new == [holds[k][o][m] EXCEPT ![level] = holds[k][o][m][level] + 1]
<1>1. holds' = [holds EXCEPT ![k] = [holds[k] EXCEPT ![o] = [holds[k][o] EXCEPT ![m] = new]]]
  BY Zenon DEF GrantLock
<1>2. new \in Counts
  <2>1. holds[k][o][m] \in Counts
    BY DEF Table
  <2>2. CASE level = "session"
    BY <2>1, <2>2 DEF Counts
  <2>3. CASE level = "transaction"
    BY <2>1, <2>3 DEF Counts
  <2> QED BY Zenon, <2>2, <2>3 DEF Levels
<1> HIDE DEF new
<1>3. \A j \in Keys, p \in Owners, n \in Modes :
         holds'[j][p][n] = IF j = k /\ p = o /\ n = m THEN new ELSE holds[j][p][n]
  BY ZenonT(30), <1>1 DEF Table
<1>4. Table'
  BY Zenon, <1>1, <1>2 DEF Table
<1>5. OnlyHolds(o)
  BY <1>3 DEF OnlyHolds
<1>6. Compatible'
  <2> SUFFICES ASSUME NEW j \in Keys, NEW p \in Owners, NEW q \in Owners, NEW n \in Modes, NEW l \in Modes,
                      p # q, Has(j, p, n)', Has(j, q, l)'
               PROVE  n = "share" /\ l = "share"
    BY Zenon DEF Compatible
  <2>1. \A i \in Keys, r \in Owners, x \in Modes :
           Has(i, r, x)' => Has(i, r, x) \/ (i = k /\ r = o /\ x = m)
    BY <1>3 DEF Has
  <2>2. \A r \in Owners, x \in Modes : r # o /\ Has(k, r, x) => m = "share" /\ x = "share"
    BY Zenon DEF Blockers, Modes
  <2> QED BY <2>1, <2>2 DEF Compatible
<1> QED BY Zenon, <1>4, <1>5, <1>6

LEMMA DropKeeps ==
  ASSUME Compatible,
         \A k \in Keys, o \in Owners, m \in Modes : Has(k, o, m)' => Has(k, o, m)
  PROVE  Compatible'
BY DEF Compatible

LEMMA UnlockDrops ==
  ASSUME Table, Compatible, NEW o \in Owners, NEW k \in Keys, NEW m \in Modes, UnlockHeld(o, k, m)
  PROVE  Table' /\ OnlyHolds(o) /\ Compatible'
<1> DEFINE new == [holds[k][o][m] EXCEPT !.session = holds[k][o][m].session - 1]
<1>1. holds' = [holds EXCEPT ![k] = [holds[k] EXCEPT ![o] = [holds[k][o] EXCEPT ![m] = new]]]
  BY Zenon DEF UnlockHeld
<1>2. Has(k, o, m)
  BY DEF UnlockHeld, Has, Nothing
<1>3. new \in Counts
  <2>1. holds[k][o][m] \in Counts
    BY DEF Table
  <2> QED BY <2>1 DEF Counts, UnlockHeld
<1> HIDE DEF new
<1>4. \A j \in Keys, p \in Owners, n \in Modes :
         holds'[j][p][n] = IF j = k /\ p = o /\ n = m THEN new ELSE holds[j][p][n]
  BY Zenon, <1>1 DEF Table
<1>5. Table'
  BY Zenon, <1>1, <1>3 DEF Table
<1>6. \A j \in Keys, p \in Owners, n \in Modes : Has(j, p, n)' => Has(j, p, n)
  BY ZenonT(30), <1>2, <1>4 DEF Has
<1> QED BY <1>4, <1>5, <1>6, DropKeeps DEF OnlyHolds

(* One that takes locks of o away everywhere. *)
LEMMA SweepDrops ==
  ASSUME Compatible, NEW o \in Owners, OnlyHolds(o),
         \A k \in Keys, m \in Modes : holds[k][o][m] = Nothing => holds'[k][o][m] = Nothing
  PROVE  Compatible'
<1>1. \A j \in Keys, p \in Owners, n \in Modes : Has(j, p, n)' => Has(j, p, n)
  BY DEF Has, OnlyHolds
<1> QED BY Zenon, <1>1, DropKeeps

-----------------------------------------------------------------------------
AdvisoryInv == Table /\ Waiters /\ Compatible /\ RingHasLooker

LEMMA AdvisoryStarts == AdvisoryInit => AdvisoryInv
<1> SUFFICES ASSUME AdvisoryInit PROVE AdvisoryInv
  BY Zenon
<1>1. Table /\ Waiters
  BY Zenon DEF AdvisoryInit, Table, Waiters, Counts, Nothing
<1>2. Compatible
  BY Zenon DEF AdvisoryInit, Compatible, Has
<1>3. \A o \in Owners : WaitsFor(o) = {}
  BY Zenon DEF AdvisoryInit, WaitsFor
<1>4. RingHasLooker
  BY SMTT(40), <1>3, RingWaits DEF RingHasLooker, Ring
<1> QED BY Zenon, <1>1, <1>2, <1>4 DEF AdvisoryInv

LEMMA AdvisoryKeeps == AdvisoryInv /\ [AdvisoryNext]_advisoryVars => AdvisoryInv'
<1> SUFFICES ASSUME AdvisoryInv, [AdvisoryNext]_advisoryVars PROVE AdvisoryInv'
  BY Zenon
<1> USE DEF AdvisoryInv
<1>1. CASE UNCHANGED advisoryVars
  <2>1. holds' = holds /\ wait' = wait
    BY Zenon, <1>1 DEF advisoryVars
  <2>2. Table' /\ Waiters' /\ Compatible'
    BY <2>1 DEF Table, Waiters, Compatible, Has
  <2>3. RingHasLooker'
    <3>1. \A S \in SUBSET Owners : Ring(S)' = Ring(S)
      BY <2>1 DEF Ring, WaitsFor, Blockers, Has
    <3> QED BY Zenon, <2>1, <3>1 DEF RingHasLooker
  <2> QED BY Zenon, <2>2, <2>3
<1>2. CASE AdvisoryNext
  <2>1. PICK o \in Owners :
          \/ LockGranted(o) \/ GiveUp(o) \/ Look(o)
          \/ UnlockAll(o) \/ EndTransaction(o) \/ EndSession(o)
          \/ \E k \in Keys, m \in Modes : UnlockHeld(o, k, m)
          \/ \E q \in Requests : LockFree(o, q[1], q[2], q[3]) \/ LockBlocked(o, q[1], q[2], q[3])
    BY Zenon, <1>2 DEF AdvisoryNext
  <2>2. CASE LockGranted(o)
    <3>1. wait[o].key \in Keys /\ wait[o].mode \in Modes /\ wait[o].level \in Levels
      BY Zenon, <2>2 DEF LockGranted, Waiters, WaitEntries
    <3>2. Table' /\ OnlyHolds(o) /\ Compatible'
      BY Zenon, <2>2, <3>1, GrantAdds DEF LockGranted
    <3>3. Waiters' /\ OnlyWaits(o) /\ wait'[o] = NoWait
      BY Zenon, <2>2 DEF LockGranted, Waiters, OnlyWaits
    <3> QED BY Zenon, <3>2, <3>3, NotWaitingKeeps
  <2>3. CASE GiveUp(o)
    <3>1. Table' /\ OnlyHolds(o) /\ Compatible'
      BY <2>3 DEF GiveUp, Table, OnlyHolds, Compatible, Has
    <3>2. Waiters' /\ OnlyWaits(o) /\ wait'[o] = NoWait
      BY Zenon, <2>3 DEF GiveUp, Waiters, OnlyWaits
    <3> QED BY Zenon, <3>1, <3>2, NotWaitingKeeps
  <2>4. CASE Look(o)
    <3>1. Table' /\ Compatible'
      BY <2>4 DEF Look, Table, Compatible, Has
    <3>2. Waiters'
      BY ZenonT(60), <2>4 DEF Look, Waiters, WaitEntries
    <3> QED BY Zenon, <2>4, <3>1, <3>2, LookKeeps
  <2>5. CASE UnlockAll(o)
    <3>1. \A k \in Keys, m \in Modes : [holds[k][o][m] EXCEPT !.session = 0] \in Counts
      <4>1. \A c \in Counts : [c EXCEPT !.session = 0] \in Counts
        BY Zenon DEF Counts
      <4>2. \A k \in Keys, m \in Modes : holds[k][o][m] \in Counts
        BY DEF Table
      <4> QED BY Zenon, <4>1, <4>2
    <3> DEFINE row(k) == [m \in Modes |-> [holds[k][o][m] EXCEPT !.session = 0]]
    <3>2. holds' = [k \in Keys |-> [holds[k] EXCEPT ![o] = row(k)]]
      BY Zenon, <2>5 DEF UnlockAll, Table
    <3>3. \A k \in Keys : row(k) \in [Modes -> Counts]
      BY Zenon, <3>1
    <3>4. \A k \in Keys, m \in Modes : row(k)[m] = [holds[k][o][m] EXCEPT !.session = 0]
      BY Zenon
    <3> HIDE DEF row
    <3>5. Table' /\ OnlyHolds(o) /\ \A k \in Keys, m \in Modes : holds'[k][o][m] = [holds[k][o][m] EXCEPT !.session = 0]
      BY Zenon, <3>2, <3>3, <3>4 DEF Table, OnlyHolds
    <3>6. Compatible'
      BY <3>5, SweepDrops DEF Nothing
    <3>7. Waiters' /\ OnlyWaits(o) /\ wait'[o] = NoWait
      BY Zenon, <2>5 DEF UnlockAll, Waiters, OnlyWaits
    <3> QED BY Zenon, <3>5, <3>6, <3>7, NotWaitingKeeps
  <2>6. CASE EndTransaction(o)
    <3>1. \A k \in Keys, m \in Modes : [holds[k][o][m] EXCEPT !.transaction = 0] \in Counts
      <4>1. \A c \in Counts : [c EXCEPT !.transaction = 0] \in Counts
        BY Zenon DEF Counts
      <4>2. \A k \in Keys, m \in Modes : holds[k][o][m] \in Counts
        BY DEF Table
      <4> QED BY Zenon, <4>1, <4>2
    <3> DEFINE row(k) == [m \in Modes |-> [holds[k][o][m] EXCEPT !.transaction = 0]]
    <3>2. holds' = [k \in Keys |-> [holds[k] EXCEPT ![o] = row(k)]]
      BY Zenon, <2>6 DEF EndTransaction, Table
    <3>3. \A k \in Keys : row(k) \in [Modes -> Counts]
      BY Zenon, <3>1
    <3>4. \A k \in Keys, m \in Modes : row(k)[m] = [holds[k][o][m] EXCEPT !.transaction = 0]
      BY Zenon
    <3> HIDE DEF row
    <3>5. Table' /\ OnlyHolds(o) /\ \A k \in Keys, m \in Modes : holds'[k][o][m] = [holds[k][o][m] EXCEPT !.transaction = 0]
      BY Zenon, <3>2, <3>3, <3>4 DEF Table, OnlyHolds
    <3>6. Compatible'
      BY <3>5, SweepDrops DEF Nothing
    <3>7. Waiters' /\ OnlyWaits(o) /\ wait'[o] = NoWait
      BY Zenon, <2>6 DEF EndTransaction, Waiters, OnlyWaits
    <3> QED BY Zenon, <3>5, <3>6, <3>7, NotWaitingKeeps
  <2>7. CASE EndSession(o)
    <3>1. \A k \in Keys, m \in Modes : Nothing \in Counts
      BY Zenon DEF Table, Counts, Nothing
    <3> DEFINE row(k) == [m \in Modes |-> Nothing]
    <3>2. holds' = [k \in Keys |-> [holds[k] EXCEPT ![o] = row(k)]]
      BY Zenon, <2>7 DEF EndSession, Table
    <3>3. \A k \in Keys : row(k) \in [Modes -> Counts]
      BY Zenon, <3>1
    <3>4. \A k \in Keys, m \in Modes : row(k)[m] = Nothing
      BY Zenon
    <3> HIDE DEF row
    <3>5. Table' /\ OnlyHolds(o) /\ \A k \in Keys, m \in Modes : holds'[k][o][m] = Nothing
      BY Zenon, <3>2, <3>3, <3>4 DEF Table, OnlyHolds
    <3>6. Compatible'
      BY Zenon, <3>5, SweepDrops DEF Nothing
    <3>7. Waiters' /\ OnlyWaits(o) /\ wait'[o] = NoWait
      BY Zenon, <2>7 DEF EndSession, Waiters, OnlyWaits
    <3> QED BY Zenon, <3>5, <3>6, <3>7, NotWaitingKeeps
  <2>8. ASSUME NEW k \in Keys, NEW m \in Modes, UnlockHeld(o, k, m)
        PROVE  AdvisoryInv'
    <3>1. Table' /\ OnlyHolds(o) /\ Compatible'
      BY Zenon, <2>8, UnlockDrops
    <3>2. Waiters' /\ OnlyWaits(o) /\ wait'[o] = NoWait
      BY Zenon, <2>8 DEF UnlockHeld, Waiters, OnlyWaits
    <3> QED BY Zenon, <3>1, <3>2, NotWaitingKeeps
  <2>9. ASSUME NEW q \in Requests, LockFree(o, q[1], q[2], q[3])
        PROVE  AdvisoryInv'
    <3>1. q[1] \in Keys /\ q[2] \in Modes /\ q[3] \in Levels
      BY Zenon, AdvisoryAssumption
    <3>2. Table' /\ OnlyHolds(o) /\ Compatible'
      BY Zenon, <2>9, <3>1, GrantAdds DEF LockFree
    <3>3. Waiters' /\ OnlyWaits(o) /\ wait'[o] = NoWait
      BY Zenon, <2>9 DEF LockFree, Waiters, OnlyWaits
    <3> QED BY Zenon, <3>2, <3>3, NotWaitingKeeps
  <2>10. ASSUME NEW q \in Requests, LockBlocked(o, q[1], q[2], q[3])
         PROVE  AdvisoryInv'
    <3>1. q[1] \in Keys /\ q[2] \in Modes /\ q[3] \in Levels
      BY Zenon, AdvisoryAssumption
    <3>2. Table' /\ OnlyHolds(o) /\ Compatible'
      BY <2>10 DEF LockBlocked, Table, OnlyHolds, Compatible, Has
    <3>3. Waiters' /\ OnlyWaits(o) /\ ~wait'[o].looked
      BY Zenon, <2>10, <3>1 DEF LockBlocked, Waiters, WaitEntries, OnlyWaits
    <3> QED BY Zenon, <3>2, <3>3, BlockedKeeps
  <2> QED BY Zenon, <2>1, <2>2, <2>3, <2>4, <2>5, <2>6, <2>7, <2>8, <2>9, <2>10
<1> QED BY Zenon, <1>1, <1>2

(* For any sessions and keys: two sessions hold one key only in the share   *)
(* mode, and in every ring of waits there is a session that has still to    *)
(* look for it (lock and deadlock of advisory.rs).                          *)
THEOREM AdvisorySafe == AdvisorySpec => [](Compatible /\ RingHasLooker)
<1>1. AdvisoryInv => Compatible /\ RingHasLooker
  BY Zenon DEF AdvisoryInv
<1> QED BY <1>1, AdvisoryStarts, AdvisoryKeeps, PTL DEF AdvisorySpec
=============================================================================
