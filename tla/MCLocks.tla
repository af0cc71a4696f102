------------------------------ MODULE MCLocks ------------------------------
(***************************************************************************)
(* The lock of the catalog, the locks of hot rows, the claims of            *)
(* transactions and advisory locks, each in an instance of its own.  They   *)
(* share no state: a behaviour is one of one of them.                       *)
(***************************************************************************)
EXTENDS MCReadMostly, MCRowLock, MCRegistry, MCAdvisory

VARIABLE part
lockVars == <<part, mostlyVars, rowVars, registryVars, advisoryVars>>

Mostly == part = "mostly" /\ UNCHANGED <<part, rowVars, registryVars, advisoryVars>>
RowLocks == part = "rows" /\ UNCHANGED <<part, mostlyVars, registryVars, advisoryVars>>
Claims == part = "claims" /\ UNCHANGED <<part, mostlyVars, rowVars, advisoryVars>>
Sessions == part = "sessions" /\ UNCHANGED <<part, mostlyVars, rowVars, registryVars>>

LocksInit ==
    /\ part \in {"mostly", "rows", "claims", "sessions"}
    /\ MostlyInit /\ RowInit /\ RegistryInit /\ AdvisoryInit

(* The statements that claim rows here are not by key, so PointWrite, which *)
(* claims nothing, has no part in it.                                       *)
LocksNext ==
    \/ \E t \in Threads :
          \/ (Mostly /\ Enter(t)) \/ (Mostly /\ SeeFlag(t)) \/ (Mostly /\ BackOut(t))
          \/ (Mostly /\ Leave(t)) \/ (Mostly /\ RaiseFlag(t)) \/ (Mostly /\ ScanPasses(t))
          \/ (Mostly /\ Lower(t)) \/ (Mostly /\ Unlock(t)) \/ (Mostly /\ DowngradeLower(t))
          \/ (Mostly /\ DowngradeUnlock(t)) \/ (Mostly /\ CountIn(t)) \/ (Mostly /\ Knock(t))
          \/ (Mostly /\ Acquire(t)) \/ (Mostly /\ Downgrade(t))
    \/ \E t \in Txns :
          \/ (RowLocks /\ SpinFree(t)) \/ (RowLocks /\ SpinOut(t)) \/ (RowLocks /\ TakeIt(t))
          \/ (RowLocks /\ TakeLost(t)) \/ (RowLocks /\ ParkFree(t)) \/ (RowLocks /\ ParkHeld(t))
          \/ (RowLocks /\ Granted(t)) \/ (RowLocks /\ Keep(t)) \/ (RowLocks /\ Finish(t))
          \/ (RowLocks /\ Done(t)) \/ (RowLocks /\ ReleaseFree(t)) \/ (RowLocks /\ ReleaseSees(t))
          \/ (RowLocks /\ Hand(t)) \/ (RowLocks /\ Refuse(t)) \/ (RowLocks /\ LockTimeout(t))
    \/ \E t \in Txns, r \in HotRows :
          \/ (RowLocks /\ LetGo(t, r)) \/ (RowLocks /\ ClaimFree(t, r))
          \/ (RowLocks /\ ClaimWaits(t, r)) \/ (RowLocks /\ ClaimDies(t, r))
    \/ \E c \in Conns :
          \/ (Claims /\ Apply(c)) \/ (Claims /\ Sleep(c)) \/ (Claims /\ Retry(c))
          \/ (Claims /\ Timeout(c)) \/ (Claims /\ Commit(c)) \/ (Claims /\ Rollback(c))
    \/ \E c \in Conns, own \in BOOLEAN : Claims /\ Start(c, own)
    \/ \E c \in Conns, w \in Writes : Claims /\ Statement(c, w)
    \/ \E o \in Owners :
          \/ (Sessions /\ LockGranted(o)) \/ (Sessions /\ GiveUp(o)) \/ (Sessions /\ Look(o))
          \/ (Sessions /\ UnlockAll(o)) \/ (Sessions /\ EndTransaction(o))
          \/ (Sessions /\ EndSession(o))
    \/ \E o \in Owners, k \in Keys, m \in Modes : Sessions /\ UnlockHeld(o, k, m)
    \/ \E o \in Owners, q \in Requests :
          \/ (Sessions /\ LockFree(o, q[1], q[2], q[3]))
          \/ (Sessions /\ LockBlocked(o, q[1], q[2], q[3]))

(* The fairness each part has in its own specification. *)
LocksSpec ==
    /\ LocksInit /\ [][LocksNext]_lockVars
    /\ \A t \in Threads : WF_mostlyVars(part = "mostly" /\ GoesOn(t))
    /\ \A t \in Txns : WF_rowVars(part = "rows" /\ Runs(t))
    /\ \A o \in Owners : WF_advisoryVars(part = "sessions" /\ Look(o))
    /\ \A c \in Conns : WF_registryVars(part = "claims" /\ ConnStep(c))

(* The type invariants of the four modules. *)
LocksTypeOK == MostlyTypeOK /\ RowTypeOK /\ RegistryTypeOK /\ AdvisoryTypeOK
=============================================================================
