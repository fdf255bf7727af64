---------------------------- MODULE UpdaterProofs ----------------------------
(***************************************************************************)
(* Proofs about Updater, for any versions, any bad ones and any faults.    *)
(*                                                                         *)
(* Recoverable is about the durable files alone, and no single step of the *)
(* code shows why it holds: a backup is made of the executable, so the     *)
(* executable must be known to have bootstrapped at that moment, and the   *)
(* rename installs the staged file, so that must be the version recorded   *)
(* as pending.  RecoverableInv adds these facts, by where the process is.  *)
(***************************************************************************)
EXTENDS Updater, TLAPS

(* Where the process runs Apply up to the rename of the executable.        *)
Installing == {"backup", "record", "prepare", "rename"}

(* Where the process, or the restored executable, is known to work.        *)
Working == Installing \cup {"commit", "removeBackup", "run", "restoreSave",
                            "rollbackSave", "execRestored"}

(* A process has a version, and Apply installs the version it looked up in *)
(* the blacklist.                                                          *)
StagedInv ==
  /\ pc # "down" => currentVersion # None
  /\ pc \in Installing =>
       staging # None /\ staging = rel /\ rel \notin BlacklistedVersions

RecoverableInv ==
  ~restoreFailed =>
    /\ backup \in proven \cup {None}
    /\ executable \in proven \/ (PendingVersion = executable /\ backup \in proven)
    /\ pc \in Working => executable \in proven
    /\ pc \in {"reconcile", "bootstrap"} => currentVersion = executable
    /\ pc \in {"prepare", "rename"} => PendingVersion = rel
    /\ pc \in {"record", "prepare", "rename"} => backup \in proven

IInv == TypeOK /\ StagedInv /\ RecoverableInv

(* The actions whose conjuncts the step lemmas name. *)
LEMMA NextCases ==
  ASSUME Next
  PROVE  \/ Restart \/ Reconcile \/ BootstrapOK \/ BootstrapOfBad \/ Die
         \/ CommitSuccess \/ RemoveBackup
         \/ Apply \/ BackupCurrent \/ RecordPending \/ Prepare \/ Replace \/ Exec
         \/ Restore \/ RestoreSaved \/ ExecRestored
         \/ BootstrapFails \/ CommitFails \/ BackupFails \/ RecordFails \/ PrepareFails
         \/ ReplaceFails \/ ExecFails \/ RestoreFails \/ RestoreSaveFails \/ Crash
         \/ Push
  BY Zenon DEF Next, Startup, Install, Rollback, Fault

(* At the start nothing is pending and the installed version counts as     *)
(* proven.                                                                 *)
LEMMA InitIInv == Init => IInv
  BY Zenon, ConstantsAssumption
  DEF Init, IInv, TypeOK, StagedInv, RecoverableInv, Installing, Working, PC

(* Every step keeps every variable in its type, and the staged version off *)
(* the blacklist, which only grows when nothing is staged.                 *)
LEMMA TypeStep == TypeOK /\ StagedInv /\ [Next]_vars => TypeOK' /\ StagedInv'
<1> SUFFICES ASSUME TypeOK, StagedInv, [Next]_vars PROVE TypeOK' /\ StagedInv'
  BY Zenon
<1> USE ConstantsAssumption
    DEF TypeOK, StagedInv, PC, Installing, files, record, process, history
<1>1. CASE Restart BY Zenon, <1>1 DEF Restart, StartImage
<1>2. CASE Reconcile BY Zenon, <1>2 DEF Reconcile, ReconcileStartup, ClearPending
<1>3. CASE BootstrapOK BY Zenon, <1>3 DEF BootstrapOK
<1>4. CASE BootstrapOfBad BY Zenon, <1>4 DEF BootstrapOfBad, BootstrapError
<1>5. CASE Die BY Zenon, <1>5 DEF Die, ProcessEnds
<1>6. CASE CommitSuccess BY Zenon, <1>6 DEF CommitSuccess, ClearPending
<1>7. CASE RemoveBackup BY Zenon, <1>7 DEF RemoveBackup
<1>8. CASE Apply BY Zenon, <1>8 DEF Apply
<1>9. CASE BackupCurrent BY Zenon, <1>9 DEF BackupCurrent
<1>10. CASE RecordPending BY Zenon, <1>10 DEF RecordPending
<1>11. CASE Prepare BY Zenon, <1>11 DEF Prepare
<1>12. CASE Replace BY Zenon, <1>12 DEF Replace
<1>13. CASE Exec BY Zenon, <1>13 DEF Exec, StartImage
<1>14. CASE Restore BY Zenon, <1>14 DEF Restore
<1>15. CASE RestoreSaved BY Zenon, <1>15 DEF RestoreSaved, ClearPending, Blacklist, Return
<1>16. CASE ExecRestored BY Zenon, <1>16 DEF ExecRestored, StartImage
<1>17. CASE BootstrapFails BY Zenon, <1>17 DEF BootstrapFails, BootstrapError
<1>18. CASE CommitFails BY Zenon, <1>18 DEF CommitFails
<1>19. CASE BackupFails BY Zenon, <1>19 DEF BackupFails, Return
<1>20. CASE RecordFails BY Zenon, <1>20 DEF RecordFails, Return
<1>21. CASE PrepareFails BY Zenon, <1>21 DEF PrepareFails, ClearPending, Return
<1>22. CASE ReplaceFails BY Zenon, <1>22 DEF ReplaceFails
<1>23. CASE ExecFails BY Zenon, <1>23 DEF ExecFails
<1>24. CASE RestoreFails BY Zenon, <1>24 DEF RestoreFails, RestoreError, Return
<1>25. CASE RestoreSaveFails BY Zenon, <1>25 DEF RestoreSaveFails, RestoreError, Return
<1>26. CASE Crash BY Zenon, <1>26 DEF Crash, ProcessEnds
<1>27. CASE Push BY <1>27 DEF Push
<1>28. CASE UNCHANGED vars BY <1>28 DEF vars
<1> QED
  BY Zenon, <1>1, <1>2, <1>3, <1>4, <1>5, <1>6, <1>7, <1>8, <1>9, <1>10, <1>11, <1>12, <1>13,
     <1>14, <1>15, <1>16, <1>17, <1>18, <1>19, <1>20, <1>21, <1>22, <1>23, <1>24, <1>25,
     <1>26, <1>27, <1>28, NextCases

(* Every step keeps the files recoverable.  Only RestoreFails sets         *)
(* restoreFailed, and after it there is nothing to show.                   *)
LEMMA RecoverableStep == IInv /\ [Next]_vars => RecoverableInv'
<1> SUFFICES ASSUME IInv, [Next]_vars PROVE RecoverableInv'
  BY Zenon
<1> USE ConstantsAssumption
    DEF IInv, TypeOK, StagedInv, RecoverableInv, PC, Installing, Working, files, record,
        process, history
<1>1. CASE Restart BY Zenon, <1>1 DEF Restart, StartImage
<1>2. CASE Reconcile BY Zenon, <1>2 DEF Reconcile, ReconcileStartup, ClearPending
<1>3. CASE BootstrapOK BY Zenon, <1>3 DEF BootstrapOK
<1>4. CASE BootstrapOfBad BY Zenon, <1>4 DEF BootstrapOfBad, BootstrapError
<1>5. CASE Die BY Zenon, <1>5 DEF Die, ProcessEnds
<1>6. CASE CommitSuccess BY Zenon, <1>6 DEF CommitSuccess, ClearPending
<1>7. CASE RemoveBackup BY Zenon, <1>7 DEF RemoveBackup
<1>8. CASE Apply BY Zenon, <1>8 DEF Apply
<1>9. CASE BackupCurrent BY Zenon, <1>9 DEF BackupCurrent
<1>10. CASE RecordPending BY Zenon, <1>10 DEF RecordPending
<1>11. CASE Prepare BY Zenon, <1>11 DEF Prepare
<1>12. CASE Replace BY Zenon, <1>12 DEF Replace
<1>13. CASE Exec BY Zenon, <1>13 DEF Exec, StartImage
<1>14. CASE Restore BY Zenon, <1>14 DEF Restore
<1>15. CASE RestoreSaved BY Zenon, <1>15 DEF RestoreSaved, ClearPending, Return
<1>16. CASE ExecRestored BY Zenon, <1>16 DEF ExecRestored, StartImage
<1>17. CASE BootstrapFails BY Zenon, <1>17 DEF BootstrapFails, BootstrapError
<1>18. CASE CommitFails BY Zenon, <1>18 DEF CommitFails
<1>19. CASE BackupFails BY Zenon, <1>19 DEF BackupFails, Return
<1>20. CASE RecordFails BY Zenon, <1>20 DEF RecordFails, Return
<1>21. CASE PrepareFails BY Zenon, <1>21 DEF PrepareFails, ClearPending, Return
<1>22. CASE ReplaceFails BY Zenon, <1>22 DEF ReplaceFails
<1>23. CASE ExecFails BY Zenon, <1>23 DEF ExecFails
<1>24. CASE RestoreFails BY Zenon, <1>24 DEF RestoreFails
<1>25. CASE RestoreSaveFails BY Zenon, <1>25 DEF RestoreSaveFails, RestoreError, Return
<1>26. CASE Crash BY Zenon, <1>26 DEF Crash, ProcessEnds
<1>27. CASE Push BY Zenon, <1>27 DEF Push
<1>28. CASE UNCHANGED vars BY Zenon, <1>28 DEF vars
<1> QED
  BY Zenon, <1>1, <1>2, <1>3, <1>4, <1>5, <1>6, <1>7, <1>8, <1>9, <1>10, <1>11, <1>12, <1>13,
     <1>14, <1>15, <1>16, <1>17, <1>18, <1>19, <1>20, <1>21, <1>22, <1>23, <1>24, <1>25,
     <1>26, <1>27, <1>28, NextCases

(* The inductive invariant is an invariant. *)
LEMMA IInvHolds == Spec => []IInv
<1>1. IInv /\ [Next]_vars => IInv'
  BY Zenon, TypeStep, RecoverableStep DEF IInv
<1> QED
  BY <1>1, InitIInv, PTL DEF Spec

(* Every variable of the updater keeps its type: in particular no step     *)
(* installs or restores a file that is not there.                          *)
THEOREM TypeCorrect == Spec => []TypeOK
<1>1. IInv => TypeOK
  BY Zenon DEF IInv
<1> QED
  BY <1>1, IInvHolds, PTL

(* Whatever fails or crashes between any two writes of Apply, CommitSuccess *)
(* and RollbackAndBlacklist, an executable that never bootstrapped is       *)
(* pending and has a backup that did, unless a restore has failed.          *)
THEOREM AlwaysRecoverable == Spec => []Recoverable
<1>1. IInv => Recoverable
  BY Zenon DEF IInv, RecoverableInv, Recoverable
<1> QED
  BY <1>1, IInvHolds, PTL

(* restoreBackupLocked never puts a version in place that has not          *)
(* bootstrapped, unless an earlier restore has failed.                     *)
THEOREM RestoresOnlyProven == Spec => RollsBackToProven
<1>1. IInv => (Restore /\ ~restoreFailed => executable' \in proven)
  BY Zenon DEF IInv, RecoverableInv, Restore
<1>2. IInv /\ [Next]_vars => [Restore /\ ~restoreFailed => executable' \in proven]_vars
  BY Zenon, <1>1
<1> QED
  BY <1>2, IInvHolds, PTL DEF Spec, RollsBackToProven

(* Apply never installs a version of BlacklistedVersions: between its look *)
(* at the blacklist and the rename nothing can be added to it.             *)
THEOREM NeverInstallsBlacklisted == Spec => BlacklistHonoured
<1> DEFINE Honoured ==
      \A v \in BlacklistedVersions : executable # v /\ executable' = v => Restore
<1>1. IInv /\ Next => Honoured
  <2> SUFFICES ASSUME IInv, Next, executable' # executable, ~Restore
               PROVE  executable' \notin BlacklistedVersions
    BY Zenon
  <2>1. Replace
    BY Zenon, NextCases
    DEF Restart, StartImage, Reconcile, ReconcileStartup, ClearPending, BootstrapOK,
        BootstrapOfBad, BootstrapError, Die, ProcessEnds, CommitSuccess, RemoveBackup,
        Apply, BackupCurrent, RecordPending, Prepare, Exec, RestoreSaved, Return,
        ExecRestored, BootstrapFails, CommitFails, BackupFails, RecordFails,
        PrepareFails, ReplaceFails, ExecFails, RestoreFails, RestoreSaveFails,
        RestoreError, Crash, Push, files, record, process, history
  <2> QED
    BY Zenon, <2>1 DEF IInv, StagedInv, Replace, Installing
<1>2. IInv /\ [Next]_vars => [Honoured]_vars
  BY Zenon, <1>1
<1> QED
  BY <1>2, IInvHolds, PTL DEF Spec, BlacklistHonoured
=============================================================================
