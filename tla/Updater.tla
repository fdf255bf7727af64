------------------------------ MODULE Updater ------------------------------
(***************************************************************************)
(* Binary updates of the panel adapter (update/updater.go, driven by       *)
(* main.go): the panel offers a version, the adapter installs it over its  *)
(* own executable and execs it, and the new process decides at its first   *)
(* start whether to commit the update or to roll back and blacklist it.    *)
(*                                                                         *)
(* The executable, its backup, the staged download and the update record   *)
(* of the state store are durable; each step between two of their writes   *)
(* is one action, every write may fail where the code handles it, and the  *)
(* process may be killed between any two.  A supervisor restarts whatever  *)
(* the executable then is.  Downloading, the checksum and unpacking change *)
(* no state: their failure is that Apply does nothing.  A binary reports   *)
(* the version it was offered as.                                          *)
(***************************************************************************)
EXTENDS Integers, FiniteSets

CONSTANTS
  Versions,  \* binary versions
  First,     \* the version the adapter was installed with
  Bad,       \* versions whose bootstrap returns an error
  Dying,     \* versions whose process dies before bootstrap returns
  None       \* the empty string

ASSUME ConstantsAssumption ==
  /\ First \in Versions /\ None \notin Versions
  /\ Bad \subseteq Versions \ {First} /\ Dying \subseteq Versions \ {First}

VARIABLES
  \* durable: files by the version they hold, and state.Update
  executable, backup, staging, PendingVersion, BackupPath, BlacklistedVersions,
  \* the process: its version, where it is, whether this is a trial start
  currentVersion, pc, trial,
  \* what Apply installs, and the version restoreBackupLocked blacklists
  rel, blacklist,
  \* the version in the last validated configuration
  offer,
  \* history: versions that have bootstrapped; whether a restore has failed
  proven, restoreFailed

files   == <<executable, backup, staging>>
record  == <<PendingVersion, BackupPath, BlacklistedVersions>>
process == <<currentVersion, pc, trial, rel, blacklist>>
history == <<proven, restoreFailed>>
vars == <<files, record, process, offer, history>>

PC == {"down", "reconcile", "bootstrap", "commit", "removeBackup", "run",
       "backup", "record", "prepare", "rename", "exec", "restore",
       "restoreSave", "rollback", "rollbackSave", "execRestored"}

TypeOK ==
  /\ executable \in Versions
  /\ backup \in Versions \cup {None} /\ staging \in Versions \cup {None}
  /\ PendingVersion \in Versions \cup {None}
  /\ BackupPath \in BOOLEAN
  /\ BlacklistedVersions \in SUBSET Versions
  /\ currentVersion \in Versions \cup {None}
  /\ pc \in PC
  /\ trial \in BOOLEAN
  /\ rel \in Versions \cup {None} /\ blacklist \in Versions \cup {None}
  /\ offer \in Versions \cup {None}
  /\ proven \in SUBSET Versions
  /\ restoreFailed \in BOOLEAN

(* The update record after an update is over. *)
ClearPending == PendingVersion' = None /\ BackupPath' = FALSE

(***************************************************************************)
(* Start of a process.                                                     *)
(***************************************************************************)

(* A process image starts from the executable: by the supervisor or exec.  *)
StartImage ==
  /\ currentVersion' = executable
  /\ pc' = "reconcile"
  /\ trial' = FALSE /\ rel' = None /\ blacklist' = None

Restart ==
  /\ pc = "down"
  /\ StartImage
  /\ UNCHANGED <<files, record, offer, history>>

(* Mutant: a pending update is always taken for an aborted one. *)
BugNeverTrial(saved) ==
  /\ trial' = FALSE
  /\ ClearPending /\ UNCHANGED BlacklistedVersions

(* An update whose executable is not the one running was aborted; whether  *)
(* its record could be cleared only makes a log message.                   *)
ReconcileStartup(saved) ==
  /\ trial' = (PendingVersion # None /\ PendingVersion = currentVersion)
  /\ IF PendingVersion \in {None, currentVersion} \/ ~saved
     THEN UNCHANGED record
     ELSE ClearPending /\ UNCHANGED BlacklistedVersions

Reconcile ==
  /\ pc = "reconcile"
  /\ \E saved \in BOOLEAN : ReconcileStartup(saved)
  /\ pc' = "bootstrap"
  /\ UNCHANGED <<files, currentVersion, rel, blacklist, offer, history>>

BootstrapOK ==
  /\ pc = "bootstrap"
  /\ currentVersion \notin Bad \cup Dying
  /\ proven' = proven \cup {currentVersion}
  /\ pc' = IF trial THEN "commit" ELSE "run"
  /\ trial' = FALSE
  /\ UNCHANGED <<files, record, currentVersion, rel, blacklist, offer,
                 restoreFailed>>

(* A failed start ends the process, and a failed trial start rolls back.   *)
BootstrapError ==
  /\ IF trial
     THEN /\ blacklist' = IF PendingVersion = None THEN currentVersion ELSE PendingVersion
          /\ pc' = "rollback"
          /\ UNCHANGED <<currentVersion, trial, rel>>
     ELSE /\ pc' = "down" /\ currentVersion' = None
          /\ trial' = FALSE /\ rel' = None /\ blacklist' = None
  /\ UNCHANGED <<files, record, offer, history>>

(* Any version fails to bootstrap while the panel cannot be reached.       *)
BootstrapFails ==
  /\ pc = "bootstrap"
  /\ currentVersion \notin Bad \cup Dying
  /\ BootstrapError

BootstrapOfBad ==
  /\ pc = "bootstrap"
  /\ currentVersion \in Bad
  /\ BootstrapError

CommitSuccess ==
  /\ pc = "commit"
  /\ ClearPending
  /\ pc' = IF BackupPath THEN "removeBackup" ELSE "run"
  /\ UNCHANGED <<files, BlacklistedVersions, currentVersion, trial, rel, blacklist,
                 offer, history>>

(* The record stays, and so does the backup. *)
CommitFails ==
  /\ pc = "commit"
  /\ pc' = "run"
  /\ UNCHANGED <<files, record, currentVersion, trial, rel, blacklist, offer, history>>

RemoveBackup ==
  /\ pc = "removeBackup"
  /\ backup' \in {None, backup}
  /\ pc' = "run"
  /\ UNCHANGED <<executable, staging, record, currentVersion, trial, rel, blacklist,
                 offer, history>>

(***************************************************************************)
(* Apply.                                                                  *)
(***************************************************************************)

(* Back to the poll loop; the staged file is removed by a deferred call.   *)
Return ==
  /\ pc' = "run"
  /\ staging' = None /\ rel' = None /\ blacklist' = None
  /\ UNCHANGED <<currentVersion, trial>>

(* Mutant: the blacklist is not looked at. *)
BugApplyAny ==
  /\ pc = "run"
  /\ offer \notin {None, currentVersion}
  /\ rel' = offer
  /\ staging' = offer
  /\ pc' = "backup"
  /\ UNCHANGED <<executable, backup, record, currentVersion, trial, blacklist, offer,
                 history>>

Apply ==
  /\ pc = "run"
  /\ offer \notin {None, currentVersion}
  /\ offer \notin BlacklistedVersions
  /\ rel' = offer
  /\ staging' = offer
  /\ pc' = "backup"
  /\ UNCHANGED <<executable, backup, record, currentVersion, trial, blacklist, offer,
                 history>>

(* Mutant: the executable is replaced without a record of it. *)
BugNoRecord ==
  /\ pc = "backup"
  /\ backup' = executable
  /\ pc' = "rename"
  /\ UNCHANGED <<executable, staging, record, currentVersion, trial, rel, blacklist,
                 offer, history>>

(* Mutant: the backup is made of the new binary. *)
BugBackupNew ==
  /\ pc = "backup"
  /\ backup' = staging
  /\ pc' = "record"
  /\ UNCHANGED <<executable, staging, record, currentVersion, trial, rel, blacklist,
                 offer, history>>

BackupCurrent ==
  /\ pc = "backup"
  /\ backup' = executable
  /\ pc' = "record"
  /\ UNCHANGED <<executable, staging, record, currentVersion, trial, rel, blacklist,
                 offer, history>>

BackupFails ==
  /\ pc = "backup"
  /\ Return
  /\ UNCHANGED <<executable, backup, record, offer, history>>

RecordPending ==
  /\ pc = "record"
  /\ PendingVersion' = rel /\ BackupPath' = TRUE
  /\ pc' = "prepare"
  /\ UNCHANGED <<files, BlacklistedVersions, currentVersion, trial, rel, blacklist,
                 offer, history>>

RecordFails ==
  /\ pc = "record"
  /\ Return
  /\ UNCHANGED <<executable, backup, record, offer, history>>

Prepare ==
  /\ pc = "prepare"
  /\ pc' = "rename"
  /\ UNCHANGED <<files, record, currentVersion, trial, rel, blacklist, offer, history>>

(* The box does not close; the record is cleared if it can be saved.       *)
PrepareFails ==
  /\ pc = "prepare"
  /\ Return
  /\ \/ ClearPending /\ UNCHANGED BlacklistedVersions
     \/ UNCHANGED record
  /\ UNCHANGED <<executable, backup, offer, history>>

Replace ==
  /\ pc = "rename"
  /\ executable' = staging /\ staging' = None
  /\ pc' = "exec"
  /\ UNCHANGED <<backup, record, currentVersion, trial, rel, blacklist, offer, history>>

ReplaceFails ==
  /\ pc = "rename"
  /\ pc' = "restore"
  /\ UNCHANGED <<files, record, currentVersion, trial, rel, blacklist, offer, history>>

Exec ==
  /\ pc = "exec"
  /\ StartImage
  /\ UNCHANGED <<files, record, offer, history>>

ExecFails ==
  /\ pc = "exec"
  /\ blacklist' = rel
  /\ pc' = "restore"
  /\ UNCHANGED <<files, record, currentVersion, trial, rel, offer, history>>

(***************************************************************************)
(* restoreBackupLocked, within Apply and within RollbackAndBlacklist.      *)
(***************************************************************************)

(* The backup is renamed over the executable, or copied when that fails.   *)
Restore ==
  /\ pc \in {"restore", "rollback"}
  /\ backup # None
  /\ executable' = backup
  /\ backup' \in {None, backup}
  /\ pc' = IF pc = "restore" THEN "restoreSave" ELSE "rollbackSave"
  /\ UNCHANGED <<staging, record, currentVersion, trial, rel, blacklist, offer, history>>

(* Where an error of restoreBackupLocked leads: Apply returns, and a trial *)
(* process ends.                                                           *)
RestoreError ==
  \/ pc \in {"restore", "restoreSave"} /\ Return
  \/ /\ pc \in {"rollback", "rollbackSave"}
     /\ pc' = "down" /\ currentVersion' = None
     /\ trial' = FALSE /\ rel' = None /\ blacklist' = None
     /\ UNCHANGED staging

(* No backup, or neither the rename nor the copy succeeds. *)
RestoreFails ==
  /\ pc \in {"restore", "rollback"}
  /\ RestoreError
  /\ restoreFailed' = TRUE
  /\ UNCHANGED <<executable, backup, record, offer, proven>>

(* Mutant: the failed version is not blacklisted. *)
BugNoBlacklist == BlacklistedVersions' = BlacklistedVersions

Blacklist ==
  BlacklistedVersions' =
    BlacklistedVersions \cup (IF blacklist = None THEN {} ELSE {blacklist})

RestoreSaved ==
  /\ pc \in {"restoreSave", "rollbackSave"}
  /\ ClearPending
  /\ Blacklist
  /\ \/ pc = "restoreSave" /\ Return
     \/ /\ pc = "rollbackSave" /\ pc' = "execRestored"
        /\ UNCHANGED <<staging, currentVersion, trial, rel, blacklist>>
  /\ UNCHANGED <<executable, backup, offer, history>>

RestoreSaveFails ==
  /\ pc \in {"restoreSave", "rollbackSave"}
  /\ RestoreError
  /\ UNCHANGED <<executable, backup, record, offer, history>>

ExecRestored ==
  /\ pc = "execRestored"
  /\ StartImage
  /\ UNCHANGED <<files, record, offer, history>>

(***************************************************************************)
(* The end of a process, and the panel.                                    *)
(***************************************************************************)
ProcessEnds ==
  /\ pc' = "down" /\ currentVersion' = None
  /\ trial' = FALSE /\ rel' = None /\ blacklist' = None
  /\ UNCHANGED <<files, record, offer, history>>

(* Shutdown, a kill, a power failure, an exec of the restored binary that  *)
(* fails.                                                                  *)
Crash == pc # "down" /\ ProcessEnds

(* A version that cannot report an error: it panics, or never gets there.  *)
Die == pc = "bootstrap" /\ currentVersion \in Dying /\ ProcessEnds

Push ==
  /\ offer' \in Versions \cup {None}
  /\ UNCHANGED <<files, record, process, history>>

Init ==
  /\ executable = First /\ backup = None /\ staging = None
  /\ PendingVersion = None /\ BackupPath = FALSE /\ BlacklistedVersions = {}
  /\ currentVersion = None /\ pc = "down" /\ trial = FALSE
  /\ rel = None /\ blacklist = None
  /\ offer = None
  /\ proven = {First} /\ restoreFailed = FALSE

Startup == Restart \/ Reconcile \/ BootstrapOK \/ BootstrapOfBad \/ Die
           \/ CommitSuccess \/ RemoveBackup

Install == Apply \/ BackupCurrent \/ RecordPending \/ Prepare \/ Replace \/ Exec

Rollback == Restore \/ RestoreSaved \/ ExecRestored

Fault == BootstrapFails \/ CommitFails \/ BackupFails \/ RecordFails \/ PrepareFails
         \/ ReplaceFails \/ ExecFails \/ RestoreFails \/ RestoreSaveFails \/ Crash

Next == Startup \/ Install \/ Rollback \/ Fault \/ Push

Spec == Init /\ [][Next]_vars
-----------------------------------------------------------------------------
(* At every moment, and so after a crash at any, an executable that has    *)
(* never bootstrapped is recorded as pending and its backup is a version   *)
(* that has: its first start is a trial that can be rolled back.  A failed *)
(* restore is excepted: the next Apply then backs up the wrong file.       *)
Recoverable ==
  executable \notin proven /\ ~restoreFailed =>
    /\ PendingVersion = executable
    /\ backup \in proven

(* No update installs a blacklisted version.  A rollback may, to a version *)
(* that works: a commit that could not be saved leaves it on trial, and an *)
(* outage at its next start blacklists it.                                 *)
BlacklistHonoured ==
  [][\A v \in BlacklistedVersions : executable # v /\ executable' = v => Restore]_vars

(* A rollback only ever replaces the executable by one that has worked.    *)
RollsBackToProven ==
  [][Restore /\ ~restoreFailed => executable' \in proven]_vars

(***************************************************************************)
(* Liveness once faults have ended and the panel offers one version: the   *)
(* process keeps running its code, the supervisor keeps restarting it.     *)
(***************************************************************************)
Fairness == WF_vars(Startup \/ Install \/ Rollback)

FairSpec == Spec /\ Fairness

FaultsEnd == <>[][Startup \/ Install \/ Rollback]_vars /\ []~restoreFailed

(* The version is left behind, whatever it was installed over.             *)
RollsBack(v) == FaultsEnd => (executable = v ~> executable # v)

(* A binary whose bootstrap returns an error is rolled back, though crashes *)
(* and failing writes may have hit the update and its trial before.         *)
FailedStartRollsBack == \A v \in Bad : RollsBack(v)

(* The adapter does not install and roll back one version for ever.        *)
UpdatesSettle == FaultsEnd => <>[][executable' = executable]_vars
=============================================================================
