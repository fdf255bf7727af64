----------------------------- MODULE NodeConfig -----------------------------
(***************************************************************************)
(* Configuration and users of a node: the manager that polls the           *)
(* configuration and recreates the Box (runtime/manager.go), the poller    *)
(* that fetches user snapshots and applies them to the running Box         *)
(* (users/poller.go), and the two goroutines of main.go that drive them.   *)
(*                                                                         *)
(* There is one managed inbound, with a supported protocol and the policy  *)
(* hot_reload_users.  "config" is the configuration goroutine (main itself *)
(* until the goroutines start); it calls the poller too, after a poll that *)
(* changed the revision.  "users" is the user goroutine.  The manager      *)
(* holds its lock from before it fetches a configuration until the state   *)
(* is saved; the poller takes it only to replace the users, and works on   *)
(* what it read and fetched before.                                        *)
(*                                                                         *)
(* Revisions and user lists are numbered in the order the panel makes      *)
(* them.  The ETag of a configuration is its revision.  The ETag of a user *)
(* snapshot is a hash of it: of the list and of the configuration revision *)
(* it is for.                                                              *)
(***************************************************************************)
EXTENDS Integers

CONSTANTS
  MaxRevision,  \* bound: configuration revisions the panel makes
  MaxUsers,     \* bound: user lists the panel makes
  Settings,     \* the circumstances a behaviour may have: see setting
  None          \* nil, the empty string

Revisions == 1 .. MaxRevision

UserLists == 1 .. MaxUsers

Pollers == {"config", "users"}

UserSnapshot == [users : UserLists, revision : Revisions]

ASSUME ConstantsAssumption ==
  /\ MaxRevision \in Nat \ {0} /\ MaxUsers \in Nat \ {0}
  /\ Settings \subseteq
       [manual  : SUBSET Revisions,   \* with the apply strategy "manual"
        updates : Nat,                \* bound: updates that fail
        users   : UserLists,          \* bound: user lists, in this behaviour
        faults  : SUBSET {"fetch", "create", "save", "crash"}]
  /\ None \notin Revisions /\ None \notin UserSnapshot
  /\ None \notin [revision : Revisions, users : UserLists \cup {None}]

VARIABLES
  setting,                                 \* fixed: a member of Settings
  panelRevision, panelUsers,               \* what the panel serves
  Revision, ETag,                          \* durable: the configuration
  UserETag, UserRevision, UserLoadStatus,  \* durable: the inbound
  instance,                                \* the running Box
  updates,                                 \* binary updates tried
  pc,                                      \* where the goroutines are
  call, cfg, prevRev,                      \* the call of the manager
  configRevision, etag, prevRevision, snapshot, status,  \* PollInbound
  configRefetch                            \* the poller's flag

panel   == <<setting, panelRevision, panelUsers>>
config  == <<Revision, ETag>>
inbound == <<UserETag, UserRevision, UserLoadStatus>>
calling == <<call, cfg, prevRev>>
polling == <<configRevision, etag, prevRevision, snapshot, status>>
vars    == <<panel, config, inbound, instance, updates, pc, calling, polling, configRefetch>>

Statuses == {"", "ok", "stale", "empty_initial_load", "revision_conflict", "apply_failed"}

(* Where the configuration goroutine is inside a manager call. *)
Locked == {"apply", "create", "applied", "applyFailed", "manual"}

PC == Locked \cup {"down", "boot", "off", "tick", "read", "fetchUsers", "replace",
                   "updateState", "setStatus", "update", "reboot"}

(* The program's variables hold values of their types. *)
TypeOK ==
  /\ setting \in Settings
  /\ panelRevision \in Revisions /\ panelUsers \in UserLists
  /\ Revision \in Revisions \cup {None} /\ ETag \in Revisions \cup {None}
  /\ UserETag \in UserSnapshot \cup {None}
  /\ UserRevision \in UserLists \cup {None}
  /\ UserLoadStatus \in Statuses
  /\ instance \in [revision : Revisions, users : UserLists \cup {None}] \cup {None}
  /\ updates \in 0 .. setting.updates
  /\ pc \in [Pollers -> PC]
  /\ call \in {None, "Bootstrap", "PollConfiguration", "re-bootstrap"}
  /\ cfg \in Revisions \cup {None} /\ prevRev \in Revisions \cup {None}
  /\ configRevision \in [Pollers -> Revisions \cup {None}]
  /\ etag \in [Pollers -> UserSnapshot \cup {None}]
  /\ prevRevision \in [Pollers -> UserLists \cup {None}]
  /\ snapshot \in [Pollers -> UserSnapshot \cup {None}]
  /\ status \in [Pollers -> Statuses]
  /\ configRefetch \in BOOLEAN

Points(main, users) == [t \in Pollers |-> IF t = "config" THEN main ELSE users]

(* main has not started the goroutines yet. *)
Starting == pc["users"] = "off"

Init ==
  /\ setting \in Settings
  /\ panelRevision = 1 /\ panelUsers = 1
  /\ Revision = None /\ ETag = None
  /\ UserETag = None /\ UserRevision = None /\ UserLoadStatus = ""
  /\ instance = None
  /\ updates = 0
  /\ pc = Points("down", "off")
  /\ call = None /\ cfg = None /\ prevRev = None
  /\ configRevision = [t \in Pollers |-> None]
  /\ etag = [t \in Pollers |-> None]
  /\ prevRevision = [t \in Pollers |-> None]
  /\ snapshot = [t \in Pollers |-> None]
  /\ status = [t \in Pollers |-> ""]
  /\ configRefetch = FALSE

Goto(t, label) == pc' = [pc EXCEPT ![t] = label]

(* The configuration goroutine waits for its next tick, or starts. *)
EndTick == pc' = Points("tick", IF Starting THEN "tick" ELSE pc["users"])

(***************************************************************************)
(* The manager.                                                            *)
(***************************************************************************)
Restart ==
  /\ pc["config"] = "down"
  /\ Goto("config", "boot")
  /\ UNCHANGED <<panel, config, inbound, instance, updates, calling, polling,
                 configRefetch>>

Fetched(name, label) ==
  /\ call' = name
  /\ cfg' = panelRevision
  /\ prevRev' = Revision
  /\ Goto("config", label)
  /\ UNCHANGED <<panel, config, inbound, instance, updates, polling, configRefetch>>

(* At startup, and after a binary update that failed: asked for without an *)
(* ETag, applied whatever the strategy.                                    *)
Bootstrap ==
  \/ pc["config"] = "boot" /\ Fetched("Bootstrap", "apply")
  \/ pc["config"] = "reboot" /\ Fetched("re-bootstrap", "apply")

PollConfiguration ==
  /\ pc["config"] = "tick"
  /\ ETag # panelRevision
  /\ Fetched("PollConfiguration", IF panelRevision \in setting.manual THEN "manual" ELSE "apply")

(* 304: the tick goes on with the binary update. *)
NotModified ==
  /\ pc["config"] = "tick"
  /\ ETag = panelRevision
  /\ Goto("config", "update")
  /\ UNCHANGED <<panel, config, inbound, instance, updates, calling, polling,
                 configRefetch>>

(* The call returns an error: main ends the process, a tick ends. *)
ReturnError ==
  /\ call' = None /\ cfg' = None /\ prevRev' = None
  /\ IF Starting THEN Goto("config", "down") /\ instance' = None
                 ELSE Goto("config", "tick") /\ UNCHANGED instance
  /\ UNCHANGED <<panel, updates, polling, configRefetch>>

(* No response, one that is not valid, or a template that cannot be        *)
(* prepared: an error before the Box is touched.                           *)
FetchConfigurationFails ==
  /\ "fetch" \in setting.faults
  /\ pc["config"] \in {"boot", "tick", "reboot"}
  /\ ReturnError
  /\ UNCHANGED <<config, inbound>>

(* Mutant: the old Box is left in place until the new one exists. *)
BugKeepOld ==
  /\ pc["config"] = "apply"
  /\ Goto("config", "create")
  /\ UNCHANGED <<panel, config, inbound, instance, updates, calling, polling,
                 configRefetch>>

(* applyConfigLocked, first part: the old Box is closed. *)
CloseOld ==
  /\ pc["config"] = "apply"
  /\ instance' = None
  /\ Goto("config", "create")
  /\ UNCHANGED <<panel, config, inbound, updates, calling, polling, configRefetch>>

(* Mutant: the Box is created from the revision of before the poll. *)
BugCreatePrevious ==
  /\ pc["config"] = "create"
  /\ instance' = [revision |-> prevRev, users |-> None]
  /\ Goto("config", "applied")
  /\ UNCHANGED <<panel, config, inbound, updates, calling, polling, configRefetch>>

(* Its second part.  The managed inbound starts without users. *)
Create ==
  /\ pc["config"] = "create"
  /\ instance' = [revision |-> cfg, users |-> None]
  /\ Goto("config", "applied")
  /\ UNCHANGED <<panel, config, inbound, updates, calling, polling, configRefetch>>

CreateFails ==
  /\ "create" \in setting.faults
  /\ pc["config"] = "create"
  /\ Goto("config", "applyFailed")
  /\ UNCHANGED <<panel, config, inbound, instance, updates, calling, polling,
                 configRefetch>>

(* Mutant: the ETag of the users outlives the Box they were applied to. *)
BugKeepUserETag(tag, load) ==
  /\ Revision' = cfg /\ ETag' = tag
  /\ UserLoadStatus' = load
  /\ UNCHANGED <<UserETag, UserRevision>>

(* A configuration goes into the state, with a new record of its inbound. *)
Record(tag, load) ==
  /\ Revision' = cfg /\ ETag' = tag
  /\ UserETag' = None /\ UserRevision' = None
  /\ UserLoadStatus' = load

(* The call returns: after a poll that changed the revision users are      *)
(* fetched at once, then a binary update is looked for; the Bootstrap      *)
(* after an update that failed is the end of its tick.                     *)
ReturnOK ==
  /\ call' = None /\ cfg' = None /\ prevRev' = None
  /\ IF call = "re-bootstrap" THEN EndTick
     ELSE IF call = "PollConfiguration" /\ Revision' # prevRev THEN Goto("config", "read")
     ELSE Goto("config", "update")
  /\ configRevision' = [configRevision EXCEPT
       !["config"] = IF pc'["config"] = "read" THEN Revision' ELSE None]
  /\ UNCHANGED <<panel, instance, updates, etag, prevRevision, snapshot, status,
                 configRefetch>>

updateStateApplied ==
  /\ pc["config"] = "applied"
  /\ Record(cfg, "empty_initial_load")
  /\ ReturnOK

recordPendingRevision ==
  /\ pc["config"] = "manual"
  /\ Record(cfg, "")
  /\ ReturnOK

(* Mutant: the ETag of a configuration that could not be applied is kept. *)
BugKeepFailedETag ==
  /\ pc["config"] = "applyFailed"
  /\ Record(cfg, "apply_failed")
  /\ ReturnError

(* Without an ETag, the next poll tries the configuration again. *)
setInboundStatesApplyFailed ==
  /\ pc["config"] = "applyFailed"
  /\ Record(None, "apply_failed")
  /\ ReturnError

(***************************************************************************)
(* tryBinaryUpdate, at the end of every configuration tick and at startup. *)
(***************************************************************************)
NoUpdate ==
  /\ pc["config"] = "update"
  /\ EndTick
  /\ UNCHANGED <<panel, config, inbound, instance, updates, calling, polling,
                 configRefetch>>

(* prepare closed the Box, then exec failed. *)
UpdateFails ==
  /\ pc["config"] = "update"
  /\ updates < setting.updates
  /\ updates' = updates + 1
  /\ instance' = None
  /\ Goto("config", "reboot")
  /\ UNCHANGED <<panel, config, inbound, calling, polling, configRefetch>>

(***************************************************************************)
(* The poller: PollInbound by goroutine t.                                 *)
(***************************************************************************)
UserTick ==
  /\ pc["users"] = "tick"
  /\ configRevision' = [configRevision EXCEPT !["users"] = Revision]
  /\ Goto("users", "read")
  /\ UNCHANGED <<panel, config, inbound, instance, updates, calling, etag, prevRevision,
                 snapshot, status, configRefetch>>

ReadInbound(t) ==
  /\ pc[t] = "read"
  /\ etag' = [etag EXCEPT ![t] = UserETag]
  /\ prevRevision' = [prevRevision EXCEPT ![t] = UserRevision]
  /\ Goto(t, "fetchUsers")
  /\ UNCHANGED <<panel, config, inbound, instance, updates, calling, configRevision,
                 snapshot, status, configRefetch>>

served == [users |-> panelUsers, revision |-> panelRevision]

FetchUsers(t) ==
  /\ pc[t] = "fetchUsers"
  /\ etag[t] # served
  /\ configRevision[t] = panelRevision
  /\ snapshot' = [snapshot EXCEPT ![t] = served]
  /\ Goto(t, "replace")
  /\ UNCHANGED <<panel, config, inbound, instance, updates, calling, configRevision, etag,
                 prevRevision, status, configRefetch>>

SetStatus(t, load) ==
  /\ status' = [status EXCEPT ![t] = load]
  /\ Goto(t, "setStatus")
  /\ UNCHANGED <<panel, config, inbound, instance, updates, calling, configRevision, etag,
                 prevRevision, snapshot>>

UsersNotModified(t) ==
  /\ pc[t] = "fetchUsers"
  /\ etag[t] = served
  /\ SetStatus(t, "ok")
  /\ UNCHANGED configRefetch

(* 409, or a snapshot for another configuration. *)
RevisionConflict(t) ==
  /\ pc[t] = "fetchUsers"
  /\ etag[t] # served
  /\ configRevision[t] # panelRevision
  /\ configRefetch' = TRUE
  /\ SetStatus(t, "revision_conflict")

(* No response, or a snapshot that fails validation. *)
FetchUsersFails(t) ==
  /\ "fetch" \in setting.faults
  /\ pc[t] = "fetchUsers"
  /\ \/ SetStatus(t, IF prevRevision[t] # None THEN "stale" ELSE "empty_initial_load")
     \/ SetStatus(t, "apply_failed")
  /\ UNCHANGED configRefetch

(* ReplaceInboundUsers waits for the lock and applies to the Box of now. *)
ReplaceInboundUsers(t) ==
  /\ pc[t] = "replace"
  /\ pc["config"] \notin Locked
  /\ instance # None
  /\ instance' = [instance EXCEPT !.users = snapshot[t].users]
  /\ Goto(t, "updateState")
  /\ UNCHANGED <<panel, config, inbound, updates, calling, polling, configRefetch>>

NoRunningBox(t) ==
  /\ pc[t] = "replace"
  /\ pc["config"] \notin Locked
  /\ instance = None
  /\ SetStatus(t, "apply_failed")
  /\ UNCHANGED configRefetch

(* PollInbound returns; a tick of the configuration goroutine goes on. *)
EndPoll(t) ==
  /\ Goto(t, IF t = "config" THEN "update" ELSE "tick")
  /\ configRevision' = [configRevision EXCEPT ![t] = None]
  /\ etag' = [etag EXCEPT ![t] = None]
  /\ prevRevision' = [prevRevision EXCEPT ![t] = None]
  /\ snapshot' = [snapshot EXCEPT ![t] = None]
  /\ status' = [status EXCEPT ![t] = ""]
  /\ UNCHANGED <<panel, config, instance, updates, calling, configRefetch>>

updateInboundState(t) ==
  /\ pc[t] = "updateState"
  /\ UserETag' = snapshot[t]
  /\ UserRevision' = snapshot[t].users
  /\ UserLoadStatus' = "ok"
  /\ EndPoll(t)

setInboundStatus(t) ==
  /\ pc[t] = "setStatus"
  /\ UserLoadStatus' = status[t]
  /\ UNCHANGED <<UserETag, UserRevision>>
  /\ EndPoll(t)

(***************************************************************************)
(* The state cannot be saved: it stays as it was.  That an applied         *)
(* configuration is not saved is logged, and no more.                      *)
(***************************************************************************)
SaveFails ==
  /\ "save" \in setting.faults
  /\ UNCHANGED <<config, inbound>>
  /\ \/ pc["config"] = "applied" /\ ReturnOK
     \/ pc["config"] \in {"manual", "applyFailed"} /\ ReturnError
     \/ \E t \in Pollers : pc[t] \in {"updateState", "setStatus"} /\ EndPoll(t)

(***************************************************************************)
(* The environment.                                                        *)
(***************************************************************************)
Crash ==
  /\ "crash" \in setting.faults
  /\ pc["config"] # "down"
  /\ pc' = Points("down", "off")
  /\ instance' = None
  /\ call' = None /\ cfg' = None /\ prevRev' = None
  /\ configRevision' = [t \in Pollers |-> None]
  /\ etag' = [t \in Pollers |-> None]
  /\ prevRevision' = [t \in Pollers |-> None]
  /\ snapshot' = [t \in Pollers |-> None]
  /\ status' = [t \in Pollers |-> ""]
  /\ configRefetch' = FALSE
  /\ UNCHANGED <<panel, config, inbound, updates>>

PushConfiguration ==
  /\ panelRevision < MaxRevision
  /\ panelRevision' = panelRevision + 1
  /\ UNCHANGED <<setting, panelUsers, config, inbound, instance, updates, pc, calling,
                 polling, configRefetch>>

PushUsers ==
  /\ panelUsers < setting.users
  /\ panelUsers' = panelUsers + 1
  /\ UNCHANGED <<setting, panelRevision, config, inbound, instance, updates, pc, calling,
                 polling, configRefetch>>

(***************************************************************************)
(* The specification.  A goroutine that has a step to take takes it, and a *)
(* supervisor restarts the process.                                        *)
(***************************************************************************)
ConfigStep ==
  \/ Restart \/ Bootstrap \/ PollConfiguration \/ NotModified
  \/ CloseOld \/ Create
  \/ updateStateApplied \/ recordPendingRevision \/ setInboundStatesApplyFailed
  \/ NoUpdate \/ UpdateFails

PollStep(t) ==
  \/ ReadInbound(t) \/ FetchUsers(t) \/ UsersNotModified(t) \/ RevisionConflict(t)
  \/ ReplaceInboundUsers(t) \/ NoRunningBox(t)
  \/ updateInboundState(t) \/ setInboundStatus(t)

Work == ConfigStep \/ UserTick \/ \E t \in Pollers : PollStep(t)

Fault ==
  \/ FetchConfigurationFails \/ CreateFails \/ SaveFails \/ Crash
  \/ \E t \in Pollers : FetchUsersFails(t)

Next == Work \/ Fault \/ PushConfiguration \/ PushUsers

Spec == Init /\ [][Next]_vars

FairSpec ==
  /\ Spec
  /\ WF_vars(ConfigStep \/ PollStep("config"))
  /\ WF_vars(UserTick \/ PollStep("users"))

(* From some point on nothing goes wrong and the panel rests. *)
FaultsEnd == <>[][Work]_vars

(***************************************************************************)
(* Properties.                                                             *)
(***************************************************************************)

(* A Box that runs outside a call of the manager runs the revision that    *)
(* the state holds, which is the one that heartbeats and reports name and  *)
(* user snapshots are compared with (a failed save is only logged: after   *)
(* one the state lags behind).                                             *)
RevisionIsRunning ==
  "save" \notin setting.faults /\ setting.manual = {} =>
    (instance # None /\ pc["config"] \notin Locked => instance.revision = Revision)

(* The Bootstrap after a failed update can be reached, and when it fails   *)
(* that can be saved.                                                      *)
RebootSafe ==
  setting.updates > 0 =>
    "fetch" \notin setting.faults /\ ~({"create", "save"} \subseteq setting.faults)

(* When the panel would answer the next poll with 304, the Box runs the    *)
(* panel's configuration: no ETag stands for one that failed to apply or   *)
(* that is not running any more.  A manual revision is recorded and not    *)
(* applied; a Bootstrap that fails after a failed update leaves no Box.    *)
NotModifiedIsRunning ==
  setting.manual = {} /\ RebootSafe =>
    (pc["config"] \notin Locked \cup {"down", "boot", "reboot"} /\ ETag = panelRevision
       => instance # None /\ instance.revision = panelRevision)

(* The panel's users reach the Box once saves succeed, no update has taken *)
(* the Box away and no two snapshots can overtake each other.              *)
Calm == "save" \notin setting.faults /\ setting.updates = 0 /\ setting.users = 1

(* Once nothing goes wrong any more and the panel rests, the Box ends up   *)
(* with the panel's users and says so, whatever configuration it runs; it  *)
(* runs the panel's, unless that waits for an operator.                    *)
NodeConverges ==
  Calm /\ FaultsEnd
    => <>[](/\ instance # None
            /\ setting.manual = {} => instance.revision = panelRevision
            /\ instance.users = panelUsers
            /\ UserLoadStatus = "ok")

(* The status "ok" is not reported forever for a snapshot that the Box     *)
(* does not have.                                                          *)
OkIsApplied ==
  FaultsEnd => ~<>[](/\ UserLoadStatus = "ok"
                     /\ instance # None => instance.users # UserRevision)
=============================================================================
