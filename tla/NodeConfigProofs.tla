-------------------------- MODULE NodeConfigProofs --------------------------
(***************************************************************************)
(* The safety properties of module NodeConfig, for any number of revisions *)
(* and user lists and in all circumstances.                                *)
(***************************************************************************)
EXTENDS NodeConfig, TLAPS

USE DEF panel, config, inbound, calling, polling

(* A poll that is about to apply or to record a snapshot has one, and only *)
(* a process that has not started its goroutines boots.                    *)
PollInv ==
  /\ \A t \in Pollers : pc[t] \in {"replace", "updateState"} => snapshot[t] \in UserSnapshot
  /\ pc["config"] \in {"down", "boot"} => Starting
  /\ pc["config"] = "reboot" => setting.updates > 0

(* A call of the manager is about a revision at least as new as that of    *)
(* the ETag, and newer if the ETag was sent.                               *)
CallInv ==
  /\ ETag # None => ETag <= panelRevision
  /\ pc["config"] \in Locked =>
       /\ cfg \in Revisions /\ cfg <= panelRevision
       /\ ETag # None => ETag <= cfg
       /\ \/ call = "Bootstrap" /\ Starting
          \/ call = "PollConfiguration" /\ ETag # cfg
          \/ call = "re-bootstrap" /\ setting.updates > 0
  /\ pc["config"] = "manual" => cfg \in setting.manual
  /\ pc["config"] = "applyFailed" => "create" \in setting.faults

(* The Box between the parts of applyConfigLocked. *)
BoxInv ==
  /\ pc["config"] \in {"create", "applyFailed"} => instance = None
  /\ pc["config"] = "applied" => instance # None /\ instance.revision = cfg

(* The inductive invariant. *)
IInv == TypeOK /\ PollInv /\ CallInv /\ BoxInv /\ RevisionIsRunning /\ NotModifiedIsRunning

(* The types of the fields of a setting. *)
LEMMA SettingTypes ==
  ASSUME setting \in Settings
  PROVE  setting.updates \in Nat /\ setting.manual \subseteq Revisions /\ setting.users \in UserLists
  BY Zenon, ConstantsAssumption

(* Revisions and user lists are numbers from 1 on; nil is no revision and  *)
(* no Box.                                                                 *)
LEMMA Numbers ==
  /\ 1 \in Revisions /\ 1 \in UserLists /\ None \notin Revisions
  /\ Revisions \subseteq Nat /\ UserLists \subseteq Nat
  /\ \A r \in Revisions, u \in UserLists \cup {None} : [revision |-> r, users |-> u] # None
<1>1. 1 \in Revisions /\ 1 \in UserLists /\ Revisions \subseteq Nat /\ UserLists \subseteq Nat
  BY ConstantsAssumption DEF Revisions, UserLists
<1>2. None \notin Revisions
  BY Zenon, ConstantsAssumption
<1>3. \A r \in Revisions, u \in UserLists \cup {None} : [revision |-> r, users |-> u] # None
  BY ConstantsAssumption
<1> QED
  BY Zenon, <1>1, <1>2, <1>3

(* The first start of a node. *)
LEMMA InitIInv == Init => IInv
<1> SUFFICES ASSUME Init PROVE IInv
  BY Zenon
<1>1. TypeOK
  <2>1. setting.updates \in Nat
    BY Zenon, SettingTypes DEF Init
  <2>2. updates = 0
    BY Zenon DEF Init
  <2>3. updates \in 0 .. setting.updates
    BY <2>1, <2>2
  <2> QED
    BY Zenon, <2>3, Numbers DEF Init, TypeOK, Points, Pollers, PC, Locked, Statuses
<1>2. PollInv /\ CallInv /\ BoxInv
  BY Zenon DEF Init, PollInv, CallInv, BoxInv, Points, Pollers, Starting, Locked
<1>3. RevisionIsRunning /\ NotModifiedIsRunning
  BY Zenon, Numbers DEF Init, RevisionIsRunning, NotModifiedIsRunning, Points, Pollers
<1> QED
  BY Zenon, <1>1, <1>2, <1>3 DEF IInv

(* The configuration goroutine keeps the invariant. *)
LEMMA ConfigStepIInv == ASSUME IInv, ConfigStep PROVE IInv'
<1> USE DEF Goto, Pollers
<1> TypeOK /\ PollInv /\ CallInv /\ BoxInv /\ RevisionIsRunning /\ NotModifiedIsRunning
  BY Zenon DEF IInv
<1>1. CASE Restart
  <2>1. TypeOK'
    BY <1>1 DEF Restart, TypeOK, PC
  <2>2. PollInv' /\ CallInv' /\ BoxInv'
    BY Zenon, <1>1 DEF Restart, TypeOK, PollInv, CallInv, BoxInv, Starting, Locked
  <2>3. RevisionIsRunning' /\ NotModifiedIsRunning'
    BY Zenon, <1>1 DEF Restart, TypeOK, RevisionIsRunning, NotModifiedIsRunning, RebootSafe, Locked
  <2> QED
    BY Zenon, <2>1, <2>2, <2>3 DEF IInv
<1>2. CASE Bootstrap
  <2>1. TypeOK'
    BY Zenon, <1>2 DEF Bootstrap, Fetched, TypeOK, PC, Locked
  <2>2. PollInv' /\ CallInv' /\ BoxInv'
    BY <1>2, Numbers DEF Bootstrap, Fetched, TypeOK, PollInv, CallInv, BoxInv, Starting, Locked
  <2>3. RevisionIsRunning' /\ NotModifiedIsRunning'
    BY Zenon, <1>2 DEF Bootstrap, Fetched, TypeOK, RevisionIsRunning, NotModifiedIsRunning, Locked
  <2> QED
    BY Zenon, <2>1, <2>2, <2>3 DEF IInv
<1>3. CASE PollConfiguration
  <2>1. TypeOK'
    BY Zenon, <1>3 DEF PollConfiguration, Fetched, TypeOK, PC, Locked
  <2>2. PollInv' /\ CallInv' /\ BoxInv'
    BY <1>3, Numbers DEF PollConfiguration, Fetched, TypeOK, PollInv, CallInv, BoxInv, Starting, Locked
  <2>3. RevisionIsRunning' /\ NotModifiedIsRunning'
    BY Zenon, <1>3 DEF PollConfiguration, Fetched, TypeOK, RevisionIsRunning, NotModifiedIsRunning, Locked
  <2> QED
    BY Zenon, <2>1, <2>2, <2>3 DEF IInv
<1>4. CASE NotModified
  <2>1. TypeOK'
    BY <1>4 DEF NotModified, TypeOK, PC
  <2>2. PollInv' /\ CallInv' /\ BoxInv'
    BY Zenon, <1>4 DEF NotModified, TypeOK, PollInv, CallInv, BoxInv, Starting, Locked
  <2>3. RevisionIsRunning' /\ NotModifiedIsRunning'
    BY Zenon, <1>4 DEF NotModified, TypeOK, RevisionIsRunning, NotModifiedIsRunning, RebootSafe, Locked
  <2> QED
    BY Zenon, <2>1, <2>2, <2>3 DEF IInv
<1>5. CASE CloseOld
  <2>1. TypeOK'
    BY Zenon, <1>5 DEF CloseOld, TypeOK, PC, Locked
  <2>2. PollInv' /\ CallInv' /\ BoxInv'
    BY Zenon, <1>5 DEF CloseOld, TypeOK, PollInv, CallInv, BoxInv, Starting, Locked
  <2>3. RevisionIsRunning' /\ NotModifiedIsRunning'
    BY Zenon, <1>5 DEF CloseOld, TypeOK, RevisionIsRunning, NotModifiedIsRunning, Locked
  <2> QED
    BY Zenon, <2>1, <2>2, <2>3 DEF IInv
<1>6. CASE Create
  <2>1. TypeOK' /\ BoxInv'
    BY Zenon, <1>6, Numbers DEF Create, TypeOK, PC, Locked, CallInv, BoxInv
  <2>2. PollInv' /\ CallInv'
    BY Zenon, <1>6 DEF Create, TypeOK, PollInv, CallInv, Starting, Locked
  <2>3. RevisionIsRunning' /\ NotModifiedIsRunning'
    BY Zenon, <1>6 DEF Create, TypeOK, RevisionIsRunning, NotModifiedIsRunning, Locked
  <2> QED
    BY Zenon, <2>1, <2>2, <2>3 DEF IInv
<1>7. CASE updateStateApplied
  <2>1. TypeOK'
    <3>1. pc' \in [Pollers -> PC]
      BY Zenon, <1>7 DEF updateStateApplied, ReturnOK, EndTick, Points, TypeOK, PC
    <3>2. /\ cfg \in Revisions
          /\ configRevision' \in [Pollers -> Revisions \cup {None}]
      BY Zenon, <1>7 DEF updateStateApplied, Record, ReturnOK, TypeOK, CallInv, Locked
    <3> QED
      BY Zenon, <1>7, <3>1, <3>2 DEF updateStateApplied, Record, ReturnOK, TypeOK, Statuses
  <2>2. PollInv' /\ CallInv' /\ BoxInv'
    BY <1>7 DEF updateStateApplied, Record, ReturnOK, EndTick, Points, TypeOK, PollInv, CallInv,
       BoxInv, Starting, Locked
  <2>3. RevisionIsRunning' /\ NotModifiedIsRunning'
    BY Zenon, <1>7 DEF updateStateApplied, Record, ReturnOK, RevisionIsRunning, NotModifiedIsRunning,
       BoxInv
  <2> QED
    BY Zenon, <2>1, <2>2, <2>3 DEF IInv
<1>8. CASE recordPendingRevision
  <2>1. TypeOK'
    <3>1. pc' \in [Pollers -> PC]
      BY Zenon, <1>8 DEF recordPendingRevision, ReturnOK, EndTick, Points, TypeOK, PC
    <3>2. /\ cfg \in Revisions
          /\ configRevision' \in [Pollers -> Revisions \cup {None}]
      BY Zenon, <1>8 DEF recordPendingRevision, Record, ReturnOK, TypeOK, CallInv, Locked
    <3> QED
      BY Zenon, <1>8, <3>1, <3>2 DEF recordPendingRevision, Record, ReturnOK, TypeOK, Statuses
  <2>2. PollInv' /\ CallInv' /\ BoxInv'
    BY ZenonT(60), <1>8 DEF recordPendingRevision, Record, ReturnOK, EndTick, Points, TypeOK, PollInv, CallInv,
       BoxInv, Starting, Locked
  <2>3. RevisionIsRunning' /\ NotModifiedIsRunning'
    BY Zenon, <1>8 DEF recordPendingRevision, ReturnOK, CallInv, RevisionIsRunning, NotModifiedIsRunning
  <2> QED
    BY Zenon, <2>1, <2>2, <2>3 DEF IInv
<1>9. CASE setInboundStatesApplyFailed
  <2>1. TypeOK'
    BY ZenonT(60), <1>9 DEF setInboundStatesApplyFailed, Record, ReturnError, TypeOK, PC, Locked, Statuses, CallInv
  <2>2. PollInv' /\ CallInv' /\ BoxInv'
    BY Zenon, <1>9 DEF setInboundStatesApplyFailed, Record, ReturnError, TypeOK, PollInv, CallInv, BoxInv,
       Starting, Locked
  <2>3. RevisionIsRunning' /\ NotModifiedIsRunning'
    <3>1. instance' = None /\ ETag' = None /\ panelRevision' \in Revisions
      BY Zenon, <1>9 DEF setInboundStatesApplyFailed, Record, ReturnError, BoxInv, TypeOK
    <3> QED
      BY Zenon, <3>1, Numbers DEF RevisionIsRunning, NotModifiedIsRunning
  <2> QED
    BY Zenon, <2>1, <2>2, <2>3 DEF IInv
<1>10. CASE NoUpdate
  <2>1. TypeOK'
    BY SMTT(30), <1>10 DEF NoUpdate, EndTick, Points, TypeOK, PC
  <2>2. PollInv' /\ CallInv' /\ BoxInv'
    BY ZenonT(60), <1>10 DEF NoUpdate, EndTick, Points, TypeOK, PollInv, CallInv, BoxInv, Starting, Locked
  <2>3. RevisionIsRunning' /\ NotModifiedIsRunning'
    BY ZenonT(60), <1>10 DEF NoUpdate, EndTick, Points, TypeOK, RevisionIsRunning, NotModifiedIsRunning,
       RebootSafe, Locked
  <2> QED
    BY Zenon, <2>1, <2>2, <2>3 DEF IInv
<1>11. CASE UpdateFails
  <2>0. updates' \in 0 .. setting.updates /\ setting.updates > 0
    <3>1. setting \in Settings
      BY Zenon DEF TypeOK
    <3>2. setting.updates \in Nat
      BY Zenon, <3>1, SettingTypes
    <3>3. updates \in 0 .. setting.updates /\ updates < setting.updates /\ updates' = updates + 1
      BY ZenonT(60), <1>11 DEF UpdateFails, TypeOK
    <3> QED
      BY ONLY <3>2, <3>3
  <2>1. TypeOK'
    BY ZenonT(60), <1>11, <2>0 DEF UpdateFails, TypeOK, PC
  <2>2. PollInv' /\ CallInv' /\ BoxInv'
    BY Zenon, <1>11, <2>0 DEF UpdateFails, TypeOK, PollInv, CallInv, BoxInv, Starting, Locked
  <2>3. RevisionIsRunning' /\ NotModifiedIsRunning'
    BY Zenon, <1>11 DEF UpdateFails, TypeOK, RevisionIsRunning, NotModifiedIsRunning
  <2> QED
    BY Zenon, <2>1, <2>2, <2>3 DEF IInv
<1> QED
  BY Zenon, <1>1, <1>2, <1>3, <1>4, <1>5, <1>6, <1>7, <1>8, <1>9, <1>10, <1>11 DEF ConfigStep

(* A step of PollInbound moves its own goroutine and leaves the Box and    *)
(* the configuration alone, but for the users of the Box.                  *)
PollMove(t) ==
  /\ pc' \in [Pollers -> PC] /\ \A u \in Pollers : u # t => pc'[u] = pc[u]
  /\ pc[t] \in {"read", "fetchUsers", "replace", "updateState", "setStatus"}
  /\ pc'[t] \in {"read", "fetchUsers", "replace", "updateState", "setStatus", "tick", "update"}
  /\ UNCHANGED <<panel, config, calling, updates>>
  /\ \/ instance' = instance
     \/ /\ pc["config"] \notin Locked /\ instance # None /\ instance' # None
        /\ instance'.revision = instance.revision
  /\ t = "config" => pc'[t] # "tick"
  /\ \A u \in Pollers : pc'[u] \in {"replace", "updateState"} => snapshot'[u] \in UserSnapshot

(* Such a step keeps the invariant. *)
LEMMA PollMoveIInv ==
  ASSUME IInv, TypeOK', NEW t \in Pollers, PollMove(t)
  PROVE  IInv'
<1>1. PollInv'
  BY Zenon DEF IInv, PollMove, PollInv, Starting, Pollers
<1>2. CallInv' /\ BoxInv'
  BY ZenonT(60) DEF IInv, PollMove, CallInv, BoxInv, Starting, Pollers, Locked
<1>3. RevisionIsRunning'
  BY Zenon DEF IInv, PollMove, RevisionIsRunning, Pollers, Locked
<1>4. NotModifiedIsRunning'
  BY Zenon DEF IInv, PollMove, NotModifiedIsRunning, RebootSafe, Pollers, Locked
<1> QED
  BY Zenon, <1>1, <1>2, <1>3, <1>4 DEF IInv

(* Every step of the poller is one. *)
LEMMA PollStepIInv ==
  ASSUME IInv, NEW t \in Pollers, PollStep(t) \/ FetchUsersFails(t)
  PROVE  IInv'
<1> USE DEF Goto
<1> TypeOK /\ PollInv /\ CallInv /\ BoxInv /\ RevisionIsRunning /\ NotModifiedIsRunning
  BY Zenon DEF IInv
<1>1. CASE ReadInbound(t)
  <2>1. TypeOK'
    BY ZenonT(60), <1>1 DEF ReadInbound, TypeOK, PC
  <2>2. PollMove(t)
    BY ZenonT(60), <1>1 DEF ReadInbound, TypeOK, PC, PollMove, PollInv
  <2> QED
    BY Zenon, <2>1, <2>2, PollMoveIInv
<1>2. CASE FetchUsers(t)
  <2>1. TypeOK' /\ PollMove(t)
    BY SMTT(30), <1>2 DEF FetchUsers, served, UserSnapshot, TypeOK, PC, PollMove, PollInv
  <2> QED
    BY Zenon, <2>1, PollMoveIInv
<1>3. CASE UsersNotModified(t) \/ RevisionConflict(t) \/ FetchUsersFails(t) \/ NoRunningBox(t)
  <2>1. TypeOK'
    <3>1. \E load \in Statuses : SetStatus(t, load) /\ configRefetch' \in BOOLEAN
      BY Zenon, <1>3 DEF UsersNotModified, RevisionConflict, FetchUsersFails, NoRunningBox, TypeOK, Statuses
    <3> QED
      BY SMTT(30), <3>1 DEF SetStatus, TypeOK, PC
  <2>2. PollMove(t)
    BY Zenon, <1>3 DEF UsersNotModified, RevisionConflict, FetchUsersFails, NoRunningBox, SetStatus,
       TypeOK, PC, PollMove, PollInv
  <2> QED
    BY Zenon, <2>1, <2>2, PollMoveIInv
<1>4. CASE ReplaceInboundUsers(t)
  <2>1. TypeOK' /\ instance' # None
    BY Zenon, <1>4, Numbers DEF ReplaceInboundUsers, TypeOK, PC, PollInv, UserSnapshot
  <2>2. PollMove(t)
    BY Zenon, <1>4, <2>1 DEF ReplaceInboundUsers, TypeOK, PC, PollMove, PollInv
  <2> QED
    BY Zenon, <2>1, <2>2, PollMoveIInv
<1>5. CASE updateInboundState(t) \/ setInboundStatus(t)
  <2>1. TypeOK'
    <3>1. /\ UserETag' \in UserSnapshot \cup {None}
          /\ UserRevision' \in UserLists \cup {None}
          /\ UserLoadStatus' \in Statuses
      BY Zenon, <1>5 DEF updateInboundState, setInboundStatus, TypeOK, PollInv, UserSnapshot, Statuses
    <3> QED
      BY Zenon, <1>5, <3>1 DEF updateInboundState, setInboundStatus, EndPoll, TypeOK, PC, Statuses
  <2>2. PollMove(t)
    BY ZenonT(60), <1>5 DEF updateInboundState, setInboundStatus, EndPoll, TypeOK, PC, PollMove, PollInv
  <2> QED
    BY Zenon, <2>1, <2>2, PollMoveIInv
<1> QED
  BY Zenon, <1>1, <1>2, <1>3, <1>4, <1>5 DEF PollStep

(* What goes wrong keeps the invariant. *)
LEMMA FaultIInv ==
  ASSUME IInv, FetchConfigurationFails \/ CreateFails \/ SaveFails \/ Crash
  PROVE  IInv'
<1> USE DEF Goto
<1> TypeOK /\ PollInv /\ CallInv /\ BoxInv /\ RevisionIsRunning /\ NotModifiedIsRunning
  BY Zenon DEF IInv
<1>1. CASE FetchConfigurationFails
  <2>1. TypeOK'
    BY Zenon, <1>1 DEF FetchConfigurationFails, ReturnError, TypeOK, PC, Pollers
  <2>2. PollInv' /\ CallInv' /\ BoxInv'
    BY Zenon, <1>1 DEF FetchConfigurationFails, ReturnError, TypeOK, PollInv, CallInv, BoxInv, Starting,
       Locked, Pollers
  <2>3. RevisionIsRunning' /\ NotModifiedIsRunning'
    BY ZenonT(60), <1>1 DEF FetchConfigurationFails, ReturnError, TypeOK, PollInv, Locked, Pollers,
       RevisionIsRunning, NotModifiedIsRunning, RebootSafe
  <2> QED
    BY Zenon, <2>1, <2>2, <2>3 DEF IInv
<1>2. CASE CreateFails
  <2>1. TypeOK'
    BY ZenonT(60), <1>2 DEF CreateFails, TypeOK, PC, Locked, Pollers
  <2>2. PollInv' /\ CallInv' /\ BoxInv'
    BY ZenonT(60), <1>2 DEF CreateFails, TypeOK, PollInv, CallInv, BoxInv, Starting, Locked, Pollers
  <2>3. RevisionIsRunning' /\ NotModifiedIsRunning'
    BY ZenonT(60), <1>2 DEF CreateFails, TypeOK, Locked, Pollers, RevisionIsRunning, NotModifiedIsRunning
  <2> QED
    BY Zenon, <2>1, <2>2, <2>3 DEF IInv
<1>3. CASE SaveFails
  <2>1. CASE pc["config"] = "applied" /\ ReturnOK
    <3>1. TypeOK'
      <4>1. pc' \in [Pollers -> PC]
        <5>1. pc' = Points("tick", IF Starting THEN "tick" ELSE pc["users"])
              \/ \E label \in {"read", "update"} : Goto("config", label)
          BY Zenon, <2>1 DEF ReturnOK, EndTick
        <5> QED
          BY Zenon, <5>1 DEF Points, TypeOK, PC, Pollers
      <4>2. configRevision' \in [Pollers -> Revisions \cup {None}]
        BY Zenon, <1>3, <2>1 DEF SaveFails, ReturnOK, TypeOK
      <4> QED
        BY ZenonT(60), <1>3, <2>1, <4>1, <4>2 DEF SaveFails, ReturnOK, TypeOK
    <3>2. PollInv' /\ CallInv' /\ BoxInv'
      BY ZenonT(60), <1>3, <2>1 DEF SaveFails, ReturnOK, EndTick, Points, TypeOK, PollInv, CallInv, BoxInv,
         Starting, Locked, Pollers
    <3>3. RevisionIsRunning' /\ NotModifiedIsRunning'
      <4>1. /\ instance' # None /\ instance'.revision = cfg
            /\ ETag' # None => ETag' <= cfg
            /\ ETag' \in Revisions \cup {None} /\ cfg \in Revisions
            /\ panelRevision' \in Revisions /\ cfg <= panelRevision'
        BY Zenon, <1>3, <2>1 DEF SaveFails, ReturnOK, TypeOK, CallInv, BoxInv, Locked
      <4>2. ETag' = panelRevision' => cfg = panelRevision'
        <5>1. cfg \in Nat /\ panelRevision' \in Nat /\ panelRevision' # None
          BY Zenon, <4>1, Numbers
        <5> QED
          BY SMTT(30), <4>1, <5>1
      <4> QED
        BY Zenon, <1>3, <2>1, <4>1, <4>2 DEF SaveFails, ReturnOK, RevisionIsRunning, NotModifiedIsRunning
    <3> QED
      BY Zenon, <3>1, <3>2, <3>3 DEF IInv
  <2>2. CASE pc["config"] \in {"manual", "applyFailed"} /\ ReturnError
    <3>1. TypeOK'
      BY ZenonT(60), <1>3, <2>2 DEF SaveFails, ReturnError, TypeOK, PC, Pollers
    <3>2. PollInv' /\ CallInv' /\ BoxInv'
      BY ZenonT(60), <1>3, <2>2 DEF SaveFails, ReturnError, TypeOK, PollInv, CallInv, BoxInv, Starting, Locked,
         Pollers
    <3>3. RevisionIsRunning'
      BY Zenon, <1>3 DEF SaveFails, RevisionIsRunning, ReturnError, ReturnOK, EndPoll
    <3>4. NotModifiedIsRunning'
      <4> SUFFICES ASSUME setting.manual = {}, RebootSafe PROVE NotModifiedIsRunning'
        BY ZenonT(60), <1>3, <2>2 DEF SaveFails, ReturnError, NotModifiedIsRunning, RebootSafe
      <4>1. pc["config"] = "applyFailed" /\ call # "re-bootstrap"
        BY Zenon, <1>3, <2>2 DEF SaveFails, CallInv, RebootSafe, Locked
      <4>2. CASE Starting
        BY Zenon, <2>2, <4>2 DEF ReturnError, TypeOK, Pollers, NotModifiedIsRunning
      <4>3. CASE ~Starting
        <5>1. /\ ETag' # cfg /\ (ETag' # None => ETag' <= cfg)
              /\ ETag' \in Revisions \cup {None} /\ cfg \in Revisions
              /\ panelRevision' \in Revisions /\ cfg <= panelRevision'
          BY ZenonT(60), <1>3, <2>2, <4>1, <4>3 DEF SaveFails, ReturnError, CallInv, TypeOK, Locked
        <5>2. ETag' # panelRevision'
          BY <5>1, Numbers
        <5> QED
          BY Zenon, <5>2 DEF NotModifiedIsRunning
      <4> QED
        BY Zenon, <4>2, <4>3
    <3> QED
      BY Zenon, <3>1, <3>2, <3>3, <3>4 DEF IInv
  <2>3. ASSUME NEW t \in Pollers, pc[t] \in {"updateState", "setStatus"}, EndPoll(t)
        PROVE  IInv'
    <3>1. TypeOK'
      <4>1. pc' \in [Pollers -> PC] /\ status' \in [Pollers -> Statuses]
        BY Zenon, <2>3 DEF EndPoll, TypeOK, PC, Statuses
      <4> QED
        BY ZenonT(60), <1>3, <2>3, <4>1 DEF SaveFails, EndPoll, TypeOK
    <3>2. PollMove(t)
      BY ZenonT(60), <1>3, <2>3 DEF SaveFails, EndPoll, TypeOK, PC, PollMove, PollInv
    <3> QED
      BY Zenon, <3>1, <3>2, PollMoveIInv
  <2> QED
    BY Zenon, <1>3, <2>1, <2>2, <2>3 DEF SaveFails
<1>4. CASE Crash
  <2>1. TypeOK'
    BY ZenonT(60), <1>4 DEF Crash, Points, TypeOK, PC, Statuses
  <2>2. PollInv' /\ CallInv' /\ BoxInv' /\ RevisionIsRunning' /\ NotModifiedIsRunning'
    BY ZenonT(60), <1>4 DEF Crash, Points, PollInv, CallInv, BoxInv, Starting, Locked, Pollers,
       RevisionIsRunning, NotModifiedIsRunning
  <2> QED
    BY Zenon, <2>1, <2>2 DEF IInv
<1> QED
  BY Zenon, <1>1, <1>2, <1>3, <1>4

(* The panel, a tick of the user goroutine, and nothing at all. *)
LEMMA PushIInv ==
  ASSUME IInv, PushConfiguration \/ PushUsers \/ UserTick \/ UNCHANGED vars
  PROVE  IInv'
<1> TypeOK /\ PollInv /\ CallInv /\ BoxInv /\ RevisionIsRunning /\ NotModifiedIsRunning
  BY Zenon DEF IInv
<1>1. CASE PushConfiguration
  <2>1. TypeOK' /\ panelRevision' = panelRevision + 1 /\ panelRevision \in Nat
    <3>1. panelRevision \in Nat /\ panelRevision' \in Revisions
      <4>1. MaxRevision \in Nat
        BY Zenon, ConstantsAssumption
      <4>2. panelRevision \in Revisions /\ panelRevision < MaxRevision
            /\ panelRevision' = panelRevision + 1
        BY ZenonT(60), <1>1 DEF PushConfiguration, TypeOK
      <4> QED
        BY <4>1, <4>2 DEF Revisions
    <3> QED
      BY ZenonT(60), <1>1, <3>1 DEF PushConfiguration, TypeOK
  <2>2. PollInv' /\ CallInv' /\ BoxInv'
    <3>1. PollInv' /\ BoxInv'
      BY Zenon, <1>1 DEF PushConfiguration, PollInv, BoxInv, Starting
    <3>2. \A r \in Revisions : r <= panelRevision => r <= panelRevision'
      <4>1. Revisions \subseteq Nat /\ panelRevision \in Nat /\ panelRevision' = panelRevision + 1
        BY <2>1, Numbers DEF TypeOK
      <4> QED
        BY ONLY <4>1
    <3> QED
      BY Zenon, <1>1, <3>1, <3>2 DEF PushConfiguration, TypeOK, CallInv, Starting
  <2>3. RevisionIsRunning' /\ NotModifiedIsRunning'
    <3>1. RevisionIsRunning'
      BY Zenon, <1>1 DEF PushConfiguration, RevisionIsRunning
    <3>2. panelRevision' \in Revisions /\ \A r \in Revisions : r <= panelRevision => r # panelRevision'
      BY <2>1, Numbers DEF TypeOK
    <3>3. ETag' # panelRevision'
      BY Zenon, <1>1, <3>2, Numbers DEF PushConfiguration, TypeOK, CallInv
    <3> QED
      BY Zenon, <3>1, <3>3 DEF NotModifiedIsRunning
  <2> QED
    BY Zenon, <2>1, <2>2, <2>3 DEF IInv
<1>2. CASE PushUsers
  <2>1. TypeOK'
    <3>1. panelUsers' \in UserLists
      <4>1. setting.users \in UserLists
        BY Zenon, SettingTypes DEF TypeOK
      <4>2. panelUsers' = panelUsers + 1 /\ panelUsers < setting.users /\ panelUsers \in UserLists
        BY Zenon, <1>2 DEF PushUsers, TypeOK
      <4> QED
        BY <4>1, <4>2, ConstantsAssumption DEF UserLists
    <3> QED
      BY Zenon, <1>2, <3>1 DEF PushUsers, TypeOK
  <2>2. PollInv' /\ CallInv' /\ BoxInv' /\ RevisionIsRunning' /\ NotModifiedIsRunning'
    BY <1>2 DEF PushUsers, PollInv, CallInv, BoxInv, Starting, RevisionIsRunning,
       NotModifiedIsRunning, RebootSafe
  <2> QED
    BY Zenon, <2>1, <2>2 DEF IInv
<1>3. CASE UserTick
  <2>1. TypeOK'
    BY SMTT(30), <1>3 DEF UserTick, Goto, TypeOK, PC, Pollers
  <2>2. PollInv' /\ CallInv' /\ BoxInv'
    BY Zenon, <1>3 DEF UserTick, Goto, TypeOK, PollInv, CallInv, BoxInv, Starting, Locked, Pollers
  <2>3. RevisionIsRunning' /\ NotModifiedIsRunning'
    BY Zenon, <1>3 DEF UserTick, Goto, TypeOK, RevisionIsRunning, NotModifiedIsRunning, RebootSafe, Locked, Pollers
  <2> QED
    BY Zenon, <2>1, <2>2, <2>3 DEF IInv
<1>4. CASE UNCHANGED vars
  <2>1. TypeOK'
    BY SMTT(30), <1>4 DEF vars, TypeOK
  <2>2. PollInv' /\ CallInv' /\ BoxInv' /\ RevisionIsRunning' /\ NotModifiedIsRunning'
    BY <1>4 DEF vars, PollInv, CallInv, BoxInv, Starting, RevisionIsRunning, NotModifiedIsRunning,
       RebootSafe
  <2> QED
    BY Zenon, <2>1, <2>2 DEF IInv
<1> QED
  BY Zenon, <1>1, <1>2, <1>3, <1>4

(* The invariant holds in every reachable state. *)
THEOREM Invariance == Spec => []IInv
<1>1. IInv /\ [Next]_vars => IInv'
  BY Zenon, ConfigStepIInv, PollStepIInv, FaultIInv, PushIInv DEF Next, Work, Fault
<1> QED
  BY <1>1, InitIInv, PTL DEF Spec

(* Every reachable state is well typed: nothing is applied, recorded or    *)
(* compared that was not fetched before.                                   *)
THEOREM TypeCorrect == Spec => []TypeOK
<1>1. IInv => TypeOK
  BY Zenon DEF IInv
<1> QED
  BY <1>1, Invariance, PTL

(* While saves succeed and no revision waits for an operator, a Box that   *)
(* runs outside a call of the manager runs the revision of the state.      *)
THEOREM StateNamesTheBox == Spec => []RevisionIsRunning
<1>1. IInv => RevisionIsRunning
  BY Zenon DEF IInv
<1> QED
  BY <1>1, Invariance, PTL

(* An ETag that the panel answers with 304 is that of the running Box.     *)
THEOREM NoStaleETag == Spec => []NotModifiedIsRunning
<1>1. IInv => NotModifiedIsRunning
  BY Zenon DEF IInv
<1> QED
  BY <1>1, Invariance, PTL
=============================================================================
