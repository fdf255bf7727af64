------------------------------ MODULE Reporter ------------------------------
(***************************************************************************)
(* The traffic reporting pipeline of the panel adapter: the staging area   *)
(* of the traffic tracker (traffic/tracker.go), the reporter that journals *)
(* and sends reports (reporter/reporter.go), the durable state store       *)
(* (state/store.go), the goroutines that call the reporter (main.go) and   *)
(* the panel at the other end of an unreliable HTTP connection.            *)
(*                                                                         *)
(* Traffic is a set of Bytes: chunks of traffic, each counted once by a    *)
(* tracked connection.  The counters hold sums of such chunks; module      *)
(* Tracker shows that subtracting a snapshot from a counter removes        *)
(* exactly the chunks the snapshot was taken of, which is what lets this   *)
(* module speak of sets.                                                   *)
(*                                                                         *)
(* A goroutine is at a program point pc[t] between two accesses to state   *)
(* that another goroutine shares (the store, the tracker, the panel, the   *)
(* reporter's own fields, which no lock protects).  The process may crash  *)
(* at every such point; only the store survives.  The wall clock may jump, *)
(* so that a new report may have any window, and one that was used before. *)
(*                                                                         *)
(* At startup main itself may apply a binary update, before the goroutines *)
(* start: the same ReportNow with nobody else running, which is what the   *)
(* instances whose only reporter is an updater do.                         *)
(***************************************************************************)
EXTENDS Integers, FiniteSets

CONSTANTS
  Bytes,      \* chunks of traffic
  Tags,       \* inbound tags
  TagOf,      \* the tag a chunk is counted under
  Mappings,   \* the sets of tags the configurations of the node have
  Reporters,  \* goroutines that call ReportNow
  Updaters,   \* those of them that call it to prepare a binary update
  Windows,    \* pairs of start and end times
  ValidWindows, \* the windows the panel takes
  Legacy,     \* what an earlier run may have left in the store: sets of reports
  None        \* Go's nil

Main == "main"

Threads == Reporters \cup {Main}

(* A pending report: the traffic in its records, its window and whether    *)
(* the store holds its body (entries written by old versions do not).  Its *)
(* idempotency key and its hash are functions of its contents, so that a   *)
(* report stands for its key.                                              *)
Report == [bytes : SUBSET Bytes, window : Windows, body : BOOLEAN]

(* The window is positive and at most five minutes long.                   *)
Valid(r) == r.window \in ValidWindows

(* stagedSnapshot: what every counter held, and what of it is in the       *)
(* records of the report.                                                  *)
Staged == [bytes : SUBSET Bytes, records : SUBSET Bytes, confirmed : BOOLEAN]

BytesOf(S) == UNION {r.bytes : r \in S}

ASSUME ConstantsAssumption ==
  /\ Main \notin Reporters
  /\ Updaters \subseteq Reporters
  /\ ValidWindows \subseteq Windows
  /\ TagOf \in [Bytes -> Tags]
  /\ Mappings \subseteq SUBSET Tags
  /\ None \notin Report /\ None \notin Staged
  /\ Legacy \subseteq SUBSET Report /\ Legacy # {}
  /\ \A L \in Legacy : \A r, s \in L : r # s => r.bytes \cap s.bytes = {}

VARIABLES
  \* durable: the state store
  pendingReports, quarantinedReports,
  \* the tracker
  live, staged, inboundMapping,
  \* fields of the Reporter
  pendingReport,
  \* the process and its goroutines
  phase, pc, rep, todo, remaining, quarantined,
  \* the panel and the requests still on their way to it
  accepted, inflight,
  \* history: traffic counted, traffic that died with a process, traffic
  \* subtracted from the counters without a record
  counted, lost, unbilled

storeVars    == <<pendingReports, quarantinedReports>>
trackerVars  == <<live, staged, inboundMapping>>
recoveryVars == <<todo, remaining, quarantined>>
panelVars    == <<accepted, inflight>>
historyVars  == <<counted, lost, unbilled>>
vars == <<storeVars, trackerVars, pendingReport, phase, pc, rep, recoveryVars,
          panelVars, historyVars>>

PC == {"off", "idle", "check", "recover", "recoverConfirm", "recoverReset",
       "recheck", "stage", "journal", "confirm", "reset", "retry", "send",
       "accept", "acceptReset", "clear", "flush", "exit", "exec"}

TypeOK ==
  /\ pendingReports \in SUBSET Report
  /\ quarantinedReports \in SUBSET Report
  /\ live \in SUBSET Bytes
  /\ staged \in Staged \cup {None}
  /\ inboundMapping \in [Tags -> {"unknown", "mapped", "withdrawn"}]
  /\ pendingReport \in Report \cup {None}
  /\ phase \in {"down", "boot", "run", "flush", "final"}
  /\ pc \in [Threads -> PC]
  /\ rep \in [Threads -> Report \cup {None}]
  /\ todo \in [Threads -> SUBSET Report]
  /\ remaining \in [Threads -> SUBSET Report]
  /\ quarantined \in [Threads -> SUBSET Report]
  /\ accepted \in SUBSET Report
  /\ inflight \in SUBSET Report
  /\ counted \in SUBSET Bytes
  /\ lost \in SUBSET Bytes
  /\ unbilled \in SUBSET Bytes

Goto(t, label) == pc' = [pc EXCEPT ![t] = label]

(* Everything the reports known anywhere outside the process account for.  *)
Known == pendingReports \cup quarantinedReports \cup accepted \cup inflight

(***************************************************************************)
(* The tracker.                                                            *)
(***************************************************************************)

(* A tag that was mapped may still have tracked connections when it no     *)
(* longer is; one that was never mapped in this process has none.          *)
Remap(S) ==
  inboundMapping' = [g \in Tags |->
                       CASE g \in S -> "mapped"
                         [] g \notin S /\ inboundMapping[g] = "unknown" -> "unknown"
                         [] g \notin S /\ inboundMapping[g] # "unknown" -> "withdrawn"]

(* The configuration goroutine hands over the tags of the configuration    *)
(* after every poll, whatever the reporter is doing.                       *)
UpdateInboundMapping ==
  /\ phase = "run"
  /\ \E S \in Mappings : Remap(S)
  /\ UNCHANGED <<storeVars, live, staged, pendingReport, phase, pc, rep,
                 recoveryVars, panelVars, historyVars>>

Mapped(b) == inboundMapping[TagOf[b]] = "mapped"

(* A tracked connection counts a chunk: the box serves from bootstrap until *)
(* it is closed, which a graceful shutdown does before the final flush.     *)
Count(b) ==
  /\ phase \in {"boot", "run"}
  /\ inboundMapping[TagOf[b]] # "unknown"
  /\ b \notin counted
  /\ live' = live \cup {b}
  /\ counted' = counted \cup {b}
  /\ UNCHANGED <<storeVars, staged, inboundMapping, pendingReport, phase, pc, rep,
                 recoveryVars, panelVars, lost, unbilled>>

(* What the counters of the mapped tags hold. *)
Records == {b \in live : Mapped(b)}

(* The snapshot has every counter, the records those of the mapped tags.   *)
StageForReport ==
  staged' = [bytes |-> live, records |-> Records, confirmed |-> FALSE]

(* Mutant: the confirmation is dropped. *)
BugConfirmIgnored == UNCHANGED staged

(* ConfirmJournaled and ConfirmAccepted set two flags that are only ever   *)
(* read as a disjunction.                                                  *)
Confirm ==
  staged' = IF staged = None THEN None
            ELSE [bytes |-> staged.bytes, records |-> staged.records,
                  confirmed |-> TRUE]

(* Mutant: a hard reset instead of a subtraction. *)
BugHardReset ==
  IF staged # None /\ staged.confirmed
  THEN /\ live' = {} /\ staged' = None
       /\ unbilled' = unbilled \cup (staged.bytes \ staged.records)
  ELSE UNCHANGED <<live, staged, unbilled>>

(* The whole snapshot is subtracted, the counters without a record too.    *)
ResetLiveCountersWhenJournaled ==
  IF staged # None /\ staged.confirmed
  THEN /\ live' = live \ staged.bytes
       /\ staged' = None
       /\ unbilled' = unbilled \cup (staged.bytes \ staged.records)
  ELSE UNCHANGED <<live, staged, unbilled>>

(***************************************************************************)
(* The panel.  A request reaches the panel and is answered, reaches it but *)
(* the answer is lost, is still under way when the client gives up, or is  *)
(* refused (429, 503, 409 and other statuses).  The panel takes one report *)
(* per idempotency key, so what it has accepted is a set.                  *)
(***************************************************************************)
ReportTrafficOK(r) == accepted' = accepted \cup {r} /\ UNCHANGED inflight

ReportTrafficFails(r) ==
  \/ accepted' = accepted \cup {r} /\ UNCHANGED inflight
  \/ inflight' = inflight \cup {r} /\ UNCHANGED accepted
  \/ UNCHANGED panelVars

Deliver(r) ==
  /\ r \in inflight
  /\ accepted' = accepted \cup {r}
  /\ inflight' = inflight \ {r}
  /\ UNCHANGED <<storeVars, trackerVars, pendingReport, phase, pc, rep,
                 recoveryVars, historyVars>>

(***************************************************************************)
(* ReportNow.  The guards at the head of ReportNow and Flush that send a   *)
(* pending report with an invalid window to Recovery are dead code:        *)
(* WindowContract below.                                                   *)
(***************************************************************************)

(* Mutant: a goroutine that met an error stops. *)
BugReturnStops(t) == IF t = Main THEN "exit" ELSE "stopped"

(* Where a call of the reporter returns to: the traffic goroutine waits    *)
(* for its next tick, an updater goes on to exec the new binary, the main  *)
(* goroutine goes on with Flush or leaves it.                              *)
ReturnTo(t) ==
  CASE t = Main /\ phase = "flush" -> "flush"
    [] t = Main /\ phase # "flush" -> "exit"
    [] t \in Updaters -> "exec"
    [] OTHER -> "idle"

Return(t) ==
  /\ Goto(t, ReturnTo(t))
  /\ rep' = [rep EXCEPT ![t] = None]

ReportNow(t) ==
  /\ pc[t] = "idle"
  /\ Goto(t, IF pendingReport # None THEN "retry" ELSE "check")
  /\ UNCHANGED <<storeVars, trackerVars, pendingReport, phase, rep, recoveryVars,
                 panelVars, historyVars>>

(* Recovery starts from a copy of the journal. *)
BeginRecovery(t) ==
  /\ todo' = [todo EXCEPT ![t] = pendingReports]
  /\ remaining' = [remaining EXCEPT ![t] = {}]
  /\ quarantined' = [quarantined EXCEPT ![t] = {}]

(* Mutant: reports left in the journal are not sent again. *)
BugNoRecovery(t) ==
  /\ pc[t] = "check"
  /\ IF pendingReports # {} THEN Return(t) ELSE Goto(t, "stage") /\ UNCHANGED rep
  /\ UNCHANGED <<storeVars, trackerVars, pendingReport, phase, recoveryVars,
                 panelVars, historyVars>>

CheckJournal(t) ==
  /\ pc[t] = "check"
  /\ \/ /\ pendingReports # {}
        /\ BeginRecovery(t)
        /\ Goto(t, "recover")
     \/ /\ pendingReports = {}
        /\ Goto(t, "stage")
        /\ UNCHANGED recoveryVars
  /\ UNCHANGED <<storeVars, trackerVars, pendingReport, phase, rep, panelVars,
                 historyVars>>

RecheckJournal(t) ==
  /\ pc[t] = "recheck"
  /\ Goto(t, IF pendingReports # {} THEN ReturnTo(t) ELSE "stage")
  /\ UNCHANGED <<storeVars, trackerVars, pendingReport, phase, rep, recoveryVars,
                 panelVars, historyVars>>

(***************************************************************************)
(* Recovery: each report of the copy is resent with its own key, kept when *)
(* its body is unavailable or the panel does not take it, set aside for    *)
(* quarantine when its window is invalid.  One save at the end replaces    *)
(* the journal by what remains.                                            *)
(***************************************************************************)
RecoverBodyless(t, r) ==
  /\ pc[t] = "recover" /\ r \in todo[t]
  /\ ~r.body
  /\ todo' = [todo EXCEPT ![t] = @ \ {r}]
  /\ remaining' = [remaining EXCEPT ![t] = @ \cup {r}]
  /\ UNCHANGED <<storeVars, trackerVars, pendingReport, phase, pc, rep,
                 quarantined, panelVars, historyVars>>

RecoverInvalid(t, r) ==
  /\ pc[t] = "recover" /\ r \in todo[t]
  /\ r.body /\ ~Valid(r)
  /\ todo' = [todo EXCEPT ![t] = @ \ {r}]
  /\ quarantined' = [quarantined EXCEPT ![t] = @ \cup {r}]
  /\ UNCHANGED <<storeVars, trackerVars, pendingReport, phase, pc, rep, remaining,
                 panelVars, historyVars>>

(* Mutant: recovery does not look at the window. *)
BugRecoverAnyWindow(t, r) ==
  /\ pc[t] = "recover" /\ r \in todo[t]
  /\ r.body
  /\ ReportTrafficOK(r)
  /\ todo' = [todo EXCEPT ![t] = @ \ {r}]
  /\ Goto(t, "recoverConfirm")
  /\ UNCHANGED <<storeVars, trackerVars, pendingReport, phase, rep, remaining,
                 quarantined, historyVars>>

RecoverSendOK(t, r) ==
  /\ pc[t] = "recover" /\ r \in todo[t]
  /\ r.body /\ Valid(r)
  /\ ReportTrafficOK(r)
  /\ todo' = [todo EXCEPT ![t] = @ \ {r}]
  /\ Goto(t, "recoverConfirm")
  /\ UNCHANGED <<storeVars, trackerVars, pendingReport, phase, rep, remaining,
                 quarantined, historyVars>>

(* Mutant: a report the panel did not take is dropped. *)
BugRecoverDrops(t, r) ==
  /\ pc[t] = "recover" /\ r \in todo[t]
  /\ r.body /\ Valid(r)
  /\ ReportTrafficFails(r)
  /\ todo' = [todo EXCEPT ![t] = @ \ {r}]
  /\ UNCHANGED <<storeVars, trackerVars, pendingReport, phase, pc, rep,
                 remaining, quarantined, historyVars>>

RecoverSendFails(t, r) ==
  /\ pc[t] = "recover" /\ r \in todo[t]
  /\ r.body /\ Valid(r)
  /\ ReportTrafficFails(r)
  /\ todo' = [todo EXCEPT ![t] = @ \ {r}]
  /\ remaining' = [remaining EXCEPT ![t] = @ \cup {r}]
  /\ UNCHANGED <<storeVars, trackerVars, pendingReport, phase, pc, rep,
                 quarantined, historyVars>>

RecoverConfirm(t) ==
  /\ pc[t] = "recoverConfirm"
  /\ Confirm
  /\ Goto(t, "recoverReset")
  /\ UNCHANGED <<storeVars, live, inboundMapping, pendingReport, phase, rep,
                 recoveryVars, panelVars, historyVars>>

RecoverReset(t) ==
  /\ pc[t] = "recoverReset"
  /\ ResetLiveCountersWhenJournaled
  /\ Goto(t, "recover")
  /\ UNCHANGED <<storeVars, inboundMapping, pendingReport, phase, rep, recoveryVars,
                 panelVars, counted, lost>>

(* At startup the main goroutine starts the others once Recovery is over,  *)
(* whether or not it failed.                                               *)
AfterRecovery(t, label) ==
  /\ todo' = [todo EXCEPT ![t] = {}]
  /\ remaining' = [remaining EXCEPT ![t] = {}]
  /\ quarantined' = [quarantined EXCEPT ![t] = {}]
  /\ IF t = Main
     THEN /\ pc' = [u \in Threads |-> IF u = Main THEN "off" ELSE "idle"]
          /\ phase' = "run"
     ELSE Goto(t, label) /\ UNCHANGED phase

RecoverySaved(t) ==
  /\ pc[t] = "recover" /\ todo[t] = {}
  /\ pendingReports' = remaining[t]
  /\ quarantinedReports' = quarantinedReports \cup quarantined[t]
  /\ pendingReport' = IF pendingReport \in quarantined[t] THEN None ELSE pendingReport
  /\ AfterRecovery(t, "recheck")
  /\ UNCHANGED <<trackerVars, rep, panelVars, historyVars>>

RecoverySaveFails(t) ==
  /\ pc[t] = "recover" /\ todo[t] = {}
  /\ AfterRecovery(t, ReturnTo(t))
  /\ UNCHANGED <<storeVars, trackerVars, pendingReport, rep, panelVars, historyVars>>

(***************************************************************************)
(* stageAndSend, retryPending and sendAndFinalize.                         *)
(***************************************************************************)

(* Without records there is no report, and the snapshot stays where it is  *)
(* until the next one.                                                     *)
StageNothing(t) ==
  /\ pc[t] = "stage"
  /\ Records = {}
  /\ StageForReport
  /\ Return(t)
  /\ UNCHANGED <<storeVars, live, inboundMapping, pendingReport, phase,
                 recoveryVars, panelVars, historyVars>>

(* Records are made for every counter of a mapped tag, so an open          *)
(* connection that moved no traffic makes a report of no bytes.            *)
Stage(t) ==
  /\ pc[t] = "stage"
  /\ \E g \in Tags : inboundMapping[g] = "mapped"
  /\ StageForReport
  /\ \E w \in Windows :
       rep' = [rep EXCEPT ![t] = [bytes |-> Records, window |-> w, body |-> TRUE]]
  /\ Goto(t, "journal")
  /\ UNCHANGED <<storeVars, live, inboundMapping, pendingReport, phase,
                 recoveryVars, panelVars, historyVars>>

(* The report is journaled as pending, or as quarantined when its window   *)
(* is invalid.                                                             *)
Journal(t) ==
  /\ pc[t] = "journal"
  /\ \/ /\ Valid(rep[t])
        /\ pendingReports' = pendingReports \cup {rep[t]}
        /\ UNCHANGED quarantinedReports
     \/ /\ ~Valid(rep[t])
        /\ quarantinedReports' = quarantinedReports \cup {rep[t]}
        /\ UNCHANGED pendingReports
  /\ Goto(t, "confirm")
  /\ UNCHANGED <<trackerVars, pendingReport, phase, rep, recoveryVars, panelVars,
                 historyVars>>

JournalFails(t) ==
  /\ pc[t] = "journal"
  /\ Return(t)
  /\ UNCHANGED <<storeVars, trackerVars, pendingReport, phase, recoveryVars,
                 panelVars, historyVars>>

ConfirmJournaled(t) ==
  /\ pc[t] = "confirm"
  /\ Confirm
  /\ Goto(t, "reset")
  /\ UNCHANGED <<storeVars, live, inboundMapping, pendingReport, phase, rep,
                 recoveryVars, panelVars, historyVars>>

ResetJournaled(t) ==
  /\ pc[t] = "reset"
  /\ ResetLiveCountersWhenJournaled
  /\ \/ /\ Valid(rep[t])
        /\ pendingReport' = rep[t]
        /\ Goto(t, "send")
        /\ UNCHANGED rep
     \/ /\ ~Valid(rep[t])
        /\ Return(t)
        /\ UNCHANGED pendingReport
  /\ UNCHANGED <<storeVars, inboundMapping, phase, recoveryVars, panelVars, counted,
                 lost>>

(* retryPending saves the retry count before it resends.  The count itself *)
(* is not modelled; the save can fail.                                     *)
RetryPending(t) ==
  /\ pc[t] = "retry" /\ pendingReport # None
  /\ rep' = [rep EXCEPT ![t] = pendingReport]
  /\ Goto(t, "send")
  /\ UNCHANGED <<storeVars, trackerVars, pendingReport, phase, recoveryVars,
                 panelVars, historyVars>>

RetrySaveFails(t) ==
  /\ pc[t] = "retry" /\ pendingReport # None
  /\ Return(t)
  /\ UNCHANGED <<storeVars, trackerVars, pendingReport, phase, recoveryVars,
                 panelVars, historyVars>>

SendOK(t) ==
  /\ pc[t] = "send"
  /\ ReportTrafficOK(rep[t])
  /\ Goto(t, "accept")
  /\ UNCHANGED <<storeVars, trackerVars, pendingReport, phase, rep, recoveryVars,
                 historyVars>>

SendFails(t) ==
  /\ pc[t] = "send"
  /\ ReportTrafficFails(rep[t])
  /\ Return(t)
  /\ UNCHANGED <<storeVars, trackerVars, pendingReport, phase, recoveryVars,
                 historyVars>>

ConfirmAccepted(t) ==
  /\ pc[t] = "accept"
  /\ Confirm
  /\ Goto(t, "acceptReset")
  /\ UNCHANGED <<storeVars, live, inboundMapping, pendingReport, phase, rep,
                 recoveryVars, panelVars, historyVars>>

ResetAccepted(t) ==
  /\ pc[t] = "acceptReset"
  /\ ResetLiveCountersWhenJournaled
  /\ Goto(t, "clear")
  /\ UNCHANGED <<storeVars, inboundMapping, pendingReport, phase, rep, recoveryVars,
                 panelVars, counted, lost>>

FinishReport(t) ==
  /\ pendingReport' = None
  /\ Return(t)
  /\ UNCHANGED <<quarantinedReports, trackerVars, phase, recoveryVars,
                 panelVars, historyVars>>

ClearPending(t) ==
  /\ pc[t] = "clear"
  /\ pendingReports' = pendingReports \ {rep[t]}
  /\ FinishReport(t)

(* A failure to clear the journal is only logged.                          *)
ClearFails(t) ==
  /\ pc[t] = "clear"
  /\ UNCHANGED pendingReports
  /\ FinishReport(t)

(***************************************************************************)
(* Shutdown and Flush.                                                     *)
(***************************************************************************)

(* On a signal the main goroutine waits for the others, closes the box and *)
(* flushes.  Flush first retries the report in memory.                     *)
Shutdown ==
  /\ phase = "run"
  /\ \A t \in Reporters : pc[t] = "idle"
  /\ phase' = "flush"
  /\ pc' = [t \in Threads |->
              IF t # Main THEN "off"
              ELSE IF pendingReport # None THEN "retry" ELSE "flush"]
  /\ UNCHANGED <<storeVars, trackerVars, pendingReport, rep, recoveryVars,
                 panelVars, historyVars>>

(* Mutant: Flush gives up while an older report is pending. *)
BugFlushGivesUp ==
  /\ pc[Main] = "flush"
  /\ phase' = "final"
  /\ Goto(Main, IF pendingReports # {} THEN "exit" ELSE "stage")
  /\ UNCHANGED <<storeVars, trackerVars, pendingReport, rep, recoveryVars,
                 panelVars, historyVars>>

(* Whatever became of the retry, Flush goes on to stage what is left.      *)
FlushStages ==
  /\ pc[Main] = "flush"
  /\ phase' = "final"
  /\ Goto(Main, "stage")
  /\ UNCHANGED <<storeVars, trackerVars, pendingReport, rep, recoveryVars,
                 panelVars, historyVars>>

(***************************************************************************)
(* The process.                                                            *)
(***************************************************************************)
ProcessEnds ==
  /\ phase' = "down"
  /\ lost' = lost \cup (live \ BytesOf(Known))
  /\ live' = {} /\ staged' = None /\ pendingReport' = None
  /\ inboundMapping' = [g \in Tags |-> "unknown"]
  /\ pc' = [t \in Threads |-> "off"]
  /\ rep' = [t \in Threads |-> None]
  /\ todo' = [t \in Threads |-> {}]
  /\ remaining' = [t \in Threads |-> {}]
  /\ quarantined' = [t \in Threads |-> {}]
  /\ UNCHANGED <<storeVars, panelVars, counted, unbilled>>

Exit == pc[Main] = "exit" /\ ProcessEnds

(* prepare has run, the box is closed and the new binary replaces the      *)
(* process; or one of these failed and the old process goes on.            *)
Exec(t) == pc[t] = "exec" /\ ProcessEnds

ExecFails(t) ==
  /\ pc[t] = "exec"
  /\ Goto(t, "idle")
  /\ UNCHANGED <<storeVars, trackerVars, pendingReport, phase, rep, recoveryVars,
                 panelVars, historyVars>>

(* A crash at any point, the panic of retryPending on a report that        *)
(* another goroutine has cleared since ReportNow looked at it included.    *)
Crash == phase # "down" /\ ProcessEnds

(* The store is loaded, the box bootstrapped, its tags mapped, a new        *)
(* reporter made, and the journal recovered before the goroutines start.   *)
Start ==
  /\ phase = "down"
  /\ \E S \in Mappings : Remap(S)
  /\ \/ /\ pendingReports # {}
        /\ BeginRecovery(Main)
        /\ Goto(Main, "recover")
        /\ phase' = "boot"
     \/ /\ pendingReports = {}
        /\ AfterRecovery(Main, "idle")
  /\ UNCHANGED <<storeVars, live, staged, pendingReport, rep, panelVars,
                 historyVars>>

Init ==
  /\ pendingReports \in Legacy /\ quarantinedReports = {}
  /\ live = {} /\ staged = None
  /\ inboundMapping = [g \in Tags |-> "unknown"]
  /\ pendingReport = None
  /\ phase = "down"
  /\ pc = [t \in Threads |-> "off"]
  /\ rep = [t \in Threads |-> None]
  /\ todo = [t \in Threads |-> {}]
  /\ remaining = [t \in Threads |-> {}]
  /\ quarantined = [t \in Threads |-> {}]
  /\ accepted = {} /\ inflight = {}
  /\ counted = BytesOf(pendingReports) /\ lost = {} /\ unbilled = {}

RecoverOne(t) ==
  \E r \in todo[t] :
    \/ RecoverBodyless(t, r) \/ RecoverInvalid(t, r)
    \/ RecoverSendOK(t, r) \/ RecoverSendFails(t, r)

Recovery(t) ==
  \/ RecoverOne(t) \/ RecoverConfirm(t) \/ RecoverReset(t)
  \/ RecoverySaved(t) \/ RecoverySaveFails(t)

StageAndSend(t) ==
  \/ StageNothing(t) \/ Stage(t) \/ Journal(t) \/ JournalFails(t)
  \/ ConfirmJournaled(t) \/ ResetJournaled(t)

SendAndFinalize(t) ==
  \/ SendOK(t) \/ SendFails(t)
  \/ ConfirmAccepted(t) \/ ResetAccepted(t)
  \/ ClearPending(t) \/ ClearFails(t)

Step(t) ==
  \/ ReportNow(t) \/ CheckJournal(t) \/ RecheckJournal(t)
  \/ RetryPending(t) \/ RetrySaveFails(t)
  \/ Recovery(t) \/ StageAndSend(t) \/ SendAndFinalize(t)
  \/ Exec(t) \/ ExecFails(t)

Next ==
  \/ \E b \in Bytes : Count(b)
  \/ \E r \in inflight : Deliver(r)
  \/ \E t \in Threads : Step(t)
  \/ UpdateInboundMapping
  \/ Shutdown \/ FlushStages \/ Exit \/ Crash \/ Start

Spec == Init /\ [][Next]_vars
-----------------------------------------------------------------------------
(* No traffic is billed twice: two different reports in the journal, in    *)
(* quarantine, at the panel or on the way to it never hold the same byte,  *)
(* whatever was retried, recovered or resent after a crash.                *)
NoDoubleCount ==
  \A r, s \in Known : r # s => r.bytes \cap s.bytes = {}

(* No traffic disappears unaccounted for: a byte that was counted is in    *)
(* the live counters, in a report, died with a process before it could be  *)
(* journaled, or was subtracted beside a report because its tag was not    *)
(* mapped when that report was staged.  The last is no byte of a report.   *)
Conserved ==
  /\ counted = live \cup BytesOf(Known) \cup lost \cup unbilled
  /\ unbilled \cap (live \cup BytesOf(Known)) = {}

(* Only positive windows of at most five minutes are sent, and the report  *)
(* kept in memory for retries has such a window.                           *)
WindowContract ==
  /\ \A r \in accepted \cup inflight : Valid(r)
  /\ pendingReport # None => Valid(pendingReport)

(* A report is sent for the first time only while the journal holds it, so *)
(* that a crash during the request cannot lose track of it.                *)
SentWhileJournaled ==
  [][accepted' \cup inflight' \subseteq accepted \cup inflight \cup pendingReports]_vars

(* A graceful shutdown leaves no traffic of a mapped tag in the counters   *)
(* unless the final save failed, which leaves the snapshot staged.         *)
FlushLeavesNothing == pc[Main] = "exit" => Records = {} \/ staged # None

(***************************************************************************)
(* The inductive invariant behind the safety properties, when one goroutine *)
(* at a time calls the reporter.                                           *)
(***************************************************************************)
SoleReporter == \A s, t \in Reporters : s = t

(* Points at which a goroutine holds a report in its locals.               *)
Holding == {"journal", "confirm", "reset", "send", "accept", "acceptReset", "clear"}

Recovering == {"recover", "recoverConfirm", "recoverReset"}

TypeInv ==
  /\ TypeOK
  /\ \A t \in Threads : pc[t] \in Holding => rep[t] \in Report

(* Which goroutine runs in which phase of the process.                     *)
PhaseInv ==
  /\ phase # "run" => \A t \in Reporters : pc[t] = "off"
  /\ phase \in {"down", "run"} => pc[Main] = "off"
  /\ phase = "boot" => pc[Main] \in Recovering
  /\ phase = "flush" =>
       pc[Main] \in {"retry", "send", "accept", "acceptReset", "clear", "flush"}
  /\ phase = "final" => pc[Main] \in Holding \cup {"stage", "exit"}

(* A recovery accounts for the whole journal it took a copy of.            *)
RecoveryInv(t) ==
  pc[t] \in Recovering =>
    /\ pendingReports # {} /\ pendingReport = None
    /\ todo[t] \cup remaining[t] \cup quarantined[t] \subseteq pendingReports
    /\ pendingReports \subseteq
         todo[t] \cup remaining[t] \cup quarantined[t] \cup accepted

(* A periodic report is staged only when nothing else is pending.          *)
StageInv(t) ==
  /\ t # Main /\ pc[t] \in {"stage", "journal"} => pendingReports = {}
  /\ t # Main /\ pc[t] \in {"check", "recheck", "stage", "journal"} =>
       pendingReport = None

(* The snapshot is of the report until the counters are reset.             *)
SnapshotInv(t) ==
  /\ pc[t] \in {"journal", "confirm", "reset"} =>
       /\ staged # None
       /\ staged.records = rep[t].bytes
       /\ rep[t].bytes \subseteq staged.bytes /\ staged.bytes \subseteq live
  /\ pc[t] = "reset" => staged.confirmed
  /\ pc[t] \in {"confirm", "reset"} =>
       rep[t] \in (IF Valid(rep[t]) THEN pendingReports ELSE quarantinedReports)
  /\ pc[t] \in {"send", "accept", "acceptReset", "clear"} =>
       rep[t] \in pendingReports /\ Valid(rep[t])
  /\ pc[t] \in {"accept", "acceptReset", "clear"} => rep[t] \in accepted

(* Outside of staging, a snapshot is left over from a save that failed or  *)
(* has no records.                                                         *)
LeftoverInv ==
  staged # None =>
    \/ \E t \in Threads : pc[t] \in {"journal", "confirm", "reset"}
    \/ pendingReports = {} /\ pendingReport = None
    \/ pc[Main] = "exit"

(* A report outside the process is out of the counters, but for the one    *)
(* whose counters are about to be reset.                                   *)
CountersInv ==
  \A r \in Known :
    \/ r.bytes \cap live = {}
    \/ \E t \in Threads : pc[t] \in {"confirm", "reset"} /\ r = rep[t]

(* After the box is closed the counters only shrink.                       *)
FinalInv ==
  phase = "final" =>
    /\ pc[Main] \in {"journal", "confirm", "reset"} => live = staged.bytes
    /\ pc[Main] \in {"send", "accept", "acceptReset", "clear"} => live = {}

(* Everything the safety properties rest on: who may run, what a recovery  *)
(* and a snapshot hold, and which reports still overlap the counters.      *)
Inv ==
  /\ TypeInv /\ PhaseInv
  /\ \A t \in Threads : RecoveryInv(t) /\ StageInv(t) /\ SnapshotInv(t)
  /\ LeftoverInv /\ CountersInv /\ FinalInv
  /\ phase = "down" => staged = None /\ pendingReport = None
  /\ pendingReport # None => pendingReport \in pendingReports
  /\ NoDoubleCount /\ Conserved /\ WindowContract /\ FlushLeavesNothing

(***************************************************************************)
(* The pipeline implements the ledger: traffic is still counting while no  *)
(* report outside the process accounts for it.                             *)
(***************************************************************************)
Settled == BytesOf(accepted \cup quarantinedReports)

MappedBytes == {b \in Bytes : Mapped(b)}

(* The counters of the snapshot that have no record. *)
Skipped == IF staged = None THEN {} ELSE staged.bytes \ staged.records

Ledger == INSTANCE TrafficLedger WITH
            counting <- live \ BytesOf(Known),
            journal <- BytesOf(Known) \ Settled,
            settled <- Settled,
            dead <- lost,
            mapped <- MappedBytes,
            skipped <- Skipped,
            dropped <- unbilled

(* Journaling, crashes, retries and recovery move every byte forward only: *)
(* counting, journaled, settled; only unjournaled bytes die with a process,*)
(* and only bytes that a report left out, their tag not being mapped, are  *)
(* given up.                                                               *)
LedgerSpec == Ledger!Spec

(***************************************************************************)
(* Liveness, once the outage is over: from some point on the process does  *)
(* not crash, saves succeed and the panel answers.  Each goroutine keeps   *)
(* running (its ticker fires), a stopped adapter is started again.         *)
(***************************************************************************)
Fault ==
  \/ Crash
  \/ \E t \in Threads :
       \/ \E r \in todo[t] : RecoverSendFails(t, r)
       \/ RecoverySaveFails(t) \/ JournalFails(t) \/ RetrySaveFails(t)
       \/ SendFails(t) \/ ClearFails(t)

Fairness ==
  /\ WF_vars(Start) /\ WF_vars(FlushStages) /\ WF_vars(Exit)
  /\ \A t \in Threads : WF_vars(Step(t))

FairSpec == Spec /\ Fairness

OutageEnds == <>[][~Fault]_vars

(* Once the outage ends the journal keeps being cleared of every report    *)
(* whose body it holds, even behind an entry that can never be sent.       *)
PendingSettles ==
  OutageEnds => []<>(\A r \in pendingReports : ~r.body)

(* Once the outage ends, traffic of a tag that stays mapped leaves the     *)
(* counters for a report, unless an old entry without a body blocks the    *)
(* journal: ReportNow then stages nothing until the process is shut down.  *)
CountedIsReported ==
  OutageEnds /\ (\A r \in pendingReports : r.body) =>
    \A b \in Bytes :
      <>[](phase # "down" => Mapped(b)) => []<>(b \in live => b \in Settled)
=============================================================================
