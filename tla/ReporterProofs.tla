--------------------------- MODULE ReporterProofs ---------------------------
(***************************************************************************)
(* Type correctness of module Reporter, its inductive invariant, the       *)
(* safety properties that follow from it, and the refinement of            *)
(* TrafficLedger.                                                          *)
(***************************************************************************)
EXTENDS Reporter, TLAPS

(* The reporter returns to a point of the goroutine that called it.        *)
LEMMA ReturnToPC == \A t \in Threads : ReturnTo(t) \in PC \ Holding
  BY Zenon DEF ReturnTo, PC, Holding

(***************************************************************************)
(* Type correctness, for any number of goroutines that call the reporter:  *)
(* a goroutine that is about to journal, send or clear a report has one.   *)
(***************************************************************************)
LEMMA TypeInit == Init => TypeInv
  BY ConstantsAssumption
  DEF Init, TypeInv, TypeOK, PC, Holding, BytesOf, Report

(* Recovery keeps the types. *)
LEMMA TypeRecovery ==
  ASSUME TypeInv, NEW t \in Threads, Recovery(t)
  PROVE  TypeInv'
<1> USE ConstantsAssumption DEF storeVars, trackerVars, recoveryVars, panelVars,
        historyVars, Goto
<1>1. ASSUME NEW r \in todo[t], RecoverBodyless(t, r) PROVE TypeInv'
  BY <1>1 DEF RecoverBodyless, TypeInv, TypeOK
<1>2. ASSUME NEW r \in todo[t], RecoverInvalid(t, r) PROVE TypeInv'
  BY <1>2 DEF RecoverInvalid, TypeInv, TypeOK
<1>3. ASSUME NEW r \in todo[t], RecoverSendOK(t, r) PROVE TypeInv'
  BY <1>3 DEF RecoverSendOK, ReportTrafficOK, TypeInv, TypeOK, PC, Holding
<1>4. ASSUME NEW r \in todo[t], RecoverSendFails(t, r) PROVE TypeInv'
  BY <1>4 DEF RecoverSendFails, ReportTrafficFails, TypeInv, TypeOK
<1>5. CASE RecoverConfirm(t)
  BY <1>5 DEF RecoverConfirm, Confirm, TypeInv, TypeOK, Staged, PC, Holding
<1>6. CASE RecoverReset(t)
  BY <1>6 DEF RecoverReset, ResetLiveCountersWhenJournaled, TypeInv, TypeOK, Staged, PC, Holding
<1>7. CASE RecoverySaved(t)
  BY <1>7 DEF RecoverySaved, AfterRecovery, TypeInv, TypeOK, PC, Holding
<1>8. CASE RecoverySaveFails(t)
  BY <1>8, ReturnToPC DEF RecoverySaveFails, AfterRecovery, TypeInv, TypeOK, PC, Holding
<1> QED
  BY Zenon, <1>1, <1>2, <1>3, <1>4, <1>5, <1>6, <1>7, <1>8 DEF Recovery, RecoverOne

(* stageAndSend keeps the types. *)
LEMMA TypeStageAndSend ==
  ASSUME TypeInv, NEW t \in Threads, StageAndSend(t)
  PROVE  TypeInv'
<1> USE ConstantsAssumption DEF storeVars, trackerVars, recoveryVars, panelVars,
        historyVars, Goto
<1>1. CASE StageNothing(t)
  BY <1>1, ReturnToPC DEF StageNothing, StageForReport, Records, Staged, Return, TypeInv, TypeOK
<1>2. CASE Stage(t)
  BY <1>2 DEF Stage, StageForReport, Records, Staged, TypeInv, TypeOK, PC, Report
<1>3. CASE Journal(t)
  BY <1>3 DEF Journal, TypeInv, TypeOK, PC, Holding
<1>4. CASE JournalFails(t)
  BY <1>4, ReturnToPC DEF JournalFails, Return, TypeInv, TypeOK, Holding
<1>5. CASE ConfirmJournaled(t)
  BY <1>5 DEF ConfirmJournaled, Confirm, TypeInv, TypeOK, Staged, PC, Holding
<1>6. CASE ResetJournaled(t)
  BY <1>6, ReturnToPC
  DEF ResetJournaled, ResetLiveCountersWhenJournaled, Return, TypeInv, TypeOK, Staged, PC, Holding
<1> QED
  BY Zenon, <1>1, <1>2, <1>3, <1>4, <1>5, <1>6 DEF StageAndSend

(* retryPending and sendAndFinalize keep the types. *)
LEMMA TypeSendAndFinalize ==
  ASSUME TypeInv, NEW t \in Threads, SendAndFinalize(t)
  PROVE  TypeInv'
<1> USE ConstantsAssumption DEF storeVars, trackerVars, recoveryVars, panelVars,
        historyVars, Goto
<1>1. CASE SendOK(t)
  BY <1>1 DEF SendOK, ReportTrafficOK, TypeInv, TypeOK, PC, Holding
<1>2. CASE SendFails(t)
  BY <1>2, ReturnToPC
  DEF SendFails, ReportTrafficFails, Return, TypeInv, TypeOK, Holding
<1>3. CASE ConfirmAccepted(t)
  BY <1>3 DEF ConfirmAccepted, Confirm, TypeInv, TypeOK, Staged, PC, Holding
<1>4. CASE ResetAccepted(t)
  BY <1>4 DEF ResetAccepted, ResetLiveCountersWhenJournaled, TypeInv, TypeOK, Staged, PC, Holding
<1>5. CASE ClearPending(t)
  BY <1>5, ReturnToPC DEF ClearPending, FinishReport, Return, TypeInv, TypeOK, Holding
<1>6. CASE ClearFails(t)
  BY <1>6, ReturnToPC DEF ClearFails, FinishReport, Return, TypeInv, TypeOK
<1> QED
  BY Zenon, <1>1, <1>2, <1>3, <1>4, <1>5, <1>6 DEF SendAndFinalize

(* The end of the process keeps the types. *)
LEMMA TypeProcessEnds == ASSUME TypeInv, ProcessEnds PROVE TypeInv'
  BY Zenon DEF ProcessEnds, TypeInv, TypeOK, PC, Holding, storeVars, panelVars

(* Every step of a goroutine keeps the types. *)
LEMMA TypeStep ==
  ASSUME TypeInv, NEW t \in Threads, Step(t)
  PROVE  TypeInv'
<1> USE ConstantsAssumption DEF storeVars, trackerVars, recoveryVars, panelVars,
        historyVars, Goto
<1>1. CASE ReportNow(t)
  BY <1>1 DEF ReportNow, TypeInv, TypeOK, PC, Holding
<1>2. CASE CheckJournal(t)
  BY <1>2 DEF CheckJournal, BeginRecovery, TypeInv, TypeOK, PC, Holding
<1>3. CASE RecheckJournal(t)
  BY <1>3, ReturnToPC DEF RecheckJournal, TypeInv, TypeOK, PC, Holding
<1>4. CASE RetryPending(t)
  BY <1>4 DEF RetryPending, TypeInv, TypeOK, PC
<1>5. CASE RetrySaveFails(t)
  BY <1>5, ReturnToPC DEF RetrySaveFails, Return, TypeInv, TypeOK, Holding
<1>6. CASE Exec(t)
  BY Zenon, <1>6, TypeProcessEnds DEF Exec
<1>7. CASE ExecFails(t)
  BY <1>7 DEF ExecFails, TypeInv, TypeOK, PC, Holding
<1> QED
  BY Zenon, <1>1, <1>2, <1>3, <1>4, <1>5, <1>6, <1>7, TypeRecovery, TypeStageAndSend,
     TypeSendAndFinalize DEF Step

(* Every step keeps the types. *)
LEMMA TypeNext == TypeInv /\ [Next]_vars => TypeInv'
<1> SUFFICES ASSUME TypeInv, [Next]_vars PROVE TypeInv'
  BY Zenon
<1> USE ConstantsAssumption DEF storeVars, trackerVars, recoveryVars, panelVars,
        historyVars, Goto
<1>1. ASSUME NEW b \in Bytes, Count(b) PROVE TypeInv'
  BY Zenon, <1>1 DEF Count, TypeInv, TypeOK
<1>2. ASSUME NEW r \in inflight, Deliver(r) PROVE TypeInv'
  BY <1>2 DEF Deliver, TypeInv, TypeOK
<1>3. ASSUME NEW t \in Threads, Step(t) PROVE TypeInv'
  BY Zenon, <1>3, TypeStep
<1>4. CASE Shutdown
  BY Zenon, <1>4 DEF Shutdown, TypeInv, TypeOK, PC, Holding
<1>5. CASE FlushStages
  BY Zenon, <1>5 DEF FlushStages, TypeInv, TypeOK, PC, Holding, Threads
<1>6. CASE Exit \/ Crash
  BY Zenon, <1>6, TypeProcessEnds DEF Exit, Crash
<1>7. CASE Start \/ UpdateInboundMapping
  BY <1>7 DEF UpdateInboundMapping, Remap, Start, BeginRecovery, AfterRecovery, TypeInv, TypeOK, PC, Holding, Threads
<1>8. CASE UNCHANGED vars
  BY Zenon, <1>8 DEF vars, TypeInv, TypeOK
<1> QED
  BY Zenon, <1>1, <1>2, <1>3, <1>4, <1>5, <1>6, <1>7, <1>8 DEF Next

(* Every variable keeps its type, however many goroutines report.          *)
THEOREM TypeCorrect == Spec => []TypeOK
<1>1. TypeInv => TypeOK
  BY Zenon DEF TypeInv
<1> QED
  BY <1>1, TypeInit, TypeNext, PTL DEF Spec


(***************************************************************************)
(* The inductive invariant, when one goroutine at a time calls the         *)
(* reporter.  The facts that hold of each goroutine are vacuous for one    *)
(* that is not in a call, so that a step has to be looked at from the      *)
(* goroutine that takes it only.                                           *)
(***************************************************************************)
ThreadInv(t) == RecoveryInv(t) /\ StageInv(t) /\ SnapshotInv(t)

Quiet(t) == pc[t] \in {"off", "idle"}

(* A goroutine between two reports satisfies its part of the invariant. *)
LEMMA QuietThread == ASSUME NEW t \in Threads, Quiet(t) PROVE ThreadInv(t)
  BY Zenon DEF Quiet, ThreadInv, RecoveryInv, StageInv, SnapshotInv, Recovering

(* At most one goroutine is in a call.                                     *)
LEMMA Exclusive ==
  ASSUME SoleReporter, TypeInv, PhaseInv, NEW t \in Threads, ~Quiet(t)
  PROVE  \A u \in Threads : u # t => Quiet(u)
  BY Zenon, ConstantsAssumption DEF SoleReporter, PhaseInv, Quiet, Threads

(* The reports known outside the process hold none of the bytes still in   *)
(* the counters while no goroutine is between journaling and resetting.    *)
Apart == \A r \in Known : r.bytes \cap live = {}

(* A report made of live bytes is apart from all those known before. *)
LEMMA ApartFromCounters ==
  ASSUME CountersInv, \A t \in Threads : pc[t] \notin {"confirm", "reset"}
  PROVE  Apart
  BY Zenon DEF CountersInv, Apart

(* A step that moves reports about without making or dropping any, and     *)
(* leaves the counters alone, keeps the account of the bytes.              *)
AccountInv == CountersInv /\ NoDoubleCount /\ Conserved

(* It keeps the account of the bytes. *)
LEMMA AccountKept ==
  ASSUME AccountInv, Apart, Known' = Known,
         live' = live, counted' = counted, lost' = lost, unbilled' = unbilled
  PROVE  AccountInv'
  BY Zenon DEF AccountInv, CountersInv, Apart, NoDoubleCount, Conserved, BytesOf

(* QuietThread, in the next state. *)
LEMMA QuietThreadNext ==
  ASSUME NEW t \in Threads, Quiet(t)' PROVE ThreadInv(t)'
  BY Zenon DEF Quiet, ThreadInv, RecoveryInv, StageInv, SnapshotInv, Recovering

(* None is no snapshot. *)
LEMMA NoneIsNoSnapshot ==
  ASSUME NEW B \in SUBSET Bytes, NEW R \in SUBSET Bytes, NEW c \in BOOLEAN
  PROVE  [bytes |-> B, records |-> R, confirmed |-> c] # None
  BY ConstantsAssumption DEF Staged

RestInv ==
  /\ LeftoverInv /\ FinalInv /\ FlushLeavesNothing
  /\ phase = "down" => staged = None /\ pendingReport = None
  /\ pendingReport # None => pendingReport \in pendingReports
  /\ WindowContract

(* The conjuncts of the invariant. *)
LEMMA InvParts ==
  Inv <=> /\ TypeInv /\ PhaseInv /\ RestInv /\ AccountInv
          /\ \A t \in Threads : ThreadInv(t)
  BY Zenon DEF Inv, RestInv, AccountInv, ThreadInv

(* The conjuncts of the invariant, in the next state. *)
LEMMA InvPartsNext ==
  ASSUME TypeInv', PhaseInv', RestInv', AccountInv', \A t \in Threads : ThreadInv(t)'
  PROVE  Inv'
  BY Zenon DEF Inv, RestInv, AccountInv, ThreadInv

(* Goroutine t moves on to the given point.                                *)
Moves(t, label) ==
  pc'[t] = label /\ \A u \in Threads : u # t => pc'[u] = pc[u]

(* A jump changes the program counter of its own goroutine. *)
LEMMA GotoMoves ==
  ASSUME TypeInv, NEW t \in Threads
  PROVE  \A label \in PC : Goto(t, label) => Moves(t, label)
  BY Zenon DEF Goto, Moves, TypeInv, TypeOK

(* A return changes the program counter of its own goroutine. *)
LEMMA ReturnMoves ==
  ASSUME TypeInv, NEW t \in Threads, Return(t)
  PROVE  /\ \A u \in Threads : u # t => pc'[u] = pc[u]
         /\ t = Main => pc'[t] = IF phase = "flush" THEN "flush" ELSE "exit"
         /\ t # Main => pc'[t] \in {"exec", "idle"}
  BY ConstantsAssumption DEF Return, ReturnTo, Goto, TypeInv, TypeOK

(* Only the main goroutine runs when the process is not in its run phase.  *)
LEMMA PhaseOf ==
  ASSUME PhaseInv, TypeInv, NEW t \in Threads, ~Quiet(t)
  PROVE  /\ t # Main => phase = "run"
         /\ t = Main => phase \in {"boot", "flush", "final"}
  BY Zenon DEF PhaseInv, Quiet, Threads, TypeInv, TypeOK

(* What is left to show of a step of a goroutine that is in a call.        *)
LEMMA InvOfStep ==
  ASSUME SoleReporter, TypeInv, PhaseInv, NEW t \in Threads, ~Quiet(t),
         \A u \in Threads : u # t => pc'[u] = pc[u],
         TypeInv', PhaseInv', ThreadInv(t)', RestInv', AccountInv'
  PROVE  Inv'
<1>1. \A u \in Threads : u # t => Quiet(u)'
  BY Zenon, Exclusive DEF Quiet
<1>2. \A u \in Threads : ThreadInv(u)'
  BY Zenon, <1>1, QuietThreadNext
<1> QED
  BY Zenon, <1>2, InvPartsNext

(* The phase is kept by a step that stays within the points of its phase.  *)
LEMMA PhaseKept ==
  ASSUME TypeInv, PhaseInv, NEW t \in Threads, ~Quiet(t), phase' = phase,
         \A u \in Threads : u # t => pc'[u] = pc[u],
         t = Main =>
           /\ phase = "boot" => pc'[t] \in Recovering
           /\ phase = "flush" => pc'[t] \in {"retry", "send", "accept",
                                           "acceptReset", "clear", "flush"}
           /\ phase = "final" => pc'[t] \in Holding \cup {"stage", "exit"}
  PROVE  PhaseInv'
<1>1. CASE t = Main
  <2>1. phase \in {"boot", "flush", "final"}
    BY Zenon, <1>1, PhaseOf
  <2> QED
    BY Zenon, <1>1, <2>1, ConstantsAssumption DEF PhaseInv, Threads
<1>2. CASE t # Main
  <2>1. phase = "run"
    BY Zenon, <1>2, PhaseOf
  <2> QED
    BY Zenon, <1>2, <2>1 DEF PhaseInv, Threads
<1> QED
  BY Zenon, <1>1, <1>2

(* stageAndSend keeps the invariant. *)
LEMMA InvStageAndSend ==
  ASSUME SoleReporter, Inv, NEW t \in Threads, StageAndSend(t)
  PROVE  Inv'
<1> USE DEF storeVars, trackerVars, recoveryVars, panelVars, historyVars, Holding,
        Recovering
<1>1. TypeInv /\ PhaseInv /\ RestInv /\ AccountInv /\ ThreadInv(t) /\ TypeInv'
  BY Zenon, InvParts, TypeStageAndSend
<1>2. /\ ~Quiet(t) /\ \A u \in Threads : u # t => Quiet(u)
      /\ phase = IF t = Main THEN "final" ELSE "run"
  <2>1. pc[t] \in {"stage", "journal", "confirm", "reset"}
    BY Zenon DEF StageAndSend, StageNothing, Stage, Journal, JournalFails, ConfirmJournaled,
       ResetJournaled
  <2>2. ~Quiet(t)
    BY Zenon, <2>1 DEF Quiet
  <2> QED
    BY Zenon, <1>1, <2>1, <2>2, Exclusive, PhaseOf DEF PhaseInv
<1>3. CASE StageNothing(t)
  <2>1. /\ \A u \in Threads : u # t => pc'[u] = pc[u]
        /\ t = Main => pc'[t] = "exit"
        /\ t # Main => pc'[t] \in {"exec", "idle"}
    BY Zenon, <1>1, <1>2, <1>3, ReturnMoves DEF StageNothing
  <2>2. PhaseInv'
    BY Zenon, <1>1, <1>2, <1>3, <2>1, PhaseKept DEF StageNothing, PhaseInv
  <2>3. ThreadInv(t)'
    BY Zenon, <1>1, <1>2, <1>3, <2>1 DEF StageNothing, StageForReport, ThreadInv, RecoveryInv, StageInv, SnapshotInv
  <2>4. RestInv'
    <3>1. LeftoverInv'
      BY Zenon, <1>1, <1>2, <1>3, <2>1 DEF StageNothing, StageForReport, ThreadInv, StageInv, Quiet, RestInv,
         LeftoverInv, Threads
    <3>2. FinalInv' /\ FlushLeavesNothing'
      BY Zenon, <1>1, <1>2, <1>3, <2>1 DEF StageNothing, StageForReport, ThreadInv, SnapshotInv, Quiet, RestInv, FinalInv,
         FlushLeavesNothing, Records, Mapped, Threads
    <3> QED
      BY Zenon, <1>1, <1>2, <1>3, <2>1, <3>1, <3>2 DEF StageNothing, StageForReport, RestInv, WindowContract
  <2>5. AccountInv'
    <3>1. Apart
      BY Zenon, <1>1, <1>2, <1>3, ApartFromCounters DEF StageNothing, Quiet, AccountInv
    <3>2. Known' = Known
      BY Zenon, <1>1, <1>3 DEF StageNothing, Known
    <3> QED
      BY Zenon, <1>1, <1>3, <3>1, <3>2, AccountKept DEF StageNothing
  <2> QED
    BY Zenon, <1>1, <1>2, <2>1, <2>2, <2>3, <2>4, <2>5, InvOfStep
<1>4. CASE Stage(t)
  <2>1. /\ pc'[t] = "journal"
        /\ \A u \in Threads : u # t => pc'[u] = pc[u]
        /\ rep'[t].bytes = Records
        /\ staged'.bytes = live /\ staged'.records = Records /\ staged' # None
    <3>1. pc'[t] = "journal" /\ \A u \in Threads : u # t => pc'[u] = pc[u]
      BY Zenon, <1>1, <1>4, GotoMoves DEF Stage, Moves, PC
    <3>2. rep'[t].bytes = Records
      <4>1. PICK w \in Windows :
              rep' = [rep EXCEPT ![t] = [bytes |-> Records, window |-> w, body |-> TRUE]]
        BY Zenon, <1>4 DEF Stage
      <4>2. rep'[t] = [bytes |-> Records, window |-> w, body |-> TRUE]
        BY Zenon, <1>1, <4>1 DEF TypeInv, TypeOK
      <4> QED
        BY <4>2
    <3>3. staged'.bytes = live /\ staged'.records = Records /\ staged' # None
      <4>1. live \in SUBSET Bytes /\ Records \in SUBSET Bytes
        BY Zenon, <1>1 DEF Records, TypeInv, TypeOK
      <4>2. staged' = [bytes |-> live, records |-> Records, confirmed |-> FALSE]
        BY Zenon, <1>4 DEF Stage, StageForReport
      <4> QED
        BY Zenon, <4>1, <4>2, NoneIsNoSnapshot
    <3> QED
      BY Zenon, <3>1, <3>2, <3>3
  <2>2. PhaseInv'
    BY Zenon, <1>1, <1>2, <1>4, <2>1, PhaseKept DEF Stage, PhaseInv
  <2>3. ThreadInv(t)'
    BY Zenon, <1>1, <1>2, <1>4, <2>1 DEF Stage, Records, ThreadInv, RecoveryInv, StageInv, SnapshotInv
  <2>4. RestInv'
    <3>1. LeftoverInv'
      BY Zenon, <1>1, <1>2, <1>4, <2>1 DEF Stage, ThreadInv, StageInv, Quiet, RestInv,
         LeftoverInv, Threads
    <3>2. FinalInv' /\ FlushLeavesNothing'
      BY Zenon, <1>1, <1>2, <1>4, <2>1 DEF Stage, ThreadInv, SnapshotInv, Quiet, RestInv, FinalInv,
         FlushLeavesNothing, Records, Mapped, Threads
    <3> QED
      BY Zenon, <1>1, <1>2, <1>4, <2>1, <3>1, <3>2 DEF Stage, RestInv, WindowContract
  <2>5. AccountInv'
    <3>1. Apart
      BY Zenon, <1>1, <1>2, <1>4, ApartFromCounters DEF Stage, Quiet, AccountInv
    <3>2. Known' = Known
      BY Zenon, <1>1, <1>4 DEF Stage, Known
    <3> QED
      BY Zenon, <1>1, <1>4, <3>1, <3>2, AccountKept DEF Stage
  <2> QED
    BY Zenon, <1>1, <1>2, <2>1, <2>2, <2>3, <2>4, <2>5, InvOfStep
<1>5. CASE Journal(t)
  <2>1. /\ pc'[t] = "confirm"
        /\ \A u \in Threads : u # t => pc'[u] = pc[u]
    BY Zenon, <1>1, <1>5, GotoMoves DEF Journal, Moves, PC
  <2>2. PhaseInv'
    BY Zenon, <1>1, <1>2, <1>5, <2>1, PhaseKept DEF Journal, PhaseInv
  <2>3. ThreadInv(t)'
    BY Zenon, <1>1, <1>2, <1>5, <2>1 DEF Journal, ThreadInv, RecoveryInv, StageInv, SnapshotInv
  <2>4. RestInv'
    <3>1. LeftoverInv'
      BY Zenon, <1>1, <1>2, <1>5, <2>1 DEF Journal, ThreadInv, StageInv, Quiet, RestInv,
         LeftoverInv, Threads
    <3>2. FinalInv' /\ FlushLeavesNothing'
      BY Zenon, <1>1, <1>2, <1>5, <2>1 DEF Journal, ThreadInv, SnapshotInv, Quiet, RestInv, FinalInv,
         FlushLeavesNothing, Records, Mapped, Threads
    <3> QED
      BY Zenon, <1>1, <1>2, <1>5, <2>1, <3>1, <3>2 DEF Journal, RestInv, WindowContract
  <2>5. AccountInv'
    <3>1. Apart
      BY Zenon, <1>1, <1>2, <1>5, ApartFromCounters DEF Journal, Quiet, AccountInv
    <3>2. Known' = Known \cup {rep[t]} /\ rep[t].bytes \subseteq live
      BY Zenon, <1>1, <1>5 DEF Journal, Known, ThreadInv, SnapshotInv
    <3>3. NoDoubleCount'
      BY Zenon, <1>1, <3>1, <3>2 DEF AccountInv, NoDoubleCount, Apart
    <3>4. CountersInv'
      BY Zenon, <1>5, <2>1, <3>1, <3>2 DEF Journal, CountersInv, Apart
    <3>5. Conserved'
      <4>1. BytesOf(Known)' = BytesOf(Known) \cup rep[t].bytes
        BY Zenon, <3>2 DEF BytesOf
      <4>2. UNCHANGED <<live, counted, lost, unbilled>>
        BY Zenon, <1>5 DEF Journal
      <4> QED
        BY Zenon, <1>1, <3>2, <4>1, <4>2 DEF AccountInv, Conserved
    <3> QED
      BY Zenon, <3>3, <3>4, <3>5 DEF AccountInv
  <2> QED
    BY Zenon, <1>1, <1>2, <2>1, <2>2, <2>3, <2>4, <2>5, InvOfStep
<1>6. CASE JournalFails(t)
  <2>1. /\ \A u \in Threads : u # t => pc'[u] = pc[u]
        /\ t = Main => pc'[t] = "exit"
        /\ t # Main => pc'[t] \in {"exec", "idle"}
    BY Zenon, <1>1, <1>2, <1>6, ReturnMoves DEF JournalFails
  <2>2. PhaseInv'
    BY Zenon, <1>1, <1>2, <1>6, <2>1, PhaseKept DEF JournalFails, PhaseInv
  <2>3. ThreadInv(t)'
    BY Zenon, <1>1, <1>2, <1>6, <2>1 DEF JournalFails, ThreadInv, RecoveryInv, StageInv, SnapshotInv
  <2>4. RestInv'
    <3>1. LeftoverInv'
      BY Zenon, <1>1, <1>2, <1>6, <2>1 DEF JournalFails, ThreadInv, StageInv, Quiet, RestInv,
         LeftoverInv, Threads
    <3>2. FinalInv' /\ FlushLeavesNothing'
      BY Zenon, <1>1, <1>2, <1>6, <2>1 DEF JournalFails, ThreadInv, SnapshotInv, Quiet, RestInv, FinalInv,
         FlushLeavesNothing, Records, Mapped, Threads
    <3> QED
      BY Zenon, <1>1, <1>2, <1>6, <2>1, <3>1, <3>2 DEF JournalFails, RestInv, WindowContract
  <2>5. AccountInv'
    <3>1. Apart
      BY Zenon, <1>1, <1>2, <1>6, ApartFromCounters DEF JournalFails, Quiet, AccountInv
    <3>2. Known' = Known
      BY Zenon, <1>1, <1>6 DEF JournalFails, Known
    <3> QED
      BY Zenon, <1>1, <1>6, <3>1, <3>2, AccountKept DEF JournalFails
  <2> QED
    BY Zenon, <1>1, <1>2, <2>1, <2>2, <2>3, <2>4, <2>5, InvOfStep
<1>7. CASE ConfirmJournaled(t)
  <2>1. /\ pc'[t] = "reset"
        /\ \A u \in Threads : u # t => pc'[u] = pc[u]
        /\ staged # None
        /\ staged'.bytes = staged.bytes /\ staged'.records = staged.records
        /\ staged'.confirmed /\ staged' # None
    <3>1. pc'[t] = "reset" /\ \A u \in Threads : u # t => pc'[u] = pc[u]
      BY Zenon, <1>1, <1>7, GotoMoves DEF ConfirmJournaled, Moves, PC
    <3>2. staged # None
      BY Zenon, <1>1, <1>7 DEF ConfirmJournaled, ThreadInv, SnapshotInv
    <3>3. staged' = [bytes |-> staged.bytes, records |-> staged.records, confirmed |-> TRUE]
      BY Zenon, <1>7, <3>2 DEF ConfirmJournaled, Confirm
    <3>4. staged.bytes \in SUBSET Bytes /\ staged.records \in SUBSET Bytes
      BY Zenon, <1>1, <3>2 DEF TypeInv, TypeOK, Staged
    <3> QED
      BY Zenon, <3>1, <3>2, <3>3, <3>4, NoneIsNoSnapshot
  <2>2. PhaseInv'
    BY Zenon, <1>1, <1>2, <1>7, <2>1, PhaseKept DEF ConfirmJournaled, PhaseInv
  <2>3. ThreadInv(t)'
    BY Zenon, <1>1, <1>2, <1>7, <2>1 DEF ConfirmJournaled, ThreadInv, RecoveryInv, StageInv, SnapshotInv
  <2>4. RestInv'
    <3>1. LeftoverInv'
      BY Zenon, <1>1, <1>2, <1>7, <2>1 DEF ConfirmJournaled, ThreadInv, StageInv, Quiet, RestInv,
         LeftoverInv, Threads
    <3>2. FinalInv' /\ FlushLeavesNothing'
      BY Zenon, <1>1, <1>2, <1>7, <2>1 DEF ConfirmJournaled, ThreadInv, SnapshotInv, Quiet, RestInv, FinalInv,
         FlushLeavesNothing, Records, Mapped, Threads
    <3> QED
      BY Zenon, <1>1, <1>2, <1>7, <2>1, <3>1, <3>2 DEF ConfirmJournaled, RestInv, WindowContract
  <2>5. AccountInv'
    <3>1. Known' = Known
      BY Zenon, <1>7 DEF ConfirmJournaled, Known
    <3>2. CountersInv'
      <4>1. \A r \in Known : r # rep[t] => r.bytes \cap live = {}
        BY Zenon, <1>1, <1>2 DEF AccountInv, CountersInv, Quiet
      <4>2. live' = live /\ rep' = rep
        BY Zenon, <1>7 DEF ConfirmJournaled
      <4> QED
        BY Zenon, <2>1, <3>1, <4>1, <4>2 DEF CountersInv
    <3> QED
      BY Zenon, <1>1, <1>7, <3>1, <3>2
      DEF ConfirmJournaled, AccountInv, NoDoubleCount, Conserved, BytesOf
  <2> QED
    BY Zenon, <1>1, <1>2, <2>1, <2>2, <2>3, <2>4, <2>5, InvOfStep
<1>8. CASE ResetJournaled(t)
  <2>1. /\ live' = live \ staged.bytes /\ staged' = None
        /\ unbilled' = unbilled \cup (staged.bytes \ rep[t].bytes)
        /\ rep[t].bytes \subseteq staged.bytes /\ staged.bytes \subseteq live
        /\ \A u \in Threads : u # t => pc'[u] = pc[u]
        /\ \/ /\ Valid(rep[t]) /\ rep[t] \in pendingReports
              /\ pc'[t] = "send" /\ pendingReport' = rep[t] /\ rep' = rep
           \/ /\ pc'[t] \in IF t = Main THEN {"exit"} ELSE {"exec", "idle"}
              /\ pendingReport' = pendingReport
    <3>1. /\ live' = live \ staged.bytes /\ staged' = None
          /\ unbilled' = unbilled \cup (staged.bytes \ rep[t].bytes)
          /\ rep[t].bytes \subseteq staged.bytes /\ staged.bytes \subseteq live
      BY Zenon, <1>1, <1>8 DEF ResetJournaled, ResetLiveCountersWhenJournaled, ThreadInv,
         SnapshotInv
    <3>2. CASE Valid(rep[t])
      <4>1. pc'[t] = "send" /\ \A u \in Threads : u # t => pc'[u] = pc[u]
        BY Zenon, <1>1, <1>8, <3>2, GotoMoves DEF ResetJournaled, Moves, PC
      <4> QED
        BY Zenon, <1>1, <1>8, <3>1, <3>2, <4>1 DEF ResetJournaled, ThreadInv, SnapshotInv
    <3>3. CASE ~Valid(rep[t])
      <4>1. Return(t) /\ pendingReport' = pendingReport
        BY Zenon, <1>8, <3>3 DEF ResetJournaled
      <4> QED
        BY Zenon, <1>1, <1>2, <3>1, <4>1, ReturnMoves
    <3> QED
      BY Zenon, <3>2, <3>3
  <2>2. PhaseInv'
    BY Zenon, <1>1, <1>2, <1>8, <2>1, PhaseKept DEF ResetJournaled, PhaseInv
  <2>3. ThreadInv(t)'
    BY Zenon, <1>1, <1>2, <1>8, <2>1 DEF ResetJournaled, ThreadInv, RecoveryInv, StageInv, SnapshotInv
  <2>4. RestInv'
    <3>1. LeftoverInv'
      BY Zenon, <1>1, <1>2, <1>8, <2>1 DEF ResetJournaled, ThreadInv, StageInv, Quiet, RestInv,
         LeftoverInv, Threads
    <3>2. FinalInv' /\ FlushLeavesNothing'
      BY Zenon, <1>1, <1>2, <1>8, <2>1 DEF ResetJournaled, ThreadInv, SnapshotInv, Quiet, RestInv, FinalInv,
         FlushLeavesNothing, Records, Mapped, Threads
    <3> QED
      BY Zenon, <1>1, <1>2, <1>8, <2>1, <3>1, <3>2 DEF ResetJournaled, RestInv, WindowContract
  <2>5. AccountInv'
    <3>1. rep[t] \in Known /\ Known' = Known
      BY Zenon, <1>1, <1>8 DEF ResetJournaled, ThreadInv, SnapshotInv, Known
    <3>2. CountersInv'
      <4>1. \A r \in Known : r # rep[t] => r.bytes \cap live = {}
        BY Zenon, <1>1, <1>2 DEF AccountInv, CountersInv, Quiet
      <4> QED
        BY Zenon, <2>1, <3>1, <4>1 DEF CountersInv
    <3>3. NoDoubleCount'
      BY Zenon, <1>1, <3>1 DEF AccountInv, NoDoubleCount
    <3>4. Conserved'
      <4>1. rep[t].bytes \subseteq BytesOf(Known)
        BY Zenon, <3>1 DEF BytesOf
      <4>2. BytesOf(Known)' = BytesOf(Known)
        BY Zenon, <3>1 DEF BytesOf
      <4>3. counted' = counted /\ lost' = lost
        BY Zenon, <1>8 DEF ResetJournaled
      <4>4. (staged.bytes \ rep[t].bytes) \cap BytesOf(Known) = {}
        <5>1. \A r \in Known : r # rep[t] => r.bytes \cap live = {}
          BY Zenon, <1>1, <1>2 DEF AccountInv, CountersInv, Quiet
        <5> QED
          BY Zenon, <2>1, <5>1 DEF BytesOf
      <4>5. counted' = live' \cup BytesOf(Known)' \cup lost' \cup unbilled'
        BY Zenon, <1>1, <2>1, <4>1, <4>2, <4>3 DEF AccountInv, Conserved
      <4>6. unbilled' \cap (live' \cup BytesOf(Known)') = {}
        BY Zenon, <1>1, <2>1, <4>2, <4>4 DEF AccountInv, Conserved
      <4> QED
        BY Zenon, <4>5, <4>6 DEF Conserved
    <3> QED
      BY Zenon, <3>2, <3>3, <3>4 DEF AccountInv
  <2> QED
    BY Zenon, <1>1, <1>2, <2>1, <2>2, <2>3, <2>4, <2>5, InvOfStep
<1> QED
  BY Zenon, <1>3, <1>4, <1>5, <1>6, <1>7, <1>8 DEF StageAndSend

(* retryPending and sendAndFinalize keep the invariant. *)
LEMMA InvSendAndFinalize ==
  ASSUME SoleReporter, Inv, NEW t \in Threads, SendAndFinalize(t)
  PROVE  Inv'
<1> USE DEF storeVars, trackerVars, recoveryVars, panelVars, historyVars, Holding,
        Recovering
<1>1. TypeInv /\ PhaseInv /\ RestInv /\ AccountInv /\ ThreadInv(t) /\ TypeInv'
  BY Zenon, InvParts, TypeSendAndFinalize
<1>2. /\ ~Quiet(t) /\ \A u \in Threads : u # t => Quiet(u)
      /\ phase \in IF t = Main THEN {"flush", "final"} ELSE {"run"}
      /\ rep[t] \in pendingReports /\ Valid(rep[t])
      /\ pc[t] \in {"send", "accept", "acceptReset", "clear"}
  <2>1. pc[t] \in {"send", "accept", "acceptReset", "clear"}
    BY Zenon DEF SendAndFinalize, SendOK, SendFails, ConfirmAccepted, ResetAccepted,
       ClearPending, ClearFails
  <2>2. ~Quiet(t)
    BY Zenon, <2>1 DEF Quiet
  <2>3. rep[t] \in pendingReports /\ Valid(rep[t])
    BY Zenon, <1>1, <2>1 DEF ThreadInv, SnapshotInv
  <2> QED
    BY Zenon, <1>1, <2>1, <2>2, <2>3, Exclusive, PhaseOf DEF PhaseInv
<1>3. staged = None
  BY Zenon, <1>1, <1>2 DEF Quiet, RestInv, LeftoverInv, Threads
<1>4. CASE SendOK(t)
  <2>1. /\ pc'[t] = "accept"
        /\ \A u \in Threads : u # t => pc'[u] = pc[u]
    BY Zenon, <1>1, <1>4, GotoMoves DEF SendOK, Moves, PC
  <2>2. PhaseInv'
    BY Zenon, <1>1, <1>2, <1>4, <2>1, PhaseKept DEF SendOK, PhaseInv
  <2>3. ThreadInv(t)'
    BY Zenon, <1>1, <1>2, <1>4, <2>1 DEF SendOK, ReportTrafficOK, ThreadInv, RecoveryInv, StageInv, SnapshotInv
  <2>4. RestInv'
    <3>1. LeftoverInv'
      BY Zenon, <1>1, <1>2, <1>4, <2>1 DEF SendOK, ReportTrafficOK, ThreadInv, StageInv, Quiet, RestInv,
         LeftoverInv, Threads
    <3>2. FinalInv' /\ FlushLeavesNothing'
      BY Zenon, <1>1, <1>2, <1>4, <2>1 DEF SendOK, ReportTrafficOK, ThreadInv, SnapshotInv, Quiet, RestInv, FinalInv,
         FlushLeavesNothing, Records, Mapped, Threads
    <3> QED
      BY Zenon, <1>1, <1>2, <1>4, <2>1, <3>1, <3>2 DEF SendOK, ReportTrafficOK, RestInv, WindowContract
  <2>5. AccountInv'
    <3>1. Apart
      BY Zenon, <1>1, <1>2, <1>4, ApartFromCounters DEF SendOK, Quiet, AccountInv
    <3>2. Known' = Known
      BY Zenon, <1>2, <1>4 DEF SendOK, Known, ReportTrafficOK
    <3> QED
      BY Zenon, <1>1, <1>4, <3>1, <3>2, AccountKept DEF SendOK, ReportTrafficOK
  <2> QED
    BY Zenon, <1>1, <1>2, <2>1, <2>2, <2>3, <2>4, <2>5, InvOfStep
<1>5. CASE SendFails(t)
  <2>1. /\ \A u \in Threads : u # t => pc'[u] = pc[u]
        /\ t = Main => pc'[t] = IF phase = "flush" THEN "flush" ELSE "exit"
        /\ t # Main => pc'[t] \in {"exec", "idle"}
    BY Zenon, <1>1, <1>5, ReturnMoves DEF SendFails
  <2>2. PhaseInv'
    BY Zenon, <1>1, <1>2, <1>5, <2>1, PhaseKept DEF SendFails, PhaseInv
  <2>3. ThreadInv(t)'
    BY Zenon, <1>1, <1>2, <1>5, <2>1 DEF SendFails, ReportTrafficFails, ThreadInv, RecoveryInv, StageInv, SnapshotInv
  <2>4. RestInv'
    <3>1. LeftoverInv'
      BY Zenon, <1>1, <1>2, <1>5, <2>1 DEF SendFails, ReportTrafficFails, ThreadInv, StageInv, Quiet, RestInv,
         LeftoverInv, Threads
    <3>2. FinalInv' /\ FlushLeavesNothing'
      BY Zenon, <1>1, <1>2, <1>5, <2>1 DEF SendFails, ReportTrafficFails, ThreadInv, SnapshotInv, Quiet, RestInv, FinalInv,
         FlushLeavesNothing, Records, Mapped, Threads
    <3> QED
      BY Zenon, <1>1, <1>2, <1>5, <2>1, <3>1, <3>2 DEF SendFails, ReportTrafficFails, RestInv, WindowContract
  <2>5. AccountInv'
    <3>1. Apart
      BY Zenon, <1>1, <1>2, <1>5, ApartFromCounters DEF SendFails, Quiet, AccountInv
    <3>2. Known' = Known
      BY Zenon, <1>2, <1>5 DEF SendFails, Known, ReportTrafficFails
    <3> QED
      BY Zenon, <1>1, <1>5, <3>1, <3>2, AccountKept DEF SendFails, ReportTrafficFails
  <2> QED
    BY Zenon, <1>1, <1>2, <2>1, <2>2, <2>3, <2>4, <2>5, InvOfStep
<1>6. CASE ConfirmAccepted(t)
  <2>1. /\ pc'[t] = "acceptReset"
        /\ \A u \in Threads : u # t => pc'[u] = pc[u]
        /\ staged' = None /\ live' = live
    BY Zenon, <1>1, <1>6, <1>3, GotoMoves DEF ConfirmAccepted, Moves, PC, Confirm
  <2>2. PhaseInv'
    BY Zenon, <1>1, <1>2, <1>6, <2>1, PhaseKept DEF ConfirmAccepted, PhaseInv
  <2>3. ThreadInv(t)'
    BY Zenon, <1>1, <1>2, <1>6, <2>1 DEF ConfirmAccepted, ThreadInv, RecoveryInv, StageInv, SnapshotInv
  <2>4. RestInv'
    <3>1. LeftoverInv'
      BY Zenon, <1>1, <1>2, <1>6, <2>1 DEF ConfirmAccepted, ThreadInv, StageInv, Quiet, RestInv,
         LeftoverInv, Threads
    <3>2. FinalInv' /\ FlushLeavesNothing'
      BY Zenon, <1>1, <1>2, <1>6, <2>1 DEF ConfirmAccepted, ThreadInv, SnapshotInv, Quiet, RestInv, FinalInv,
         FlushLeavesNothing, Records, Mapped, Threads
    <3> QED
      BY Zenon, <1>1, <1>2, <1>6, <2>1, <3>1, <3>2 DEF ConfirmAccepted, RestInv, WindowContract
  <2>5. AccountInv'
    <3>1. Apart
      BY Zenon, <1>1, <1>2, <1>6, ApartFromCounters DEF ConfirmAccepted, Quiet, AccountInv
    <3>2. Known' = Known
      BY Zenon, <1>1, <1>6 DEF ConfirmAccepted, Known
    <3> QED
      BY Zenon, <1>1, <1>6, <3>1, <3>2, AccountKept DEF ConfirmAccepted
  <2> QED
    BY Zenon, <1>1, <1>2, <2>1, <2>2, <2>3, <2>4, <2>5, InvOfStep
<1>7. CASE ResetAccepted(t)
  <2>1. /\ pc'[t] = "clear"
        /\ \A u \in Threads : u # t => pc'[u] = pc[u]
        /\ staged' = None /\ live' = live /\ unbilled' = unbilled
    BY Zenon, <1>1, <1>7, <1>3, GotoMoves DEF ResetAccepted, Moves, PC,
       ResetLiveCountersWhenJournaled
  <2>2. PhaseInv'
    BY Zenon, <1>1, <1>2, <1>7, <2>1, PhaseKept DEF ResetAccepted, PhaseInv
  <2>3. ThreadInv(t)'
    BY Zenon, <1>1, <1>2, <1>7, <2>1 DEF ResetAccepted, ThreadInv, RecoveryInv, StageInv, SnapshotInv
  <2>4. RestInv'
    <3>1. LeftoverInv'
      BY Zenon, <1>1, <1>2, <1>7, <2>1 DEF ResetAccepted, ThreadInv, StageInv, Quiet, RestInv,
         LeftoverInv, Threads
    <3>2. FinalInv' /\ FlushLeavesNothing'
      BY Zenon, <1>1, <1>2, <1>7, <2>1 DEF ResetAccepted, ThreadInv, SnapshotInv, Quiet, RestInv, FinalInv,
         FlushLeavesNothing, Records, Mapped, Threads
    <3> QED
      BY Zenon, <1>1, <1>2, <1>7, <2>1, <3>1, <3>2 DEF ResetAccepted, RestInv, WindowContract
  <2>5. AccountInv'
    <3>1. Apart
      BY Zenon, <1>1, <1>2, <1>7, ApartFromCounters DEF ResetAccepted, Quiet, AccountInv
    <3>2. Known' = Known
      BY Zenon, <1>1, <1>7 DEF ResetAccepted, Known
    <3> QED
      BY Zenon, <1>1, <1>7, <3>1, <3>2, <2>1, AccountKept DEF ResetAccepted
  <2> QED
    BY Zenon, <1>1, <1>2, <2>1, <2>2, <2>3, <2>4, <2>5, InvOfStep
<1>8. CASE ClearPending(t)
  <2>1. /\ \A u \in Threads : u # t => pc'[u] = pc[u]
        /\ t = Main => pc'[t] = IF phase = "flush" THEN "flush" ELSE "exit"
        /\ t # Main => pc'[t] \in {"exec", "idle"}
        /\ staged' = None /\ live' = live
    BY Zenon, <1>1, <1>8, <1>3, ReturnMoves DEF ClearPending, FinishReport
  <2>2. PhaseInv'
    BY Zenon, <1>1, <1>2, <1>8, <2>1, PhaseKept DEF ClearPending, FinishReport, PhaseInv
  <2>3. ThreadInv(t)'
    BY ZenonT(60), <1>1, <1>2, <1>8, <2>1 DEF ClearPending, FinishReport, ThreadInv, RecoveryInv, StageInv, SnapshotInv
  <2>4. RestInv'
    <3>1. LeftoverInv'
      BY Zenon, <1>1, <1>2, <1>8, <2>1 DEF ClearPending, FinishReport, ThreadInv, StageInv, Quiet, RestInv,
         LeftoverInv, Threads
    <3>2. FinalInv' /\ FlushLeavesNothing'
      BY Zenon, <1>1, <1>2, <1>8, <2>1 DEF ClearPending, FinishReport, ThreadInv, SnapshotInv, Quiet, RestInv, FinalInv,
         FlushLeavesNothing, Records, Mapped, Threads
    <3> QED
      BY Zenon, <1>1, <1>2, <1>8, <2>1, <3>1, <3>2 DEF ClearPending, FinishReport, RestInv, WindowContract
  <2>5. AccountInv'
    <3>1. Apart
      BY Zenon, <1>1, <1>2, <1>8, ApartFromCounters DEF ClearPending, Quiet, AccountInv
    <3>2. Known' = Known
      <4>1. rep[t] \in accepted
        BY Zenon, <1>1, <1>8 DEF ClearPending, ThreadInv, SnapshotInv
      <4> QED
        BY Zenon, <1>8, <4>1 DEF ClearPending, Known, FinishReport
    <3> QED
      BY Zenon, <1>1, <1>8, <3>1, <3>2, AccountKept DEF ClearPending, FinishReport
  <2> QED
    BY Zenon, <1>1, <1>2, <2>1, <2>2, <2>3, <2>4, <2>5, InvOfStep
<1>9. CASE ClearFails(t)
  <2>1. /\ \A u \in Threads : u # t => pc'[u] = pc[u]
        /\ t = Main => pc'[t] = IF phase = "flush" THEN "flush" ELSE "exit"
        /\ t # Main => pc'[t] \in {"exec", "idle"}
        /\ staged' = None /\ live' = live
    BY Zenon, <1>1, <1>9, <1>3, ReturnMoves DEF ClearFails, FinishReport
  <2>2. PhaseInv'
    BY ZenonT(60), <1>1, <1>2, <1>9, <2>1, PhaseKept DEF ClearFails, FinishReport, PhaseInv
  <2>3. ThreadInv(t)'
    BY ZenonT(60), <1>1, <1>2, <1>9, <2>1 DEF ClearFails, FinishReport, ThreadInv, RecoveryInv, StageInv, SnapshotInv
  <2>4. RestInv'
    <3>1. LeftoverInv'
      BY ZenonT(60), <1>1, <1>2, <1>9, <2>1 DEF ClearFails, FinishReport, ThreadInv, StageInv, Quiet, RestInv,
         LeftoverInv, Threads
    <3>2. FinalInv' /\ FlushLeavesNothing'
      BY Zenon, <1>1, <1>2, <1>9, <2>1 DEF ClearFails, FinishReport, ThreadInv, SnapshotInv, Quiet, RestInv, FinalInv,
         FlushLeavesNothing, Records, Mapped, Threads
    <3> QED
      BY ZenonT(60), <1>1, <1>2, <1>9, <2>1, <3>1, <3>2 DEF ClearFails, FinishReport, RestInv, WindowContract
  <2>5. AccountInv'
    <3>1. Apart
      BY Zenon, <1>1, <1>2, <1>9, ApartFromCounters DEF ClearFails, Quiet, AccountInv
    <3>2. Known' = Known
      BY Zenon, <1>9 DEF ClearFails, Known, FinishReport
    <3> QED
      BY Zenon, <1>1, <1>9, <3>1, <3>2, AccountKept DEF ClearFails, FinishReport
  <2> QED
    BY Zenon, <1>1, <1>2, <2>1, <2>2, <2>3, <2>4, <2>5, InvOfStep
<1> QED
  BY Zenon, <1>4, <1>5, <1>6, <1>7, <1>8, <1>9 DEF SendAndFinalize

-----------------------------------------------------------------------------
(* A step of a recovery, short of its save: a report of the copy changes   *)
(* hands, and only one with a valid window goes to the panel.              *)
Copy(t) == todo[t] \cup remaining[t] \cup quarantined[t]

RecoveryMove(t) ==
  /\ pc'[t] \in Recovering
  /\ \A u \in Threads : u # t => pc'[u] = pc[u]
  /\ UNCHANGED <<storeVars, trackerVars, pendingReport, phase, historyVars>>
  /\ Copy(t)' \subseteq Copy(t)
  /\ Copy(t) \subseteq Copy(t)' \cup accepted'
  /\ accepted \subseteq accepted'
  /\ accepted' \cup inflight' \subseteq accepted \cup inflight \cup {r \in Copy(t) : Valid(r)}
  /\ inflight \subseteq inflight' \cup accepted'

(* A step of Recovery moves its own goroutine only. *)
LEMMA RecoveryMoves ==
  ASSUME TypeInv, NEW t \in Threads, staged = None,
         RecoverOne(t) \/ RecoverConfirm(t) \/ RecoverReset(t)
  PROVE  RecoveryMove(t)
<1> USE DEF storeVars, trackerVars, recoveryVars, panelVars, historyVars, Recovering, Copy
<1>1. ASSUME NEW r \in todo[t], RecoverBodyless(t, r) PROVE RecoveryMove(t)
  BY Zenon, <1>1 DEF RecoverBodyless, RecoveryMove, TypeInv, TypeOK
<1>2. ASSUME NEW r \in todo[t], RecoverInvalid(t, r) PROVE RecoveryMove(t)
  BY Zenon, <1>2 DEF RecoverInvalid, RecoveryMove, TypeInv, TypeOK
<1>3. ASSUME NEW r \in todo[t], RecoverSendOK(t, r) PROVE RecoveryMove(t)
  BY Zenon, <1>3 DEF RecoverSendOK, ReportTrafficOK, RecoveryMove, Goto, TypeInv, TypeOK
<1>4. ASSUME NEW r \in todo[t], RecoverSendFails(t, r) PROVE RecoveryMove(t)
  BY Zenon, <1>4 DEF RecoverSendFails, ReportTrafficFails, RecoveryMove, TypeInv, TypeOK
<1>5. CASE RecoverConfirm(t)
  BY Zenon, <1>5 DEF RecoverConfirm, Confirm, RecoveryMove, Goto, TypeInv, TypeOK
<1>6. CASE RecoverReset(t)
  BY Zenon, <1>6 DEF RecoverReset, ResetLiveCountersWhenJournaled, RecoveryMove, Goto,
     TypeInv, TypeOK
<1> QED
  BY Zenon, <1>1, <1>2, <1>3, <1>4, <1>5, <1>6 DEF RecoverOne

(* Recovery keeps the invariant: what it keeps, settles or quarantines. *)
LEMMA InvRecovery ==
  ASSUME SoleReporter, Inv, NEW t \in Threads, Recovery(t)
  PROVE  Inv'
<1> USE DEF storeVars, trackerVars, recoveryVars, panelVars, historyVars, Holding,
        Recovering
<1>1. TypeInv /\ PhaseInv /\ RestInv /\ AccountInv /\ ThreadInv(t) /\ TypeInv'
  BY Zenon, InvParts, TypeRecovery
<1>2. /\ pc[t] \in {"recover", "recoverConfirm", "recoverReset"}
      /\ ~Quiet(t) /\ \A u \in Threads : u # t => Quiet(u)
  <2>1. pc[t] \in {"recover", "recoverConfirm", "recoverReset"}
    BY Zenon DEF Recovery, RecoverOne, RecoverBodyless, RecoverInvalid, RecoverSendOK,
       RecoverSendFails, RecoverConfirm, RecoverReset, RecoverySaved, RecoverySaveFails
  <2> QED
    BY Zenon, <1>1, <2>1, Exclusive DEF Quiet
<1>3. staged = None /\ pendingReport = None
  BY Zenon, <1>1, <1>2 DEF Quiet, RestInv, LeftoverInv, ThreadInv, RecoveryInv, Threads
<1>4. Apart
  BY Zenon, <1>1, <1>2, ApartFromCounters DEF Quiet, AccountInv
<1>5. CASE RecoverOne(t) \/ RecoverConfirm(t) \/ RecoverReset(t)
  <2>1. RecoveryMove(t)
    BY Zenon, <1>1, <1>3, <1>5, RecoveryMoves
  <2>2. PhaseInv'
    BY Zenon, <1>1, <1>2, <2>1, PhaseKept DEF RecoveryMove, PhaseInv
  <2>3. ThreadInv(t)'
    BY Zenon, <1>1, <1>2, <2>1 DEF RecoveryMove, Copy, ThreadInv, RecoveryInv, StageInv, SnapshotInv
  <2>4. RestInv'
    BY Zenon, <1>1, <1>2, <1>3, <2>1, PhaseOf DEF RecoveryMove, Quiet, RestInv, LeftoverInv,
       FinalInv, FlushLeavesNothing, Records, Mapped, WindowContract, Threads
  <2>5. AccountInv'
    <3>1. Known' = Known
      BY Zenon, <1>1, <1>2, <2>1 DEF RecoveryMove, Copy, Known, ThreadInv, RecoveryInv
    <3> QED
      BY Zenon, <1>1, <1>4, <2>1, <3>1, AccountKept DEF RecoveryMove
  <2> QED
    BY Zenon, <1>1, <1>2, <2>1, <2>2, <2>3, <2>4, <2>5, InvOfStep DEF RecoveryMove
<1>6. CASE RecoverySaved(t) \/ RecoverySaveFails(t)
  <2>1. /\ phase' = "run" /\ pc'[Main] = "off"
        /\ \A u \in Threads : pc'[u] \in {"off", "idle", "recheck", "exec"}
        /\ \A u \in Threads : u # t => Quiet(u)'
    BY <1>1, <1>2, <1>6
    DEF RecoverySaved, RecoverySaveFails, AfterRecovery, Goto, ReturnTo, PhaseInv,
        Threads, TypeInv, TypeOK, Quiet
  <2>2. staged' = None /\ pendingReport' = None
    BY Zenon, <1>3, <1>6 DEF RecoverySaved, RecoverySaveFails
  <2>3. PhaseInv'
    BY Zenon, <2>1 DEF PhaseInv
  <2>4. \A u \in Threads : ThreadInv(u)'
    BY Zenon, <2>1, <2>2 DEF ThreadInv, RecoveryInv, StageInv, SnapshotInv
  <2>5. RestInv'
    BY Zenon, <1>1, <1>6, <2>1, <2>2
    DEF RecoverySaved, RecoverySaveFails, RestInv, LeftoverInv, FinalInv,
        FlushLeavesNothing, Records, Mapped, WindowContract
  <2>6. Known' = Known
    BY Zenon, <1>1, <1>6 DEF RecoverySaved, RecoverySaveFails, Known, ThreadInv, RecoveryInv
  <2>7. AccountInv'
    BY Zenon, <1>1, <1>4, <1>6, <2>6, AccountKept DEF RecoverySaved, RecoverySaveFails
  <2> QED
    BY Zenon, <1>1, <2>3, <2>4, <2>5, <2>7, InvPartsNext
<1> QED
  BY Zenon, <1>5, <1>6 DEF Recovery

(* The steps of a goroutine in a call between its tests of what is pending. *)
Between(t) ==
  \/ CheckJournal(t) \/ RecheckJournal(t) \/ RetryPending(t)
  \/ RetrySaveFails(t) \/ ExecFails(t)

(* The steps between recovery, staging and sending keep the invariant. *)
LEMMA InvBetween ==
  ASSUME SoleReporter, Inv, NEW t \in Threads, Between(t)
  PROVE  Inv'
<1> USE DEF storeVars, trackerVars, recoveryVars, panelVars, historyVars, Holding,
        Recovering
<1>1. TypeInv /\ PhaseInv /\ RestInv /\ AccountInv /\ ThreadInv(t) /\ TypeInv'
  BY Zenon, InvParts, TypeStep DEF Between, Step
<1>2. /\ ~Quiet(t) /\ \A u \in Threads : u # t => Quiet(u)
      /\ pc[t] \notin {"confirm", "reset"}
  BY Zenon, <1>1, Exclusive DEF Between, CheckJournal, RecheckJournal, RetryPending,
     RetrySaveFails, ExecFails, Quiet
<1>3. Apart
  BY Zenon, <1>1, <1>2, ApartFromCounters DEF Quiet, AccountInv
<1>4. CASE CheckJournal(t)
  <2>1. /\ t # Main /\ pendingReport = None
        /\ \A u \in Threads : u # t => pc'[u] = pc[u]
        /\ pendingReports = {} => pc'[t] = "stage"
        /\ pendingReports # {} =>
             /\ pc'[t] = "recover" /\ todo'[t] = pendingReports
             /\ remaining'[t] = {} /\ quarantined'[t] = {}
    <3>1. t # Main /\ pendingReport = None
      BY Zenon, <1>1, <1>4 DEF CheckJournal, PhaseInv, ThreadInv, StageInv, TypeInv, TypeOK
    <3>2. CASE pendingReports = {}
      BY Zenon, <1>1, <1>4, <3>1, <3>2, GotoMoves DEF CheckJournal, Moves, PC
    <3>3. CASE pendingReports # {}
      <4>1. pc'[t] = "recover" /\ \A u \in Threads : u # t => pc'[u] = pc[u]
        BY Zenon, <1>1, <1>4, <3>3, GotoMoves DEF CheckJournal, Moves, PC
      <4>2. todo'[t] = pendingReports /\ remaining'[t] = {} /\ quarantined'[t] = {}
        <5>1. BeginRecovery(t)
          BY Zenon, <1>4, <3>3 DEF CheckJournal
        <5> QED
          BY Zenon, <1>1, <5>1 DEF BeginRecovery, TypeInv, TypeOK
      <4> QED
        BY Zenon, <3>1, <3>3, <4>1, <4>2
    <3> QED
      BY Zenon, <3>2, <3>3
  <2>2. PhaseInv'
    BY Zenon, <1>1, <1>2, <1>4, <2>1, PhaseKept DEF CheckJournal, PhaseInv, Quiet
  <2>3. ThreadInv(t)'
    BY Zenon, <1>1, <1>4, <2>1 DEF CheckJournal, ThreadInv, RecoveryInv, StageInv, SnapshotInv,
       RestInv, WindowContract
  <2>4. RestInv'
    BY Zenon, <1>1, <1>2, <1>4, <2>1 DEF CheckJournal, Quiet, RestInv, LeftoverInv, FinalInv,
       FlushLeavesNothing, Records, Mapped, WindowContract, PhaseInv, Threads
  <2>5. AccountInv'
    BY Zenon, <1>1, <1>3, <1>4, AccountKept DEF CheckJournal, Known
  <2> QED
    BY Zenon, <1>1, <1>2, <1>4, <2>1, <2>2, <2>3, <2>4, <2>5, InvOfStep DEF CheckJournal, Quiet
<1>5. CASE RecheckJournal(t)
  <2>1. /\ t # Main
        /\ \A u \in Threads : u # t => pc'[u] = pc[u]
        /\ pendingReports = {} => pc'[t] = "stage"
        /\ pendingReports # {} => pc'[t] \in {"exec", "idle"}
    BY Zenon, <1>1, <1>5 DEF RecheckJournal, Goto, ReturnTo, PhaseInv, TypeInv, TypeOK
  <2>2. PhaseInv'
    BY Zenon, <1>1, <1>2, <1>5, <2>1, PhaseKept DEF RecheckJournal, PhaseInv, Quiet
  <2>3. ThreadInv(t)'
    BY Zenon, <1>1, <1>5, <2>1 DEF RecheckJournal, ThreadInv, RecoveryInv, StageInv, SnapshotInv,
       RestInv, WindowContract
  <2>4. RestInv'
    BY Zenon, <1>1, <1>2, <1>5, <2>1 DEF RecheckJournal, Quiet, RestInv, LeftoverInv, FinalInv,
       FlushLeavesNothing, Records, Mapped, WindowContract, PhaseInv, Threads
  <2>5. AccountInv'
    BY Zenon, <1>1, <1>3, <1>5, AccountKept DEF RecheckJournal, Known
  <2> QED
    BY Zenon, <1>1, <1>2, <1>5, <2>1, <2>2, <2>3, <2>4, <2>5, InvOfStep DEF RecheckJournal, Quiet
<1>6. CASE RetryPending(t)
  <2>1. /\ pc'[t] = "send"
        /\ \A u \in Threads : u # t => pc'[u] = pc[u]
        /\ rep'[t] = pendingReport
        /\ rep'[t] \in pendingReports /\ Valid(rep'[t])
    <3>1. pc'[t] = "send" /\ \A u \in Threads : u # t => pc'[u] = pc[u]
      BY Zenon, <1>1, <1>6, GotoMoves DEF RetryPending, Moves, PC
    <3>2. rep'[t] = pendingReport
      BY Zenon, <1>1, <1>6 DEF RetryPending, TypeInv, TypeOK
    <3> QED
      BY Zenon, <1>1, <1>6, <3>1, <3>2 DEF RetryPending, RestInv, WindowContract
  <2>2. PhaseInv'
    BY Zenon, <1>1, <1>2, <1>6, <2>1, PhaseKept DEF RetryPending, PhaseInv, Quiet
  <2>3. ThreadInv(t)'
    BY Zenon, <1>1, <1>6, <2>1 DEF RetryPending, ThreadInv, RecoveryInv, StageInv, SnapshotInv,
       Valid
  <2>4. RestInv'
    BY Zenon, <1>1, <1>2, <1>6, <2>1 DEF RetryPending, Quiet, RestInv, LeftoverInv, FinalInv,
       FlushLeavesNothing, Records, Mapped, WindowContract, PhaseInv, Threads
  <2>5. AccountInv'
    BY Zenon, <1>1, <1>3, <1>6, AccountKept DEF RetryPending, Known
  <2> QED
    BY Zenon, <1>1, <1>2, <1>6, <2>1, <2>2, <2>3, <2>4, <2>5, InvOfStep DEF RetryPending, Quiet
<1>7. CASE RetrySaveFails(t)
  <2>1. /\ \A u \in Threads : u # t => pc'[u] = pc[u]
        /\ t = Main => pc'[t] = IF phase = "flush" THEN "flush" ELSE "exit"
        /\ t # Main => pc'[t] \in {"exec", "idle"}
        /\ phase = IF t = Main THEN "flush" ELSE "run"
    BY Zenon, <1>1, <1>2, <1>7, ReturnMoves, PhaseOf DEF RetrySaveFails, PhaseInv
  <2>2. PhaseInv'
    BY Zenon, <1>1, <1>2, <1>7, <2>1, PhaseKept DEF RetrySaveFails, PhaseInv, Quiet
  <2>3. ThreadInv(t)'
    BY Zenon, <1>1, <1>7, <2>1 DEF RetrySaveFails, ThreadInv, RecoveryInv, StageInv, SnapshotInv,
       RestInv, WindowContract
  <2>4. RestInv'
    BY Zenon, <1>1, <1>2, <1>7, <2>1 DEF RetrySaveFails, Quiet, RestInv, LeftoverInv, FinalInv,
       FlushLeavesNothing, Records, Mapped, WindowContract, Threads
  <2>5. AccountInv'
    BY Zenon, <1>1, <1>3, <1>7, AccountKept DEF RetrySaveFails, Known
  <2> QED
    BY Zenon, <1>1, <1>2, <1>7, <2>1, <2>2, <2>3, <2>4, <2>5, InvOfStep DEF RetrySaveFails, Quiet
<1>8. CASE ExecFails(t)
  <2>1. /\ pc'[t] = "idle"
        /\ \A u \in Threads : u # t => pc'[u] = pc[u]
    BY Zenon, <1>1, <1>8, GotoMoves DEF ExecFails, Moves, PC
  <2>2. PhaseInv'
    BY Zenon, <1>1, <1>2, <1>8, <2>1, PhaseKept DEF ExecFails, PhaseInv, Quiet
  <2>3. ThreadInv(t)'
    BY Zenon, <1>1, <1>8, <2>1 DEF ExecFails, ThreadInv, RecoveryInv, StageInv, SnapshotInv,
       RestInv, WindowContract
  <2>4. RestInv'
    BY Zenon, <1>1, <1>2, <1>8, <2>1 DEF ExecFails, Quiet, RestInv, LeftoverInv, FinalInv,
       FlushLeavesNothing, Records, Mapped, WindowContract, PhaseInv, Threads
  <2>5. AccountInv'
    BY Zenon, <1>1, <1>3, <1>8, AccountKept DEF ExecFails, Known
  <2> QED
    BY Zenon, <1>1, <1>2, <1>8, <2>1, <2>2, <2>3, <2>4, <2>5, InvOfStep DEF ExecFails, Quiet
<1> QED
  BY Zenon, <1>4, <1>5, <1>6, <1>7, <1>8 DEF Between

(* The begin of ReportNow keeps the invariant. *)
LEMMA InvReportNow ==
  ASSUME SoleReporter, Inv, NEW t \in Threads, ReportNow(t)
  PROVE  Inv'
<1> USE DEF storeVars, trackerVars, recoveryVars, panelVars, historyVars, Holding,
        Recovering
<1>1. TypeInv /\ PhaseInv /\ RestInv /\ AccountInv /\ TypeInv'
  BY Zenon, InvParts, TypeStep DEF Step
<1>2. /\ phase = "run" /\ t # Main
      /\ \A u \in Threads : Quiet(u)
  <2>1. phase = "run" /\ t # Main
    BY Zenon, <1>1 DEF ReportNow, PhaseInv, Threads, TypeInv, TypeOK
  <2> QED
    BY Zenon, <1>1, <2>1 DEF ReportNow, SoleReporter, PhaseInv, Quiet, Threads
<1>3. /\ pc'[t] = IF pendingReport # None THEN "retry" ELSE "check"
      /\ \A u \in Threads : u # t => pc'[u] = pc[u]
  BY Zenon, <1>1 DEF ReportNow, Goto, TypeInv, TypeOK
<1>4. PhaseInv'
  BY Zenon, <1>1, <1>2, <1>3 DEF ReportNow, PhaseInv, Threads
<1>5. \A u \in Threads : ThreadInv(u)'
  <2>1. \A u \in Threads : u # t => Quiet(u)'
    BY Zenon, <1>2, <1>3 DEF Quiet
  <2>2. ThreadInv(t)'
    BY Zenon, <1>3 DEF ReportNow, ThreadInv, RecoveryInv, StageInv, SnapshotInv
  <2> QED
    BY Zenon, <2>1, <2>2, QuietThreadNext
<1>6. RestInv'
  BY Zenon, <1>1, <1>2, <1>3 DEF ReportNow, Quiet, RestInv, LeftoverInv, FinalInv,
     FlushLeavesNothing, Records, Mapped, WindowContract, Threads
<1>7. Apart
  BY Zenon, <1>1, <1>2, ApartFromCounters DEF Quiet, AccountInv
<1>8. AccountInv'
  BY Zenon, <1>1, <1>7, AccountKept DEF ReportNow, Known
<1> QED
  BY Zenon, <1>1, <1>4, <1>5, <1>6, <1>8, InvPartsNext

(* A process that ends, in whatever state, leaves its journal behind.      *)
LEMMA InvProcessEnds ==
  ASSUME Inv, ProcessEnds
  PROVE  Inv'
<1>1. TypeInv'
  BY Zenon, TypeProcessEnds DEF Inv
<1>2. PhaseInv' /\ \A t \in Threads : Quiet(t)'
  BY Zenon DEF ProcessEnds, PhaseInv, Quiet, Threads
<1>3. \A t \in Threads : ThreadInv(t)'
  BY Zenon, <1>2, QuietThreadNext
<1>4. RestInv'
  BY Zenon, <1>2 DEF ProcessEnds, Inv, RestInv, LeftoverInv, FinalInv, FlushLeavesNothing, Records, Mapped,
     WindowContract, Quiet, Threads, panelVars
<1>5. Known' = Known
  BY Zenon DEF ProcessEnds, Known, storeVars, panelVars
<1>6. AccountInv'
  BY Zenon, <1>5 DEF ProcessEnds, Inv, AccountInv, CountersInv, NoDoubleCount, Conserved,
     BytesOf
<1> QED
  BY Zenon, <1>1, <1>2, <1>3, <1>4, <1>6 DEF Inv, RestInv, AccountInv, ThreadInv

(* Every step of a goroutine keeps the invariant. *)
LEMMA InvStep ==
  ASSUME SoleReporter, Inv, NEW t \in Threads, Step(t)
  PROVE  Inv'
  BY Zenon, InvReportNow, InvBetween, InvRecovery, InvStageAndSend, InvSendAndFinalize, InvProcessEnds
  DEF Step, Between, Exec

(* The steps that are not a goroutine's own.                               *)
LEMMA InvShutdown == ASSUME Inv, Shutdown PROVE Inv'
<1> USE DEF storeVars, trackerVars, recoveryVars, panelVars, historyVars, Holding,
        Recovering
<1>1. TypeInv /\ PhaseInv /\ RestInv /\ AccountInv /\ TypeInv'
  BY Zenon, InvParts, TypeNext DEF Next
<1>2. \A t \in Threads : Quiet(t)
  BY Zenon, <1>1 DEF Shutdown, PhaseInv, Quiet, Threads
<1>3. /\ \A t \in Threads : t # Main => pc'[t] = "off"
      /\ pc'[Main] \in {"retry", "flush"}
  BY Zenon DEF Shutdown, Threads
<1>4. PhaseInv'
  BY Zenon, <1>1, <1>3 DEF Shutdown, PhaseInv, Threads
<1>5. \A t \in Threads : ThreadInv(t)'
  BY Zenon, <1>3 DEF ThreadInv, RecoveryInv, StageInv, SnapshotInv
<1>6. RestInv'
  BY Zenon, <1>1, <1>2, <1>3 DEF Shutdown, Quiet, RestInv, LeftoverInv, FinalInv,
     FlushLeavesNothing, Records, Mapped, WindowContract, Threads
<1>7. AccountInv'
  <2>1. Apart
    BY Zenon, <1>1, <1>2, ApartFromCounters DEF Quiet, AccountInv
  <2> QED
    BY Zenon, <1>1, <2>1, AccountKept DEF Shutdown, Known
<1> QED
  BY Zenon, <1>1, <1>4, <1>5, <1>6, <1>7 DEF Inv, RestInv, AccountInv, ThreadInv

(* Flush stages the last deltas after the Box is closed. *)
LEMMA InvFlushStages == ASSUME Inv, FlushStages PROVE Inv'
<1> USE DEF storeVars, trackerVars, recoveryVars, panelVars, historyVars, Holding,
        Recovering, Goto
<1>1. TypeInv /\ PhaseInv /\ RestInv /\ AccountInv /\ TypeInv'
  BY Zenon, InvParts, TypeNext DEF Next
<1>2. phase = "flush" /\ \A t \in Reporters : pc[t] = "off"
  BY Zenon, <1>1 DEF FlushStages, PhaseInv, TypeInv, TypeOK
<1>3. /\ \A t \in Reporters : pc'[t] = "off"
      /\ pc'[Main] = "stage"
  BY Zenon, <1>1, <1>2 DEF FlushStages, TypeInv, TypeOK, Threads
<1>4. PhaseInv'
  BY Zenon, <1>3 DEF FlushStages, PhaseInv
<1>5. \A t \in Threads : ThreadInv(t)'
  BY Zenon, <1>3 DEF ThreadInv, RecoveryInv, StageInv, SnapshotInv, Threads
<1>6. RestInv'
  BY Zenon, <1>1, <1>2, <1>3 DEF FlushStages, RestInv, LeftoverInv, FinalInv,
     FlushLeavesNothing, Records, Mapped, WindowContract, Threads
<1>7. AccountInv'
  <2>1. Apart
    BY Zenon, <1>1, <1>2, ApartFromCounters DEF FlushStages, AccountInv, Threads
  <2> QED
    BY Zenon, <1>1, <2>1, AccountKept DEF FlushStages, Known
<1> QED
  BY Zenon, <1>1, <1>4, <1>5, <1>6, <1>7 DEF Inv, RestInv, AccountInv, ThreadInv

(* A start finds what the store kept; the counters are empty. *)
LEMMA InvStart == ASSUME Inv, Start PROVE Inv'
<1> USE DEF storeVars, trackerVars, recoveryVars, panelVars, historyVars, Holding,
        Recovering, Goto
<1>1. TypeInv /\ PhaseInv /\ RestInv /\ AccountInv /\ TypeInv'
  BY Zenon, InvParts, TypeNext DEF Next
<1>2. \A t \in Threads : pc[t] = "off"
  BY Zenon, <1>1 DEF Start, PhaseInv, Threads
<1>3. staged = None /\ pendingReport = None
  BY Zenon, <1>1 DEF Start, RestInv
<1>4. \/ /\ pendingReports # {} /\ phase' = "boot"
         /\ pc'[Main] = "recover" /\ \A t \in Reporters : pc'[t] = "off"
         /\ todo'[Main] = pendingReports
         /\ remaining'[Main] = {} /\ quarantined'[Main] = {}
      \/ /\ phase' = "run" /\ pc'[Main] = "off"
         /\ \A t \in Reporters : pc'[t] = "idle"
  <2>1. CASE pendingReports # {}
    <3>1. BeginRecovery(Main) /\ Goto(Main, "recover") /\ phase' = "boot"
      BY Zenon, <2>1 DEF Start
    <3>2. Main \in Threads /\ Reporters \subseteq Threads /\ Main \notin Reporters
      BY Zenon, ConstantsAssumption DEF Threads
    <3>3. pc'[Main] = "recover" /\ \A t \in Reporters : pc'[t] = "off"
      BY Zenon, <1>1, <1>2, <3>1, <3>2 DEF TypeInv, TypeOK
    <3>4. todo'[Main] = pendingReports /\ remaining'[Main] = {} /\ quarantined'[Main] = {}
      BY Zenon, <1>1, <3>1, <3>2 DEF BeginRecovery, TypeInv, TypeOK
    <3> QED
      BY Zenon, <2>1, <3>1, <3>3, <3>4
  <2>2. CASE pendingReports = {}
    <3>1. AfterRecovery(Main, "idle")
      BY Zenon, <2>2 DEF Start
    <3>2. phase' = "run"
      BY Zenon, <3>1 DEF AfterRecovery
    <3>3. pc' = [u \in Threads |-> IF u = Main THEN "off" ELSE "idle"]
      BY Zenon, <3>1 DEF AfterRecovery
    <3>4. Main \in Threads /\ Reporters \subseteq Threads /\ Main \notin Reporters
      BY Zenon, ConstantsAssumption DEF Threads
    <3> QED
      BY Zenon, <3>2, <3>3, <3>4
  <2> QED
    BY Zenon, <2>1, <2>2
<1>5. PhaseInv'
  BY Zenon, <1>4 DEF PhaseInv
<1>6. \A t \in Threads : ThreadInv(t)'
  BY Zenon, <1>3, <1>4 DEF Start, ThreadInv, RecoveryInv, StageInv, SnapshotInv, Threads
<1>7. RestInv'
  BY Zenon, <1>1, <1>3, <1>4 DEF Start, RestInv, LeftoverInv, FinalInv, FlushLeavesNothing, Records, Mapped,
     WindowContract
<1>8. AccountInv'
  <2>1. Apart
    BY Zenon, <1>1, <1>2, ApartFromCounters DEF AccountInv
  <2> QED
    BY Zenon, <1>1, <2>1, AccountKept DEF Start, Known
<1> QED
  BY Zenon, <1>1, <1>5, <1>6, <1>7, <1>8 DEF Inv, RestInv, AccountInv, ThreadInv

(* A connection counts a byte that nobody has seen before. *)
LEMMA InvCount == ASSUME Inv, NEW b \in Bytes, Count(b) PROVE Inv'
<1> USE DEF storeVars, recoveryVars, panelVars
<1>1. TypeInv /\ PhaseInv /\ RestInv /\ AccountInv /\ TypeInv'
  BY Zenon, InvParts, TypeNext DEF Next
<1>2. PhaseInv' /\ RestInv'
  BY Zenon, <1>1 DEF Count, PhaseInv, RestInv, LeftoverInv, FinalInv, FlushLeavesNothing, Records, Mapped,
     WindowContract, Recovering
<1>3. \A t \in Threads : ThreadInv(t)'
  BY Zenon, InvParts DEF Count, ThreadInv, RecoveryInv, StageInv, SnapshotInv
<1>4. Known' = Known /\ \A r \in Known : b \notin r.bytes
  BY Zenon, <1>1 DEF Count, Known, AccountInv, Conserved, BytesOf
<1>5. AccountInv'
  <2>1. CountersInv' /\ NoDoubleCount'
    <3>1. CountersInv'
      BY Zenon, <1>1, <1>4 DEF Count, AccountInv, CountersInv
    <3>2. NoDoubleCount'
      BY Zenon, <1>1, <1>4 DEF AccountInv, NoDoubleCount
    <3> QED
      BY Zenon, <3>1, <3>2
  <2>2. BytesOf(Known)' = BytesOf(Known)
    BY Zenon, <1>4 DEF BytesOf
  <2>3. Conserved'
    BY Zenon, <1>1, <2>2 DEF Count, AccountInv, Conserved
  <2> QED
    BY Zenon, <2>1, <2>3 DEF AccountInv
<1> QED
  BY Zenon, <1>1, <1>2, <1>3, <1>5 DEF Inv, RestInv, AccountInv, ThreadInv

(* The mapping of the tags changes under a running reporter. *)
LEMMA InvUpdateInboundMapping == ASSUME Inv, UpdateInboundMapping PROVE Inv'
<1> USE DEF storeVars, recoveryVars, panelVars, historyVars
<1>1. TypeInv /\ PhaseInv /\ RestInv /\ AccountInv /\ TypeInv'
  BY Zenon, InvParts, TypeNext DEF Next
<1>2. PhaseInv' /\ RestInv'
  BY Zenon, <1>1 DEF UpdateInboundMapping, PhaseInv, RestInv, LeftoverInv, FinalInv,
     FlushLeavesNothing, WindowContract, Recovering
<1>3. \A t \in Threads : ThreadInv(t)'
  BY Zenon, InvParts DEF UpdateInboundMapping, ThreadInv, RecoveryInv, StageInv, SnapshotInv
<1>4. Known' = Known
  BY Zenon DEF UpdateInboundMapping, Known
<1>5. AccountInv'
  BY Zenon, <1>1, <1>4 DEF UpdateInboundMapping, AccountInv, CountersInv, NoDoubleCount,
     Conserved, BytesOf
<1> QED
  BY Zenon, <1>1, <1>2, <1>3, <1>5 DEF Inv, RestInv, AccountInv, ThreadInv

(* A late request: the panel takes a key once. *)
LEMMA InvDeliver == ASSUME Inv, NEW r \in inflight, Deliver(r) PROVE Inv'
<1> USE DEF storeVars, trackerVars, recoveryVars, historyVars
<1>1. TypeInv /\ PhaseInv /\ RestInv /\ AccountInv /\ TypeInv'
  BY Zenon, InvParts, TypeNext DEF Next
<1>2. PhaseInv' /\ RestInv'
  <2>1. PhaseInv' /\ LeftoverInv' /\ FinalInv' /\ FlushLeavesNothing'
    BY Zenon, <1>1 DEF Deliver, PhaseInv, RestInv, LeftoverInv, FinalInv, FlushLeavesNothing, Records, Mapped
  <2> QED
    BY Zenon, <1>1, <2>1 DEF Deliver, RestInv, WindowContract
<1>3. \A t \in Threads : ThreadInv(t)'
  BY Zenon, InvParts DEF Deliver, ThreadInv, RecoveryInv, StageInv, SnapshotInv
<1>4. Known' = Known
  BY Zenon DEF Deliver, Known
<1>5. AccountInv'
  BY Zenon, <1>1, <1>4 DEF Deliver, AccountInv, CountersInv, NoDoubleCount, Conserved, BytesOf
<1> QED
  BY Zenon, <1>1, <1>2, <1>3, <1>5 DEF Inv, RestInv, AccountInv, ThreadInv

(* The invariant holds at the first start, whatever older versions left. *)
LEMMA InvInit == Init => Inv
<1> SUFFICES ASSUME Init PROVE Inv
  BY Zenon
<1>1. TypeInv /\ PhaseInv /\ \A t \in Threads : Quiet(t)
  BY Zenon, TypeInit DEF Init, PhaseInv, Quiet, Threads
<1>2. \A t \in Threads : ThreadInv(t)
  BY Zenon, <1>1, QuietThread
<1>3. RestInv
  BY Zenon DEF Init, RestInv, LeftoverInv, FinalInv, FlushLeavesNothing, Records, Mapped, WindowContract, Threads
<1>4. AccountInv
  <2>1. Known = pendingReports /\ pendingReports \in Legacy /\ live = {} /\ lost = {} /\ unbilled = {}
    BY Zenon DEF Init, Known
  <2>2. NoDoubleCount
    BY Zenon, <2>1, ConstantsAssumption DEF NoDoubleCount
  <2>3. CountersInv
    BY Zenon, <2>1 DEF CountersInv
  <2>4. Conserved
    BY Zenon, <2>1 DEF Init, Conserved
  <2> QED
    BY Zenon, <2>2, <2>3, <2>4 DEF AccountInv
<1> QED
  BY Zenon, <1>1, <1>2, <1>3, <1>4, InvParts

(* Nothing changes. *)
LEMMA InvStutter == ASSUME Inv, UNCHANGED vars PROVE Inv'
<1> USE DEF vars, storeVars, trackerVars, recoveryVars, panelVars, historyVars
<1>1. TypeInv'
  BY Zenon, TypeNext DEF Inv
<1>2. PhaseInv' /\ RestInv'
  BY Zenon DEF Inv, PhaseInv, RestInv, LeftoverInv, FinalInv, FlushLeavesNothing, Records, Mapped, WindowContract
<1>3. \A t \in Threads : ThreadInv(t)'
  BY Zenon DEF Inv, ThreadInv, RecoveryInv, StageInv, SnapshotInv
<1>4. Known' = Known
  BY Zenon DEF Known
<1>5. AccountInv'
  BY Zenon, <1>4 DEF Inv, AccountInv, CountersInv, NoDoubleCount, Conserved, BytesOf
<1> QED
  BY Zenon, <1>1, <1>2, <1>3, <1>5, InvPartsNext

(* With one reporting goroutine every step keeps the invariant. *)
LEMMA InvNext == SoleReporter /\ Inv /\ [Next]_vars => Inv'
<1> SUFFICES ASSUME SoleReporter, Inv, [Next]_vars PROVE Inv'
  BY Zenon
<1>1. CASE UNCHANGED vars
  BY Zenon, <1>1, InvStutter
<1>2. CASE Exit \/ Crash
  BY Zenon, <1>2, InvProcessEnds DEF Exit, Crash
<1> QED
  BY Zenon, <1>1, <1>2, InvCount, InvUpdateInboundMapping, InvDeliver, InvStep, InvShutdown, InvFlushStages, InvStart
  DEF Next

(* The invariant holds in every reachable state. *)
LEMMA Invariance == ASSUME SoleReporter PROVE Spec => []Inv
<1>1. Inv /\ [Next]_vars => Inv'
  BY Zenon, InvNext
<1> QED
  BY <1>1, InvInit, PTL DEF Spec

(* No byte is in two reports, when one goroutine at a time reports.        *)
THEOREM NoByteReportedTwice == ASSUME SoleReporter PROVE Spec => []NoDoubleCount
<1>1. Inv => NoDoubleCount
  BY Zenon DEF Inv
<1> QED
  BY <1>1, Invariance, PTL

(* Every counted byte is in the counters, in a report, died unjournaled    *)
(* with its process, or was left out of the report it was subtracted with  *)
(* because its tag was not mapped; when one goroutine at a time reports.   *)
THEOREM NoByteDisappears == ASSUME SoleReporter PROVE Spec => []Conserved
<1>1. Inv => Conserved
  BY Zenon DEF Inv
<1> QED
  BY <1>1, Invariance, PTL

(* Only reports with a positive window of at most five minutes are sent.   *)
THEOREM OnlyValidWindowsSent == ASSUME SoleReporter PROVE Spec => []WindowContract
<1>1. Inv => WindowContract
  BY Zenon DEF Inv
<1> QED
  BY <1>1, Invariance, PTL

(* A graceful shutdown leaves no traffic of a mapped tag in the counters,  *)
(* unless the final save failed.                                           *)
THEOREM ShutdownFlushes == ASSUME SoleReporter PROVE Spec => []FlushLeavesNothing
<1>1. Inv => FlushLeavesNothing
  BY Zenon DEF Inv
<1> QED
  BY <1>1, Invariance, PTL

(***************************************************************************)
(* The pipeline implements the ledger.  A step that leaves the reports     *)
(* known outside the process and the traffic only in the counters alone    *)
(* may at most settle reports with the panel or the quarantine.            *)
(***************************************************************************)
LEMMA ReportsSettle ==
  ASSUME Known' = Known, accepted \subseteq accepted',
         quarantinedReports \subseteq quarantinedReports',
         UNCHANGED <<live, inboundMapping, historyVars>>, Skipped' = Skipped
  PROVE  Ledger!Next
<1> DEFINE S == Settled' \ Settled
<1>1. BytesOf(Known)' = BytesOf(Known)
  BY Zenon DEF BytesOf
<1>2. Settled \subseteq Settled' /\ Settled' \subseteq BytesOf(Known)'
  BY Zenon DEF Settled, BytesOf, Known
<1>3. S \in SUBSET (BytesOf(Known) \ Settled)
  BY Zenon, <1>1, <1>2
<1>4. Ledger!Settle(S)
  BY Zenon, <1>1, <1>2 DEF Ledger!Settle, historyVars, MappedBytes, Mapped
<1> QED
  BY Zenon, <1>3, <1>4 DEF Ledger!Next

(* Neither the store nor the panel changes. *)
LEMMA NothingNew ==
  ASSUME UNCHANGED <<storeVars, panelVars, historyVars, live, inboundMapping>>,
         Skipped' = Skipped
  PROVE  Ledger!Next /\ accepted' \cup inflight' \subseteq accepted \cup inflight
<1> USE DEF storeVars, panelVars, historyVars
<1>1. Known' = Known
  BY Zenon DEF Known
<1> QED
  BY Zenon, <1>1, ReportsSettle

(* Only the mapping of the tags changes. *)
LEMMA OnlyRemapped ==
  ASSUME UNCHANGED <<storeVars, panelVars, historyVars, live>>, Skipped' = Skipped
  PROVE  Ledger!Next /\ accepted' \cup inflight' \subseteq accepted \cup inflight
<1> USE DEF storeVars, panelVars, historyVars
<1>1. BytesOf(Known)' = BytesOf(Known) /\ Settled' = Settled
  BY Zenon DEF Known, Settled, BytesOf
<1>2. MappedBytes' \in SUBSET Bytes
  BY Zenon DEF MappedBytes
<1>3. Ledger!Remap
  BY Zenon, <1>1, <1>2 DEF Ledger!Remap
<1> QED
  BY Zenon, <1>3 DEF Ledger!Next

(* A snapshot leaves out the counters of the tags that are not mapped. *)
LEMMA SnapshotSkips ==
  ASSUME TypeInv, Apart, StageForReport,
         UNCHANGED <<storeVars, panelVars, historyVars, live, inboundMapping>>
  PROVE  Ledger!Next /\ accepted' \cup inflight' \subseteq accepted \cup inflight
<1> USE DEF storeVars, panelVars, historyVars
<1>1. BytesOf(Known)' = BytesOf(Known) /\ Settled' = Settled /\ MappedBytes' = MappedBytes
  BY Zenon DEF Known, Settled, BytesOf, MappedBytes, Mapped
<1>2. Skipped' = live \ Records
  <2>1. live \in SUBSET Bytes /\ Records \in SUBSET Bytes
    BY Zenon DEF Records, TypeInv, TypeOK
  <2>2. staged' # None /\ staged'.bytes = live /\ staged'.records = Records
    BY Zenon, <2>1, NoneIsNoSnapshot DEF StageForReport
  <2> QED
    BY Zenon, <2>2 DEF Skipped
<1>3. live \ Records = (live \ BytesOf(Known)) \ MappedBytes
  BY ZenonT(40) DEF Records, MappedBytes, Apart, BytesOf, TypeInv, TypeOK
<1>4. Ledger!Stage
  BY Zenon, <1>1, <1>2, <1>3 DEF Ledger!Stage
<1> QED
  BY Zenon, <1>4 DEF Ledger!Next

(* Traffic moves forward, and what goes to the panel for the first time is *)
(* in the journal.                                                         *)
Sound == /\ Ledger!Next
         /\ accepted' \cup inflight' \subseteq accepted \cup inflight \cup pendingReports

(* A process that ends takes what was only counted with it. *)
LEMMA EndIsSound == ASSUME ProcessEnds PROVE Sound
<1>1. BytesOf(Known)' = BytesOf(Known) /\ Settled' = Settled
  BY Zenon DEF ProcessEnds, storeVars, panelVars, Known, Settled, BytesOf
<1>2. MappedBytes' = {} /\ Skipped' = {}
  BY Zenon, ConstantsAssumption DEF ProcessEnds, MappedBytes, Mapped, Skipped
<1>3. Ledger!ProcessEnds
  BY Zenon, <1>1, <1>2 DEF ProcessEnds, Ledger!ProcessEnds
<1> QED
  BY Zenon, <1>3 DEF ProcessEnds, panelVars, Ledger!Next, Sound

(* Every step of a goroutine is sound. *)
LEMMA StepIsSound ==
  ASSUME SoleReporter, Inv, NEW t \in Threads, Step(t)
  PROVE  Sound
<1> USE DEF storeVars, panelVars, historyVars, trackerVars
<1>1. TypeInv /\ PhaseInv /\ RestInv /\ AccountInv /\ ThreadInv(t)
  BY Zenon, InvParts
<1>2. CASE ReportNow(t) \/ CheckJournal(t) \/ RecheckJournal(t) \/ RetryPending(t) \/ RetrySaveFails(t)
           \/ ExecFails(t)
  BY Zenon, <1>2, NothingNew DEF ReportNow, CheckJournal, RecheckJournal, RetryPending, RetrySaveFails,
     ExecFails, Sound, Skipped
<1>3. CASE Recovery(t)
  <2>1. staged = None /\ Copy(t) \subseteq pendingReports
    <3>1. pc[t] \in Recovering
      BY Zenon, <1>3 DEF Recovery, RecoverOne, RecoverBodyless, RecoverInvalid, RecoverSendOK,
         RecoverSendFails, RecoverConfirm, RecoverReset, RecoverySaved, RecoverySaveFails,
         Recovering
    <3>2. \A u \in Threads : u # t => Quiet(u)
      BY Zenon, <1>1, <3>1, Exclusive DEF Quiet, Recovering
    <3> QED
      BY Zenon, <1>1, <3>1, <3>2 DEF Quiet, RestInv, LeftoverInv, ThreadInv, RecoveryInv, Threads,
         Recovering, Copy
  <2>2. CASE RecoverOne(t) \/ RecoverConfirm(t) \/ RecoverReset(t)
    <3>1. RecoveryMove(t)
      BY Zenon, <1>1, <2>1, <2>2, RecoveryMoves
    <3>2. Known' = Known
      BY Zenon, <2>1, <3>1 DEF RecoveryMove, Known
    <3> QED
      BY Zenon, <2>1, <3>1, <3>2, ReportsSettle DEF RecoveryMove, Sound, Skipped
  <2>3. CASE RecoverySaved(t)
    <3>1. Known' = Known
      BY Zenon, <1>1, <2>3 DEF RecoverySaved, Known, ThreadInv, RecoveryInv, Recovering
    <3> QED
      BY Zenon, <2>3, <3>1, ReportsSettle DEF RecoverySaved, Sound, Skipped
  <2>4. CASE RecoverySaveFails(t)
    BY Zenon, <2>4, NothingNew DEF RecoverySaveFails, Sound, Skipped
  <2> QED
    BY Zenon, <1>3, <2>2, <2>3, <2>4 DEF Recovery
<1>4. CASE StageAndSend(t)
  <2>1. CASE JournalFails(t)
    BY Zenon, <2>1, NothingNew DEF JournalFails, Sound, Skipped
  <2>4. CASE StageNothing(t) \/ Stage(t)
    <3>1. pc[t] = "stage" /\ ~Quiet(t)
      BY Zenon, <2>4 DEF StageNothing, Stage, Quiet
    <3>2. Apart
      BY Zenon, <1>1, <3>1, Exclusive, ApartFromCounters DEF Quiet, AccountInv
    <3> QED
      BY Zenon, <1>1, <2>4, <3>2, SnapshotSkips DEF StageNothing, Stage, Sound
  <2>5. CASE ConfirmJournaled(t)
    <3>1. staged # None
      BY Zenon, <1>1, <2>5 DEF ConfirmJournaled, ThreadInv, SnapshotInv
    <3>2. staged' = [bytes |-> staged.bytes, records |-> staged.records, confirmed |-> TRUE]
      BY Zenon, <2>5, <3>1 DEF ConfirmJournaled, Confirm
    <3>3. staged.bytes \in SUBSET Bytes /\ staged.records \in SUBSET Bytes
      BY Zenon, <1>1, <3>1 DEF TypeInv, TypeOK, Staged
    <3>4. Skipped' = Skipped
      BY Zenon, <3>1, <3>2, <3>3, NoneIsNoSnapshot DEF Skipped
    <3> QED
      BY Zenon, <2>5, <3>4, NothingNew DEF ConfirmJournaled, Sound
  <2>2. CASE Journal(t)
    <3> DEFINE B == rep[t].bytes
    <3>1. \A u \in Threads : pc[u] \notin {"confirm", "reset"}
      BY Zenon, <1>1, <2>2, Exclusive DEF Journal, Quiet
    <3>2. B \subseteq live /\ B \cap BytesOf(Known) = {}
      BY <1>1, <2>2, <3>1, ApartFromCounters
      DEF Journal, ThreadInv, SnapshotInv, AccountInv, Apart, BytesOf
    <3>3. Settled \subseteq BytesOf(Known)
      BY Zenon DEF Settled, Known, BytesOf
    <3>4. BytesOf(Known)' = BytesOf(Known) \cup B /\ live' = live
      BY ZenonT(40), <2>2 DEF Journal, Known, BytesOf
    <3>5. \/ Settled' = Settled
          \/ Settled' = Settled \cup B
      BY Zenon, <2>2 DEF Journal, Settled, BytesOf
    <3>6. B \cap Skipped = {} /\ Skipped' = Skipped /\ MappedBytes' = MappedBytes
      BY Zenon, <1>1, <2>2 DEF Journal, ThreadInv, SnapshotInv, Skipped, MappedBytes, Mapped
    <3>7. Ledger!Journal(B)
      BY Zenon, <2>2, <3>2, <3>3, <3>4, <3>5, <3>6 DEF Ledger!Journal, Journal
    <3> QED
      BY Zenon, <2>2, <3>2, <3>7 DEF Ledger!Next, Journal, Sound
  <2>3. CASE ResetJournaled(t)
    <3>1. rep[t] \in Known /\ staged # None /\ staged.confirmed /\ staged.records = rep[t].bytes
      BY Zenon, <1>1, <2>3 DEF ResetJournaled, ThreadInv, SnapshotInv, Known
    <3>2. live' = live \ staged.bytes /\ unbilled' = unbilled \cup Skipped /\ Skipped' = {}
      BY Zenon, <2>3, <3>1 DEF ResetJournaled, ResetLiveCountersWhenJournaled, Skipped
    <3>3. BytesOf(Known)' = BytesOf(Known) /\ Settled' = Settled /\ MappedBytes' = MappedBytes
      BY Zenon, <2>3 DEF ResetJournaled, Known, Settled, BytesOf, MappedBytes, Mapped
    <3>4. live' \ BytesOf(Known) = (live \ BytesOf(Known)) \ Skipped
      BY Zenon, <3>1, <3>2 DEF Skipped, BytesOf
    <3>5. Ledger!GiveUp
      BY Zenon, <2>3, <3>2, <3>3, <3>4 DEF Ledger!GiveUp, ResetJournaled
    <3> QED
      BY Zenon, <2>3, <3>5 DEF ResetJournaled, Ledger!Next, Sound
  <2> QED
    BY Zenon, <1>4, <2>1, <2>2, <2>3, <2>4, <2>5 DEF StageAndSend
<1>5. CASE SendAndFinalize(t)
  <2>1. rep[t] \in pendingReports /\ staged = None
    <3>1. pc[t] \in {"send", "accept", "acceptReset", "clear"}
      BY Zenon, <1>5 DEF SendAndFinalize, SendOK, SendFails, ConfirmAccepted, ResetAccepted,
         ClearPending, ClearFails
    <3>2. \A u \in Threads : u # t => Quiet(u)
      BY Zenon, <1>1, <3>1, Exclusive DEF Quiet
    <3> QED
      BY Zenon, <1>1, <3>1, <3>2 DEF Quiet, RestInv, LeftoverInv, ThreadInv, SnapshotInv, Threads
  <2>2. CASE SendOK(t) \/ SendFails(t)
    <3>1. Known' = Known /\ accepted \subseteq accepted'
      BY Zenon, <2>1, <2>2 DEF SendOK, SendFails, ReportTrafficOK, ReportTrafficFails, Known
    <3> QED
      BY Zenon, <2>1, <2>2, <3>1, ReportsSettle DEF SendOK, SendFails, ReportTrafficOK,
         ReportTrafficFails, Sound, Skipped
  <2>3. CASE ConfirmAccepted(t) \/ ResetAccepted(t) \/ ClearFails(t)
    BY Zenon, <2>1, <2>3, NothingNew DEF ConfirmAccepted, ResetAccepted, ClearFails, FinishReport,
       Confirm, ResetLiveCountersWhenJournaled, Sound, Skipped
  <2>4. CASE ClearPending(t)
    <3>1. Known' = Known
      BY Zenon, <1>1, <2>4 DEF ClearPending, FinishReport, ThreadInv, SnapshotInv, Known
    <3> QED
      BY Zenon, <2>4, <3>1, ReportsSettle DEF ClearPending, FinishReport, Sound, Skipped
  <2> QED
    BY Zenon, <1>5, <2>2, <2>3, <2>4 DEF SendAndFinalize
<1>6. CASE Exec(t)
  BY Zenon, <1>6, EndIsSound DEF Exec
<1> QED
  BY Zenon, <1>2, <1>3, <1>4, <1>5, <1>6 DEF Step

(* Every step of the system is sound. *)
LEMMA NextIsSound == SoleReporter /\ Inv /\ Next => Sound
<1> SUFFICES ASSUME SoleReporter, Inv, Next PROVE Sound
  BY Zenon
<1> USE DEF storeVars, panelVars, historyVars, trackerVars
<1>1. ASSUME NEW b \in Bytes, Count(b) PROVE Sound
  <2>1. BytesOf(Known)' = BytesOf(Known) /\ Settled' = Settled
    BY Zenon, <1>1 DEF Count, Known, Settled, BytesOf
  <2>2. Settled \subseteq BytesOf(Known)
    BY Zenon DEF Settled, Known, BytesOf
  <2>3. b \notin live \cup BytesOf(Known) \cup lost \cup unbilled
    BY Zenon, <1>1 DEF Count, Inv, Conserved
  <2>4. Ledger!Count(b)
    BY Zenon, <1>1, <2>1, <2>2, <2>3 DEF Count, Ledger!Count, Skipped, MappedBytes, Mapped
  <2> QED
    BY Zenon, <1>1, <2>4 DEF Count, Ledger!Next, Sound
<1>2. ASSUME NEW r \in inflight, Deliver(r) PROVE Sound
  <2>1. Known' = Known
    BY Zenon, <1>2 DEF Deliver, Known
  <2> QED
    BY Zenon, <1>2, <2>1, ReportsSettle DEF Deliver, Sound, Skipped
<1>3. CASE Shutdown \/ FlushStages
  BY Zenon, <1>3, NothingNew DEF Shutdown, FlushStages, Sound, Skipped
<1>5. CASE Start \/ UpdateInboundMapping
  BY Zenon, <1>5, OnlyRemapped DEF Start, UpdateInboundMapping, Sound, Skipped
<1>4. CASE Exit \/ Crash
  BY Zenon, <1>4, EndIsSound DEF Exit, Crash
<1> QED
  BY Zenon, <1>1, <1>2, <1>3, <1>4, <1>5, StepIsSound DEF Next

(* When one goroutine at a time reports, the pipeline implements the       *)
(* ledger: no crash, retry, failed save or late request moves a byte back, *)
(* and only traffic of tags that were not mapped is left unbilled.         *)
THEOREM ImplementsLedger == ASSUME SoleReporter PROVE Spec => LedgerSpec
<1>1. Init => Ledger!Init
  <2> SUFFICES ASSUME Init PROVE Ledger!Init
    BY Zenon
  <2>1. Known = pendingReports /\ Settled = {} /\ live = {} /\ lost = {} /\ unbilled = {}
    BY Zenon DEF Init, Known, Settled, BytesOf
  <2>3. MappedBytes = {} /\ Skipped = {}
    BY Zenon, ConstantsAssumption DEF Init, MappedBytes, Mapped, Skipped
  <2>2. BytesOf(pendingReports) \subseteq Bytes
    BY ConstantsAssumption DEF Init, BytesOf, Report
  <2> QED
    BY Zenon, <2>1, <2>2, <2>3 DEF Ledger!Init
<1>2. Inv /\ [Next]_vars => [Ledger!Next]_(Ledger!vars)
  <2> SUFFICES ASSUME Inv, [Next]_vars PROVE [Ledger!Next]_(Ledger!vars)
    BY Zenon
  <2>1. CASE UNCHANGED vars
    BY Zenon, <2>1 DEF vars, storeVars, panelVars, trackerVars, historyVars, Ledger!vars, Known,
       Settled, BytesOf, Skipped, MappedBytes, Mapped
  <2>2. CASE Next
    BY Zenon, <2>2, NextIsSound DEF Sound
  <2> QED
    BY Zenon, <2>1, <2>2
<1> QED
  BY <1>1, <1>2, Invariance, PTL DEF Spec, LedgerSpec, Ledger!Spec

(* A report goes to the panel for the first time while the journal holds   *)
(* it, when one goroutine at a time reports.                               *)
THEOREM JournalFirst == ASSUME SoleReporter PROVE Spec => SentWhileJournaled
<1> DEFINE A == accepted' \cup inflight' \subseteq accepted \cup inflight \cup pendingReports
<1>1. Inv /\ [Next]_vars => [A]_vars
  BY Zenon, NextIsSound DEF Sound
<1> QED
  BY <1>1, Invariance, PTL DEF Spec, SentWhileJournaled
=============================================================================
