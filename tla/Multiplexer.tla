---------------------------- MODULE Multiplexer ----------------------------
(***************************************************************************)
(* The query multiplexer of the UDP, TCP and TLS DNS transports            *)
(* (dns/transport/multiplexer.go) on top of its connection pool.           *)
(*                                                                         *)
(* Many exchanges share one connection.  An exchange is a goroutine that   *)
(* acquires the connection, registers a pending query and writes it; after *)
(* that any of four parties may end it: the reader of the connection, the  *)
(* context of the caller, the context of the connection, or the writer     *)
(* itself when the write fails.  Each must first take the pending query.   *)
(* A query whose reused connection died under it is dispatched once more,  *)
(* by a second goroutine, while the first may still be writing.            *)
(*                                                                         *)
(* Transports that cannot assume a server answers several queries on one   *)
(* connection first probe it (reuseState).                                 *)
(*                                                                         *)
(* Query ids are not modelled as numbers: an id is the goroutine that      *)
(* registered it, so a stale answer or a stale context callback finds no   *)
(* pending query.  That is the 16-bit counter for as long as fewer than    *)
(* 2^16 registrations are made while such a straggler is on its way.       *)
(***************************************************************************)
EXTENDS ConnPool

CONSTANTS Query,        \* the exchanges
          Scenario,     \* the records options is chosen from
          DemoteLimit   \* reuseDemoteFailureLimit

(* The goroutine of the exchange and the one that retries it. *)
Thread == Query \X {1, 2}

(* A pendingQuery: its connection, whether completeConnDone may retry it,  *)
(* whether nothing was read since it was registered, whether it is sent.   *)
PendingQuery == [conn : Conn, silent : BOOLEAN, sent : BOOLEAN,
                 retry : BOOLEAN]

ASSUME MultiplexerAssumption ==
    /\ DemoteLimit \in Nat
    /\ None \notin Query /\ None \notin PendingQuery
    /\ \A s \in Scenario :
         /\ s.resets \in 0 .. MaxResets
         /\ s.ids \in Nat /\ s.faults \in Nat /\ s.exchanges \in Nat
         /\ s.retryReadError \in BOOLEAN

VARIABLES options,    \* queryMultiplexerOptions, the number of query ids, and
                      \* how many exchanges, calls of Reset and failures of
                      \* the network the behaviour has, and whether a Close
          thread,     \* the exchangeAsync goroutines
          pending,    \* queries: the PendingQuery of a thread, or None
          ctx,        \* the caller's context: "live", "deadline", "cancelled"
          calls,      \* how often the callback of a query ran
          result,     \* what it was given: "answer", "ctx" or "error"
          reader,     \* recvLoop of every connection
          everRead,   \* connections with readEpoch # 0
          reuseState, demoteFailures, probeEpoch,
          probedRecently, \* lastProbeTime is within reuseProbeRetryInterval
          probes,     \* running reuse probes, by the epoch they started in
          resetting,  \* Reset has cleared the probe state, not yet the pool
          resets, exchanges, faults  \* so far

muxVars == <<options, thread, pending, ctx, calls, result, reader,
             everRead>>
probeVars == <<reuseState, demoteFailures, probeEpoch, probedRecently,
               probes, resetting>>
bounds == <<resets, exchanges, faults>>
vars == <<poolVars, muxVars, probeVars, bounds>>

Registered == {t \in Thread : pending[t] # None}

Idle == [pc |-> "idle", conn |-> None, created |-> FALSE, first |-> TRUE,
         state |-> None, starter |-> FALSE]

Init ==
    /\ PoolInit
    /\ options \in Scenario
    /\ thread = [t \in Thread |-> Idle]
    /\ pending = [t \in Thread |-> None]
    /\ ctx = [q \in Query |-> "cancelled"]
    /\ calls = [q \in Query |-> 1]
    /\ result = [q \in Query |-> "answer"]
    /\ reader = [c \in Conn |-> "none"]
    /\ everRead = {}
    /\ reuseState = "unknown"
    /\ demoteFailures = 0
    /\ probeEpoch = 0
    /\ probedRecently = FALSE
    /\ probes = [e \in Epoch |-> 0]
    /\ resetting = FALSE
    /\ resets = 0 /\ exchanges = 0 /\ faults = 0

-----------------------------------------------------------------------------
(* The pieces the actions are made of. *)
Goto(t, pc) == thread' = [thread EXCEPT ![t].pc = pc]

(* The goroutine returns; what it held is garbage. *)
Return(t) == thread' = [thread EXCEPT ![t] = Idle]

(* A waiter looks again for a connection. *)
LookAgain(t) ==
    thread' = [thread EXCEPT ![t] =
                 [@ EXCEPT !.pc = "acquire", !.conn = None, !.state = None]]

(* The caller cancels its context when it is called back (dns/client.go). *)
callback(q, r) ==
    /\ calls' = [calls EXCEPT ![q] = @ + 1]
    /\ result' = [result EXCEPT ![q] = r]
    /\ ctx' = [ctx EXCEPT ![q] = "cancelled"]

(* A failure of the network rather than of a connection closed here. *)
Fault(network) ==
    /\ network => faults < options.faults
    /\ faults' = IF network THEN faults + 1 ELSE faults

(* Nothing of the goroutine's exchange is left to be done. *)
Over(t) == thread[t].pc = "idle" /\ pending[t] = None

NoCallback == UNCHANGED <<calls, result, ctx>>

(* A dial that is over and whose connection nothing refers to any more. *)
Garbage ==
    {c \in Conn :
       /\ dial[c].pc = "done"
       /\ shared # c
       /\ c \notin open
       /\ \A old \in closing : old.conn # c
       /\ \A t \in Thread : /\ thread[t].conn # c
                            /\ pending[t] # None => pending[t].conn # c
       /\ reader[c] \in {"none", "end"}}

-----------------------------------------------------------------------------
(* dispatch reads the reuse state once and commits the query to a          *)
(* connection of its own or to the shared one.                             *)
dispatch(t) ==
    Goto(t, IF options.probeReuse /\ reuseState # "supported"
              THEN "probe" ELSE "acquire")

(* The next exchange.  An element of Query stands for one exchange after   *)
(* another: when all that ran for one is over, the next one begins.        *)
ExchangeAsync(q) ==
    /\ exchanges < options.exchanges
    /\ exchanges' = exchanges + 1
    /\ \A t \in {q} \X {1, 2} : Over(t)
    /\ \A c \in Conn : dial[c].owner # q
    /\ calls' = [calls EXCEPT ![q] = 0]
    /\ result' = [result EXCEPT ![q] = None]
    /\ ctx' = [ctx EXCEPT ![q] = "live"]
    /\ dispatch(<<q, 1>>)
    /\ UNCHANGED <<poolVars, options, pending, reader, everRead, probeVars,
                   resets, faults>>

(* The retry that completeConnDone starts. *)
redispatch(q) ==
    /\ thread[<<q, 2>>].pc = "dispatch"
    /\ dispatch(<<q, 2>>)
    /\ UNCHANGED <<poolVars, options, pending, ctx, calls, result, reader,
                   everRead, probeVars, bounds>>

maybeStartProbe(t) ==
    /\ thread[t].pc = "probe"
    /\ Goto(t, "single")
    /\ IF reuseState = "probing" \/ probedRecently
         THEN UNCHANGED <<reuseState, probedRecently, probes>>
         ELSE /\ reuseState' = "probing"
              /\ probedRecently' = TRUE
              /\ probes' = [probes EXCEPT ![probeEpoch] = @ + 1]
    /\ UNCHANGED <<poolVars, options, pending, ctx, calls, result,
                   reader, everRead, demoteFailures, probeEpoch, resetting,
                   bounds>>

(* A connection of its own, closed when the exchange ends: an answer, an   *)
(* error of the dial, the write or the read, or the caller's context.      *)
exchangeSingle(t) ==
    /\ thread[t].pc = "single"
    /\ Return(t)
    /\ \E r \in {"answer", "error", "ctx"} :
          /\ r = "ctx" => ctx[t[1]] # "live"
          /\ callback(t[1], r)
    /\ UNCHANGED <<poolVars, options, pending, reader, everRead,
                   probeVars, bounds>>

BugClaim(t) ==
    /\ thread' = [thread EXCEPT ![t] =
                    [@ EXCEPT !.pc = "register", !.conn = shared,
                              !.created = ~claimed, !.state = None,
                              !.starter = FALSE]]
    /\ reader' = IF claimed THEN reader
                 ELSE [reader EXCEPT ![shared] =
                         IF @ = "none" THEN "reading" ELSE "twice"]
    /\ UNCHANGED claimed

(* The shared connection is handed out; whoever is the first to get it     *)
(* starts its reader (if created { go m.recvLoop(conn) }).                 *)
Claim(t) ==
    /\ thread' = [thread EXCEPT ![t] =
                    [@ EXCEPT !.pc = "register", !.conn = shared,
                              !.created = ~claimed, !.state = None,
                              !.starter = FALSE]]
    /\ reader' = IF claimed THEN reader
                 ELSE [reader EXCEPT ![shared] =
                         IF @ = "none" THEN "reading" ELSE "twice"]
    /\ claimed' = TRUE

(* The critical section of acquireShared. *)
acquireShared(t) ==
    /\ thread[t].pc = "acquire"
    /\ \/ /\ closed
          /\ Return(t)
          /\ callback(t[1], "error")
          /\ UNCHANGED <<claimed, connecting, dial, reader>>
       \/ /\ ~closed /\ shared # None
          /\ Claim(t)
          /\ NoCallback
          /\ UNCHANGED <<connecting, dial>>
       \/ /\ ~closed /\ shared = None /\ connecting # None
          /\ thread' = [thread EXCEPT ![t] =
                           [@ EXCEPT !.pc = "wait", !.conn = connecting,
                                     !.state = current, !.starter = FALSE]]
          /\ NoCallback
          /\ UNCHANGED <<claimed, connecting, dial, reader>>
       \/ /\ ~closed /\ shared = None /\ connecting = None
          /\ \E c \in Conn :
               /\ dial[c] = Unused
               /\ \A d \in 1 .. c - 1 : dial[d] # Unused
               /\ thread' = [thread EXCEPT ![t] =
                                [@ EXCEPT !.pc = "wait", !.conn = c,
                                          !.state = current, !.starter = TRUE]]
               /\ connecting' = c
               /\ dial' = [dial EXCEPT ![c] =
                      [pc |-> "dialing", state |-> current, owner |-> t[1],
                       err |-> None]]
          /\ NoCallback
          /\ UNCHANGED <<claimed, reader>>
    /\ UNCHANGED <<closed, current, shared, stateDone, closing, open, cause,
                   options, pending, everRead, probeVars, bounds>>

(* The two decisions of collectShared: whom the error of the dial fails,   *)
(* and whether there is a connection to hand out.                          *)
BugFailsCaller(t) == TRUE

FailsCaller(t) == thread[t].starter

Collectable(t) == ~closed /\ current = thread[t].state /\ shared # None

(* case <-state.done: only the caller that started the dial is failed by   *)
(* its error, a waiter looks again.                                        *)
collectShared(t) ==
    LET c == thread[t].conn
    IN /\ thread[t].pc = "wait"
       /\ dial[c].pc = "done"
       /\ \/ /\ dial[c].err # None /\ FailsCaller(t)
             /\ Return(t)
             /\ callback(t[1], dial[c].err)
             /\ UNCHANGED <<claimed, reader>>
          \/ /\ dial[c].err # None /\ ~FailsCaller(t)
             /\ LookAgain(t)
             /\ NoCallback
             /\ UNCHANGED <<claimed, reader>>
          \/ /\ dial[c].err = None
             /\ closed \/ current # thread[t].state
             /\ Return(t)
             /\ callback(t[1], "error")
             /\ UNCHANGED <<claimed, reader>>
          \/ /\ dial[c].err = None
             /\ ~closed /\ current = thread[t].state /\ shared = None
             /\ LookAgain(t)
             /\ NoCallback
             /\ UNCHANGED <<claimed, reader>>
          \/ /\ dial[c].err = None /\ Collectable(t)
             /\ Claim(t)
             /\ NoCallback
       /\ UNCHANGED <<closed, current, shared, connecting, stateDone, closing,
                      dial, open, cause, options, pending, everRead,
                      probeVars, bounds>>

(* case <-ctx.Done() and case <-current.ctx.Done() of acquireShared. *)
waitCancelled(t) ==
    /\ thread[t].pc = "wait"
    /\ \/ /\ ctx[t[1]] # "live"
          /\ Return(t)
          /\ callback(t[1], "ctx")
       \/ /\ thread[t].state \in stateDone /\ closed
          /\ Return(t)
          /\ callback(t[1], "error")
       \/ /\ thread[t].state \in stateDone /\ ~closed
          /\ LookAgain(t)
          /\ NoCallback
    /\ UNCHANGED <<poolVars, options, pending, reader, everRead,
                   probeVars, bounds>>

(* Only a query on a connection someone else created may be retried, and   *)
(* only by its first goroutine.                                            *)
register(t) ==
    LET c == thread[t].conn
    IN /\ thread[t].pc = "register"
       /\ \/ /\ Cardinality(Registered) >= options.ids
             /\ Release(c)
             /\ Return(t)
             /\ callback(t[1], "error")
             /\ UNCHANGED pending
          \/ /\ Cardinality(Registered) < options.ids
             /\ pending' = [pending EXCEPT ![t] =
                  [conn |-> c, silent |-> TRUE, sent |-> FALSE,
                   retry |-> /\ t[2] = 1
                             /\ options.retryReadError
                             /\ ~thread[t].created]]
             /\ Goto(t, "write")
             /\ NoCallback
             /\ UNCHANGED poolVars
       /\ UNCHANGED <<options, reader, everRead, probeVars, bounds>>

(* write returns nil: the goroutine is done, the query is left pending. *)
writeSucceeds(t) ==
    /\ thread[t].pc = "write"
    /\ thread[t].conn \in open
    /\ Return(t)
    /\ pending' = [pending EXCEPT ![t] =
                     IF @ = None THEN None ELSE [@ EXCEPT !.sent = TRUE]]
    /\ UNCHANGED <<poolVars, options, ctx, calls, result, reader, everRead,
                   probeVars, bounds>>

BugTakenByOther(t) == FALSE

(* pending == nil after take: another party has ended the query. *)
TakenByOther(t) == pending[t] = None

(* The write fails: take the query back and give up the connection.  If    *)
(* someone else took the query, it is that party's to end.                 *)
writeFails(t) ==
    /\ thread[t].pc = "write"
    /\ Fault(thread[t].conn \in open)
    /\ pending' = [pending EXCEPT ![t] = None]
    /\ Invalidate(thread[t].conn, "error")
    /\ \/ /\ TakenByOther(t)
          /\ Return(t)
          /\ NoCallback
       \/ /\ ~TakenByOther(t) /\ ~thread[t].created /\ thread[t].first
          /\ thread' = [thread EXCEPT ![t] =
                          [Idle EXCEPT !.pc = "acquire", !.first = FALSE]]
          /\ NoCallback
       \/ /\ ~TakenByOther(t) /\ (thread[t].created \/ ~thread[t].first)
          /\ Return(t)
          /\ callback(t[1], "error")
    /\ UNCHANGED <<options, reader, everRead, probeVars, resets,
                   exchanges>>

-----------------------------------------------------------------------------
(* The context of the connection is cancelled: completeConnDone. *)
completeConnDone(t) ==
    LET why == ConnCause(pending[t].conn)
    IN /\ pending[t] # None
       /\ why # None
       /\ pending' = [pending EXCEPT ![t] = None]
       /\ \/ /\ pending[t].retry /\ why = "read"
             /\ Goto(<<t[1], 2>>, "dispatch")
             /\ NoCallback
          \/ /\ ~(pending[t].retry /\ why = "read")
             /\ callback(t[1], IF why = "read" THEN "error" ELSE why)
             /\ UNCHANGED thread
       /\ UNCHANGED <<poolVars, options, reader, everRead,
                      probeVars, bounds>>

(* The caller's context is done: completeContextDone.  A connection on     *)
(* which nothing was read since the query was registered is given up when  *)
(* the deadline passes, with the context's error as the cause: that is     *)
(* what the other queries registered on it are told (completeConnDone).    *)
completeContextDone(t) ==
    /\ pending[t] # None
    /\ ctx[t[1]] # "live"
    /\ pending' = [pending EXCEPT ![t] = None]
    /\ IF ctx[t[1]] = "deadline" /\ pending[t].silent
         THEN Invalidate(pending[t].conn, "ctx")
         ELSE Release(pending[t].conn)
    /\ callback(t[1], "ctx")
    /\ UNCHANGED <<options, thread, reader, everRead, probeVars, bounds>>

ctxDone(q) ==
    /\ \E t \in {q} \X {1, 2} : ~Over(t)
    /\ ctx[q] = "live"
    /\ \E why \in {"deadline", "cancelled"} : ctx' = [ctx EXCEPT ![q] = why]
    /\ UNCHANGED <<poolVars, options, thread, pending, calls, result, reader,
                   everRead, probeVars, bounds>>

-----------------------------------------------------------------------------
(* recvLoop.  Every message read counts as a sign of life for all queries  *)
(* registered on the connection.                                           *)
Heard(c) ==
    [t \in Thread |-> IF pending[t] # None /\ pending[t].conn = c
                        THEN [pending[t] EXCEPT !.silent = FALSE]
                        ELSE pending[t]]

complete(c, t) ==
    /\ reader[c] = "reading"
    /\ c \in open
    /\ pending[t] # None
    /\ pending[t].conn = c
    /\ pending[t].sent
    /\ everRead' = everRead \cup {c}
    /\ pending' = [Heard(c) EXCEPT ![t] = None]
    /\ Release(c)
    /\ callback(t[1], "answer")
    /\ UNCHANGED <<options, thread, reader, probeVars, bounds>>

(* A message that could not be parsed, or whose id is no longer pending. *)
readOther(c) ==
    /\ reader[c] = "reading"
    /\ c \in open
    /\ everRead' = everRead \cup {c}
    /\ pending' = Heard(c)
    /\ UNCHANGED <<poolVars, options, thread, ctx, calls, result, reader,
                   probeVars, bounds>>

(* The read fails.  recordConnDeath counts the deaths in a row that took   *)
(* pending queries with them; the loop ends and gives up the connection.   *)
Demotable(c) ==
    options.probeReuse /\ reuseState = "supported" /\ c \in everRead

readFails(c) ==
    LET stranded == \E t \in Registered : pending[t].conn = c
    IN /\ reader[c] = "reading"
       /\ Fault(c \in open)
       /\ demoteFailures' = IF ~Demotable(c) THEN demoteFailures
                            ELSE IF stranded THEN demoteFailures + 1 ELSE 0
       /\ \/ /\ demoteFailures' < DemoteLimit \/ ~Demotable(c) \/ ~stranded
             /\ Invalidate(c, "read")
             /\ reader' = [reader EXCEPT ![c] = "end"]
             /\ everRead' = everRead \ {c}
          \/ /\ demoteFailures' >= DemoteLimit /\ Demotable(c) /\ stranded
             /\ reader' = [reader EXCEPT ![c] = "demote"]
             /\ UNCHANGED <<poolVars, everRead>>
       /\ UNCHANGED <<options, thread, pending, ctx, calls, result, reuseState,
                      probeEpoch, probedRecently, probes, resetting, resets,
                      exchanges>>

(* The end of recordConnDeath under probeAccess, and the end of the loop. *)
demote(c) ==
    /\ reader[c] = "demote"
    /\ IF reuseState = "supported"
         THEN reuseState' = "unsupported" /\ probedRecently' = TRUE
         ELSE UNCHANGED <<reuseState, probedRecently>>
    /\ demoteFailures' = 0
    /\ Invalidate(c, "read")
    /\ reader' = [reader EXCEPT ![c] = "end"]
    /\ everRead' = everRead \ {c}
    /\ UNCHANGED <<options, thread, pending, ctx, calls, result, probeEpoch,
                   probes, resetting, bounds>>

-----------------------------------------------------------------------------
(* connectSingle runs under the context of the exchange that started it. *)
dialEnds(c) ==
    /\ \E err \in {None, "error"} :
          /\ connectSingle(c, err, ctx[dial[c].owner] # "live")
          /\ Fault(err # None)
    /\ UNCHANGED <<muxVars, probeVars, resets, exchanges>>

(* Reset forgets what the probe found out, then resets the pool. *)
Reset ==
    /\ ~resetting
    /\ resets < options.resets
    /\ resets' = resets + 1
    /\ IF options.probeReuse
         THEN /\ probeEpoch' = probeEpoch + 1
              /\ reuseState' = "unknown"
              /\ probedRecently' = FALSE
              /\ demoteFailures' = 0
         ELSE UNCHANGED <<probeEpoch, reuseState, probedRecently,
                          demoteFailures>>
    /\ resetting' = TRUE
    /\ UNCHANGED <<poolVars, muxVars, probes, exchanges, faults>>

resetPool ==
    /\ resetting
    /\ poolReset
    /\ resetting' = FALSE
    /\ UNCHANGED <<muxVars, reuseState, demoteFailures, probeEpoch,
                   probedRecently, probes, bounds>>

Close ==
    /\ options.closes
    /\ poolClose
    /\ UNCHANGED <<muxVars, probeVars, bounds>>

closeOldState ==
    /\ \E old \in closing : closeState(old)
    /\ UNCHANGED <<muxVars, probeVars, bounds>>

BugRunReuseProbe(e) ==
    /\ probes[e] > 0
    /\ probes' = [probes EXCEPT ![e] = @ - 1]
    /\ \/ reuseState' = "supported" /\ demoteFailures' = 0
       \/ /\ reuseState' \in {"unknown", "unsupported"}
          /\ UNCHANGED demoteFailures
    /\ UNCHANGED <<poolVars, muxVars, probeEpoch, probedRecently, resetting,
                   bounds>>

(* runReuseProbe: the verdict of a probe that a Reset overtook is dropped. *)
runReuseProbe(e) ==
    /\ probes[e] > 0
    /\ probes' = [probes EXCEPT ![e] = @ - 1]
    /\ IF e # probeEpoch
         THEN UNCHANGED <<reuseState, demoteFailures>>
         ELSE \/ reuseState' = "supported" /\ demoteFailures' = 0
              \/ /\ reuseState' \in {"unknown", "unsupported"}
                 /\ UNCHANGED demoteFailures
    /\ UNCHANGED <<poolVars, muxVars, probeEpoch, probedRecently, resetting,
                   bounds>>

(* A probe is over (reuseProbeTimeout) long before the next may start. *)
probeIntervalPasses ==
    /\ probedRecently
    /\ probes[probeEpoch] = 0
    /\ probedRecently' = FALSE
    /\ UNCHANGED <<poolVars, muxVars, reuseState, demoteFailures, probeEpoch,
                   probes, resetting, bounds>>

-----------------------------------------------------------------------------
exchangeStep(t) ==
    \/ maybeStartProbe(t) \/ acquireShared(t) \/ collectShared(t)
    \/ waitCancelled(t) \/ register(t) \/ writeSucceeds(t) \/ writeFails(t)
    \/ completeConnDone(t) \/ completeContextDone(t)

Step ==
    \/ \E q \in Query : ExchangeAsync(q) \/ redispatch(q) \/ ctxDone(q)
    \/ \E t \in Thread : exchangeStep(t) \/ exchangeSingle(t)
    \/ \E c \in Conn :
          \/ readOther(c) \/ readFails(c) \/ demote(c) \/ dialEnds(c)
          \/ \E t \in Thread : complete(c, t)
    \/ \E e \in Epoch : runReuseProbe(e)
    \/ Reset \/ resetPool \/ Close \/ closeOldState \/ probeIntervalPasses

(* Numbers of connections are used again, as the memory of the program is; *)
(* this comes first, so that no state differs in what nothing can read.    *)
recycle ==
    /\ dial' = [c \in Conn |-> IF c \in Garbage THEN Unused ELSE dial[c]]
    /\ cause' = [c \in Conn |-> IF c \in Garbage THEN None ELSE cause[c]]
    /\ reader' = [c \in Conn |-> IF c \in Garbage THEN "none" ELSE reader[c]]
    /\ everRead' = everRead \ Garbage
    /\ UNCHANGED <<closed, current, shared, claimed, connecting, stateDone,
                   closing, open, options, thread, pending, ctx, calls,
                   result, probeVars, bounds>>

Next ==
    \/ Garbage # {} /\ recycle
    \/ Garbage = {} /\ Step

Spec == Init /\ [][Next]_vars

DialCancelled(c) ==
    /\ dial[c].pc = "dialing"
    /\ ctx[dial[c].owner] # "live" \/ dial[c].state \in stateDone

(* What is done without the server.  The goroutines are scheduled; a read  *)
(* on a connection closed on this side returns, a dial whose context is    *)
(* cancelled returns, and so does a probe, which has a timeout.            *)
Progress ==
    \/ Garbage # {} /\ recycle
    \/ /\ Garbage = {}
       /\ \/ \E t \in Thread :
                exchangeStep(t) \/ (ctx[t[1]] # "live" /\ exchangeSingle(t))
          \/ \E q \in Query : redispatch(q)
          \/ \E c \in Conn : \/ demote(c)
                             \/ c \notin open /\ readFails(c)
                             \/ DialCancelled(c) /\ dialEnds(c)
          \/ \E e \in Epoch : runReuseProbe(e)
          \/ resetPool \/ closeOldState

(* The weakest fairness that serves: as long as some such step can be      *)
(* taken, one is in the end.  Nothing is assumed of the server, and        *)
(* nothing of the deadlines: a property that needs them says so.           *)
Fairness == WF_vars(Progress)

FairSpec == Spec /\ Fairness

-----------------------------------------------------------------------------
Dial == [pc : {"unused", "dialing", "done"}, state : Epoch,
         owner : Query \cup {None}, err : {None, "ctx", "error"}]

Goroutine == [pc : {"idle", "dispatch", "probe", "single", "acquire", "wait",
                    "register", "write"},
              conn : Conn \cup {None}, created : BOOLEAN, first : BOOLEAN,
              state : Epoch \cup {None}, starter : BOOLEAN]

TypeOK ==
    /\ closed \in BOOLEAN /\ claimed \in BOOLEAN /\ current \in Epoch
    /\ shared \in Conn \cup {None} /\ connecting \in Conn \cup {None}
    /\ stateDone \subseteq Epoch /\ open \subseteq Conn
    /\ closing \subseteq [state : Epoch, conn : Conn \cup {None}]
    /\ dial \in [Conn -> Dial] /\ cause \in [Conn -> {None, "read", "error", "ctx"}]
    /\ options \in Scenario
    /\ thread \in [Thread -> Goroutine]
    /\ pending \in [Thread -> PendingQuery \cup {None}]
    /\ ctx \in [Query -> {"live", "deadline", "cancelled"}]
    /\ calls \in [Query -> Nat]
    /\ result \in [Query -> {None, "answer", "ctx", "error"}]
    /\ reader \in [Conn -> {"none", "reading", "demote", "end", "twice"}]
    /\ everRead \subseteq Conn
    /\ reuseState \in {"unknown", "probing", "supported", "unsupported"}
    /\ demoteFailures \in Nat /\ probeEpoch \in Epoch
    /\ probedRecently \in BOOLEAN /\ probes \in [Epoch -> Nat]
    /\ resetting \in BOOLEAN
    /\ resets \in 0 .. options.resets /\ exchanges \in Nat /\ faults \in Nat

(* The callback of an exchange runs exactly once: never twice, although    *)
(* four parties may end a query and a retry runs beside the goroutine it   *)
(* replaces, and once nothing of the exchange is left it has run           *)
(* (multiplexer.go: take, exchangeAsync, completeConnDone).                *)
CalledOnce ==
    \A q \in Query :
       /\ calls[q] <= 1
       /\ (\A t \in {q} \X {1, 2} : Over(t)) => calls[q] = 1

(* What acquireShared hands out can be used: the shared connection is      *)
(* open, belongs to the state in force, has a live context, and has a      *)
(* reader exactly when it was claimed (conn_pool.go: connectSingle,        *)
(* removeConn, sharedClaimed).                                             *)
SharedIsUsable ==
    shared # None =>
       /\ shared \in open
       /\ dial[shared].state = current
       /\ ConnCause(shared) = None
       /\ claimed <=> reader[shared] # "none"

(* No connection leaks: one that is open is the shared one, or belongs to  *)
(* a state that Reset or Close is about to close (conn_pool.go:            *)
(* connectSingle against Reset, Invalidate of an untracked connection).    *)
NoLeak ==
    \A c \in open : Tracked(c) \/ \E old \in closing : old.conn = c

(* A query waits on a connection only while someone reads it: as long as   *)
(* its connection is neither cancelled nor about to be, exactly one        *)
(* recvLoop serves it (multiplexer.go: created, recvLoop).                 *)
PendingIsRead ==
    /\ \A c \in Conn : reader[c] # "twice"
    /\ \A t \in Registered :
          LET c == pending[t].conn
          IN \/ ConnCause(c) # None
             \/ \E old \in closing : old.conn = c
             \/ reader[c] \in {"reading", "demote"}

(* The reuse state says "probing" exactly while one probe of the epoch in  *)
(* force runs, so that it can neither get stuck, which would keep every    *)
(* query off the shared connection for good, nor be probed twice           *)
(* (multiplexer.go: maybeStartProbe, runReuseProbe, Reset).                *)
ProbingIsProbed ==
    probes[probeEpoch] = IF reuseState = "probing" THEN 1 ELSE 0

(* An exchange whose own context is live is told of a context error on one *)
(* way only: over the connection it is pending on, given up because the    *)
(* deadline of another query passed in silence (multiplexer.go:            *)
(* completeContextDone, completeConnDone).  The dial runs in the context   *)
(* of the exchange that started it, and the others that wait for it must   *)
(* not fail with it (conn_pool.go: collectShared).                         *)
CtxErrorSource ==
    [][\A q \in Query :
         calls'[q] > calls[q] /\ result'[q] = "ctx" =>
            \/ ctx[q] # "live"
            \/ \E t \in {q} \X {1, 2} :
                 pending[t] # None /\ ConnCause(pending[t].conn) = "ctx"]_vars

Started(q) == calls[q] = 0

AwaitsServer(q) ==
    \E t \in {q} \X {1, 2} :
       \/ thread[t].pc = "single"
       \/ thread[t].pc = "wait" /\ dial[thread[t].conn].pc = "dialing"
       \/ /\ pending[t] # None
          /\ pending[t].sent
          /\ reader[pending[t].conn] = "reading"

(* An exchange never hangs on the multiplexer.  If it does not end, then   *)
(* again and again its context is live and the server owes it a dial or an *)
(* answer: a connection that dies, a Reset or a Close sets it going again, *)
(* and its own deadline ends it whatever the server and the others do.     *)
HangsOnlyOnServer ==
    \A q \in Query :
       []<>(~Started(q) \/ (ctx[q] = "live" /\ AwaitsServer(q)))
=============================================================================
