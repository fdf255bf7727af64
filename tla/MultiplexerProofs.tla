------------------------- MODULE MultiplexerProofs -------------------------
(***************************************************************************)
(* The multiplexer and its pool, for any number of exchanges, connections, *)
(* resets and failures and for every kind of transport.                    *)
(***************************************************************************)
EXTENDS Multiplexer, TLAPS

Labels == {"idle", "dispatch", "probe", "single", "acquire", "wait",
           "register", "write"}

(* A Reset counts before it swaps the state of the pool. *)
CountInv ==
    /\ current <= resets /\ probeEpoch <= resets
    /\ resetting => current < resets

(* A goroutine that waits for a dial, or is about to use a connection, has *)
(* one; what it is about to use, and what a query is pending on, was       *)
(* claimed, so a reader was started for it.                                *)
Use(t) ==
    /\ thread[t].pc = "wait" =>
         thread[t].conn # None /\ dial[thread[t].conn].pc # "unused"
    /\ thread[t].pc \in {"register", "write"} =>
         thread[t].conn # None /\ reader[thread[t].conn] # "none"
    /\ pending[t] # None => reader[pending[t].conn] # "none"

UseInv == \A t \in Thread : Use(t)

-----------------------------------------------------------------------------
(* The goroutines: what is left of the others and of t when t moves on.    *)
Others(t) == \A u \in Thread \ {t} : thread'[u] = thread[u]

LEMMA IdleIsGoroutine == Idle \in Goroutine
  BY DEF Idle, Goroutine

LEMMA GotoThread ==
  ASSUME thread \in [Thread -> Goroutine], NEW t \in Thread,
         NEW p \in Labels, Goto(t, p)
  PROVE  /\ thread' \in [Thread -> Goroutine] /\ Others(t)
         /\ thread'[t].pc = p /\ thread'[t].conn = thread[t].conn
<1> DEFINE h == [thread[t] EXCEPT !.pc = p]
<1>1. thread' = [thread EXCEPT ![t] = h]
  BY Zenon DEF Goto
<1>2. h \in Goroutine /\ h.pc = p /\ h.conn = thread[t].conn
  <2>1. thread[t] \in Goroutine
    OBVIOUS
  <2> QED
    BY <2>1 DEF Goroutine, Labels
<1> HIDE DEF h
<1> QED
  BY <1>1, <1>2 DEF Others

LEMMA LookThread ==
  ASSUME thread \in [Thread -> Goroutine], NEW t \in Thread, LookAgain(t)
  PROVE  /\ thread' \in [Thread -> Goroutine] /\ Others(t)
         /\ thread'[t].pc = "acquire"
<1> DEFINE h == [thread[t] EXCEPT !.pc = "acquire", !.conn = None, !.state = None]
<1>1. thread' = [thread EXCEPT ![t] = h]
  BY Zenon DEF LookAgain
<1>2. h \in Goroutine /\ h.pc = "acquire"
  <2>1. thread[t] \in Goroutine
    OBVIOUS
  <2> QED
    BY <2>1 DEF Goroutine
<1> HIDE DEF h
<1> QED
  BY <1>1, <1>2 DEF Others

LEMMA ReturnThread ==
  ASSUME thread \in [Thread -> Goroutine], NEW t \in Thread, Return(t)
  PROVE  /\ thread' \in [Thread -> Goroutine] /\ Others(t)
         /\ thread'[t].pc = "idle"
  BY IdleIsGoroutine DEF Return, Others, Idle

(* A waiter for the dial of c, which it has started or not. *)
LEMMA WaitThread ==
  ASSUME thread \in [Thread -> Goroutine], NEW t \in Thread,
         NEW c \in Conn, NEW e \in Epoch, NEW s \in BOOLEAN,
         thread' = [thread EXCEPT ![t] =
                      [@ EXCEPT !.pc = "wait", !.conn = c,
                                !.state = e, !.starter = s]]
  PROVE  /\ thread' \in [Thread -> Goroutine] /\ Others(t)
         /\ thread'[t].pc = "wait" /\ thread'[t].conn = c
         /\ thread'[t].starter = s
<1> DEFINE h == [thread[t] EXCEPT !.pc = "wait", !.conn = c, !.state = e, !.starter = s]
<1>1. thread' = [thread EXCEPT ![t] = h]
  BY Zenon
<1>2. h \in Goroutine /\ h.pc = "wait" /\ h.conn = c /\ h.starter = s
  <2>1. thread[t] \in Goroutine
    OBVIOUS
  <2> QED
    BY <2>1 DEF Goroutine
<1> HIDE DEF h
<1> QED
  BY <1>1, <1>2 DEF Others

LEMMA ClaimThread ==
  ASSUME thread \in [Thread -> Goroutine], NEW t \in Thread,
         claimed \in BOOLEAN, shared \in Conn, Claim(t)
  PROVE  /\ thread' \in [Thread -> Goroutine] /\ Others(t)
         /\ thread'[t].pc = "register" /\ thread'[t].conn = shared
<1> DEFINE h == [thread[t] EXCEPT !.pc = "register", !.conn = shared,
                                  !.created = ~claimed, !.state = None,
                                  !.starter = FALSE]
<1>1. thread' = [thread EXCEPT ![t] = h]
  BY Zenon DEF Claim
<1>2. h \in Goroutine /\ h.pc = "register" /\ h.conn = shared
  <2>1. thread[t] \in Goroutine
    OBVIOUS
  <2> QED
    BY <2>1 DEF Goroutine
<1> HIDE DEF h
<1> QED
  BY <1>1, <1>2 DEF Others

(* The second attempt after a write that failed. *)
LEMMA RetryThread ==
  ASSUME thread \in [Thread -> Goroutine], NEW t \in Thread,
         thread' = [thread EXCEPT ![t] =
                      [Idle EXCEPT !.pc = "acquire", !.first = FALSE]]
  PROVE  /\ thread' \in [Thread -> Goroutine] /\ Others(t)
         /\ thread'[t].pc = "acquire"
<1> DEFINE h == [Idle EXCEPT !.pc = "acquire", !.first = FALSE]
<1>1. h \in Goroutine /\ h.pc = "acquire"
  BY IdleIsGoroutine DEF Goroutine
<1>2. thread' = [thread EXCEPT ![t] = h]
  BY Zenon
<1> HIDE DEF h
<1> QED
  BY <1>1, <1>2 DEF Others
-----------------------------------------------------------------------------
(* Types. *)
CallTypes ==
    /\ ctx \in [Query -> {"live", "deadline", "cancelled"}]
    /\ calls \in [Query -> Nat]
    /\ result \in [Query -> {None, "answer", "ctx", "error"}]

PoolTypes ==
    /\ closed \in BOOLEAN /\ claimed \in BOOLEAN /\ current \in Epoch
    /\ shared \in Conn \cup {None} /\ connecting \in Conn \cup {None}
    /\ stateDone \subseteq Epoch /\ open \subseteq Conn
    /\ closing \subseteq [state : Epoch, conn : Conn \cup {None}]
    /\ dial \in [Conn -> Dial] /\ cause \in [Conn -> {None, "read", "error", "ctx"}]

ReaderTypes ==
    /\ reader \in [Conn -> {"none", "reading", "demote", "end", "twice"}]
    /\ everRead \subseteq Conn

ProbeTypes ==
    /\ reuseState \in {"unknown", "probing", "supported", "unsupported"}
    /\ demoteFailures \in Nat /\ probeEpoch \in Epoch
    /\ probedRecently \in BOOLEAN /\ probes \in [Epoch -> Nat]
    /\ resetting \in BOOLEAN

BoundTypes ==
    /\ options \in Scenario
    /\ resets \in 0 .. options.resets /\ exchanges \in Nat /\ faults \in Nat

ThreadTypes == thread \in [Thread -> Goroutine]

PendingTypes == pending \in [Thread -> PendingQuery \cup {None}]

LEMMA TypeParts ==
  TypeOK <=> /\ CallTypes /\ PoolTypes /\ ReaderTypes /\ ProbeTypes /\ BoundTypes
             /\ ThreadTypes /\ PendingTypes
  BY Zenon DEF TypeOK, CallTypes, PoolTypes, ReaderTypes, ProbeTypes, BoundTypes,
       ThreadTypes, PendingTypes

LEMMA TypePartsNext ==
  TypeOK' <=> /\ CallTypes' /\ PoolTypes' /\ ReaderTypes' /\ ProbeTypes' /\ BoundTypes'
              /\ ThreadTypes' /\ PendingTypes'
  BY Zenon DEF TypeOK, CallTypes, PoolTypes, ReaderTypes, ProbeTypes, BoundTypes,
       ThreadTypes, PendingTypes

LEMMA SameTypes ==
  /\ CallTypes /\ UNCHANGED <<calls, result, ctx>> => CallTypes'
  /\ PoolTypes /\ UNCHANGED poolVars => PoolTypes'
  /\ ReaderTypes /\ UNCHANGED <<reader, everRead>> => ReaderTypes'
  /\ ProbeTypes /\ UNCHANGED probeVars => ProbeTypes'
  /\ BoundTypes /\ UNCHANGED <<options, bounds>> => BoundTypes'
  /\ ThreadTypes /\ UNCHANGED thread => ThreadTypes'
  /\ PendingTypes /\ UNCHANGED pending => PendingTypes'
<1>1. CallTypes /\ UNCHANGED <<calls, result, ctx>> => CallTypes'
  BY Zenon DEF CallTypes
<1>2. PoolTypes /\ UNCHANGED poolVars => PoolTypes'
  BY Zenon DEF PoolTypes, poolVars
<1>3. ReaderTypes /\ UNCHANGED <<reader, everRead>> => ReaderTypes'
  BY Zenon DEF ReaderTypes
<1>4. ProbeTypes /\ UNCHANGED probeVars => ProbeTypes'
  BY Zenon DEF ProbeTypes, probeVars
<1>5. BoundTypes /\ UNCHANGED <<options, bounds>> => BoundTypes'
  BY Zenon DEF BoundTypes, bounds
<1>6. ThreadTypes /\ UNCHANGED thread => ThreadTypes'
  BY Zenon DEF ThreadTypes
<1>7. PendingTypes /\ UNCHANGED pending => PendingTypes'
  BY Zenon DEF PendingTypes
<1> QED
  BY Zenon, <1>1, <1>2, <1>3, <1>4, <1>5, <1>6, <1>7

LEMMA CallbackTypes ==
  ASSUME CallTypes, NEW q \in Query, NEW r \in {None, "answer", "ctx", "error"}, callback(q, r)
  PROVE  CallTypes'
<1>1. calls' \in [Query -> Nat]
  BY DEF callback, CallTypes
<1>2. result' \in [Query -> {None, "answer", "ctx", "error"}]
  BY Zenon DEF callback, CallTypes
<1>3. ctx' \in [Query -> {"live", "deadline", "cancelled"}]
  BY Zenon DEF callback, CallTypes
<1> QED
  BY Zenon, <1>1, <1>2, <1>3 DEF CallTypes

(* The connection of a pending query is done: the query is sent again, or  *)
(* its caller is told of the cause.                                        *)
LEMMA ConnDoneTells ==
  ASSUME PoolTypes, PendingTypes, NEW t \in Thread, completeConnDone(t)
  PROVE  \/ pending[t].retry /\ Goto(<<t[1], 2>>, "dispatch") /\ NoCallback
         \/ \E r \in {"error", "ctx"} :
              /\ callback(t[1], r) /\ UNCHANGED thread
              /\ r = "ctx" => ConnCause(pending[t].conn) = "ctx"
<1> DEFINE why == ConnCause(pending[t].conn)
<1>1. pending[t].conn \in Conn
  <2>1. pending[t] \in PendingQuery
    BY Zenon DEF completeConnDone, PendingTypes
  <2> QED
    BY <2>1 DEF PendingQuery
<1>2. why # None /\ why \in {None, "read", "error", "ctx"}
  <2>1. cause[pending[t].conn] \in {None, "read", "error", "ctx"}
    BY Zenon, <1>1 DEF PoolTypes
  <2> QED
    BY Zenon, <2>1 DEF completeConnDone, ConnCause
<1>3. (IF why = "read" THEN "error" ELSE why) \in {"error", "ctx"}
  BY Zenon, <1>2
<1>4. (IF why = "read" THEN "error" ELSE why) = "ctx" => why = "ctx"
  BY Zenon, <1>2
<1>5. \/ pending[t].retry /\ Goto(<<t[1], 2>>, "dispatch") /\ NoCallback
      \/ callback(t[1], IF why = "read" THEN "error" ELSE why) /\ UNCHANGED thread
  BY Zenon DEF completeConnDone
<1> HIDE DEF why
<1> QED
  BY Zenon, <1>3, <1>4, <1>5 DEF why

LEMMA FaultTypes ==
  ASSUME BoundTypes, NEW b, Fault(b), UNCHANGED <<options, resets, exchanges>>
  PROVE  BoundTypes'
  BY DEF BoundTypes, Fault

LEMMA InvalidateTypes ==
  ASSUME PoolTypes, NEW c, NEW why \in {"read", "error", "ctx"}, Invalidate(c, why)
  PROVE  PoolTypes'
<1>1. cause' \in [Conn -> {None, "read", "error", "ctx"}]
  BY Zenon DEF Invalidate, PoolTypes, removeConn
<1>2. open' \subseteq Conn
  BY Zenon DEF Invalidate, PoolTypes
<1>3. shared' \in Conn \cup {None} /\ claimed' \in BOOLEAN
  BY Zenon DEF Invalidate, PoolTypes, removeConn
<1>4. UNCHANGED <<closed, current, connecting, stateDone, closing, dial>>
  BY Zenon DEF Invalidate
<1> QED
  BY Zenon, <1>1, <1>2, <1>3, <1>4 DEF PoolTypes

LEMMA ReleaseTypes ==
  ASSUME PoolTypes, NEW c, Release(c)
  PROVE  PoolTypes'
<1>1. open' \subseteq Conn
  BY Zenon DEF Release, PoolTypes
<1> QED
  BY Zenon, <1>1 DEF Release, PoolTypes

(* A query that is dropped, or seen to be answered, leaves a table.        *)
LEMMA DropTypes ==
  ASSUME PendingTypes, NEW t \in Thread
  PROVE  [pending EXCEPT ![t] = None] \in [Thread -> PendingQuery \cup {None}]
  BY Zenon DEF PendingTypes

LEMMA HeardTypes ==
  ASSUME PendingTypes, NEW c
  PROVE  /\ Heard(c) \in [Thread -> PendingQuery \cup {None}]
         /\ \A t \in Thread :
              /\ Heard(c)[t] = None <=> pending[t] = None
              /\ pending[t] # None => /\ Heard(c)[t].conn = pending[t].conn
                                      /\ Heard(c)[t].retry = pending[t].retry
<1>1. ASSUME NEW t \in Thread
      PROVE  /\ Heard(c)[t] \in PendingQuery \cup {None}
             /\ Heard(c)[t] = None <=> pending[t] = None
             /\ pending[t] # None => /\ Heard(c)[t].conn = pending[t].conn
                                     /\ Heard(c)[t].retry = pending[t].retry
  <2>1. CASE pending[t] # None /\ pending[t].conn = c
    <3>1. Heard(c)[t] = [pending[t] EXCEPT !.silent = FALSE]
      BY Zenon, <2>1 DEF Heard
    <3>2. pending[t] \in PendingQuery
      BY Zenon, <2>1 DEF PendingTypes
    <3>3. [pending[t] EXCEPT !.silent = FALSE] \in PendingQuery
      BY <3>2 DEF PendingQuery
    <3>4. None \notin PendingQuery
      BY Zenon, MultiplexerAssumption
    <3>5. /\ [pending[t] EXCEPT !.silent = FALSE].conn = pending[t].conn
          /\ [pending[t] EXCEPT !.silent = FALSE].retry = pending[t].retry
      BY <3>2 DEF PendingQuery
    <3> QED
      BY Zenon, <2>1, <3>1, <3>3, <3>4, <3>5
  <2>2. CASE ~(pending[t] # None /\ pending[t].conn = c)
    <3>1. Heard(c)[t] = pending[t]
      BY Zenon, <2>2 DEF Heard
    <3> QED
      BY Zenon, <3>1 DEF PendingTypes
  <2> QED
    BY Zenon, <2>1, <2>2
<1>2. Heard(c) = [t \in Thread |-> Heard(c)[t]]
  BY Zenon DEF Heard
<1> QED
  BY Zenon, <1>1, <1>2

LEMMA SameCounts ==
  ASSUME CountInv, UNCHANGED <<current, resets, probeEpoch, resetting>>
  PROVE  CountInv'
  BY Zenon DEF CountInv

(* The goroutines of an exchange keep the types. *)
LEMMA ThreadStepTypes ==
  ASSUME TypeOK, CountInv, UseInv, NEW t \in Thread, exchangeStep(t) \/ exchangeSingle(t)
  PROVE  TypeOK' /\ CountInv'
<1>0. t[1] \in Query
  BY DEF Thread
<1>a. CallTypes /\ PoolTypes /\ ReaderTypes /\ ProbeTypes /\ BoundTypes /\ ThreadTypes /\ PendingTypes
  BY Zenon, TypeParts
<1>b. thread \in [Thread -> Goroutine] /\ pending \in [Thread -> PendingQuery \cup {None}]
  BY Zenon, <1>a DEF ThreadTypes, PendingTypes
<1>c. thread[t].conn \in Conn \cup {None} /\ thread[t].created \in BOOLEAN
  BY <1>b DEF Goroutine
<1>d. thread[t].pc \in {"wait", "register", "write"} => thread[t].conn \in Conn
  BY Zenon, <1>c DEF UseInv, Use
<1>1. CASE maybeStartProbe(t)
  <2>1. ThreadTypes'
    BY Zenon, <1>1, <1>b, GotoThread DEF maybeStartProbe, ThreadTypes, Labels
  <2>2. ProbeTypes'
    <3>1. probes' \in [Epoch -> Nat]
      BY <1>1, <1>a DEF maybeStartProbe, ProbeTypes
    <3> QED
      BY Zenon, <3>1, <1>1, <1>a DEF maybeStartProbe, ProbeTypes
  <2>3. UNCHANGED <<poolVars, options, pending, ctx, calls, result, reader, everRead, probeEpoch, resetting, bounds>>
    BY Zenon, <1>1 DEF maybeStartProbe
  <2> QED
    BY Zenon, <1>a, <2>1, <2>2, <2>3, SameTypes, TypePartsNext, SameCounts DEF poolVars, bounds
<1>2. CASE acquireShared(t)
  <2>1. UNCHANGED <<options, pending, everRead, probeVars, bounds>>
    BY Zenon, <1>2 DEF acquireShared
  <2>2. UNCHANGED <<closed, current, shared, stateDone, closing, open, cause>>
    BY Zenon, <1>2 DEF acquireShared
  <2>3. CASE closed /\ Return(t) /\ callback(t[1], "error") /\ UNCHANGED <<claimed, connecting, dial, reader>>
    <3>1. ThreadTypes' /\ CallTypes'
      BY Zenon, <2>3, <1>0, <1>a, <1>b, ReturnThread, CallbackTypes DEF ThreadTypes
    <3> QED
      BY Zenon, <1>a, <2>1, <2>2, <2>3, <3>1, SameTypes, TypePartsNext, SameCounts DEF poolVars, bounds, probeVars
  <2>4. CASE ~closed /\ shared # None /\ Claim(t) /\ NoCallback /\ UNCHANGED <<connecting, dial>>
    <3>1. shared \in Conn /\ claimed \in BOOLEAN
      BY Zenon, <2>4, <1>a DEF PoolTypes
    <3>2. ThreadTypes'
      BY Zenon, <2>4, <1>b, <3>1, ClaimThread DEF ThreadTypes
    <3>3. ReaderTypes'
      BY Zenon, <2>4, <2>1, <1>a, <3>1 DEF Claim, ReaderTypes
    <3>4. PoolTypes'
      BY Zenon, <2>4, <2>2, <1>a DEF Claim, PoolTypes
    <3>5. UNCHANGED <<calls, result, ctx>>
      BY Zenon, <2>4 DEF NoCallback
    <3> QED
      BY Zenon, <1>a, <2>1, <2>2, <3>2, <3>3, <3>4, <3>5, SameTypes, TypePartsNext, SameCounts DEF bounds, probeVars
  <2>5. CASE /\ ~closed /\ shared = None /\ connecting # None
             /\ thread' = [thread EXCEPT ![t] =
                              [@ EXCEPT !.pc = "wait", !.conn = connecting,
                                        !.state = current, !.starter = FALSE]]
             /\ NoCallback /\ UNCHANGED <<claimed, connecting, dial, reader>>
    <3>1. connecting \in Conn /\ current \in Epoch
      BY Zenon, <2>5, <1>a DEF PoolTypes
    <3>2. ThreadTypes'
      BY Zenon, <2>5, <1>b, <3>1, WaitThread DEF ThreadTypes
    <3>3. UNCHANGED <<calls, result, ctx>>
      BY Zenon, <2>5 DEF NoCallback
    <3> QED
      BY Zenon, <1>a, <2>1, <2>2, <2>5, <3>2, <3>3, SameTypes, TypePartsNext, SameCounts DEF poolVars, bounds, probeVars
  <2>6. ASSUME NEW c \in Conn, NoCallback, UNCHANGED <<claimed, reader>>,
               thread' = [thread EXCEPT ![t] =
                            [@ EXCEPT !.pc = "wait", !.conn = c,
                                      !.state = current, !.starter = TRUE]],
               connecting' = c,
               dial' = [dial EXCEPT ![c] = [pc |-> "dialing", state |-> current,
                                            owner |-> t[1], err |-> None]]
        PROVE  TypeOK' /\ CountInv'
    <3>1. current \in Epoch
      BY Zenon, <1>a DEF PoolTypes
    <3>2. ThreadTypes'
      BY Zenon, <2>6, <1>b, <3>1, WaitThread DEF ThreadTypes
    <3>3. UNCHANGED <<calls, result, ctx>>
      BY Zenon, <2>6 DEF NoCallback
    <3>4. [pc |-> "dialing", state |-> current, owner |-> t[1], err |-> None] \in Dial
      BY <1>0, <3>1 DEF Dial
    <3>5. PoolTypes'
      BY Zenon, <2>6, <2>2, <3>4, <1>a DEF PoolTypes
    <3> QED
      BY Zenon, <1>a, <2>1, <2>2, <2>6, <3>2, <3>3, <3>5, SameTypes, TypePartsNext, SameCounts DEF bounds, probeVars
  <2> QED
    BY Zenon, <1>2, <2>3, <2>4, <2>5, <2>6 DEF acquireShared
<1>3. CASE collectShared(t)
  <2>1. UNCHANGED <<closed, current, shared, connecting, stateDone, closing,
                    dial, open, cause, options, pending, everRead, probeVars, bounds>>
    BY Zenon, <1>3 DEF collectShared
  <2>2. CASE /\ dial[thread[t].conn].err # None /\ Return(t)
             /\ callback(t[1], dial[thread[t].conn].err) /\ UNCHANGED <<claimed, reader>>
    <3>1. dial[thread[t].conn].err \in {None, "ctx", "error"}
      BY <1>3, <1>d, <1>a DEF collectShared, PoolTypes, Dial
    <3>2. ThreadTypes' /\ CallTypes'
      BY Zenon, <2>2, <1>0, <1>a, <1>b, <3>1, ReturnThread, CallbackTypes DEF ThreadTypes
    <3> QED
      BY Zenon, <1>a, <2>1, <2>2, <3>2, SameTypes, TypePartsNext, SameCounts DEF poolVars, bounds, probeVars
  <2>3. CASE LookAgain(t) /\ NoCallback /\ UNCHANGED <<claimed, reader>>
    <3>1. ThreadTypes'
      BY Zenon, <2>3, <1>b, LookThread DEF ThreadTypes
    <3>2. UNCHANGED <<calls, result, ctx>>
      BY Zenon, <2>3 DEF NoCallback
    <3> QED
      BY Zenon, <1>a, <2>1, <2>3, <3>1, <3>2, SameTypes, TypePartsNext, SameCounts DEF poolVars, bounds, probeVars
  <2>4. CASE Return(t) /\ callback(t[1], "error") /\ UNCHANGED <<claimed, reader>>
    <3>1. ThreadTypes' /\ CallTypes'
      BY Zenon, <2>4, <1>0, <1>a, <1>b, ReturnThread, CallbackTypes DEF ThreadTypes
    <3> QED
      BY Zenon, <1>a, <2>1, <2>4, <3>1, SameTypes, TypePartsNext, SameCounts DEF poolVars, bounds, probeVars
  <2>5. CASE Collectable(t) /\ Claim(t) /\ NoCallback
    <3>1. shared \in Conn /\ claimed \in BOOLEAN
      BY Zenon, <2>5, <1>a DEF PoolTypes, Collectable
    <3>2. ThreadTypes'
      BY Zenon, <2>5, <1>b, <3>1, ClaimThread DEF ThreadTypes
    <3>3. ReaderTypes'
      BY Zenon, <2>5, <2>1, <1>a, <3>1 DEF Claim, ReaderTypes
    <3>4. PoolTypes'
      BY Zenon, <2>5, <2>1, <1>a DEF Claim, PoolTypes
    <3>5. UNCHANGED <<calls, result, ctx>>
      BY Zenon, <2>5 DEF NoCallback
    <3> QED
      BY Zenon, <1>a, <2>1, <3>2, <3>3, <3>4, <3>5, SameTypes, TypePartsNext, SameCounts DEF bounds, probeVars
  <2> QED
    BY Zenon, <1>3, <2>2, <2>3, <2>4, <2>5 DEF collectShared
<1>4. CASE waitCancelled(t)
  <2>1. UNCHANGED <<poolVars, options, pending, reader, everRead, probeVars, bounds>>
    BY Zenon, <1>4 DEF waitCancelled
  <2>2. ThreadTypes' /\ CallTypes'
    <3>1. CASE Return(t) /\ (callback(t[1], "ctx") \/ callback(t[1], "error"))
      BY Zenon, <3>1, <1>0, <1>a, <1>b, ReturnThread, CallbackTypes DEF ThreadTypes
    <3>2. CASE LookAgain(t) /\ NoCallback
      BY Zenon, <3>2, <1>a, <1>b, LookThread, SameTypes DEF ThreadTypes, NoCallback
    <3> QED
      BY Zenon, <1>4, <3>1, <3>2 DEF waitCancelled
  <2> QED
    BY Zenon, <1>a, <2>1, <2>2, SameTypes, TypePartsNext, SameCounts DEF poolVars, bounds, probeVars
<1>5. CASE register(t)
  <2>1. UNCHANGED <<options, reader, everRead, probeVars, bounds>>
    BY Zenon, <1>5 DEF register
  <2>2. CASE Release(thread[t].conn) /\ Return(t) /\ callback(t[1], "error") /\ UNCHANGED pending
    <3>1. ThreadTypes' /\ CallTypes' /\ PoolTypes'
      BY Zenon, <2>2, <1>0, <1>a, <1>b, ReturnThread, CallbackTypes, ReleaseTypes DEF ThreadTypes
    <3>2. UNCHANGED current
      BY Zenon, <2>2 DEF Release
    <3> QED
      BY Zenon, <1>a, <2>1, <2>2, <3>1, <3>2, SameTypes, TypePartsNext, SameCounts DEF bounds, probeVars
  <2>3. CASE /\ pending' = [pending EXCEPT ![t] =
                   [conn |-> thread[t].conn, silent |-> TRUE, sent |-> FALSE,
                    retry |-> /\ t[2] = 1
                              /\ options.retryReadError
                              /\ ~thread[t].created]]
             /\ Goto(t, "write") /\ NoCallback /\ UNCHANGED poolVars
    <3>1. ThreadTypes'
      BY Zenon, <2>3, <1>b, GotoThread DEF ThreadTypes, Labels
    <3>2. PendingTypes'
      <4> DEFINE r == /\ t[2] = 1 /\ options.retryReadError /\ ~thread[t].created
                 p == [conn |-> thread[t].conn, silent |-> TRUE, sent |-> FALSE, retry |-> r]
      <4>1. thread[t].conn \in Conn
        BY Zenon, <1>5, <1>d DEF register
      <4>2. r \in BOOLEAN
        BY Zenon
      <4>3. p \in PendingQuery
        BY Zenon, <4>1, <4>2 DEF PendingQuery
      <4>4. pending' = [pending EXCEPT ![t] = p]
        BY Zenon, <2>3
      <4> HIDE DEF p
      <4> QED
        BY Zenon, <4>3, <4>4, <1>b DEF PendingTypes
    <3>3. UNCHANGED <<calls, result, ctx>>
      BY Zenon, <2>3 DEF NoCallback
    <3> QED
      BY Zenon, <1>a, <2>1, <2>3, <3>1, <3>2, <3>3, SameTypes, TypePartsNext, SameCounts DEF poolVars, bounds, probeVars
  <2> QED
    BY Zenon, <1>5, <2>2, <2>3 DEF register
<1>6. CASE writeSucceeds(t)
  <2>1. UNCHANGED <<poolVars, options, ctx, calls, result, reader, everRead, probeVars, bounds>>
    BY Zenon, <1>6 DEF writeSucceeds
  <2>2. ThreadTypes'
    BY Zenon, <1>6, <1>b, ReturnThread DEF ThreadTypes, writeSucceeds
  <2>3. PendingTypes'
    <3>1. CASE pending[t] = None
      BY Zenon, <3>1, <1>6, <1>b DEF writeSucceeds, PendingTypes
    <3>2. CASE pending[t] # None
      <4> DEFINE p == [pending[t] EXCEPT !.sent = TRUE]
      <4>1. p \in PendingQuery
        <5>1. pending[t] \in PendingQuery
          BY Zenon, <3>2, <1>b
        <5> QED
          BY <5>1 DEF PendingQuery
      <4>2. pending' = [pending EXCEPT ![t] = p]
        BY Zenon, <3>2, <1>6 DEF writeSucceeds
      <4> HIDE DEF p
      <4> QED
        BY Zenon, <4>1, <4>2, <1>b DEF PendingTypes
    <3> QED
      BY Zenon, <3>1, <3>2
  <2> QED
    BY Zenon, <1>a, <2>1, <2>2, <2>3, SameTypes, TypePartsNext, SameCounts DEF poolVars, bounds, probeVars
<1>7. CASE writeFails(t)
  <2>1. UNCHANGED <<options, reader, everRead, probeVars, resets, exchanges>>
    BY Zenon, <1>7 DEF writeFails
  <2>2. PoolTypes' /\ UNCHANGED current
    BY Zenon, <1>7, <1>a, InvalidateTypes DEF writeFails, Invalidate
  <2>3. PendingTypes'
    BY Zenon, <1>7, <1>a, DropTypes DEF writeFails, PendingTypes
  <2>4. BoundTypes'
    BY Zenon, <1>7, <1>a, <2>1, FaultTypes DEF writeFails
  <2>5. ThreadTypes' /\ CallTypes'
    <3>1. CASE Return(t) /\ (NoCallback \/ callback(t[1], "error"))
      BY Zenon, <3>1, <1>0, <1>a, <1>b, ReturnThread, CallbackTypes, SameTypes DEF ThreadTypes, NoCallback
    <3>2. CASE /\ thread' = [thread EXCEPT ![t] =
                                [Idle EXCEPT !.pc = "acquire", !.first = FALSE]]
               /\ NoCallback
      BY Zenon, <3>2, <1>a, <1>b, RetryThread, SameTypes DEF ThreadTypes, NoCallback
    <3> QED
      BY Zenon, <1>7, <3>1, <3>2 DEF writeFails
  <2> QED
    BY Zenon, <1>a, <2>1, <2>2, <2>3, <2>4, <2>5, SameTypes, TypePartsNext, SameCounts DEF probeVars
<1>8. CASE completeConnDone(t)
  <2>1. UNCHANGED <<poolVars, options, reader, everRead, probeVars, bounds>>
    BY Zenon, <1>8 DEF completeConnDone
  <2>2. PendingTypes'
    BY Zenon, <1>8, <1>a, DropTypes DEF completeConnDone, PendingTypes
  <2>3. ThreadTypes' /\ CallTypes'
    <3>1. CASE Goto(<<t[1], 2>>, "dispatch") /\ NoCallback
      <4>1. <<t[1], 2>> \in Thread
        BY <1>0 DEF Thread
      <4> QED
        BY Zenon, <3>1, <4>1, <1>a, <1>b, GotoThread, SameTypes DEF ThreadTypes, NoCallback, Labels
    <3>2. ASSUME NEW r \in {"error", "ctx"}, callback(t[1], r), UNCHANGED thread
          PROVE  ThreadTypes' /\ CallTypes'
      BY Zenon, <3>2, <1>0, <1>a, CallbackTypes, SameTypes
    <3> QED
      BY Zenon, <1>8, <1>a, <3>1, <3>2, ConnDoneTells
  <2> QED
    BY Zenon, <1>a, <2>1, <2>2, <2>3, SameTypes, TypePartsNext, SameCounts DEF poolVars, bounds, probeVars
<1>9. CASE completeContextDone(t)
  <2>1. UNCHANGED <<options, thread, reader, everRead, probeVars, bounds>>
    BY Zenon, <1>9 DEF completeContextDone
  <2>2. PendingTypes'
    BY Zenon, <1>9, <1>a, DropTypes DEF completeContextDone, PendingTypes
  <2>3. PoolTypes' /\ UNCHANGED current
    BY Zenon, <1>9, <1>a, InvalidateTypes, ReleaseTypes DEF completeContextDone, Invalidate, Release
  <2>4. CallTypes'
    BY Zenon, <1>9, <1>0, <1>a, CallbackTypes DEF completeContextDone
  <2> QED
    BY Zenon, <1>a, <2>1, <2>2, <2>3, <2>4, SameTypes, TypePartsNext, SameCounts DEF bounds, probeVars
<1>10. CASE exchangeSingle(t)
  <2>1. UNCHANGED <<poolVars, options, pending, reader, everRead, probeVars, bounds>>
    BY Zenon, <1>10 DEF exchangeSingle
  <2>2. ThreadTypes' /\ CallTypes'
    BY Zenon, <1>10, <1>0, <1>a, <1>b, ReturnThread, CallbackTypes DEF ThreadTypes, exchangeSingle
  <2> QED
    BY Zenon, <1>a, <2>1, <2>2, SameTypes, TypePartsNext, SameCounts DEF poolVars, bounds, probeVars
<1> QED
  BY Zenon, <1>1, <1>2, <1>3, <1>4, <1>5, <1>6, <1>7, <1>8, <1>9, <1>10 DEF exchangeStep

(* The exchanges, their contexts and their retries. *)
LEMMA QueryStepTypes ==
  ASSUME TypeOK, CountInv, NEW q \in Query, ExchangeAsync(q) \/ redispatch(q) \/ ctxDone(q)
  PROVE  TypeOK' /\ CountInv'
<1>a. CallTypes /\ PoolTypes /\ ReaderTypes /\ ProbeTypes /\ BoundTypes /\ ThreadTypes /\ PendingTypes
  BY Zenon, TypeParts
<1>b. <<q, 1>> \in Thread /\ <<q, 2>> \in Thread
  BY DEF Thread
<1>c. ASSUME NEW t \in Thread, dispatch(t)
      PROVE  ThreadTypes'
  <2>1. PICK p \in Labels : Goto(t, p)
    BY Zenon, <1>c DEF dispatch, Labels
  <2> QED
    BY Zenon, <1>a, <2>1, GotoThread DEF ThreadTypes
<1>1. CASE ExchangeAsync(q)
  <2>1. UNCHANGED <<poolVars, options, pending, reader, everRead, probeVars, resets, faults>>
    BY Zenon, <1>1 DEF ExchangeAsync
  <2>2. CallTypes'
    <3>1. calls' \in [Query -> Nat]
      BY <1>1, <1>a DEF ExchangeAsync, CallTypes
    <3> QED
      BY Zenon, <3>1, <1>1, <1>a DEF ExchangeAsync, CallTypes
  <2>3. BoundTypes'
    <3>1. exchanges' \in Nat
      BY <1>1, <1>a DEF ExchangeAsync, BoundTypes
    <3> QED
      BY Zenon, <2>1, <3>1, <1>a DEF BoundTypes
  <2>4. ThreadTypes'
    BY Zenon, <1>1, <1>b, <1>c DEF ExchangeAsync
  <2> QED
    BY Zenon, <1>a, <2>1, <2>2, <2>3, <2>4, SameTypes, TypePartsNext, SameCounts DEF poolVars, bounds, probeVars
<1>2. CASE redispatch(q)
  <2>1. UNCHANGED <<poolVars, options, pending, ctx, calls, result, reader, everRead, probeVars, bounds>>
    BY Zenon, <1>2 DEF redispatch
  <2>2. ThreadTypes'
    BY Zenon, <1>2, <1>b, <1>c DEF redispatch
  <2> QED
    BY Zenon, <1>a, <2>1, <2>2, SameTypes, TypePartsNext, SameCounts DEF poolVars, bounds, probeVars
<1>3. CASE ctxDone(q)
  <2>1. UNCHANGED <<poolVars, options, thread, pending, calls, result, reader, everRead, probeVars, bounds>>
    BY Zenon, <1>3 DEF ctxDone
  <2>2. CallTypes'
    BY Zenon, <1>3, <1>a DEF ctxDone, CallTypes
  <2> QED
    BY Zenon, <1>a, <2>1, <2>2, SameTypes, TypePartsNext, SameCounts DEF poolVars, bounds, probeVars
<1> QED
  BY Zenon, <1>1, <1>2, <1>3

(* The readers and the dials. *)
LEMMA ConnStepTypes ==
  ASSUME TypeOK, CountInv, NEW c \in Conn,
         \/ readOther(c) \/ readFails(c) \/ demote(c) \/ dialEnds(c)
         \/ \E t \in Thread : complete(c, t)
  PROVE  TypeOK' /\ CountInv'
<1>a. CallTypes /\ PoolTypes /\ ReaderTypes /\ ProbeTypes /\ BoundTypes /\ ThreadTypes /\ PendingTypes
  BY Zenon, TypeParts
<1>1. CASE readOther(c)
  <2>1. UNCHANGED <<poolVars, options, thread, ctx, calls, result, reader, probeVars, bounds>>
    BY Zenon, <1>1 DEF readOther
  <2>2. ReaderTypes' /\ PendingTypes'
    BY Zenon, <1>1, <1>a, HeardTypes DEF readOther, ReaderTypes, PendingTypes
  <2> QED
    BY Zenon, <1>a, <2>1, <2>2, SameTypes, TypePartsNext, SameCounts DEF poolVars, bounds, probeVars
<1>2. CASE readFails(c)
  <2>1. UNCHANGED <<options, thread, pending, ctx, calls, result, reuseState,
                    probeEpoch, probedRecently, probes, resetting, resets, exchanges>>
    BY Zenon, <1>2 DEF readFails
  <2>2. BoundTypes'
    BY Zenon, <1>2, <1>a, <2>1, FaultTypes DEF readFails
  <2>3. ProbeTypes'
    <3>1. demoteFailures' \in Nat
      BY <1>2, <1>a DEF readFails, ProbeTypes
    <3> QED
      BY Zenon, <3>1, <2>1, <1>a DEF ProbeTypes
  <2>4. PoolTypes' /\ UNCHANGED current
    BY Zenon, <1>2, <1>a, InvalidateTypes, SameTypes DEF readFails, Invalidate, poolVars
  <2>5. ReaderTypes'
    BY Zenon, <1>2, <1>a DEF readFails, ReaderTypes
  <2> QED
    BY Zenon, <1>a, <2>1, <2>2, <2>3, <2>4, <2>5, SameTypes, TypePartsNext, SameCounts
<1>3. CASE demote(c)
  <2>1. UNCHANGED <<options, thread, pending, ctx, calls, result, probeEpoch, probes, resetting, bounds>>
    BY Zenon, <1>3 DEF demote
  <2>2. ProbeTypes'
    <3>1. demoteFailures' \in Nat
      BY <1>3 DEF demote
    <3> QED
      BY Zenon, <3>1, <2>1, <1>3, <1>a DEF demote, ProbeTypes
  <2>3. PoolTypes' /\ UNCHANGED current
    BY Zenon, <1>3, <1>a, InvalidateTypes DEF demote, Invalidate
  <2>4. ReaderTypes'
    BY Zenon, <1>3, <1>a DEF demote, ReaderTypes
  <2> QED
    BY Zenon, <1>a, <2>1, <2>2, <2>3, <2>4, SameTypes, TypePartsNext, SameCounts DEF bounds
<1>4. CASE dialEnds(c)
  <2>1. UNCHANGED <<muxVars, probeVars, resets, exchanges>>
    BY Zenon, <1>4 DEF dialEnds
  <2>2. PICK err \in {None, "error"} :
          connectSingle(c, err, ctx[dial[c].owner] # "live") /\ Fault(err # None)
    BY Zenon, <1>4 DEF dialEnds
  <2>3. BoundTypes'
    BY Zenon, <1>a, <2>1, <2>2, FaultTypes DEF muxVars
  <2>4. PoolTypes' /\ UNCHANGED current
    <3>1. PICK e \in {None, "ctx", "error"} :
            dial' = [dial EXCEPT ![c] = [dial[c] EXCEPT !.pc = "done", !.owner = None, !.err = e]]
      BY ZenonT(40), <2>2 DEF connectSingle
    <3>2. [dial[c] EXCEPT !.pc = "done", !.owner = None, !.err = e] \in Dial
      <4>1. dial[c] \in Dial
        BY Zenon, <1>a DEF PoolTypes
      <4> QED
        BY <4>1 DEF Dial
    <3>3. dial' \in [Conn -> Dial]
      BY Zenon, <3>1, <3>2, <1>a DEF PoolTypes
    <3>4. shared' \in Conn \cup {None} /\ open' \subseteq Conn
      <4>1. \/ shared' = c /\ open' = open \cup {c}
            \/ shared' = shared /\ open' = open
        BY Zenon, <2>2 DEF connectSingle
      <4>2. shared \in Conn \cup {None} /\ open \subseteq Conn
        BY Zenon, <1>a DEF PoolTypes
      <4> QED
        BY Zenon, <4>1, <4>2
    <3>5. connecting' \in Conn \cup {None}
      <4>1. connecting' = connecting \/ connecting' = None
        BY Zenon, <2>2 DEF connectSingle
      <4> QED
        BY Zenon, <4>1, <1>a DEF PoolTypes
    <3>6. UNCHANGED <<closed, current, claimed, stateDone, closing, cause>>
      BY Zenon, <2>2 DEF connectSingle
    <3> QED
      BY Zenon, <3>3, <3>4, <3>5, <3>6, <1>a DEF PoolTypes
  <2> QED
    BY Zenon, <1>a, <2>1, <2>3, <2>4, SameTypes, TypePartsNext, SameCounts DEF muxVars, probeVars
<1>5. ASSUME NEW t \in Thread, complete(c, t)
      PROVE  TypeOK' /\ CountInv'
  <2>1. UNCHANGED <<options, thread, reader, probeVars, bounds>>
    BY Zenon, <1>5 DEF complete
  <2>2. ReaderTypes' /\ PendingTypes'
    BY Zenon, <1>5, <1>a, HeardTypes DEF complete, ReaderTypes, PendingTypes
  <2>3. PoolTypes' /\ UNCHANGED current
    BY Zenon, <1>5, <1>a, ReleaseTypes DEF complete, Release
  <2>4. CallTypes'
    <3>1. t[1] \in Query
      BY DEF Thread
    <3> QED
      BY Zenon, <3>1, <1>5, <1>a, CallbackTypes DEF complete
  <2> QED
    BY Zenon, <1>a, <2>1, <2>2, <2>3, <2>4, SameTypes, TypePartsNext, SameCounts DEF bounds, probeVars
<1> QED
  BY Zenon, <1>1, <1>2, <1>3, <1>4, <1>5

(* Reset, Close, the probes, and numbers that are used again. *)
LEMMA PoolStepTypes ==
  ASSUME TypeOK, CountInv,
         \/ Reset \/ resetPool \/ Close \/ closeOldState \/ recycle
         \/ probeIntervalPasses \/ \E e \in Epoch : runReuseProbe(e)
  PROVE  TypeOK' /\ CountInv'
<1>a. CallTypes /\ PoolTypes /\ ReaderTypes /\ ProbeTypes /\ BoundTypes /\ ThreadTypes /\ PendingTypes
  BY Zenon, TypeParts
<1>b. /\ current \in Nat /\ probeEpoch \in Nat /\ resets \in Nat /\ options.resets \in Nat
      /\ resets <= options.resets /\ options.resets <= MaxResets /\ MaxResets \in Nat
  <2>1. options.resets \in 0 .. MaxResets
    BY Zenon, <1>a, MultiplexerAssumption DEF BoundTypes
  <2>2. MaxResets \in Nat
    BY Zenon, PoolAssumption
  <2>3. current \in Epoch /\ probeEpoch \in Epoch /\ resets \in 0 .. options.resets
    BY Zenon, <1>a DEF PoolTypes, ProbeTypes, BoundTypes
  <2> QED
    BY ONLY <2>1, <2>2, <2>3 DEF Epoch
<1>1. CASE Reset
  <2>1. UNCHANGED <<poolVars, muxVars, probes, exchanges, faults>>
    BY Zenon, <1>1 DEF Reset
  <2>2. resets' = resets + 1 /\ resets < options.resets /\ resetting' = TRUE /\ UNCHANGED current
    BY Zenon, <1>1 DEF Reset, poolVars
  <2>3. probeEpoch' = probeEpoch + 1 \/ probeEpoch' = probeEpoch
    BY Zenon, <1>1 DEF Reset
  <2>4. current <= resets /\ probeEpoch <= resets
    BY Zenon DEF CountInv
  <2>5. probeEpoch' \in Epoch /\ resets' \in 0 .. options.resets
    BY ONLY <1>b, <2>2, <2>3, <2>4 DEF Epoch
  <2>6. CountInv'
    BY ONLY <1>b, <2>2, <2>3, <2>4 DEF CountInv
  <2>7. ProbeTypes'
    <3>1. demoteFailures' \in Nat
      BY <1>1, <1>a DEF Reset, ProbeTypes
    <3> QED
      BY Zenon, <3>1, <2>5, <2>1, <1>1, <1>a DEF Reset, ProbeTypes
  <2>8. BoundTypes'
    BY Zenon, <2>1, <2>5, <1>a DEF BoundTypes, muxVars
  <2> QED
    BY Zenon, <1>a, <2>1, <2>6, <2>7, <2>8, SameTypes, TypePartsNext DEF muxVars
<1>2. CASE resetPool
  <2>1. UNCHANGED <<muxVars, reuseState, demoteFailures, probeEpoch, probedRecently, probes, bounds>>
    BY Zenon, <1>2 DEF resetPool
  <2>2. resetting /\ resetting' = FALSE /\ current < resets /\ probeEpoch <= resets
    BY Zenon, <1>2 DEF resetPool, CountInv
  <2>3. current' = current + 1 \/ current' = current
    BY Zenon, <1>2 DEF resetPool, poolReset
  <2>4. current' \in Epoch
    BY ONLY <1>b, <2>2, <2>3 DEF Epoch
  <2>5. CountInv'
    <3>1. UNCHANGED <<resets, probeEpoch>>
      BY Zenon, <2>1 DEF bounds
    <3> QED
      BY ONLY <1>b, <2>2, <2>3, <3>1 DEF CountInv
  <2>6. PoolTypes'
    <3>1. closing' \subseteq [state : Epoch, conn : Conn \cup {None}]
      <4>1. [state |-> current, conn |-> shared] \in [state : Epoch, conn : Conn \cup {None}]
        BY Zenon, <1>a DEF PoolTypes
      <4>2. closing' = closing \/ closing' = closing \cup {[state |-> current, conn |-> shared]}
        BY Zenon, <1>2 DEF resetPool, poolReset
      <4>3. closing \subseteq [state : Epoch, conn : Conn \cup {None}]
        BY Zenon, <1>a DEF PoolTypes
      <4> QED
        BY ONLY <4>1, <4>2, <4>3
    <3> QED
      BY Zenon, <3>1, <2>4, <1>2, <1>a DEF resetPool, poolReset, PoolTypes
  <2>7. ProbeTypes'
    BY Zenon, <2>1, <2>2, <1>a DEF ProbeTypes
  <2> QED
    BY Zenon, <1>a, <2>1, <2>5, <2>6, <2>7, SameTypes, TypePartsNext DEF muxVars
<1>3. CASE Close
  <2>1. UNCHANGED <<muxVars, probeVars, bounds>>
    BY Zenon, <1>3 DEF Close
  <2>2. PoolTypes' /\ UNCHANGED current
    <3>1. closing' \subseteq [state : Epoch, conn : Conn \cup {None}]
      <4>1. [state |-> current, conn |-> shared] \in [state : Epoch, conn : Conn \cup {None}]
        BY Zenon, <1>a DEF PoolTypes
      <4> QED
        BY Zenon, <4>1, <1>3, <1>a DEF Close, poolClose, PoolTypes
    <3> QED
      BY Zenon, <3>1, <1>3, <1>a DEF Close, poolClose, PoolTypes
  <2> QED
    BY Zenon, <1>a, <2>1, <2>2, SameTypes, TypePartsNext, SameCounts DEF muxVars, bounds, probeVars
<1>4. CASE closeOldState
  <2>1. UNCHANGED <<muxVars, probeVars, bounds>>
    BY Zenon, <1>4 DEF closeOldState
  <2>2. PoolTypes' /\ UNCHANGED current
    <3>1. PICK old \in closing : closeState(old)
      BY Zenon, <1>4 DEF closeOldState
    <3>2. old.state \in Epoch
      BY <1>a DEF PoolTypes
    <3> QED
      BY Zenon, <3>1, <3>2, <1>a DEF closeState, PoolTypes
  <2> QED
    BY Zenon, <1>a, <2>1, <2>2, SameTypes, TypePartsNext, SameCounts DEF muxVars, bounds, probeVars
<1>5. CASE recycle
  <2>1. UNCHANGED <<closed, current, shared, claimed, connecting, stateDone,
                    closing, open, options, thread, pending, ctx, calls, result, probeVars, bounds>>
    BY Zenon, <1>5 DEF recycle
  <2>2. ReaderTypes'
    BY Zenon, <1>5, <1>a DEF recycle, ReaderTypes
  <2>3. PoolTypes'
    <3>1. Unused \in Dial
      <4>1. 0 \in Epoch
        BY PoolAssumption DEF Epoch
      <4> QED
        BY <4>1 DEF Unused, Dial
    <3> QED
      BY Zenon, <3>1, <2>1, <1>5, <1>a DEF recycle, PoolTypes
  <2> QED
    BY Zenon, <1>a, <2>1, <2>2, <2>3, SameTypes, TypePartsNext, SameCounts DEF bounds, probeVars
<1>6. CASE probeIntervalPasses
  <2>1. UNCHANGED <<poolVars, muxVars, reuseState, demoteFailures, probeEpoch, probes, resetting, bounds>>
    BY Zenon, <1>6 DEF probeIntervalPasses
  <2>2. ProbeTypes'
    BY Zenon, <2>1, <1>6, <1>a DEF probeIntervalPasses, ProbeTypes
  <2> QED
    BY Zenon, <1>a, <2>1, <2>2, SameTypes, TypePartsNext, SameCounts DEF muxVars, bounds, poolVars
<1>7. ASSUME NEW e \in Epoch, runReuseProbe(e)
      PROVE  TypeOK' /\ CountInv'
  <2>1. UNCHANGED <<poolVars, muxVars, probeEpoch, probedRecently, resetting, bounds>>
    BY Zenon, <1>7 DEF runReuseProbe
  <2>2. ProbeTypes'
    <3>1. probes' \in [Epoch -> Nat]
      BY <1>7, <1>a DEF runReuseProbe, ProbeTypes
    <3>2. demoteFailures' \in Nat
      BY <1>7, <1>a DEF runReuseProbe, ProbeTypes
    <3> QED
      BY Zenon, <3>1, <3>2, <2>1, <1>7, <1>a DEF runReuseProbe, ProbeTypes
  <2> QED
    BY Zenon, <1>a, <2>1, <2>2, SameTypes, TypePartsNext, SameCounts DEF muxVars, bounds, poolVars
<1> QED
  BY Zenon, <1>1, <1>2, <1>3, <1>4, <1>5, <1>6, <1>7

-----------------------------------------------------------------------------
(* Goroutine t has the exchange: it is on its way to register a query, or  *)
(* the query it has registered is pending.                                 *)
Holds(t) == thread[t].pc \notin {"idle", "write"} \/ pending[t] # None

(* Exactly one party has the exchange until the callback has run; the      *)
(* first goroutine does not get it back from the second, which has not     *)
(* begun while the first has it.                                           *)
TokenInv ==
    /\ \A t \in Thread :
         /\ thread[t].pc \notin {"idle", "write"} => pending[t] = None
         /\ pending[t] # None /\ pending[t].retry => t[2] = 1
    /\ \A q \in Query :
         /\ calls[q] = IF Holds(<<q, 1>>) \/ Holds(<<q, 2>>) THEN 0 ELSE 1
         /\ Holds(<<q, 1>>) => ~Holds(<<q, 2>>) /\ thread[<<q, 2>>].pc = "idle"

(* The other goroutines stand where they stood. *)
Apart(t) ==
    \A u \in Thread \ {t} :
       /\ thread'[u].pc = thread[u].pc
       /\ pending'[u] = None <=> pending[u] = None
       /\ pending'[u] # None => pending'[u].retry = pending[u].retry

LEMMA ThreadPairs ==
  /\ \A q \in Query : <<q, 1>> \in Thread /\ <<q, 2>> \in Thread
  /\ \A t \in Thread : t[1] \in Query /\ (t = <<t[1], 1>> \/ t = <<t[1], 2>>) /\ t[2] \in {1, 2}
  /\ \A q, r \in Query : <<q, 1>> # <<r, 2>> /\ (<<q, 1>> = <<r, 1>> => q = r) /\ (<<q, 2>> = <<r, 2>> => q = r)
  BY DEF Thread

(* A step of t that leaves the exchange with whoever has it. *)
LEMMA TokenStays ==
  ASSUME TokenInv, NEW t \in Thread, Apart(t), calls' = calls,
         Holds(t)' <=> Holds(t),
         thread'[t].pc \notin {"idle", "write"} => pending'[t] = None,
         pending'[t] # None /\ pending'[t].retry => t[2] = 1,
         thread'[t].pc = "idle" \/ Holds(t)
  PROVE  TokenInv'
<1>1. \A u \in Thread : Holds(u)' <=> Holds(u)
  BY Zenon DEF Apart, Holds
<1>2. \A u \in Thread : /\ thread'[u].pc \notin {"idle", "write"} => pending'[u] = None
                        /\ pending'[u] # None /\ pending'[u].retry => u[2] = 1
  BY Zenon DEF Apart, TokenInv
<1>3. ASSUME NEW q \in Query
      PROVE  /\ calls'[q] = IF Holds(<<q, 1>>)' \/ Holds(<<q, 2>>)' THEN 0 ELSE 1
             /\ Holds(<<q, 1>>)' => ~Holds(<<q, 2>>)' /\ thread'[<<q, 2>>].pc = "idle"
  <2>1. <<q, 1>> \in Thread /\ <<q, 2>> \in Thread
    BY Zenon, ThreadPairs
  <2>2. calls[q] = IF Holds(<<q, 1>>)' \/ Holds(<<q, 2>>)' THEN 0 ELSE 1
    BY Zenon, <1>1, <2>1 DEF TokenInv
  <2>3. ASSUME Holds(<<q, 1>>)'
        PROVE  ~Holds(<<q, 2>>)' /\ thread'[<<q, 2>>].pc = "idle"
    <3>1. ~Holds(<<q, 2>>) /\ thread[<<q, 2>>].pc = "idle"
      BY Zenon, <1>1, <2>1, <2>3 DEF TokenInv
    <3>2. ~Holds(<<q, 2>>)'
      BY Zenon, <1>1, <2>1, <3>1
    <3>3. thread'[<<q, 2>>].pc = "idle"
      BY Zenon, <2>1, <3>1 DEF Apart
    <3> QED
      BY Zenon, <3>2, <3>3
  <2> QED
    BY Zenon, <2>2, <2>3
<1> QED
  BY Zenon, <1>2, <1>3 DEF TokenInv

(* A step that ends the exchange t has. *)
LEMMA TokenSpent ==
  ASSUME TypeOK, TokenInv, NEW t \in Thread, Apart(t), Holds(t),
         calls' = [calls EXCEPT ![t[1]] = @ + 1],
         thread'[t].pc \in {"idle", "write"}, pending'[t] = None,
         thread[t].pc \in {"idle", "write"} => thread'[t].pc \in {thread[t].pc, "idle"}
  PROVE  TokenInv'
<1>1. \A u \in Thread \ {t} : Holds(u)' <=> Holds(u)
  BY Zenon DEF Apart, Holds
<1>2. ~Holds(t)'
  BY Zenon DEF Holds
<1>3. \A u \in Thread : /\ thread'[u].pc \notin {"idle", "write"} => pending'[u] = None
                        /\ pending'[u] # None /\ pending'[u].retry => u[2] = 1
  BY Zenon DEF Apart, TokenInv
<1>4. ASSUME NEW q \in Query
      PROVE  /\ calls'[q] = IF Holds(<<q, 1>>)' \/ Holds(<<q, 2>>)' THEN 0 ELSE 1
             /\ Holds(<<q, 1>>)' => ~Holds(<<q, 2>>)' /\ thread'[<<q, 2>>].pc = "idle"
  <2>1. <<q, 1>> \in Thread /\ <<q, 2>> \in Thread /\ t[1] \in Query /\ (t = <<t[1], 1>> \/ t = <<t[1], 2>>)
    BY Zenon, ThreadPairs
  <2>2. CASE q = t[1]
    <3>1. ~Holds(<<q, 1>>)' /\ ~Holds(<<q, 2>>)'
      BY Zenon, <1>1, <1>2, <2>1, <2>2 DEF TokenInv
    <3>2. calls[q] = 0
      BY Zenon, <2>1, <2>2 DEF TokenInv
    <3>3. calls'[q] = calls[q] + 1
      BY Zenon, <2>1, <2>2 DEF TypeOK
    <3> QED
      BY <3>1, <3>2, <3>3
  <2>3. CASE q # t[1]
    <3>1. <<q, 1>> # t /\ <<q, 2>> # t
      BY <2>3
    <3>2. calls'[q] = calls[q]
      BY Zenon, <2>3 DEF TypeOK
    <3>3. Holds(<<q, 1>>)' <=> Holds(<<q, 1>>)
      BY Zenon, <1>1, <2>1, <3>1
    <3>4. Holds(<<q, 2>>)' <=> Holds(<<q, 2>>)
      BY Zenon, <1>1, <2>1, <3>1
    <3>5. thread'[<<q, 2>>].pc = thread[<<q, 2>>].pc
      BY Zenon, <2>1, <3>1 DEF Apart
    <3> QED
      BY Zenon, <3>2, <3>3, <3>4, <3>5 DEF TokenInv
  <2> QED
    BY Zenon, <2>2, <2>3
<1> QED
  BY Zenon, <1>3, <1>4 DEF TokenInv

LEMMA ApartFrame ==
  ASSUME PendingTypes, NEW t \in Thread, Others(t),
         pending' = pending \/ \E x : pending' = [pending EXCEPT ![t] = x]
  PROVE  Apart(t)
  BY Zenon DEF Others, Apart, PendingTypes

(* The retry: a query of the first goroutine, and only of the first, is    *)
(* passed to the second.                                                   *)
LEMMA TokenPassed ==
  ASSUME TypeOK, TokenInv, NEW t \in Thread, pending[t] # None, pending[t].retry,
         pending' = [pending EXCEPT ![t] = None], Goto(<<t[1], 2>>, "dispatch"), NoCallback
  PROVE  TokenInv'
<1>1. t[1] \in Query /\ t = <<t[1], 1>> /\ t \in Thread /\ <<t[1], 2>> \in Thread
  <2>1. t[2] = 1
    BY Zenon DEF TokenInv
  <2> QED
    BY <2>1, ThreadPairs
<1> DEFINE q == t[1]
           u == <<q, 2>>
<1>2. Holds(t) /\ ~Holds(u) /\ thread[u].pc = "idle" /\ calls[q] = 0
  <2>1. Holds(t)
    BY Zenon DEF Holds
  <2>2. Holds(<<q, 1>>)
    BY Zenon, <1>1, <2>1
  <2> QED
    BY Zenon, <1>1, <2>1, <2>2 DEF TokenInv
<1>3. Others(u) /\ thread'[u].pc = "dispatch"
  BY Zenon, <1>1, GotoThread DEF TypeOK, Labels
<1>4. t # u
  BY <1>1
<1>5. /\ pending'[t] = None /\ pending'[u] = None
      /\ \A v \in Thread \ {t} : pending'[v] = pending[v]
      /\ \A v \in Thread \ {u} : thread'[v] = thread[v]
  BY Zenon, <1>1, <1>2, <1>3, <1>4 DEF TypeOK, Others, Holds
<1>6. thread[t].pc \in {"idle", "write"}
  BY Zenon, <1>1 DEF TokenInv
<1>7. ~Holds(t)' /\ Holds(u)' /\ \A v \in Thread \ {t, u} : Holds(v)' <=> Holds(v)
  BY Zenon, <1>1, <1>3, <1>4, <1>5, <1>6 DEF Holds
<1>8. \A v \in Thread : /\ thread'[v].pc \notin {"idle", "write"} => pending'[v] = None
                        /\ pending'[v] # None /\ pending'[v].retry => v[2] = 1
  BY Zenon, <1>5, <1>6 DEF TokenInv
<1>9. ASSUME NEW r \in Query
      PROVE  /\ calls'[r] = IF Holds(<<r, 1>>)' \/ Holds(<<r, 2>>)' THEN 0 ELSE 1
             /\ Holds(<<r, 1>>)' => ~Holds(<<r, 2>>)' /\ thread'[<<r, 2>>].pc = "idle"
  <2>1. calls'[r] = calls[r] /\ <<r, 1>> \in Thread /\ <<r, 2>> \in Thread
    BY Zenon, ThreadPairs DEF NoCallback
  <2>2. CASE r = q
    BY Zenon, <1>1, <1>2, <1>7, <2>1, <2>2
  <2>3. CASE r # q
    <3>1. <<r, 1>> \notin {t, u} /\ <<r, 2>> \notin {t, u}
      BY <1>1, <2>3
    <3>2. Holds(<<r, 1>>)' <=> Holds(<<r, 1>>)
      BY Zenon, <1>7, <2>1, <3>1
    <3>3. Holds(<<r, 2>>)' <=> Holds(<<r, 2>>)
      BY Zenon, <1>7, <2>1, <3>1
    <3>4. thread'[<<r, 2>>] = thread[<<r, 2>>]
      BY Zenon, <1>5, <2>1, <3>1
    <3> QED
      BY Zenon, <2>1, <3>2, <3>3, <3>4 DEF TokenInv
  <2> QED
    BY Zenon, <2>2, <2>3
<1> QED
  BY Zenon, <1>8, <1>9 DEF TokenInv

(* The goroutines of an exchange, and the contexts that end it. *)
LEMMA ThreadStepToken ==
  ASSUME TypeOK, TokenInv, UseInv, NEW t \in Thread, exchangeStep(t) \/ exchangeSingle(t)
  PROVE  TokenInv'
<1>a. ThreadTypes /\ PendingTypes /\ PoolTypes
  BY Zenon, TypeParts
<1>b. thread \in [Thread -> Goroutine] /\ pending \in [Thread -> PendingQuery \cup {None}]
  BY Zenon, <1>a DEF ThreadTypes, PendingTypes
<1>c. ASSUME thread[t].pc \in {"probe", "single", "acquire", "wait", "register"},
             UNCHANGED pending
      PROVE  /\ Holds(t) /\ pending[t] = None /\ pending'[t] = None
             /\ Return(t) /\ (\E r : callback(t[1], r)) => TokenInv'
             /\ Others(t) /\ thread'[t].pc \notin {"idle", "write"} /\ UNCHANGED calls => TokenInv'
  <2>1. Holds(t) /\ pending[t] = None /\ pending'[t] = None
    BY Zenon, <1>c DEF Holds, TokenInv
  <2>2. ASSUME Return(t), NEW r, callback(t[1], r)
        PROVE  TokenInv'
    <3>1. Apart(t) /\ thread'[t].pc = "idle"
      BY Zenon, <2>2, <1>a, <1>b, <1>c, ReturnThread, ApartFrame
    <3> QED
      BY Zenon, <2>1, <2>2, <3>1, TokenSpent DEF callback
  <2>3. ASSUME Others(t), thread'[t].pc \notin {"idle", "write"}, UNCHANGED calls
        PROVE  TokenInv'
    <3>1. Apart(t)
      BY Zenon, <2>3, <1>a, <1>c, ApartFrame
    <3>2. Holds(t)'
      BY Zenon, <2>3 DEF Holds
    <3> QED
      BY Zenon, <2>1, <2>3, <3>1, <3>2, TokenStays
  <2> QED
    BY Zenon, <2>1, <2>2, <2>3
<1>1. CASE maybeStartProbe(t)
  <2>1. Others(t) /\ thread'[t].pc = "single"
    BY Zenon, <1>1, <1>b, GotoThread DEF maybeStartProbe, Labels
  <2> QED
    BY Zenon, <1>1, <1>c, <2>1 DEF maybeStartProbe
<1>2. CASE acquireShared(t)
  <2>1. thread[t].pc = "acquire" /\ UNCHANGED pending
    BY Zenon, <1>2 DEF acquireShared
  <2>2. CASE ~closed /\ shared # None /\ Claim(t) /\ NoCallback
    <3>1. shared \in Conn /\ claimed \in BOOLEAN
      BY Zenon, <2>2, <1>a DEF PoolTypes
    <3>2. Others(t) /\ thread'[t].pc = "register"
      BY Zenon, <2>2, <1>b, <3>1, ClaimThread
    <3> QED
      BY Zenon, <1>c, <2>1, <2>2, <3>2 DEF NoCallback
  <2>3. ASSUME NEW c \in Conn, NEW s \in BOOLEAN, NoCallback,
               thread' = [thread EXCEPT ![t] =
                            [@ EXCEPT !.pc = "wait", !.conn = c,
                                      !.state = current, !.starter = s]]
        PROVE  TokenInv'
    <3>1. current \in Epoch
      BY Zenon, <1>a DEF PoolTypes
    <3>2. Others(t) /\ thread'[t].pc = "wait"
      BY Zenon, <2>3, <1>b, <3>1, WaitThread
    <3> QED
      BY Zenon, <1>c, <2>1, <2>3, <3>2 DEF NoCallback
  <2>4. connecting \in Conn \cup {None}
    BY Zenon, <1>a DEF PoolTypes
  <2> QED
    BY Zenon, <1>2, <1>c, <2>1, <2>2, <2>3, <2>4 DEF acquireShared
<1>3. CASE collectShared(t)
  <2>1. thread[t].pc = "wait" /\ UNCHANGED pending
    BY Zenon, <1>3 DEF collectShared
  <2>2. CASE LookAgain(t) /\ NoCallback
    BY Zenon, <1>b, <1>c, <2>1, <2>2, LookThread DEF NoCallback
  <2>3. CASE Collectable(t) /\ Claim(t) /\ NoCallback
    <3>1. shared \in Conn /\ claimed \in BOOLEAN
      BY Zenon, <2>3, <1>a DEF PoolTypes, Collectable
    <3>2. Others(t) /\ thread'[t].pc = "register"
      BY Zenon, <2>3, <1>b, <3>1, ClaimThread
    <3> QED
      BY Zenon, <1>c, <2>1, <2>3, <3>2 DEF NoCallback
  <2> QED
    BY Zenon, <1>3, <1>c, <2>1, <2>2, <2>3 DEF collectShared
<1>4. CASE waitCancelled(t)
  <2>1. thread[t].pc = "wait" /\ UNCHANGED pending
    BY Zenon, <1>4 DEF waitCancelled
  <2>2. CASE LookAgain(t) /\ NoCallback
    BY Zenon, <1>b, <1>c, <2>1, <2>2, LookThread DEF NoCallback
  <2> QED
    BY Zenon, <1>4, <1>c, <2>1, <2>2 DEF waitCancelled
<1>5. CASE register(t)
  <2>1. thread[t].pc = "register" /\ Holds(t)
    BY Zenon, <1>5 DEF register, Holds
  <2>2. CASE Return(t) /\ callback(t[1], "error") /\ UNCHANGED pending
    BY Zenon, <1>c, <2>1, <2>2
  <2>3. CASE /\ pending' = [pending EXCEPT ![t] =
                   [conn |-> thread[t].conn, silent |-> TRUE, sent |-> FALSE,
                    retry |-> /\ t[2] = 1
                              /\ options.retryReadError
                              /\ ~thread[t].created]]
             /\ Goto(t, "write") /\ NoCallback
    <3>1. Others(t) /\ thread'[t].pc = "write"
      BY Zenon, <2>3, <1>b, GotoThread DEF Labels
    <3>2. Apart(t)
      BY Zenon, <2>3, <3>1, <1>a, ApartFrame
    <3>3. pending'[t] \in PendingQuery /\ (pending'[t].retry => t[2] = 1)
      <4> DEFINE r == /\ t[2] = 1 /\ options.retryReadError /\ ~thread[t].created
                 p == [conn |-> thread[t].conn, silent |-> TRUE, sent |-> FALSE, retry |-> r]
      <4>1. thread[t].conn \in Conn
        <5>1. thread[t].conn \in Conn \cup {None}
          BY <1>b DEF Goroutine
        <5> QED
          BY Zenon, <2>1, <5>1 DEF UseInv, Use
      <4>2. r \in BOOLEAN
        BY Zenon
      <4>3. p \in PendingQuery /\ p.retry = r
        BY Zenon, <4>1, <4>2 DEF PendingQuery
      <4>4. pending' = [pending EXCEPT ![t] = p]
        BY Zenon, <2>3
      <4> HIDE DEF p
      <4> QED
        BY Zenon, <4>3, <4>4, <1>b
    <3>4. Holds(t)'
      BY Zenon, <3>3, MultiplexerAssumption DEF Holds
    <3> QED
      BY Zenon, <2>1, <2>3, <3>1, <3>2, <3>3, <3>4, TokenStays DEF NoCallback
  <2> QED
    BY Zenon, <1>5, <2>2, <2>3 DEF register
<1>6. CASE writeSucceeds(t)
  <2>1. thread[t].pc = "write" /\ UNCHANGED calls /\ Others(t) /\ thread'[t].pc = "idle"
    BY Zenon, <1>6, <1>b, ReturnThread DEF writeSucceeds
  <2>2. Apart(t)
    BY Zenon, <1>6, <2>1, <1>a, ApartFrame DEF writeSucceeds
  <2>3. /\ pending'[t] = None <=> pending[t] = None
        /\ pending'[t] # None => pending'[t].retry = pending[t].retry
    <3>1. CASE pending[t] = None
      BY Zenon, <3>1, <1>6, <1>b DEF writeSucceeds
    <3>2. CASE pending[t] # None
      <4> DEFINE p == [pending[t] EXCEPT !.sent = TRUE]
      <4>1. p \in PendingQuery /\ p.retry = pending[t].retry
        <5>1. pending[t] \in PendingQuery
          BY Zenon, <3>2, <1>b
        <5> QED
          BY <5>1 DEF PendingQuery
      <4>2. pending' = [pending EXCEPT ![t] = p]
        BY Zenon, <3>2, <1>6 DEF writeSucceeds
      <4> HIDE DEF p
      <4> QED
        BY Zenon, <3>2, <4>1, <4>2, <1>b, MultiplexerAssumption
    <3> QED
      BY Zenon, <3>1, <3>2
  <2>4. Holds(t)' <=> Holds(t)
    BY Zenon, <2>1, <2>3 DEF Holds
  <2> QED
    BY Zenon, <2>1, <2>2, <2>3, <2>4, TokenStays DEF TokenInv
<1>7. CASE writeFails(t)
  <2>1. thread[t].pc = "write" /\ pending' = [pending EXCEPT ![t] = None]
    BY Zenon, <1>7 DEF writeFails
  <2>2. pending'[t] = None
    BY Zenon, <2>1, <1>b
  <2>3. ASSUME Others(t) PROVE Apart(t)
    BY Zenon, <2>1, <2>3, <1>a, ApartFrame
  <2>4. CASE TakenByOther(t) /\ Return(t) /\ NoCallback
    <3>1. Others(t) /\ thread'[t].pc = "idle"
      BY Zenon, <2>4, <1>b, ReturnThread
    <3>2. ~Holds(t) /\ ~Holds(t)'
      BY Zenon, <2>1, <2>2, <2>4, <3>1 DEF Holds, TakenByOther
    <3> QED
      BY Zenon, <2>2, <2>3, <2>4, <3>1, <3>2, TokenStays DEF NoCallback
  <2>5. CASE /\ ~TakenByOther(t) /\ NoCallback
             /\ thread' = [thread EXCEPT ![t] =
                             [Idle EXCEPT !.pc = "acquire", !.first = FALSE]]
    <3>1. Others(t) /\ thread'[t].pc = "acquire"
      BY Zenon, <2>5, <1>b, RetryThread
    <3>2. Holds(t) /\ Holds(t)'
      BY Zenon, <2>5, <3>1 DEF Holds, TakenByOther
    <3> QED
      BY Zenon, <2>2, <2>3, <2>5, <3>1, <3>2, TokenStays DEF NoCallback
  <2>6. CASE ~TakenByOther(t) /\ Return(t) /\ callback(t[1], "error")
    <3>1. Others(t) /\ thread'[t].pc = "idle"
      BY Zenon, <2>6, <1>b, ReturnThread
    <3>2. Holds(t)
      BY Zenon, <2>6 DEF Holds, TakenByOther
    <3> QED
      BY Zenon, <2>2, <2>3, <2>6, <3>1, <3>2, TokenSpent DEF callback
  <2> QED
    BY Zenon, <1>7, <2>4, <2>5, <2>6 DEF writeFails
<1>8. CASE completeConnDone(t)
  <2>1. pending[t] # None /\ pending' = [pending EXCEPT ![t] = None]
    BY Zenon, <1>8 DEF completeConnDone
  <2>2. pending'[t] = None /\ Holds(t) /\ thread[t].pc \in {"idle", "write"}
    BY Zenon, <2>1, <1>b DEF Holds, TokenInv
  <2>3. CASE pending[t].retry /\ Goto(<<t[1], 2>>, "dispatch") /\ NoCallback
    BY Zenon, <2>1, <2>2, <2>3, TokenPassed
  <2>4. CASE (\E r : callback(t[1], r)) /\ UNCHANGED thread
    <3>1. Apart(t)
      BY Zenon, <2>1, <2>4, <1>a, ApartFrame DEF Others
    <3> QED
      BY Zenon, <2>2, <2>4, <3>1, TokenSpent DEF callback
  <2> QED
    BY Zenon, <1>8, <2>3, <2>4 DEF completeConnDone
<1>9. CASE completeContextDone(t)
  <2>1. pending[t] # None /\ pending' = [pending EXCEPT ![t] = None] /\ UNCHANGED thread
    BY Zenon, <1>9 DEF completeContextDone
  <2>2. pending'[t] = None /\ Holds(t) /\ thread[t].pc \in {"idle", "write"}
    BY Zenon, <2>1, <1>b DEF Holds, TokenInv
  <2>3. Apart(t)
    BY Zenon, <2>1, <1>a, ApartFrame DEF Others
  <2> QED
    BY Zenon, <1>9, <2>1, <2>2, <2>3, TokenSpent DEF completeContextDone, callback
<1>10. CASE exchangeSingle(t)
  BY Zenon, <1>10, <1>c DEF exchangeSingle
<1> QED
  BY Zenon, <1>1, <1>2, <1>3, <1>4, <1>5, <1>6, <1>7, <1>8, <1>9, <1>10 DEF exchangeStep

(* The exchanges begin, and answers come. *)
LEMMA OtherStepToken ==
  ASSUME TypeOK, TokenInv,
         \/ \E q \in Query : ExchangeAsync(q) \/ redispatch(q) \/ ctxDone(q)
         \/ \E c \in Conn : \/ readOther(c) \/ readFails(c) \/ demote(c) \/ dialEnds(c)
                            \/ \E t \in Thread : complete(c, t)
         \/ \E e \in Epoch : runReuseProbe(e)
         \/ Reset \/ resetPool \/ Close \/ closeOldState \/ recycle \/ probeIntervalPasses
  PROVE  TokenInv'
<1>a. ThreadTypes /\ PendingTypes
  BY Zenon, TypeParts
<1>b. thread \in [Thread -> Goroutine] /\ pending \in [Thread -> PendingQuery \cup {None}]
  BY Zenon, <1>a DEF ThreadTypes, PendingTypes
<1>c. ASSUME UNCHANGED <<thread, pending, calls>>
      PROVE  TokenInv'
  BY Zenon, <1>c DEF TokenInv, Holds
<1>d. ASSUME NEW t \in Thread, dispatch(t)
      PROVE  Others(t) /\ thread'[t].pc \in {"probe", "acquire"}
  <2>1. PICK p \in {"probe", "acquire"} : Goto(t, p)
    BY Zenon, <1>d DEF dispatch
  <2> QED
    BY Zenon, <1>b, <2>1, GotoThread DEF Labels
<1>1. ASSUME NEW q \in Query, ExchangeAsync(q)
      PROVE  TokenInv'
  <2> DEFINE t == <<q, 1>>
             u == <<q, 2>>
  <2>1. t \in Thread /\ u \in Thread /\ t # u
    BY Zenon, ThreadPairs
  <2>2. /\ thread[t].pc = "idle" /\ pending[t] = None
        /\ thread[u].pc = "idle" /\ pending[u] = None
    <3>1. t \in {q} \X {1, 2} /\ u \in {q} \X {1, 2}
      OBVIOUS
    <3> QED
      BY Zenon, <1>1, <3>1 DEF ExchangeAsync, Over
  <2>3. Others(t) /\ thread'[t].pc \in {"probe", "acquire"} /\ UNCHANGED pending
    BY Zenon, <1>1, <1>d, <2>1 DEF ExchangeAsync
  <2>4. Holds(t)' /\ \A v \in Thread \ {t} : Holds(v)' <=> Holds(v)
    BY Zenon, <2>3 DEF Holds, Others
  <2>5. \A v \in Thread : /\ thread'[v].pc \notin {"idle", "write"} => pending'[v] = None
                          /\ pending'[v] # None /\ pending'[v].retry => v[2] = 1
    BY Zenon, <2>2, <2>3 DEF Others, TokenInv
  <2>6. ASSUME NEW r \in Query
        PROVE  /\ calls'[r] = IF Holds(<<r, 1>>)' \/ Holds(<<r, 2>>)' THEN 0 ELSE 1
               /\ Holds(<<r, 1>>)' => ~Holds(<<r, 2>>)' /\ thread'[<<r, 2>>].pc = "idle"
    <3>1. <<r, 1>> \in Thread /\ <<r, 2>> \in Thread
      BY Zenon, ThreadPairs
    <3>2. CASE r = q
      <4>1. calls'[r] = 0
        BY Zenon, <1>1, <3>2 DEF ExchangeAsync, TypeOK
      <4>2. ~Holds(u)
        BY Zenon, <2>2 DEF Holds
      <4>3. ~Holds(u)' /\ thread'[u] = thread[u]
        BY Zenon, <2>1, <2>3, <2>4, <4>2 DEF Others
      <4> QED
        BY Zenon, <2>2, <2>4, <3>2, <4>1, <4>3
    <3>3. CASE r # q
      <4>1. <<r, 1>> # t /\ <<r, 2>> # t
        BY <3>3
      <4>2. calls'[r] = calls[r]
        BY Zenon, <1>1, <3>3 DEF ExchangeAsync, TypeOK
      <4>3. Holds(<<r, 1>>)' <=> Holds(<<r, 1>>)
        BY Zenon, <2>4, <3>1, <4>1
      <4>4. Holds(<<r, 2>>)' <=> Holds(<<r, 2>>)
        BY Zenon, <2>4, <3>1, <4>1
      <4>5. thread'[<<r, 2>>] = thread[<<r, 2>>]
        BY Zenon, <2>3, <3>1, <4>1 DEF Others
      <4> QED
        BY Zenon, <4>2, <4>3, <4>4, <4>5 DEF TokenInv
    <3> QED
      BY Zenon, <3>2, <3>3
  <2> QED
    BY Zenon, <2>5, <2>6 DEF TokenInv
<1>2. ASSUME NEW q \in Query, redispatch(q)
      PROVE  TokenInv'
  <2> DEFINE t == <<q, 2>>
  <2>1. t \in Thread /\ thread[t].pc = "dispatch" /\ UNCHANGED <<pending, calls>>
    BY Zenon, <1>2, ThreadPairs DEF redispatch
  <2>2. Others(t) /\ thread'[t].pc \in {"probe", "acquire"}
    BY Zenon, <1>2, <1>d, <2>1 DEF redispatch
  <2>3. Apart(t)
    BY Zenon, <1>a, <2>1, <2>2, ApartFrame
  <2>4. Holds(t) /\ Holds(t)' /\ pending'[t] = None
    BY Zenon, <2>1, <2>2 DEF Holds, TokenInv
  <2> HIDE DEF t
  <2> QED
    BY Zenon, <2>1, <2>2, <2>3, <2>4, TokenStays
<1>3. ASSUME NEW q \in Query, ctxDone(q)
      PROVE  TokenInv'
  BY Zenon, <1>3, <1>c DEF ctxDone
<1>4. ASSUME NEW c \in Conn, readOther(c)
      PROVE  TokenInv'
  <2>1. pending' = Heard(c) /\ UNCHANGED <<thread, calls>>
    BY Zenon, <1>4 DEF readOther
  <2>2. \A v \in Thread : /\ pending'[v] = None <=> pending[v] = None
                          /\ pending'[v] # None => pending'[v].retry = pending[v].retry
    BY Zenon, <1>a, <2>1, HeardTypes
  <2>3. \A v \in Thread : Holds(v)' <=> Holds(v)
    BY Zenon, <2>1, <2>2 DEF Holds
  <2>4. \A v \in Thread : /\ thread'[v].pc \notin {"idle", "write"} => pending'[v] = None
                          /\ pending'[v] # None /\ pending'[v].retry => v[2] = 1
    BY Zenon, <2>1, <2>2 DEF TokenInv
  <2>5. ASSUME NEW r \in Query
        PROVE  /\ calls'[r] = IF Holds(<<r, 1>>)' \/ Holds(<<r, 2>>)' THEN 0 ELSE 1
               /\ Holds(<<r, 1>>)' => ~Holds(<<r, 2>>)' /\ thread'[<<r, 2>>].pc = "idle"
    <3>1. Holds(<<r, 1>>)' <=> Holds(<<r, 1>>)
      BY Zenon, <2>3, ThreadPairs
    <3>2. Holds(<<r, 2>>)' <=> Holds(<<r, 2>>)
      BY Zenon, <2>3, ThreadPairs
    <3> QED
      BY Zenon, <2>1, <3>1, <3>2 DEF TokenInv
  <2> QED
    BY Zenon, <2>4, <2>5 DEF TokenInv
<1>5. ASSUME NEW c \in Conn, NEW t \in Thread, complete(c, t)
      PROVE  TokenInv'
  <2>1. pending[t] # None /\ pending' = [Heard(c) EXCEPT ![t] = None] /\ UNCHANGED thread
    BY Zenon, <1>5 DEF complete
  <2>2. pending'[t] = None /\ \A v \in Thread \ {t} : pending'[v] = Heard(c)[v]
    BY Zenon, <1>a, <2>1, HeardTypes
  <2>3. Apart(t)
    BY Zenon, <1>a, <2>1, <2>2, HeardTypes DEF Apart
  <2>4. Holds(t) /\ thread[t].pc \in {"idle", "write"}
    BY Zenon, <2>1 DEF Holds, TokenInv
  <2> QED
    BY Zenon, <1>5, <2>1, <2>2, <2>3, <2>4, TokenSpent DEF complete, callback
<1>6. ASSUME NEW c \in Conn, readFails(c) \/ demote(c) \/ dialEnds(c)
      PROVE  TokenInv'
  BY Zenon, <1>6, <1>c DEF readFails, demote, dialEnds, muxVars
<1>7. ASSUME NEW e \in Epoch, runReuseProbe(e)
      PROVE  TokenInv'
  BY Zenon, <1>7, <1>c DEF runReuseProbe, muxVars
<1>8. CASE Reset \/ resetPool \/ Close \/ closeOldState \/ recycle \/ probeIntervalPasses
  BY Zenon, <1>8, <1>c DEF Reset, resetPool, Close, closeOldState, recycle, probeIntervalPasses, muxVars
<1> QED
  BY Zenon, <1>1, <1>2, <1>3, <1>4, <1>5, <1>6, <1>7, <1>8

-----------------------------------------------------------------------------
Reads == {"reading", "demote"}

(* The shared connection of a state: open, of this state, not given up,    *)
(* with a reader if it was claimed; while there is one nobody dials.       *)
SharedInv ==
    /\ shared = None => ~claimed
    /\ shared # None =>
         /\ ~closed /\ connecting = None /\ shared \in open
         /\ dial[shared].pc = "done" /\ dial[shared].state = current
         /\ cause[shared] = None
         /\ claimed => reader[shared] \in Reads
         /\ ~claimed => reader[shared] = "none"

(* A state has at most one dial, and what is not dialled yet is unused.    *)
DialInv ==
    /\ connecting # None =>
         /\ ~closed /\ dial[connecting].pc = "dialing"
         /\ dial[connecting].state = current
    /\ \A c \in Conn :
         /\ dial[c].state <= current
         /\ dial[c].pc = "dialing" =>
              dial[c].owner \in Query /\ dial[c].err = None
         /\ dial[c].pc = "dialing" /\ dial[c].state = current /\ ~closed =>
              connecting = c
         /\ dial[c].pc # "done" =>
              reader[c] = "none" /\ c \notin open /\ cause[c] = None

(* The state in force is closed, or about to be, only by Close; a          *)
(* connection is closed with the state it was dialled for.                 *)
Past(e) == e <= current /\ (e = current => closed)

PastInv ==
    /\ \A e \in stateDone : Past(e)
    /\ \A old \in closing :
         /\ Past(old.state)
         /\ old.conn # None => /\ dial[old.conn].pc = "done"
                               /\ dial[old.conn].state = old.state

(* A connection that has had a reader is the shared one, or given up, or   *)
(* about to be closed with its state.                                      *)
ReadInv ==
    \A c \in Conn :
       /\ reader[c] # "twice"
       /\ reader[c] # "none" => \/ Tracked(c) \/ ConnCause(c) # None
                                \/ \E old \in closing : old.conn = c

PoolInv == SharedInv /\ DialInv /\ PastInv /\ ReadInv /\ NoLeak

LEMMA SamePool ==
  ASSUME PoolInv, UNCHANGED <<poolVars, reader>>
  PROVE  PoolInv'
<1>1. UNCHANGED <<closed, current, shared, claimed, connecting, stateDone, closing, dial, open, cause, reader>>
  BY Zenon DEF poolVars
<1>2. SharedInv'
  BY Zenon, <1>1 DEF PoolInv, SharedInv
<1>3. DialInv'
  BY Zenon, <1>1 DEF PoolInv, DialInv
<1>4. PastInv'
  BY Zenon, <1>1 DEF PoolInv, PastInv, Past
<1>5. ReadInv'
  BY Zenon, <1>1 DEF PoolInv, ReadInv, Tracked, ConnCause
<1>6. NoLeak'
  BY Zenon, <1>1 DEF PoolInv, NoLeak, Tracked
<1> QED
  BY Zenon, <1>2, <1>3, <1>4, <1>5, <1>6 DEF PoolInv

(* The first claim of the shared connection starts its reader. *)
LEMMA ClaimPool ==
  ASSUME PoolTypes, ReaderTypes, PoolInv, NEW t \in Thread, shared # None, Claim(t),
         UNCHANGED <<closed, current, shared, connecting, stateDone, closing, dial, open, cause>>
  PROVE  PoolInv'
<1>1. claimed' = TRUE /\ shared \in Conn /\ ~closed
  BY Zenon DEF Claim, PoolTypes, PoolInv, SharedInv
<1>2. /\ reader'[shared] \in Reads
      /\ \A c \in Conn \ {shared} : reader'[c] = reader[c]
  <2>1. CASE claimed
    BY Zenon, <2>1 DEF Claim, PoolInv, SharedInv
  <2>2. CASE ~claimed
    <3>1. reader[shared] = "none"
      BY Zenon, <2>2 DEF PoolInv, SharedInv
    <3>2. reader' = [reader EXCEPT ![shared] = "reading"]
      BY Zenon, <2>2, <3>1 DEF Claim
    <3> QED
      BY Zenon, <1>1, <3>2 DEF ReaderTypes, Reads
  <2> QED
    BY Zenon, <2>1, <2>2
<1>3. SharedInv'
  BY Zenon, <1>1, <1>2 DEF PoolInv, SharedInv
<1>4. DialInv'
  BY Zenon, <1>1, <1>2 DEF PoolInv, DialInv, SharedInv
<1>5. PastInv'
  BY Zenon DEF PoolInv, PastInv, Past
<1>6. ReadInv'
  <2>1. Tracked(shared)'
    BY Zenon, <1>1 DEF Tracked
  <2>2. \A c \in Conn : Tracked(c)' = Tracked(c) /\ ConnCause(c)' = ConnCause(c)
    BY Zenon DEF Tracked, ConnCause
  <2> QED
    BY Zenon, <1>1, <1>2, <2>1, <2>2 DEF PoolInv, ReadInv, Reads
<1>7. NoLeak'
  BY Zenon DEF PoolInv, NoLeak, Tracked
<1> QED
  BY Zenon, <1>3, <1>4, <1>5, <1>6, <1>7 DEF PoolInv

(* A dial begins in a state that has neither a connection nor a dial. *)
LEMMA NewDialPool ==
  ASSUME PoolTypes, PoolInv, ~closed, shared = None, connecting = None,
         NEW c \in Conn, NEW q \in Query, dial[c] = Unused, connecting' = c,
         dial' = [dial EXCEPT ![c] = [pc |-> "dialing", state |-> current,
                                      owner |-> q, err |-> None]],
         UNCHANGED <<closed, current, shared, claimed, stateDone, closing, open, cause, reader>>
  PROVE  PoolInv'
<1>1. /\ dial'[c] = [pc |-> "dialing", state |-> current, owner |-> q, err |-> None]
      /\ \A d \in Conn \ {c} : dial'[d] = dial[d]
  BY Zenon DEF PoolTypes
<1>2. /\ dial'[c].pc = "dialing" /\ dial'[c].state = current
      /\ dial'[c].owner = q /\ dial'[c].err = None
  BY <1>1
<1>3. dial[c].pc # "done" /\ c # None
  BY PoolAssumption DEF Unused
<1>4. SharedInv'
  BY Zenon DEF PoolInv, SharedInv
<1>5. DialInv'
  <2>1. current <= current
    BY DEF PoolTypes, Epoch
  <2>2. \A d \in Conn : ~(dial[d].pc = "dialing" /\ dial[d].state = current)
    BY Zenon, PoolAssumption DEF PoolInv, DialInv
  <2>3. reader[c] = "none" /\ c \notin open /\ cause[c] = None
    BY Zenon, <1>3 DEF PoolInv, DialInv
  <2>4. ASSUME NEW d \in Conn
        PROVE  /\ dial'[d].state <= current'
               /\ dial'[d].pc = "dialing" =>
                    dial'[d].owner \in Query /\ dial'[d].err = None
               /\ dial'[d].pc = "dialing" /\ dial'[d].state = current' /\ ~closed' =>
                    connecting' = d
               /\ dial'[d].pc # "done" =>
                    reader'[d] = "none" /\ d \notin open' /\ cause'[d] = None
    <3>1. CASE d = c
      BY Zenon, <1>2, <2>1, <2>3, <3>1
    <3>2. CASE d # c
      BY Zenon, <1>1, <2>2, <3>2 DEF PoolInv, DialInv
    <3> QED
      BY Zenon, <3>1, <3>2
  <2> QED
    BY Zenon, <1>2, <2>4 DEF DialInv
<1>6. PastInv'
  <2>1. \A old \in closing : old.conn # None => old.conn # c /\ old.conn \in Conn
    <3>1. \A old \in closing : old.conn \in Conn \cup {None}
      BY DEF PoolTypes
    <3> QED
      BY Zenon, <1>3, <3>1 DEF PoolInv, PastInv
  <2> QED
    BY ZenonT(40), <1>1, <2>1 DEF PoolInv, PastInv, Past
<1>7. ReadInv'
  <2>1. ASSUME NEW d \in Conn, reader'[d] # "none"
        PROVE  Tracked(d)' = Tracked(d) /\ ConnCause(d)' = ConnCause(d)
    <3>1. d # c
      BY Zenon, <1>3, <2>1 DEF PoolInv, DialInv
    <3>2. dial'[d] = dial[d] /\ cause'[d] = cause[d] /\ stateDone' = stateDone
      BY Zenon, <1>1, <3>1
    <3>3. ConnCause(d)' = ConnCause(d)
      BY ONLY Zenon, <3>2 DEF ConnCause
    <3> QED
      BY Zenon, <3>3 DEF Tracked
  <2> QED
    BY Zenon, <2>1 DEF PoolInv, ReadInv
<1>8. NoLeak'
  BY Zenon DEF PoolInv, NoLeak, Tracked
<1> QED
  BY Zenon, <1>4, <1>5, <1>6, <1>7, <1>8 DEF PoolInv

(* A connection is given up; the reader that gives it up ends. *)
LEMMA InvalidatePool ==
  ASSUME PoolTypes, ReaderTypes, PoolInv, NEW c \in Conn, NEW why \in {"read", "error", "ctx"},
         Invalidate(c, why),
         \/ UNCHANGED reader
         \/ reader[c] \in Reads /\ reader' = [reader EXCEPT ![c] = "end"]
  PROVE  PoolInv'
<1>1. UNCHANGED <<closed, current, connecting, stateDone, closing, dial>>
  BY Zenon DEF Invalidate
<1>2. /\ \A d \in Conn \ {c} : reader'[d] = reader[d]
      /\ reader'[c] = reader[c] \/ (reader[c] \in Reads /\ reader'[c] = "end")
  BY Zenon DEF ReaderTypes
<1>3. CASE Tracked(c)
  <2>1. /\ shared = c /\ ~closed /\ shared' = None /\ claimed' = FALSE
        /\ cause' = [cause EXCEPT ![c] = why] /\ open' = open \ {c}
    BY Zenon, <1>3 DEF Invalidate, removeConn, Tracked
  <2>2. cause'[c] = why /\ why # None /\ \A d \in Conn \ {c} : cause'[d] = cause[d]
    BY Zenon, <2>1, PoolAssumption DEF PoolTypes
  <2>3. dial[c].pc = "done" /\ c # None
    BY Zenon, <2>1, PoolAssumption DEF PoolInv, SharedInv
  <2>4. SharedInv'
    BY Zenon, <2>1 DEF SharedInv
  <2>5. DialInv'
    BY Zenon, <1>1, <1>2, <2>1, <2>2, <2>3 DEF PoolInv, DialInv
  <2>6. PastInv'
    BY Zenon, <1>1 DEF PoolInv, PastInv, Past
  <2>7. ReadInv'
    <3>1. ConnCause(c)' # None
      BY Zenon, <2>2 DEF ConnCause
    <3>2. ASSUME NEW d \in Conn \ {c}
          PROVE  ~Tracked(d) /\ ConnCause(d)' = ConnCause(d)
      <4>1. cause'[d] = cause[d] /\ dial' = dial /\ stateDone' = stateDone
        BY Zenon, <1>1, <2>2
      <4>2. ConnCause(d)' = ConnCause(d)
        BY ONLY Zenon, <4>1 DEF ConnCause
      <4> QED
        BY Zenon, <2>1, <4>2 DEF Tracked
    <3>3. reader'[c] # "twice"
      BY Zenon, <1>2 DEF PoolInv, ReadInv
    <3> QED
      BY Zenon, <1>1, <1>2, <3>1, <3>2, <3>3 DEF PoolInv, ReadInv
  <2>8. NoLeak'
    BY Zenon, <1>1, <2>1 DEF PoolInv, NoLeak, Tracked
  <2> QED
    BY Zenon, <2>4, <2>5, <2>6, <2>7, <2>8 DEF PoolInv
<1>4. CASE ~Tracked(c)
  <2>1. UNCHANGED <<shared, claimed, cause>> /\ open' = IF closed THEN open \ {c} ELSE open
    BY Zenon, <1>4 DEF Invalidate
  <2>2. shared # c
    BY Zenon, <1>4, PoolAssumption DEF Tracked, PoolInv, SharedInv
  <2>3. shared # None => shared \in Conn
    BY Zenon DEF PoolTypes
  <2>4. SharedInv'
    BY Zenon, <1>1, <1>2, <2>1, <2>2, <2>3 DEF PoolInv, SharedInv
  <2>5. DialInv'
    BY Zenon, <1>1, <1>2, <2>1 DEF PoolInv, DialInv, Reads
  <2>6. PastInv'
    BY Zenon, <1>1 DEF PoolInv, PastInv, Past
  <2>7. ReadInv'
    <3>1. \A d \in Conn : Tracked(d)' = Tracked(d) /\ ConnCause(d)' = ConnCause(d)
      BY Zenon, <1>1, <2>1 DEF Tracked, ConnCause
    <3>2. \A d \in Conn : reader'[d] # "twice" /\ (reader[d] = "none" => reader'[d] = "none")
      BY Zenon, <1>2 DEF PoolInv, ReadInv, Reads
    <3> QED
      BY Zenon, <1>1, <3>1, <3>2 DEF PoolInv, ReadInv
  <2>8. NoLeak'
    BY Zenon, <1>1, <2>1 DEF PoolInv, NoLeak, Tracked
  <2> QED
    BY Zenon, <2>4, <2>5, <2>6, <2>7, <2>8 DEF PoolInv
<1> QED
  BY Zenon, <1>3, <1>4

(* A query is over; a connection that is no longer shared is closed. *)
LEMMA ReleasePool ==
  ASSUME PoolTypes, PoolInv, NEW c \in Conn, Release(c), UNCHANGED reader
  PROVE  PoolInv'
<1>1. UNCHANGED <<closed, current, shared, claimed, connecting, stateDone, closing, dial, cause>>
  BY Zenon DEF Release
<1>2. open' \subseteq open /\ (Tracked(c) => c \in open <=> c \in open') /\ open \ {c} \subseteq open'
  BY Zenon DEF Release
<1>3. SharedInv'
  BY Zenon, <1>1, <1>2 DEF PoolInv, SharedInv, Tracked
<1>4. DialInv'
  BY Zenon, <1>1, <1>2 DEF PoolInv, DialInv
<1>5. PastInv'
  BY Zenon, <1>1 DEF PoolInv, PastInv, Past
<1>6. ReadInv'
  BY Zenon, <1>1 DEF PoolInv, ReadInv, Tracked, ConnCause
<1>7. NoLeak'
  BY Zenon, <1>1, <1>2 DEF PoolInv, NoLeak, Tracked
<1> QED
  BY Zenon, <1>3, <1>4, <1>5, <1>6, <1>7 DEF PoolInv

(* The reader that is about to give up the shared connection has a reader. *)
LEMMA DemotePool ==
  ASSUME PoolTypes, ReaderTypes, PoolInv, NEW c \in Conn, reader[c] \in Reads,
         reader' = [reader EXCEPT ![c] = "demote"], UNCHANGED poolVars
  PROVE  PoolInv'
<1>1. UNCHANGED <<closed, current, shared, claimed, connecting, stateDone, closing, dial, open, cause>>
  BY Zenon DEF poolVars
<1>2. reader'[c] = "demote" /\ \A d \in Conn \ {c} : reader'[d] = reader[d]
  BY Zenon DEF ReaderTypes
<1>3. SharedInv'
  <2>1. shared # None => shared \in Conn
    BY Zenon DEF PoolTypes
  <2>2. shared = c => claimed
    BY Zenon, PoolAssumption DEF PoolInv, SharedInv, Reads
  <2>3. shared = c => reader'[shared] \in Reads
    BY Zenon, <1>2 DEF Reads
  <2>4. shared # None /\ shared # c => reader'[shared] = reader[shared]
    BY Zenon, <1>2, <2>1
  <2> QED
    BY Zenon, <1>1, <2>2, <2>3, <2>4 DEF PoolInv, SharedInv
<1>4. DialInv'
  BY Zenon, <1>1, <1>2 DEF PoolInv, DialInv, Reads
<1>5. PastInv'
  BY Zenon, <1>1 DEF PoolInv, PastInv, Past
<1>6. ReadInv'
  <2>1. \A d \in Conn : Tracked(d)' = Tracked(d) /\ ConnCause(d)' = ConnCause(d)
    BY Zenon, <1>1 DEF Tracked, ConnCause
  <2>2. \A d \in Conn : reader'[d] # "twice" /\ (reader[d] = "none" => reader'[d] = "none")
    BY Zenon, <1>2 DEF PoolInv, ReadInv, Reads
  <2> QED
    BY Zenon, <1>1, <2>1, <2>2 DEF PoolInv, ReadInv
<1>7. NoLeak'
  BY Zenon, <1>1 DEF PoolInv, NoLeak, Tracked
<1> QED
  BY Zenon, <1>3, <1>4, <1>5, <1>6, <1>7 DEF PoolInv

(* The dial returns: its connection is shared only if its state is still   *)
(* in force, and then there is no other.                                   *)
LEMMA ConnectPool ==
  ASSUME PoolTypes, PoolInv, NEW c \in Conn, NEW err, NEW cancelled,
         connectSingle(c, err, cancelled), UNCHANGED reader
  PROVE  PoolInv'
<1> DEFINE gone == closed \/ dial[c].state # current
<1>1. /\ dial[c].pc = "dialing" /\ connecting' = IF gone THEN connecting ELSE None
      /\ UNCHANGED <<closed, current, claimed, stateDone, closing, cause>>
  BY Zenon DEF connectSingle
<1>2. PICK e : dial' = [dial EXCEPT ![c] = [dial[c] EXCEPT !.pc = "done", !.owner = None, !.err = e]]
  BY ZenonT(40) DEF connectSingle
<1>3. /\ dial'[c].pc = "done" /\ dial'[c].state = dial[c].state
      /\ \A d \in Conn \ {c} : dial'[d] = dial[d]
  <2>1. dial'[c] = [dial[c] EXCEPT !.pc = "done", !.owner = None, !.err = e]
    BY Zenon, <1>2 DEF PoolTypes
  <2>2. dial[c] \in Dial
    BY Zenon DEF PoolTypes
  <2>3. dial'[c].pc = "done" /\ dial'[c].state = dial[c].state
    BY <2>1, <2>2 DEF Dial
  <2> QED
    BY Zenon, <1>2, <2>3 DEF PoolTypes
<1>4. \/ UNCHANGED <<shared, open>>
      \/ ~gone /\ shared' = c /\ open' = open \cup {c}
  BY Zenon DEF connectSingle
<1>5. ~gone => connecting = c /\ shared = None
  BY Zenon, <1>1, PoolAssumption DEF PoolInv, DialInv, SharedInv
<1>6. reader[c] = "none" /\ cause[c] = None /\ c \notin open /\ c # None /\ shared # c
  BY Zenon, <1>1, PoolAssumption DEF PoolInv, DialInv, SharedInv
<1>7. SharedInv'
  <2>1. CASE UNCHANGED <<shared, open>>
    <3>1. shared # None => shared \in Conn \ {c} /\ connecting' = None
      BY Zenon, <1>1, <1>6 DEF PoolTypes, PoolInv, SharedInv
    <3> QED
      BY Zenon, <1>1, <1>3, <2>1, <3>1 DEF PoolInv, SharedInv
  <2>2. CASE ~gone /\ shared' = c /\ open' = open \cup {c}
    BY Zenon, <1>1, <1>3, <1>5, <1>6, <2>2 DEF PoolInv, SharedInv
  <2> QED
    BY Zenon, <1>4, <2>1, <2>2
<1>8. DialInv'
  <2>1. ASSUME NEW d \in Conn \ {c}
        PROVE  /\ dial'[d].state <= current'
               /\ dial'[d].pc = "dialing" =>
                    dial'[d].owner \in Query /\ dial'[d].err = None
               /\ dial'[d].pc = "dialing" /\ dial'[d].state = current' /\ ~closed' =>
                    connecting' = d
               /\ dial'[d].pc # "done" =>
                    reader'[d] = "none" /\ d \notin open' /\ cause'[d] = None
    <3>1. dial[d].pc = "dialing" /\ dial[d].state = current /\ ~closed => gone
      BY Zenon, <1>5 DEF PoolInv, DialInv
    <3>2. d \in open' => d \in open
      BY Zenon, <1>4
    <3> QED
      BY Zenon, <1>1, <1>3, <3>1, <3>2 DEF PoolInv, DialInv
  <2>2. dial'[c].state <= current'
    BY Zenon, <1>1, <1>3 DEF PoolInv, DialInv
  <2>3. connecting' # None => connecting \in Conn \ {c} /\ connecting' = connecting
    <3>1. connecting = c => ~gone
      BY Zenon, <1>6 DEF PoolInv, DialInv
    <3> QED
      BY Zenon, <1>1, <3>1 DEF PoolTypes
  <2> QED
    BY Zenon, <1>1, <1>3, <2>1, <2>2, <2>3 DEF PoolInv, DialInv
<1>9. PastInv'
  <2>1. \A old \in closing : old.conn # None => old.conn \in Conn \ {c}
    <3>1. \A old \in closing : old.conn \in Conn \cup {None}
      BY DEF PoolTypes
    <3> QED
      BY Zenon, <1>1, <3>1 DEF PoolInv, PastInv
  <2> QED
    BY Zenon, <1>1, <1>3, <2>1 DEF PoolInv, PastInv, Past
<1>10. ReadInv'
  <2>1. ASSUME NEW d \in Conn, reader'[d] # "none"
        PROVE  (Tracked(d) => Tracked(d)') /\ ConnCause(d)' = ConnCause(d)
    <3>1. d # c
      BY Zenon, <1>6, <2>1
    <3>2. dial'[d] = dial[d] /\ cause'[d] = cause[d] /\ stateDone' = stateDone
      BY Zenon, <1>1, <1>3, <3>1
    <3>3. ConnCause(d)' = ConnCause(d)
      BY ONLY Zenon, <3>2 DEF ConnCause
    <3>4. Tracked(d) => Tracked(d)'
      BY Zenon, <1>1, <1>4, <1>5, PoolAssumption DEF Tracked
    <3> QED
      BY Zenon, <3>3, <3>4
  <2> QED
    BY Zenon, <1>1, <2>1 DEF PoolInv, ReadInv
<1>11. NoLeak'
  <2>1. ASSUME NEW d \in open'
        PROVE  Tracked(d)' \/ \E old \in closing' : old.conn = d
    <3>1. CASE UNCHANGED <<shared, open>>
      BY Zenon, <1>1, <2>1, <3>1 DEF PoolInv, NoLeak, Tracked
    <3>2. CASE ~gone /\ shared' = c /\ open' = open \cup {c}
      <4>1. CASE d = c
        BY Zenon, <1>1, <3>2, <4>1 DEF Tracked
      <4>2. CASE d # c
        <5>1. d \in open /\ d # None
          BY Zenon, <2>1, <3>2, <4>2, PoolAssumption DEF PoolTypes
        <5> QED
          BY Zenon, <1>1, <1>5, <3>2, <5>1 DEF PoolInv, NoLeak, Tracked
      <4> QED
        BY Zenon, <4>1, <4>2
    <3> QED
      BY Zenon, <1>4, <3>1, <3>2
  <2> QED
    BY Zenon, <2>1 DEF NoLeak
<1> QED
  BY Zenon, <1>7, <1>8, <1>9, <1>10, <1>11 DEF PoolInv

(* Reset and Close put the state aside, to be closed without the lock. *)
LEMMA SwapPool ==
  ASSUME PoolTypes, PoolInv, poolClose \/ poolReset, UNCHANGED reader
  PROVE  PoolInv'
<1>1. CASE UNCHANGED <<closed, current, shared, claimed, connecting, closing, stateDone, dial, open, cause>>
  BY Zenon, <1>1, SamePool DEF poolVars
<1>2. CASE /\ ~closed /\ shared' = None /\ claimed' = FALSE /\ connecting' = None
           /\ closing' = closing \cup {[state |-> current, conn |-> shared]}
           /\ UNCHANGED <<stateDone, dial, open, cause>>
           /\ \/ current' = current + 1 /\ closed' = FALSE
              \/ current' = current /\ closed' = TRUE
  <2> DEFINE now == [state |-> current, conn |-> shared]
  <2>1. now.state = current /\ now.conn = shared
    BY Zenon
  <2>2. current \in Nat /\ stateDone \subseteq Nat /\ (\A d \in Conn : dial[d].state \in Nat)
        /\ \A old \in closing : old.state \in Nat
    BY DEF PoolTypes, Dial, Epoch
  <2>3. \A n \in Nat : (n < current => n < current' /\ n <= current') /\ (n = current => n <= current' /\ (n = current' => closed'))
        /\ (n <= current => n <= current')
    BY ONLY <1>2, <2>2
  <2>4. \A n \in Nat : n <= current /\ n # current => n # current'
    BY ONLY <1>2, <2>2
  <2>5. \A n \in Nat : n <= current => Past(n)'
    BY Zenon, <2>3, <2>4, <1>2 DEF Past
  <2>6. closing' = closing \cup {now}
    BY Zenon, <1>2
  <2>7. SharedInv'
    BY Zenon, <1>2 DEF SharedInv
  <2>8. DialInv'
    <3>1. \A d \in Conn : dial[d].state <= current' /\ (dial[d].state = current' => closed')
      BY Zenon, <2>2, <2>5 DEF PoolInv, DialInv, Past
    <3> QED
      BY Zenon, <1>2, <3>1 DEF PoolInv, DialInv
  <2>9. PastInv'
    <3>1. \A e \in stateDone' : Past(e)'
      BY Zenon, <1>2, <2>2, <2>5 DEF PoolInv, PastInv, Past
    <3>2. \A old \in closing : Past(old.state)'
      BY Zenon, <2>2, <2>5 DEF PoolInv, PastInv, Past
    <3>3. current <= current
      BY ONLY <2>2
    <3>4. current <= current' /\ (current = current' => closed')
      BY Zenon, <2>2, <2>5, <3>3 DEF Past
    <3>5. now.conn # None => dial[now.conn].pc = "done" /\ dial[now.conn].state = now.state
      BY Zenon, <2>1 DEF PoolInv, SharedInv
    <3>6. ASSUME NEW old \in closing'
          PROVE  /\ old.state <= current' /\ (old.state = current' => closed')
                 /\ old.conn # None => dial'[old.conn].pc = "done" /\ dial'[old.conn].state = old.state
      <4>1. CASE old \in closing
        BY Zenon, <1>2, <3>2, <4>1 DEF PoolInv, PastInv, Past
      <4>2. CASE old = now
        BY Zenon, <1>2, <2>1, <3>4, <3>5, <4>2
      <4> QED
        BY Zenon, <2>6, <3>6, <4>1, <4>2
    <3> HIDE DEF now
    <3> QED
      BY Zenon, <3>1, <3>6 DEF PastInv, Past
  <2>10. ReadInv'
    <3>1. \A d \in Conn : Tracked(d) => \E old \in closing' : old.conn = d
      BY Zenon, <2>1, <2>6 DEF Tracked
    <3>2. \A d \in Conn : ConnCause(d)' = ConnCause(d)
      BY Zenon, <1>2 DEF ConnCause
    <3> QED
      BY Zenon, <1>2, <3>1, <3>2 DEF PoolInv, ReadInv
  <2>11. NoLeak'
    <3>1. \A d \in open : Tracked(d) => \E old \in closing' : old.conn = d
      BY Zenon, <2>1, <2>6 DEF Tracked
    <3> QED
      BY Zenon, <1>2, <3>1 DEF PoolInv, NoLeak
  <2> QED
    BY Zenon, <2>7, <2>8, <2>9, <2>10, <2>11 DEF PoolInv
<1>3. closed \in BOOLEAN
  BY Zenon DEF PoolTypes
<1> QED
  BY Zenon, <1>1, <1>2, <1>3 DEF poolClose, poolReset

(* Reset or Close goes on to close what it put aside. *)
LEMMA CloseStatePool ==
  ASSUME PoolTypes, PoolInv, NEW old \in closing, closeState(old), UNCHANGED reader
  PROVE  PoolInv'
<1>1. /\ closing' = closing \ {old} /\ stateDone' = stateDone \cup {old.state}
      /\ open' = open \ {old.conn}
      /\ UNCHANGED <<closed, current, shared, claimed, connecting, dial, cause>>
  BY Zenon DEF closeState
<1>2. Past(old.state) /\ (old.conn # None => dial[old.conn].pc = "done" /\ dial[old.conn].state = old.state)
  BY Zenon DEF PoolInv, PastInv
<1>3. SharedInv'
  <2>1. shared # None => shared # old.conn
    BY Zenon, <1>2 DEF PoolInv, SharedInv, Past
  <2> QED
    BY Zenon, <1>1, <2>1 DEF PoolInv, SharedInv
<1>4. DialInv'
  BY Zenon, <1>1 DEF PoolInv, DialInv
<1>5. PastInv'
  BY Zenon, <1>1, <1>2 DEF PoolInv, PastInv, Past
<1>6. ReadInv'
  <2>1. ASSUME NEW c \in Conn, reader[c] # "none"
        PROVE  Tracked(c)' \/ ConnCause(c)' # None \/ \E o \in closing' : o.conn = c
    <3>1. Tracked(c) => Tracked(c)'
      BY Zenon, <1>1 DEF Tracked
    <3>2. ConnCause(c) # None => ConnCause(c)' # None
      BY Zenon, <1>1, PoolAssumption DEF ConnCause
    <3>3. c = old.conn => ConnCause(c)' # None
      <4>1. c = old.conn => dial'[c].state \in stateDone'
        BY Zenon, <1>1, <1>2, PoolAssumption
      <4>2. "error" # None
        BY Zenon, PoolAssumption
      <4> QED
        BY Zenon, <4>1, <4>2 DEF ConnCause
    <3>4. \A o \in closing : o.conn = c => c = old.conn \/ o \in closing'
      BY Zenon, <1>1
    <3> QED
      BY Zenon, <2>1, <3>1, <3>2, <3>3, <3>4 DEF PoolInv, ReadInv
  <2> QED
    BY Zenon, <2>1 DEF PoolInv, ReadInv
<1>7. NoLeak'
  BY Zenon, <1>1 DEF PoolInv, NoLeak, Tracked
<1> QED
  BY Zenon, <1>3, <1>4, <1>5, <1>6, <1>7 DEF PoolInv

(* What is collected is neither shared nor open, nor to be closed. *)
LEMMA RecyclePool ==
  ASSUME PoolTypes, ReaderTypes, PoolInv, recycle
  PROVE  PoolInv'
<1>1. UNCHANGED <<closed, current, shared, claimed, connecting, stateDone, closing, open>>
  BY Zenon DEF recycle
<1>2. \A c \in Conn \ Garbage : dial'[c] = dial[c] /\ cause'[c] = cause[c] /\ reader'[c] = reader[c]
  BY Zenon DEF recycle
<1>3. \A c \in Garbage : dial'[c] = Unused /\ cause'[c] = None /\ reader'[c] = "none"
  BY Zenon DEF recycle, Garbage
<1>4. \A c \in Garbage : c \in Conn /\ c \notin open /\ c # shared /\ dial[c].pc = "done"
                       /\ \A old \in closing : old.conn # c
  BY Zenon DEF Garbage
<1>5. Unused.pc = "unused" /\ Unused.state = 0
  BY Zenon DEF Unused
<1>6. 0 <= current
  BY DEF PoolTypes, Epoch
<1>7. SharedInv'
  <2>1. shared # None => shared \in Conn \ Garbage
    BY Zenon, <1>4 DEF PoolTypes
  <2> QED
    BY Zenon, <1>1, <1>2, <2>1 DEF PoolInv, SharedInv
<1>8. DialInv'
  <2>1. connecting # None => connecting \in Conn \ Garbage
    BY Zenon, <1>4 DEF PoolTypes, PoolInv, DialInv
  <2>2. ASSUME NEW c \in Garbage
        PROVE  /\ dial'[c].state <= current' /\ dial'[c].pc # "dialing"
               /\ reader'[c] = "none" /\ c \notin open' /\ cause'[c] = None
    BY Zenon, <1>1, <1>3, <1>4, <1>5, <1>6
  <2>3. ASSUME NEW c \in Conn \ Garbage
        PROVE  /\ dial'[c].state <= current'
               /\ dial'[c].pc = "dialing" => dial'[c].owner \in Query /\ dial'[c].err = None
               /\ dial'[c].pc = "dialing" /\ dial'[c].state = current' /\ ~closed' => connecting' = c
               /\ dial'[c].pc # "done" => reader'[c] = "none" /\ c \notin open' /\ cause'[c] = None
    BY Zenon, <1>1, <1>2 DEF PoolInv, DialInv
  <2>4. connecting' # None => ~closed' /\ dial'[connecting'].pc = "dialing" /\ dial'[connecting'].state = current'
    BY Zenon, <1>1, <1>2, <2>1 DEF PoolInv, DialInv
  <2> QED
    BY Zenon, <2>2, <2>3, <2>4 DEF DialInv
<1>9. PastInv'
  <2>1. \A old \in closing : old.conn # None => old.conn \in Conn \ Garbage
    <3>1. \A old \in closing : old.conn \in Conn \cup {None}
      BY DEF PoolTypes
    <3> QED
      BY Zenon, <1>4, <3>1
  <2> QED
    BY Zenon, <1>1, <1>2, <2>1 DEF PoolInv, PastInv, Past
<1>10. ReadInv'
  <2>1. ASSUME NEW c \in Conn \ Garbage
        PROVE  Tracked(c)' = Tracked(c) /\ ConnCause(c)' = ConnCause(c)
    BY Zenon, <1>1, <1>2 DEF Tracked, ConnCause
  <2>2. ASSUME NEW c \in Conn \ Garbage
        PROVE  /\ reader'[c] # "twice"
               /\ reader'[c] # "none" => \/ Tracked(c)' \/ ConnCause(c)' # None
                                         \/ \E old \in closing' : old.conn = c
    BY Zenon, <1>1, <1>2, <2>1 DEF PoolInv, ReadInv
  <2> QED
    BY Zenon, <1>3, <2>2 DEF ReadInv
<1>11. NoLeak'
  BY Zenon, <1>1 DEF PoolInv, NoLeak, Tracked
<1> QED
  BY Zenon, <1>7, <1>8, <1>9, <1>10, <1>11 DEF PoolInv

-----------------------------------------------------------------------------
(* The pool through the steps of the goroutines ... *)
LEMMA ThreadStepPool ==
  ASSUME TypeOK, UseInv, PoolInv, NEW t \in Thread, exchangeStep(t) \/ exchangeSingle(t)
  PROVE  PoolInv'
<1>a. PoolTypes /\ ReaderTypes /\ t[1] \in Query
  BY Zenon, TypeParts, ThreadPairs
<1>b. thread[t].pc \in {"register", "write"} => thread[t].conn \in Conn
  <2>1. thread[t].conn \in Conn \cup {None}
    BY DEF TypeOK, Goroutine
  <2> QED
    BY Zenon, <2>1 DEF UseInv, Use
<1>c. pending[t] # None => pending[t].conn \in Conn
  <2>1. pending[t] # None => pending[t] \in PendingQuery
    BY Zenon DEF TypeOK
  <2> QED
    BY <2>1 DEF PendingQuery
<1>1. CASE UNCHANGED <<poolVars, reader>>
  BY Zenon, <1>1, SamePool
<1>2. CASE acquireShared(t)
  <2>1. UNCHANGED <<closed, current, shared, stateDone, closing, open, cause>>
    BY Zenon, <1>2 DEF acquireShared
  <2>2. CASE ~closed /\ shared # None /\ Claim(t) /\ UNCHANGED <<connecting, dial>>
    BY Zenon, <1>a, <2>1, <2>2, ClaimPool
  <2>3. CASE UNCHANGED <<claimed, connecting, dial, reader>>
    BY Zenon, <1>1, <2>1, <2>3 DEF poolVars
  <2>4. CASE /\ ~closed /\ shared = None /\ connecting = None /\ UNCHANGED <<claimed, reader>>
             /\ \E c \in Conn :
                  /\ dial[c] = Unused
                  /\ connecting' = c
                  /\ dial' = [dial EXCEPT ![c] =
                       [pc |-> "dialing", state |-> current, owner |-> t[1], err |-> None]]
    BY Zenon, <1>a, <2>1, <2>4, NewDialPool
  <2> QED
    BY Zenon, <1>2, <2>2, <2>3, <2>4 DEF acquireShared
<1>3. CASE collectShared(t)
  <2>1. UNCHANGED <<closed, current, shared, connecting, stateDone, closing, dial, open, cause>>
    BY Zenon, <1>3 DEF collectShared
  <2>2. CASE UNCHANGED <<claimed, reader>>
    BY Zenon, <1>1, <2>1, <2>2 DEF poolVars
  <2>3. CASE Collectable(t) /\ Claim(t)
    BY Zenon, <1>a, <2>1, <2>3, ClaimPool DEF Collectable
  <2> QED
    BY Zenon, <1>3, <2>2, <2>3 DEF collectShared
<1>4. CASE register(t)
  <2>1. CASE Release(thread[t].conn) /\ UNCHANGED reader
    BY Zenon, <1>4, <1>a, <1>b, <2>1, ReleasePool DEF register
  <2> QED
    BY Zenon, <1>4, <1>1, <2>1 DEF register
<1>5. CASE writeFails(t)
  BY Zenon, <1>5, <1>a, <1>b, InvalidatePool DEF writeFails
<1>6. CASE completeContextDone(t)
  <2>1. UNCHANGED reader /\ pending[t].conn \in Conn
        /\ (Release(pending[t].conn) \/ Invalidate(pending[t].conn, "ctx"))
    BY Zenon, <1>6, <1>c DEF completeContextDone
  <2> QED
    BY Zenon, <1>a, <2>1, ReleasePool, InvalidatePool
<1>7. maybeStartProbe(t) \/ waitCancelled(t) \/ writeSucceeds(t) \/ completeConnDone(t) \/ exchangeSingle(t)
        => UNCHANGED <<poolVars, reader>>
  BY Zenon DEF maybeStartProbe, waitCancelled, writeSucceeds, completeConnDone, exchangeSingle
<1> QED
  BY Zenon, <1>1, <1>2, <1>3, <1>4, <1>5, <1>6, <1>7 DEF exchangeStep

(* ... and through all others. *)
LEMMA OtherStepPool ==
  ASSUME TypeOK, PoolInv,
         \/ \E q \in Query : ExchangeAsync(q) \/ redispatch(q) \/ ctxDone(q)
         \/ \E c \in Conn : \/ readOther(c) \/ readFails(c) \/ demote(c) \/ dialEnds(c)
                            \/ \E t \in Thread : complete(c, t)
         \/ \E e \in Epoch : runReuseProbe(e)
         \/ Reset \/ resetPool \/ Close \/ closeOldState \/ recycle \/ probeIntervalPasses
  PROVE  PoolInv'
<1>a. PoolTypes /\ ReaderTypes
  BY Zenon, TypeParts
<1>1. ASSUME NEW q \in Query, ExchangeAsync(q) \/ redispatch(q) \/ ctxDone(q)
      PROVE  PoolInv'
  BY Zenon, <1>1, SamePool DEF ExchangeAsync, redispatch, ctxDone
<1>2. ASSUME NEW c \in Conn, readOther(c) PROVE PoolInv'
  BY Zenon, <1>2, SamePool DEF readOther
<1>3. ASSUME NEW c \in Conn, readFails(c) PROVE PoolInv'
  <2>1. reader[c] \in Reads
    BY Zenon, <1>3 DEF readFails, Reads
  <2>2. \/ Invalidate(c, "read") /\ reader' = [reader EXCEPT ![c] = "end"]
        \/ UNCHANGED poolVars /\ reader' = [reader EXCEPT ![c] = "demote"]
    BY Zenon, <1>3 DEF readFails
  <2> QED
    BY Zenon, <1>a, <2>1, <2>2, InvalidatePool, DemotePool
<1>4. ASSUME NEW c \in Conn, demote(c) PROVE PoolInv'
  <2>1. reader[c] \in Reads
    BY Zenon, <1>4 DEF demote, Reads
  <2>2. Invalidate(c, "read") /\ reader' = [reader EXCEPT ![c] = "end"]
    BY Zenon, <1>4 DEF demote
  <2> QED
    BY Zenon, <1>a, <2>1, <2>2, InvalidatePool
<1>5. ASSUME NEW c \in Conn, dialEnds(c) PROVE PoolInv'
  BY Zenon, <1>5, <1>a, ConnectPool DEF dialEnds, muxVars
<1>6. ASSUME NEW c \in Conn, NEW t \in Thread, complete(c, t) PROVE PoolInv'
  BY Zenon, <1>6, <1>a, ReleasePool DEF complete
<1>7. ASSUME NEW e \in Epoch, runReuseProbe(e) PROVE PoolInv'
  BY Zenon, <1>7, SamePool DEF runReuseProbe, muxVars
<1>8. CASE Reset
  BY Zenon, <1>8, SamePool DEF Reset, muxVars
<1>9. CASE resetPool
  BY Zenon, <1>9, <1>a, SwapPool DEF resetPool, muxVars
<1>10. CASE Close
  BY Zenon, <1>10, <1>a, SwapPool DEF Close, muxVars
<1>11. CASE closeOldState
  BY Zenon, <1>11, <1>a, CloseStatePool DEF closeOldState, muxVars
<1>12. CASE recycle
  BY Zenon, <1>12, <1>a, RecyclePool
<1>13. CASE probeIntervalPasses
  BY Zenon, <1>13, SamePool DEF probeIntervalPasses, muxVars
<1> QED
  BY Zenon, <1>1, <1>2, <1>3, <1>4, <1>5, <1>6, <1>7, <1>8, <1>9, <1>10, <1>11, <1>12, <1>13

-----------------------------------------------------------------------------
(* The dial runs in the context of the goroutine that started it, and if   *)
(* it failed for that context, the context is done.                        *)
Owner(t) ==
    thread[t].pc = "wait" /\ thread[t].starter =>
       /\ dial[thread[t].conn].pc = "dialing" => dial[thread[t].conn].owner = t[1]
       /\ dial[thread[t].conn].err = "ctx" => ctx[t[1]] # "live"

OwnerInv == \A t \in Thread : Owner(t)

(* A goroutine that stays, or stops using a connection, while its dial and *)
(* its context stay as they were and no reader is forgotten.               *)
LEMMA UseKept ==
  ASSUME NEW t \in Thread, Use(t), Owner(t),
         thread'[t] = thread[t] \/ thread'[t].pc \notin {"wait", "register", "write"},
         pending'[t] # None => pending[t] # None /\ pending'[t].conn = pending[t].conn,
         thread[t].pc = "wait" => dial'[thread[t].conn] = dial[thread[t].conn],
         thread[t].pc \in {"register", "write"} /\ reader[thread[t].conn] # "none" =>
           reader'[thread[t].conn] # "none",
         pending[t] # None /\ reader[pending[t].conn] # "none" =>
           reader'[pending[t].conn] # "none",
         thread[t].pc = "wait" /\ ctx'[t[1]] = "live" => ctx[t[1]] = "live"
  PROVE  Use(t)' /\ Owner(t)'
<1>1. pending'[t] # None => reader'[pending'[t].conn] # "none"
  BY Zenon DEF Use
<1>2. CASE thread'[t] = thread[t]
  <2>1. thread[t].pc = "wait" =>
          thread'[t].conn # None /\ dial'[thread'[t].conn].pc # "unused"
    BY Zenon, <1>2 DEF Use
  <2>2. thread[t].pc \in {"register", "write"} =>
          thread'[t].conn # None /\ reader'[thread'[t].conn] # "none"
    BY Zenon, <1>2 DEF Use
  <2>3. Use(t)'
    BY Zenon, <1>1, <1>2, <2>1, <2>2 DEF Use
  <2>4. Owner(t)'
    BY Zenon, <1>2 DEF Owner
  <2> QED
    BY Zenon, <2>3, <2>4
<1>3. CASE thread'[t].pc \notin {"wait", "register", "write"}
  BY Zenon, <1>1, <1>3 DEF Use, Owner
<1> QED
  BY Zenon, <1>2, <1>3

(* The same for all goroutines but those in a set. *)
LEMMA UseFrame ==
  ASSUME UseInv, OwnerInv, TypeOK, NEW S \in SUBSET Thread,
         \A u \in Thread \ S : \/ thread'[u] = thread[u]
                               \/ thread'[u].pc \notin {"wait", "register", "write"},
         \A u \in Thread \ S : pending'[u] # None =>
              pending[u] # None /\ pending'[u].conn = pending[u].conn,
         \A c \in Conn : dial[c].pc # "unused" => dial'[c] = dial[c],
         \A c \in Conn : reader[c] # "none" => reader'[c] # "none",
         \A u \in Thread \ S : thread[u].pc = "wait" /\ ctx'[u[1]] = "live" => ctx[u[1]] = "live",
         \A t \in S : Use(t)' /\ Owner(t)'
  PROVE  UseInv' /\ OwnerInv'
<1>1. ASSUME NEW u \in Thread \ S
      PROVE  Use(u)' /\ Owner(u)'
  <2>1. Use(u) /\ Owner(u)
    BY Zenon DEF UseInv, OwnerInv
  <2>2. thread[u].conn \in Conn \cup {None}
    BY DEF TypeOK, Goroutine
  <2>3. pending[u] # None => pending[u].conn \in Conn
    <3>1. PendingTypes /\ u \in Thread
      BY Zenon, TypeParts
    <3>2. pending[u] # None => pending[u] \in PendingQuery
      BY Zenon, <3>1 DEF PendingTypes
    <3> QED
      BY <3>2 DEF PendingQuery
  <2>4. thread[u].pc = "wait" => dial'[thread[u].conn] = dial[thread[u].conn]
    BY Zenon, <2>1, <2>2 DEF Use
  <2>5. thread[u].pc \in {"register", "write"} /\ reader[thread[u].conn] # "none" =>
           reader'[thread[u].conn] # "none"
    BY Zenon, <2>1, <2>2 DEF Use
  <2>6. pending[u] # None /\ reader[pending[u].conn] # "none" => reader'[pending[u].conn] # "none"
    BY Zenon, <2>3
  <2> QED
    BY Zenon, <2>1, <2>4, <2>5, <2>6, UseKept
<1>2. \A u \in Thread : Use(u)' /\ Owner(u)'
  BY Zenon, <1>1
<1> QED
  BY Zenon, <1>2 DEF UseInv, OwnerInv

LEMMA ThreadStepUse ==
  ASSUME TypeOK, PoolInv, UseInv, OwnerInv, NEW t \in Thread, exchangeStep(t) \/ exchangeSingle(t)
  PROVE  UseInv' /\ OwnerInv'
<1>a. PoolTypes /\ ReaderTypes /\ PendingTypes /\ CallTypes /\ t[1] \in Query /\ <<t[1], 2>> \in Thread
  BY Zenon, TypeParts, ThreadPairs
<1>b. thread \in [Thread -> Goroutine]
  BY Zenon DEF TypeOK
<1>c. Use(t)
  BY Zenon DEF UseInv
<1>d. thread[t].conn \in Conn \cup {None}
  BY <1>b DEF Goroutine
<1>e. ASSUME NoCallback \/ \E r : callback(t[1], r)
      PROVE  \A q \in Query : ctx'[q] = "live" => ctx[q] = "live"
  BY Zenon, <1>a, <1>e DEF NoCallback, callback, CallTypes
<1>f. ASSUME Return(t) \/ LookAgain(t) \/ (\E p \in Labels \ {"wait", "register", "write"} : Goto(t, p))
      PROVE  \A u \in Thread : \/ thread'[u] = thread[u]
                               \/ thread'[u].pc \notin {"wait", "register", "write"}
  BY Zenon, <1>b, <1>f, ReturnThread, LookThread, GotoThread DEF Others
<1>g. ASSUME pending' = pending \/ pending' = [pending EXCEPT ![t] = None]
      PROVE  \A u \in Thread : pending'[u] # None =>
                pending[u] # None /\ pending'[u].conn = pending[u].conn
  BY Zenon, <1>a, <1>g DEF PendingTypes
(* Nothing but the goroutine moves, and it moves on from its connection. *)
<1>h. ASSUME \A u \in Thread : \/ thread'[u] = thread[u]
                               \/ thread'[u].pc \notin {"wait", "register", "write"},
             pending' = pending \/ pending' = [pending EXCEPT ![t] = None],
             NoCallback \/ \E r : callback(t[1], r),
             UNCHANGED <<dial, reader>>
      PROVE  UseInv' /\ OwnerInv'
  <2>1. \A u \in Thread : u[1] \in Query
    BY Zenon, ThreadPairs
  <2>2. \A u \in Thread : ctx'[u[1]] = "live" => ctx[u[1]] = "live"
    BY Zenon, <1>e, <1>h, <2>1
  <2>3. \A u \in Thread : pending'[u] # None => pending[u] # None /\ pending'[u].conn = pending[u].conn
    BY Zenon, <1>g, <1>h
  <2>4. {} \in SUBSET Thread
    BY Zenon
  <2> QED
    BY Zenon, <1>h, <2>2, <2>3, <2>4, UseFrame
<1>i. ASSUME shared # None, Claim(t), NoCallback, UNCHANGED <<dial, pending>>
      PROVE  UseInv' /\ OwnerInv'
  <2>1. shared \in Conn /\ claimed \in BOOLEAN
    BY Zenon, <1>a, <1>i DEF PoolTypes
  <2>2. thread'[t].pc = "register" /\ thread'[t].conn = shared /\ Others(t)
    BY Zenon, <1>b, <1>i, <2>1, ClaimThread
  <2>3. reader'[shared] # "none" /\ \A c \in Conn : reader[c] # "none" => reader'[c] # "none"
    <3>1. CASE claimed
      BY Zenon, <1>i, <3>1 DEF Claim, PoolInv, SharedInv, Reads
    <3>2. CASE ~claimed
      <4>1. reader' = [reader EXCEPT ![shared] = IF reader[shared] = "none" THEN "reading" ELSE "twice"]
        BY Zenon, <1>i, <3>2 DEF Claim
      <4> QED
        BY Zenon, <1>a, <2>1, <4>1 DEF ReaderTypes
    <3> QED
      BY Zenon, <3>1, <3>2
  <2>4. Use(t)' /\ Owner(t)'
    <3>1. pending'[t] # None => reader'[pending'[t].conn] # "none"
      <4>1. pending[t] # None => pending[t].conn \in Conn
        <5>1. pending[t] # None => pending[t] \in PendingQuery
          BY Zenon, <1>a DEF PendingTypes
        <5> QED
          BY <5>1 DEF PendingQuery
      <4> QED
        BY Zenon, <1>c, <1>i, <2>3, <4>1 DEF Use
    <3> QED
      BY Zenon, <2>1, <2>2, <2>3, <3>1, PoolAssumption DEF Use, Owner
  <2>5. \A u \in Thread : u[1] \in Query
    BY Zenon, ThreadPairs
  <2>6. ctx' = ctx
    BY Zenon, <1>i DEF NoCallback
  <2>7. \A u \in Thread \ {t} : thread'[u] = thread[u] /\ pending'[u] = pending[u]
    BY Zenon, <1>i, <2>2 DEF Others
  <2>8. {t} \in SUBSET Thread
    BY Zenon
  <2> QED
    BY Zenon, <1>i, <2>3, <2>4, <2>6, <2>7, <2>8, UseFrame
<1>1. CASE maybeStartProbe(t)
  <2>1. Goto(t, "single") /\ UNCHANGED <<poolVars, pending, ctx, calls, result, reader>>
    BY Zenon, <1>1 DEF maybeStartProbe
  <2>2. "single" \in Labels \ {"wait", "register", "write"}
    BY Zenon DEF Labels
  <2> QED
    BY Zenon, <1>f, <1>h, <2>1, <2>2 DEF NoCallback, poolVars
<1>2. CASE acquireShared(t)
  <2>1. UNCHANGED <<pending, closed, current, shared>>
    BY Zenon, <1>2 DEF acquireShared
  <2>2. CASE Return(t) /\ callback(t[1], "error") /\ UNCHANGED <<dial, reader>>
    BY Zenon, <1>f, <1>h, <2>1, <2>2
  <2>3. CASE shared # None /\ Claim(t) /\ NoCallback /\ UNCHANGED <<connecting, dial>>
    BY Zenon, <1>i, <2>1, <2>3
  <2>4. CASE /\ connecting # None /\ ~closed
             /\ thread' = [thread EXCEPT ![t] =
                           [@ EXCEPT !.pc = "wait", !.conn = connecting,
                                     !.state = current, !.starter = FALSE]]
             /\ NoCallback /\ UNCHANGED <<claimed, connecting, dial, reader>>
    <3>1. connecting \in Conn /\ current \in Epoch /\ dial[connecting].pc = "dialing"
      BY Zenon, <1>a, <2>4 DEF PoolTypes, PoolInv, DialInv
    <3>2. /\ thread'[t].pc = "wait" /\ thread'[t].conn = connecting
          /\ thread'[t].starter = FALSE /\ Others(t)
      BY Zenon, <1>b, <2>4, <3>1, WaitThread
    <3>3. Use(t)' /\ Owner(t)'
      BY Zenon, <1>c, <2>1, <2>4, <3>1, <3>2, PoolAssumption DEF Use, Owner
    <3>4. {t} \in SUBSET Thread
      BY Zenon
    <3> QED
      BY Zenon, <2>1, <2>4, <3>2, <3>3, <3>4, UseFrame DEF Others, NoCallback
  <2>5. ASSUME NEW c \in Conn, dial[c] = Unused, NoCallback, UNCHANGED reader,
               thread' = [thread EXCEPT ![t] =
                                [@ EXCEPT !.pc = "wait", !.conn = c,
                                          !.state = current, !.starter = TRUE]],
               dial' = [dial EXCEPT ![c] =
                      [pc |-> "dialing", state |-> current, owner |-> t[1],
                       err |-> None]]
        PROVE  UseInv' /\ OwnerInv'
    <3>1. current \in Epoch
      BY Zenon, <1>a DEF PoolTypes
    <3>2. thread'[t].pc = "wait" /\ thread'[t].conn = c /\ Others(t)
      BY Zenon, <1>b, <2>5, <3>1, WaitThread
    <3>3. /\ dial'[c].pc = "dialing" /\ dial'[c].owner = t[1] /\ dial'[c].err = None
          /\ \A d \in Conn : dial[d].pc # "unused" => dial'[d] = dial[d]
      <4>1. dial'[c] = [pc |-> "dialing", state |-> current, owner |-> t[1], err |-> None]
        BY Zenon, <1>a, <2>5 DEF PoolTypes
      <4>2. dial[c].pc = "unused"
        BY ONLY <2>5 DEF Unused
      <4>3. \A d \in Conn \ {c} : dial'[d] = dial[d]
        BY Zenon, <1>a, <2>5 DEF PoolTypes
      <4>4. dial'[c].pc = "dialing" /\ dial'[c].owner = t[1] /\ dial'[c].err = None
        BY ONLY <4>1
      <4> QED
        BY Zenon, <4>2, <4>3, <4>4
    <3>4. Use(t)' /\ Owner(t)'
      BY Zenon, <1>c, <2>1, <2>5, <3>2, <3>3, PoolAssumption DEF Use, Owner
    <3>5. {t} \in SUBSET Thread
      BY Zenon
    <3> QED
      BY Zenon, <2>1, <2>5, <3>2, <3>3, <3>4, <3>5, UseFrame DEF Others, NoCallback
  <2> QED
    BY Zenon, <1>2, <2>2, <2>3, <2>4, <2>5 DEF acquireShared
<1>3. CASE collectShared(t)
  <2>1. UNCHANGED <<dial, pending, shared>>
    BY Zenon, <1>3 DEF collectShared
  <2>2. CASE (\E r : Return(t) /\ callback(t[1], r)) /\ UNCHANGED reader
    BY Zenon, <1>f, <1>h, <2>1, <2>2
  <2>3. CASE LookAgain(t) /\ NoCallback /\ UNCHANGED reader
    BY Zenon, <1>f, <1>h, <2>1, <2>3
  <2>4. CASE Collectable(t) /\ Claim(t) /\ NoCallback
    BY Zenon, <1>i, <2>1, <2>4 DEF Collectable
  <2> QED
    BY Zenon, <1>3, <2>2, <2>3, <2>4 DEF collectShared
<1>4. CASE waitCancelled(t)
  <2>1. UNCHANGED <<dial, pending, reader>>
    BY Zenon, <1>4 DEF waitCancelled, poolVars
  <2>2. (Return(t) /\ \E r : callback(t[1], r)) \/ (LookAgain(t) /\ NoCallback)
    BY Zenon, <1>4 DEF waitCancelled
  <2> QED
    BY Zenon, <1>f, <1>h, <2>1, <2>2
<1>5. CASE register(t)
  <2>1. UNCHANGED reader /\ thread[t].pc = "register"
    BY Zenon, <1>5 DEF register
  <2>2. CASE Release(thread[t].conn) /\ Return(t) /\ callback(t[1], "error") /\ UNCHANGED pending
    BY Zenon, <1>f, <1>h, <2>1, <2>2 DEF Release
  <2>3. CASE /\ Goto(t, "write") /\ NoCallback /\ UNCHANGED poolVars
             /\ \E b : pending' = [pending EXCEPT ![t] =
                  [conn |-> thread[t].conn, silent |-> TRUE, sent |-> FALSE, retry |-> b]]
    <3>1. "write" \in Labels
      BY Zenon DEF Labels
    <3>2. thread'[t].pc = "write" /\ thread'[t].conn = thread[t].conn /\ Others(t)
      BY Zenon, <1>b, <2>3, <3>1, GotoThread
    <3>3. pending'[t].conn = thread[t].conn /\ \A u \in Thread \ {t} : pending'[u] = pending[u]
      <4>1. PICK b : pending' = [pending EXCEPT ![t] =
                  [conn |-> thread[t].conn, silent |-> TRUE, sent |-> FALSE, retry |-> b]]
        BY Zenon, <2>3
      <4>2. pending'[t] = [conn |-> thread[t].conn, silent |-> TRUE, sent |-> FALSE, retry |-> b]
        BY Zenon, <1>a, <4>1 DEF PendingTypes
      <4>3. pending'[t].conn = thread[t].conn
        BY ONLY <4>2
      <4> QED
        BY Zenon, <1>a, <4>1, <4>3 DEF PendingTypes
    <3>4. Use(t)' /\ Owner(t)'
      BY Zenon, <1>c, <2>1, <3>2, <3>3 DEF Use, Owner
    <3>5. {t} \in SUBSET Thread /\ UNCHANGED <<dial, ctx>>
      BY Zenon, <2>3 DEF poolVars, NoCallback
    <3> QED
      BY Zenon, <2>1, <3>2, <3>3, <3>4, <3>5, UseFrame DEF Others
  <2> QED
    BY Zenon, <1>5, <2>2, <2>3 DEF register
<1>6. CASE writeSucceeds(t)
  <2>1. Return(t) /\ UNCHANGED <<dial, reader, ctx>>
    BY Zenon, <1>6 DEF writeSucceeds, poolVars
  <2>2. \A u \in Thread : pending'[u] # None => pending[u] # None /\ pending'[u].conn = pending[u].conn
    <3>1. pending' = [pending EXCEPT ![t] = IF pending[t] = None THEN None
                                            ELSE [pending[t] EXCEPT !.sent = TRUE]]
      BY Zenon, <1>6 DEF writeSucceeds
    <3>2. pending[t] # None => [pending[t] EXCEPT !.sent = TRUE].conn = pending[t].conn
      <4>1. pending[t] # None => pending[t] \in PendingQuery
        BY Zenon, <1>a DEF PendingTypes
      <4> QED
        BY <4>1 DEF PendingQuery
    <3> QED
      BY Zenon, <1>a, <3>1, <3>2 DEF PendingTypes
  <2>3. {} \in SUBSET Thread
    BY Zenon
  <2> QED
    BY Zenon, <1>f, <2>1, <2>2, <2>3, UseFrame
<1>7. CASE writeFails(t)
  <2>1. UNCHANGED <<dial, reader>> /\ pending' = [pending EXCEPT ![t] = None]
    BY Zenon, <1>7 DEF writeFails, Invalidate
  <2>2. CASE Return(t) /\ (NoCallback \/ callback(t[1], "error"))
    BY Zenon, <1>f, <1>h, <2>1, <2>2
  <2>3. CASE NoCallback /\ thread' = [thread EXCEPT ![t] =
                                       [Idle EXCEPT !.pc = "acquire", !.first = FALSE]]
    <3>1. Others(t) /\ thread'[t].pc = "acquire"
      BY Zenon, <1>b, <2>3, RetryThread
    <3> QED
      BY Zenon, <1>h, <2>1, <2>3, <3>1 DEF Others
  <2> QED
    BY Zenon, <1>7, <2>2, <2>3 DEF writeFails
<1>8. CASE completeConnDone(t)
  <2>1. UNCHANGED <<dial, reader>> /\ pending' = [pending EXCEPT ![t] = None]
    BY Zenon, <1>8 DEF completeConnDone, poolVars
  <2>2. CASE Goto(<<t[1], 2>>, "dispatch") /\ NoCallback
    <3>1. "dispatch" \in Labels
      BY Zenon DEF Labels
    <3>2. Others(<<t[1], 2>>) /\ thread'[<<t[1], 2>>].pc = "dispatch"
      BY Zenon, <1>a, <1>b, <2>2, <3>1, GotoThread
    <3> QED
      BY Zenon, <1>h, <2>1, <2>2, <3>2 DEF Others
  <2>3. CASE (\E r : callback(t[1], r)) /\ UNCHANGED thread
    BY Zenon, <1>h, <2>1, <2>3
  <2> QED
    BY Zenon, <1>8, <2>2, <2>3 DEF completeConnDone
<1>9. CASE completeContextDone(t)
  <2>1. /\ UNCHANGED <<thread, reader>> /\ pending' = [pending EXCEPT ![t] = None]
        /\ callback(t[1], "ctx")
    BY Zenon, <1>9 DEF completeContextDone
  <2>2. UNCHANGED dial
    BY Zenon, <1>9 DEF completeContextDone, Release, Invalidate
  <2> QED
    BY Zenon, <1>h, <2>1, <2>2
<1>10. CASE exchangeSingle(t)
  <2>1. Return(t) /\ (\E r : callback(t[1], r)) /\ UNCHANGED <<dial, reader, pending>>
    BY Zenon, <1>10 DEF exchangeSingle, poolVars
  <2> QED
    BY Zenon, <1>f, <1>h, <2>1
<1> QED
  BY Zenon, <1>1, <1>2, <1>3, <1>4, <1>5, <1>6, <1>7, <1>8, <1>9, <1>10 DEF exchangeStep

-----------------------------------------------------------------------------
(* The dial ends: in the context of its starter, whichever that is now. *)
LEMMA DialEndsUse ==
  ASSUME TypeOK, PoolInv, UseInv, OwnerInv, NEW c \in Conn, dialEnds(c)
  PROVE  UseInv' /\ OwnerInv'
<1>1. PICK err \in {None, "error"} : connectSingle(c, err, ctx[dial[c].owner] # "live")
  BY Zenon DEF dialEnds
<1>2. UNCHANGED <<thread, pending, ctx, reader>>
  BY Zenon DEF dialEnds, muxVars
<1>3. PICK dialErr : /\ dialErr = "ctx" => ctx[dial[c].owner] # "live"
                     /\ dial' = [dial EXCEPT
                          ![c].pc = "done", ![c].owner = None,
                          ![c].err = IF dialErr = None /\ (closed \/ dial[c].state # current)
                                       THEN "error" ELSE dialErr]
  <2> DEFINE gone == closed \/ dial[c].state # current
  <2> DEFINE done == {e \in {"ctx", "error"} :
                   \/ e = "ctx" /\ ctx[dial[c].owner] # "live"
                   \/ e = "error" /\ dial[c].state \in stateDone}
  <2>1. PICK e \in IF done # {} THEN done ELSE {err} :
           dial' = [dial EXCEPT
                 ![c].pc = "done", ![c].owner = None,
                 ![c].err = IF e = None /\ gone THEN "error" ELSE e]
    BY Zenon, <1>1 DEF connectSingle
  <2>2. "ctx" # None /\ "ctx" # "error"
    BY Zenon, PoolAssumption
  <2>3. e = "ctx" => e \in done
    BY Zenon, <1>1, <2>1, <2>2
  <2> QED
    BY Zenon, <2>1, <2>2, <2>3
<1>4. dial[c].pc = "dialing" /\ dial[c] \in Dial /\ dial \in [Conn -> Dial]
  BY Zenon, <1>1 DEF connectSingle, TypeOK
<1>5. /\ dial'[c].pc = "done" /\ (dial'[c].err = "ctx" => dialErr = "ctx")
      /\ \A d \in Conn \ {c} : dial'[d] = dial[d]
  <2> DEFINE h == [dial[c] EXCEPT !.pc = "done", !.owner = None,
                     !.err = IF dialErr = None /\ (closed \/ dial[c].state # current)
                               THEN "error" ELSE dialErr]
  <2>1. dial' = [dial EXCEPT ![c] = h]
    BY Zenon, <1>3
  <2>2. h.pc = "done" /\ (h.err = "ctx" => dialErr = "ctx")
    BY <1>4 DEF Dial
  <2> HIDE DEF h
  <2> QED
    BY Zenon, <1>4, <2>1, <2>2
<1>6. ASSUME NEW u \in Thread
      PROVE  Use(u)' /\ Owner(u)'
  <2>1. Use(u) /\ Owner(u)
    BY Zenon DEF UseInv, OwnerInv
  <2>2. thread[u].conn \in Conn \cup {None}
    BY DEF TypeOK, Goroutine
  <2>3. CASE thread[u].pc = "wait" /\ thread[u].conn = c
    <3>1. thread[u].starter /\ dial'[c].err = "ctx" => ctx[u[1]] # "live"
      BY Zenon, <1>3, <1>4, <1>5, <2>1, <2>3 DEF Owner
    <3> QED
      BY Zenon, <1>2, <1>5, <2>1, <2>3, <3>1 DEF Use, Owner
  <2>4. CASE ~(thread[u].pc = "wait" /\ thread[u].conn = c)
    <3>1. thread[u].pc = "wait" => dial'[thread[u].conn] = dial[thread[u].conn]
      BY Zenon, <1>5, <2>1, <2>2, <2>4 DEF Use
    <3> QED
      BY Zenon, <1>2, <2>1, <3>1, UseKept
  <2> QED
    BY Zenon, <2>3, <2>4
<1> QED
  BY Zenon, <1>6 DEF UseInv, OwnerInv

(* Nothing a goroutine or a pending query refers to is collected. *)
LEMMA RecycleUse ==
  ASSUME TypeOK, UseInv, OwnerInv, recycle
  PROVE  UseInv' /\ OwnerInv'
<1>1. UNCHANGED <<thread, pending, ctx>>
  BY Zenon DEF recycle
<1>2. ASSUME NEW u \in Thread
      PROVE  Use(u)' /\ Owner(u)'
  <2>1. Use(u) /\ Owner(u)
    BY Zenon DEF UseInv, OwnerInv
  <2>2. thread[u].conn \in Conn \cup {None}
    BY DEF TypeOK, Goroutine
  <2>3. pending[u] # None => pending[u].conn \in Conn
    <3>1. pending[u] # None => pending[u] \in PendingQuery
      BY Zenon, TypeParts DEF PendingTypes
    <3> QED
      BY <3>1 DEF PendingQuery
  <2>4. thread[u].conn \notin Garbage /\ (pending[u] # None => pending[u].conn \notin Garbage)
    BY Zenon DEF Garbage
  <2>5. thread[u].pc = "wait" => dial'[thread[u].conn] = dial[thread[u].conn]
    BY Zenon, <2>1, <2>2, <2>4 DEF Use, recycle
  <2>6. thread[u].pc \in {"register", "write"} =>
           reader'[thread[u].conn] = reader[thread[u].conn]
    BY Zenon, <2>1, <2>2, <2>4 DEF Use, recycle
  <2>7. pending[u] # None => reader'[pending[u].conn] = reader[pending[u].conn]
    BY Zenon, <2>3, <2>4 DEF recycle
  <2> QED
    BY Zenon, <1>1, <2>1, <2>5, <2>6, <2>7, UseKept
<1> QED
  BY Zenon, <1>2 DEF UseInv, OwnerInv

LEMMA OtherStepUse ==
  ASSUME TypeOK, PoolInv, UseInv, OwnerInv,
         \/ \E q \in Query : ExchangeAsync(q) \/ redispatch(q) \/ ctxDone(q)
         \/ \E c \in Conn : \/ readOther(c) \/ readFails(c) \/ demote(c) \/ dialEnds(c)
                            \/ \E t \in Thread : complete(c, t)
         \/ \E e \in Epoch : runReuseProbe(e)
         \/ Reset \/ resetPool \/ Close \/ closeOldState \/ recycle \/ probeIntervalPasses
  PROVE  UseInv' /\ OwnerInv'
<1>a. ReaderTypes /\ PendingTypes /\ CallTypes
  BY Zenon, TypeParts
<1>b. thread \in [Thread -> Goroutine]
  BY Zenon DEF TypeOK
<1>c. {} \in SUBSET Thread /\ \A u \in Thread : u[1] \in Query
  BY Zenon, ThreadPairs
<1>d. ASSUME UNCHANGED <<dial, reader, thread, pending, ctx>>
      PROVE  UseInv' /\ OwnerInv'
  BY Zenon, <1>c, <1>d, UseFrame
<1>e. ASSUME NEW t \in Thread, dispatch(t)
      PROVE  \A u \in Thread : thread'[u] = thread[u] \/ thread'[u].pc \notin {"wait", "register", "write"}
  <2>1. PICK p \in {"probe", "acquire"} : Goto(t, p)
    BY Zenon, <1>e DEF dispatch
  <2>2. p \in Labels
    BY Zenon, <2>1 DEF Labels
  <2>3. thread'[t].pc = p /\ Others(t)
    BY Zenon, <1>b, <2>1, <2>2, GotoThread
  <2> QED
    BY Zenon, <2>1, <2>3 DEF Others
<1>1. ASSUME NEW q \in Query, ExchangeAsync(q) PROVE UseInv' /\ OwnerInv'
  <2>1. UNCHANGED <<dial, reader, pending>> /\ dispatch(<<q, 1>>) /\ ctx' = [ctx EXCEPT ![q] = "live"]
    BY Zenon, <1>1 DEF ExchangeAsync, poolVars
  <2>2. ASSUME NEW u \in Thread, thread[u].pc = "wait", ctx'[u[1]] = "live"
        PROVE  ctx[u[1]] = "live"
    <3>1. u \in {q} \X {1, 2} => thread[u].pc = "idle"
      BY Zenon, <1>1 DEF ExchangeAsync, Over
    <3>2. u[1] = q => u \in {q} \X {1, 2}
      BY DEF Thread
    <3> QED
      BY Zenon, <1>a, <1>c, <2>1, <2>2, <3>1, <3>2 DEF CallTypes
  <2>3. <<q, 1>> \in Thread
    BY Zenon, ThreadPairs
  <2> QED
    BY Zenon, <1>c, <1>e, <2>1, <2>2, <2>3, UseFrame
<1>2. ASSUME NEW q \in Query, redispatch(q) PROVE UseInv' /\ OwnerInv'
  <2>1. UNCHANGED <<dial, reader, pending, ctx>> /\ dispatch(<<q, 2>>)
    BY Zenon, <1>2 DEF redispatch, poolVars
  <2>2. <<q, 2>> \in Thread
    BY Zenon, ThreadPairs
  <2> QED
    BY Zenon, <1>c, <1>e, <2>1, <2>2, UseFrame
<1>3. ASSUME NEW q \in Query, ctxDone(q) PROVE UseInv' /\ OwnerInv'
  <2>1. UNCHANGED <<dial, reader, pending, thread>>
    BY Zenon, <1>3 DEF ctxDone, poolVars
  <2>2. \A r \in Query : ctx'[r] = "live" => ctx[r] = "live"
    BY Zenon, <1>3, <1>a DEF ctxDone, CallTypes
  <2> QED
    BY Zenon, <1>c, <2>1, <2>2, UseFrame
<1>f. ASSUME NEW c, \A u \in Thread : pending'[u] \in {None, Heard(c)[u]},
             UNCHANGED <<dial, reader, thread>>,
             \A r \in Query : ctx'[r] = "live" => ctx[r] = "live"
      PROVE  UseInv' /\ OwnerInv'
  <2>1. \A u \in Thread : pending'[u] # None => pending[u] # None /\ pending'[u].conn = pending[u].conn
    BY ZenonT(40), <1>f, <1>a, HeardTypes
  <2> QED
    BY Zenon, <1>c, <1>f, <2>1, UseFrame
<1>4. ASSUME NEW c \in Conn, readOther(c) PROVE UseInv' /\ OwnerInv'
  BY Zenon, <1>4, <1>f DEF readOther, poolVars
<1>5. ASSUME NEW c \in Conn, NEW t \in Thread, complete(c, t) PROVE UseInv' /\ OwnerInv'
  <2>1. UNCHANGED <<dial, reader, thread>> /\ pending' = [Heard(c) EXCEPT ![t] = None] /\ callback(t[1], "answer")
    BY Zenon, <1>5 DEF complete, Release
  <2>2. \A u \in Thread : pending'[u] \in {None, Heard(c)[u]}
    BY Zenon, <1>a, <2>1, HeardTypes
  <2>3. \A r \in Query : ctx'[r] = "live" => ctx[r] = "live"
    BY Zenon, <1>a, <1>c, <2>1 DEF callback, CallTypes
  <2> QED
    BY Zenon, <1>f, <2>1, <2>2, <2>3
<1>6. ASSUME NEW c \in Conn, readFails(c) \/ demote(c) PROVE UseInv' /\ OwnerInv'
  <2>1. UNCHANGED <<dial, thread, pending, ctx>>
    BY Zenon, <1>6 DEF readFails, demote, Invalidate, poolVars
  <2>2. reader' = [reader EXCEPT ![c] = "end"] \/ reader' = [reader EXCEPT ![c] = "demote"]
    BY Zenon, <1>6 DEF readFails, demote
  <2>3. \A d \in Conn : reader[d] # "none" => reader'[d] # "none"
    BY Zenon, <1>a, <2>2 DEF ReaderTypes
  <2> QED
    BY Zenon, <1>c, <2>1, <2>3, UseFrame
<1>7. ASSUME \/ \E e \in Epoch : runReuseProbe(e)
             \/ Reset \/ resetPool \/ Close \/ closeOldState \/ probeIntervalPasses
      PROVE  UseInv' /\ OwnerInv'
  <2>1. UNCHANGED <<muxVars, dial>>
    BY Zenon, <1>7 DEF runReuseProbe, Reset, resetPool, Close, closeOldState, probeIntervalPasses,
         poolVars, poolReset, poolClose, closeState
  <2> QED
    BY Zenon, <1>d, <2>1 DEF muxVars
<1> QED
  BY Zenon, <1>1, <1>2, <1>3, <1>4, <1>5, <1>6, <1>7, DialEndsUse, RecycleUse

-----------------------------------------------------------------------------
(* No probe is of an epoch that has not begun. *)
ProbeInv == ProbingIsProbed /\ \A e \in Epoch : e > probeEpoch => probes[e] = 0

LEMMA SameProbe ==
  ASSUME ProbeInv, UNCHANGED <<reuseState, probeEpoch, probes>>
  PROVE  ProbeInv'
  BY Zenon DEF ProbeInv, ProbingIsProbed

LEMMA StepProbe ==
  ASSUME TypeOK, TypeOK', ProbeInv, Step \/ recycle
  PROVE  ProbeInv'
<1>a. ProbeTypes /\ ProbeTypes'
  BY Zenon, TypeParts, TypePartsNext
<1>b. /\ probes \in [Epoch -> Nat] /\ probeEpoch \in Epoch /\ probeEpoch' \in Epoch
      /\ \A e \in Epoch : e \in Nat
  BY <1>a DEF ProbeTypes, Epoch
<1>1. ASSUME NEW t \in Thread, maybeStartProbe(t) PROVE ProbeInv'
  <2>1. CASE UNCHANGED <<reuseState, probes>>
    BY Zenon, <1>1, <2>1, SameProbe DEF maybeStartProbe
  <2>2. CASE reuseState # "probing" /\ reuseState' = "probing" /\ probes' = [probes EXCEPT ![probeEpoch] = @ + 1]
    <3>1. probeEpoch' = probeEpoch
      BY Zenon, <1>1 DEF maybeStartProbe
    <3>2. probes[probeEpoch] = 0
      BY Zenon, <2>2 DEF ProbeInv, ProbingIsProbed
    <3>3. probes'[probeEpoch] = 1
      BY ONLY <1>b, <2>2, <3>2
    <3>4. \A e \in Epoch : e > probeEpoch => probes'[e] = probes[e]
      BY ONLY <1>b, <2>2
    <3> QED
      BY Zenon, <2>2, <3>1, <3>3, <3>4 DEF ProbeInv, ProbingIsProbed
  <2> QED
    BY Zenon, <1>1, <2>1, <2>2 DEF maybeStartProbe
<1>2. ASSUME NEW c \in Conn, demote(c) PROVE ProbeInv'
  <2>1. UNCHANGED <<probeEpoch, probes>> /\ (reuseState' = "probing" <=> reuseState = "probing")
    BY Zenon, <1>2 DEF demote
  <2> QED
    BY Zenon, <2>1 DEF ProbeInv, ProbingIsProbed
<1>3. CASE Reset
  <2>1. CASE UNCHANGED <<probeEpoch, reuseState>>
    BY Zenon, <1>3, <2>1, SameProbe DEF Reset
  <2>2. CASE probeEpoch' = probeEpoch + 1 /\ reuseState' = "unknown"
    <3>1. probes' = probes
      BY Zenon, <1>3 DEF Reset
    <3>2. \A e \in Epoch : e > probeEpoch' => e > probeEpoch
      BY ONLY <1>b, <2>2
    <3>3. probeEpoch' > probeEpoch
      BY ONLY <1>b, <2>2
    <3> QED
      BY Zenon, <1>b, <2>2, <3>1, <3>2, <3>3 DEF ProbeInv, ProbingIsProbed
  <2> QED
    BY Zenon, <1>3, <2>1, <2>2 DEF Reset
<1>4. ASSUME NEW e \in Epoch, runReuseProbe(e) PROVE ProbeInv'
  <2>1. probes[e] > 0 /\ probes' = [probes EXCEPT ![e] = @ - 1] /\ UNCHANGED probeEpoch
    BY Zenon, <1>4 DEF runReuseProbe
  <2>2. CASE e # probeEpoch
    <3>1. reuseState' = reuseState
      BY Zenon, <1>4, <2>2 DEF runReuseProbe
    <3>2. ~(e > probeEpoch)
      <4>1. probes[e] # 0
        BY ONLY <1>b, <2>1
      <4> QED
        BY Zenon, <4>1 DEF ProbeInv
    <3>3. \A d \in Epoch : d > probeEpoch \/ d = probeEpoch => probes'[d] = probes[d]
      BY ONLY <1>b, <2>1, <2>2, <3>2
    <3> QED
      BY Zenon, <1>b, <2>1, <3>1, <3>3 DEF ProbeInv, ProbingIsProbed
  <2>3. CASE e = probeEpoch
    <3>1. reuseState' # "probing"
      BY Zenon, <1>4, <2>3 DEF runReuseProbe
    <3>2. probes[e] \in {0, 1}
      BY Zenon, <2>3 DEF ProbeInv, ProbingIsProbed
    <3>3. probes'[e] = 0
      BY ONLY <1>b, <2>1, <3>2
    <3>4. \A d \in Epoch : d > probeEpoch => probes'[d] = probes[d]
      BY ONLY <1>b, <2>1, <2>3
    <3> QED
      BY Zenon, <2>1, <2>3, <3>1, <3>3, <3>4 DEF ProbeInv, ProbingIsProbed
  <2> QED
    BY Zenon, <2>2, <2>3
<1>5. ASSUME NEW q \in Query, ExchangeAsync(q) \/ redispatch(q) \/ ctxDone(q) PROVE ProbeInv'
  BY Zenon, <1>5, SameProbe DEF ExchangeAsync, redispatch, ctxDone, probeVars
<1>6. ASSUME NEW t \in Thread,
             acquireShared(t) \/ collectShared(t) \/ waitCancelled(t) \/ register(t) \/ writeSucceeds(t)
      PROVE  ProbeInv'
  BY Zenon, <1>6, SameProbe DEF acquireShared, collectShared, waitCancelled, register, writeSucceeds, probeVars
<1>7. ASSUME NEW t \in Thread,
             writeFails(t) \/ completeConnDone(t) \/ completeContextDone(t) \/ exchangeSingle(t)
      PROVE  ProbeInv'
  BY Zenon, <1>7, SameProbe DEF writeFails, completeConnDone, completeContextDone, exchangeSingle, probeVars
<1>8. ASSUME NEW c \in Conn, readOther(c) \/ readFails(c) \/ dialEnds(c) \/ \E t \in Thread : complete(c, t)
      PROVE  ProbeInv'
  BY Zenon, <1>8, SameProbe DEF readOther, readFails, dialEnds, complete, probeVars
<1>9. ASSUME resetPool \/ Close \/ closeOldState \/ probeIntervalPasses \/ recycle
      PROVE  ProbeInv'
  BY Zenon, <1>9, SameProbe DEF resetPool, Close, closeOldState, probeIntervalPasses, recycle, probeVars
<1> QED
  BY Zenon, <1>1, <1>2, <1>3, <1>4, <1>5, <1>6, <1>7, <1>8, <1>9 DEF Step, exchangeStep

-----------------------------------------------------------------------------
(* The inductive invariant.  The types and the counters bound what there   *)
(* is; TokenInv says who has an exchange, PoolInv what a connection can    *)
(* be, UseInv and OwnerInv what the goroutines hold, ProbeInv the probes.  *)
IInv ==
    /\ TypeOK /\ CountInv /\ TokenInv /\ PoolInv
    /\ UseInv /\ OwnerInv /\ ProbeInv

LEMMA InitInv ==
  ASSUME Init
  PROVE  IInv
<1>1. options \in Scenario /\ PoolInit
  BY Zenon DEF Init
<1>2. /\ options.resets \in Nat /\ MaxResets \in Nat /\ 0 \in Epoch
  BY <1>1, MultiplexerAssumption, PoolAssumption DEF Epoch
<1>3. Idle \in Goroutine /\ Idle.pc = "idle" /\ Unused \in Dial /\ Unused.pc = "unused" /\ Unused.state = 0
  BY <1>2, IdleIsGoroutine DEF Idle, Unused, Dial
<1>4. /\ \A t \in Thread : thread[t] = Idle /\ pending[t] = None
      /\ \A q \in Query : calls[q] = 1
      /\ \A c \in Conn : reader[c] = "none" /\ dial[c] = Unused /\ cause[c] = None
      /\ \A e \in Epoch : probes[e] = 0
  BY Zenon, <1>1 DEF Init, PoolInit
<1>5. /\ closed = FALSE /\ current = 0 /\ shared = None /\ claimed = FALSE /\ connecting = None
      /\ stateDone = {} /\ closing = {} /\ open = {}
  BY Zenon, <1>1 DEF PoolInit
<1>6. /\ reuseState = "unknown" /\ probeEpoch = 0 /\ resetting = FALSE /\ resets = 0
      /\ demoteFailures = 0 /\ probedRecently = FALSE /\ exchanges = 0 /\ faults = 0
  BY Zenon DEF Init
<1>7. TypeOK
  <2>1. CallTypes
    BY DEF Init, CallTypes
  <2>2. PoolTypes
    BY Zenon, <1>1, <1>2, <1>3, <1>5 DEF PoolInit, PoolTypes
  <2>3. ReaderTypes
    BY Zenon DEF Init, ReaderTypes
  <2>4. ProbeTypes
    <3>1. probes \in [Epoch -> Nat] /\ demoteFailures \in Nat
      BY <1>6 DEF Init
    <3> QED
      BY Zenon, <1>2, <1>6, <3>1 DEF ProbeTypes
  <2>5. BoundTypes
    BY <1>1, <1>2, <1>6 DEF BoundTypes
  <2>6. ThreadTypes /\ PendingTypes
    BY Zenon, <1>3 DEF Init, ThreadTypes, PendingTypes
  <2> QED
    BY Zenon, <2>1, <2>2, <2>3, <2>4, <2>5, <2>6, TypeParts
<1>8. CountInv
  BY <1>5, <1>6 DEF CountInv
<1>9. TokenInv
  <2>1. \A t \in Thread : ~Holds(t) /\ thread[t].pc = "idle" /\ pending[t] = None
    BY Zenon, <1>3, <1>4 DEF Holds
  <2> QED
    BY Zenon, <1>4, <2>1, ThreadPairs DEF TokenInv
<1>10. PoolInv
  <2>1. SharedInv /\ PastInv /\ NoLeak
    BY Zenon, <1>5 DEF SharedInv, PastInv, NoLeak
  <2>2. 0 <= current
    BY <1>5
  <2>3. DialInv
    BY Zenon, <1>3, <1>4, <1>5, <2>2 DEF DialInv
  <2>4. ReadInv
    BY Zenon, <1>4 DEF ReadInv
  <2> QED
    BY Zenon, <2>1, <2>3, <2>4 DEF PoolInv
<1>11. UseInv /\ OwnerInv
  BY Zenon, <1>3, <1>4 DEF UseInv, Use, OwnerInv, Owner
<1>12. ProbeInv
  BY Zenon, <1>2, <1>4, <1>6 DEF ProbeInv, ProbingIsProbed
<1> QED
  BY Zenon, <1>7, <1>8, <1>9, <1>10, <1>11, <1>12 DEF IInv

LEMMA NextInv ==
  ASSUME IInv, [Next]_vars
  PROVE  IInv'
<1>a. TypeOK /\ CountInv /\ TokenInv /\ PoolInv /\ UseInv /\ OwnerInv /\ ProbeInv
  BY Zenon DEF IInv
<1>1. ASSUME NEW t \in Thread, exchangeStep(t) \/ exchangeSingle(t) PROVE IInv'
  <2>1. TypeOK' /\ CountInv' /\ TokenInv' /\ PoolInv' /\ UseInv' /\ OwnerInv'
    BY Zenon, <1>a, <1>1, ThreadStepTypes, ThreadStepToken, ThreadStepPool, ThreadStepUse
  <2>2. ProbeInv'
    BY Zenon, <1>a, <1>1, <2>1, StepProbe DEF Step
  <2> QED
    BY Zenon, <2>1, <2>2 DEF IInv
<1>2. ASSUME \/ \E q \in Query : ExchangeAsync(q) \/ redispatch(q) \/ ctxDone(q)
             \/ \E c \in Conn : \/ readOther(c) \/ readFails(c) \/ demote(c) \/ dialEnds(c)
                                \/ \E t \in Thread : complete(c, t)
             \/ \E e \in Epoch : runReuseProbe(e)
             \/ Reset \/ resetPool \/ Close \/ closeOldState \/ recycle \/ probeIntervalPasses
      PROVE  IInv'
  <2>1. TypeOK' /\ CountInv'
    BY Zenon, <1>a, <1>2, QueryStepTypes, ConnStepTypes, PoolStepTypes
  <2>2. TokenInv' /\ PoolInv' /\ UseInv' /\ OwnerInv'
    BY Zenon, <1>a, <1>2, OtherStepToken, OtherStepPool, OtherStepUse
  <2>3. ProbeInv'
    BY Zenon, <1>a, <1>2, <2>1, StepProbe DEF Step
  <2> QED
    BY Zenon, <2>1, <2>2, <2>3 DEF IInv
<1>3. CASE UNCHANGED vars
  <2>1. UNCHANGED <<poolVars, muxVars, probeVars, bounds>>
    BY Zenon, <1>3 DEF vars
  <2>2. UNCHANGED <<options, thread, pending, ctx, calls, result, reader, everRead, dial, reuseState,
                    probeEpoch, probes, resetting, resets, current>>
    BY Zenon, <2>1 DEF muxVars, probeVars, bounds, poolVars
  <2>3. TypeOK'
    BY Zenon, <1>a, <2>1, <2>2, SameTypes, TypeParts, TypePartsNext
  <2>4. CountInv' /\ ProbeInv' /\ PoolInv'
    BY Zenon, <1>a, <2>1, <2>2, SameCounts, SameProbe, SamePool
  <2>5. TokenInv' /\ UseInv' /\ OwnerInv'
    BY Zenon, <1>a, <2>2 DEF TokenInv, Holds, UseInv, Use, OwnerInv, Owner
  <2> QED
    BY Zenon, <2>3, <2>4, <2>5 DEF IInv
<1> QED
  BY Zenon, <1>1, <1>2, <1>3 DEF Next, Step

-----------------------------------------------------------------------------
(* The sources of a context error: the exchange's own context, or the      *)
(* connection it is pending on.                                            *)
CtxDoneFor(q) ==
  \/ ctx[q] # "live"
  \/ \E t \in {q} \X {1, 2} : pending[t] # None /\ ConnCause(pending[t].conn) = "ctx"

(* A callback with "ctx" has such a source. *)
LEMMA CallbackSource ==
  ASSUME CallTypes, NEW r \in Query, NEW x, callback(r, x), x = "ctx" => CtxDoneFor(r)
  PROVE  \A q \in Query : calls'[q] > calls[q] /\ result'[q] = "ctx" => CtxDoneFor(q)
<1> SUFFICES ASSUME NEW q \in Query, calls'[q] > calls[q], result'[q] = "ctx"
             PROVE  CtxDoneFor(q)
  OBVIOUS
<1>1. q = r
  BY DEF callback, CallTypes
<1>2. x = "ctx"
  BY Zenon, <1>1 DEF callback, CallTypes
<1> QED
  BY Zenon, <1>1, <1>2

LEMMA NextSource ==
  ASSUME IInv, [Next]_vars
  PROVE  [\A q \in Query : calls'[q] > calls[q] /\ result'[q] = "ctx" => CtxDoneFor(q)]_vars
<1> DEFINE Own == \A q \in Query : calls'[q] > calls[q] /\ result'[q] = "ctx" => CtxDoneFor(q)
<1>a. CallTypes /\ PoolTypes /\ PendingTypes /\ OwnerInv
  BY Zenon, TypeParts DEF IInv
<1>b. ASSUME UNCHANGED calls
      PROVE  Own
  BY <1>a, <1>b DEF CallTypes
<1>c. ASSUME NEW t \in Thread, NEW x, callback(t[1], x), x = "ctx" => CtxDoneFor(t[1])
      PROVE  Own
  BY Zenon, <1>a, <1>c, CallbackSource, ThreadPairs
<1>d. "error" # "ctx" /\ "answer" # "ctx"
  BY Zenon
<1>e. ASSUME NEW t \in Thread, ctx[t[1]] # "live"
      PROVE  CtxDoneFor(t[1])
  BY Zenon, <1>e DEF CtxDoneFor
<1>1. ASSUME NEW t \in Thread, exchangeStep(t) \/ exchangeSingle(t) PROVE Own
  <2>1. CASE maybeStartProbe(t) \/ writeSucceeds(t)
    BY Zenon, <1>b, <2>1 DEF maybeStartProbe, writeSucceeds
  <2>2. CASE acquireShared(t)
    BY Zenon, <1>b, <1>c, <1>d, <2>2 DEF acquireShared, NoCallback
  <2>3. CASE collectShared(t)
    <3>1. thread[t].starter => (dial[thread[t].conn].err = "ctx" => ctx[t[1]] # "live")
      BY Zenon, <1>a, <2>3 DEF OwnerInv, Owner, collectShared
    <3> QED
      BY Zenon, <1>b, <1>c, <1>d, <1>e, <2>3, <3>1 DEF collectShared, FailsCaller, NoCallback
  <2>4. CASE waitCancelled(t)
    BY Zenon, <1>b, <1>c, <1>d, <1>e, <2>4 DEF waitCancelled, NoCallback
  <2>5. CASE register(t) \/ writeFails(t)
    BY Zenon, <1>b, <1>c, <1>d, <2>5 DEF register, writeFails, NoCallback
  <2>6. CASE completeContextDone(t) \/ exchangeSingle(t)
    BY Zenon, <1>c, <1>e, <2>6 DEF completeContextDone, exchangeSingle
  <2>7. CASE completeConnDone(t)
    <3>1. pending[t] # None /\ t \in {t[1]} \X {1, 2}
      BY <2>7 DEF completeConnDone, Thread
    <3>2. ConnCause(pending[t].conn) = "ctx" => CtxDoneFor(t[1])
      BY Zenon, <3>1 DEF CtxDoneFor
    <3> QED
      BY Zenon, <1>a, <1>b, <1>c, <2>7, <3>2, ConnDoneTells DEF NoCallback
  <2> QED
    BY Zenon, <1>1, <2>1, <2>2, <2>3, <2>4, <2>5, <2>6, <2>7 DEF exchangeStep
<1>2. ASSUME NEW q \in Query, ExchangeAsync(q) PROVE Own
  <2>1. calls' = [calls EXCEPT ![q] = 0]
    BY Zenon, <1>2 DEF ExchangeAsync
  <2> QED
    BY <1>a, <2>1 DEF CallTypes
<1>3. ASSUME NEW q \in Query, redispatch(q) \/ ctxDone(q) PROVE Own
  BY Zenon, <1>b, <1>3 DEF redispatch, ctxDone
<1>4. ASSUME NEW c \in Conn, readOther(c) \/ readFails(c) \/ demote(c) \/ dialEnds(c) PROVE Own
  BY Zenon, <1>b, <1>4 DEF readOther, readFails, demote, dialEnds, muxVars
<1>5. ASSUME NEW c \in Conn, NEW t \in Thread, complete(c, t) PROVE Own
  BY Zenon, <1>c, <1>d, <1>5 DEF complete
<1>6. ASSUME \/ \E e \in Epoch : runReuseProbe(e)
             \/ Reset \/ resetPool \/ Close \/ closeOldState \/ recycle \/ probeIntervalPasses
      PROVE  Own
  <2>1. UNCHANGED calls
    BY Zenon, <1>6 DEF runReuseProbe, Reset, resetPool, Close, closeOldState, recycle,
         probeIntervalPasses, muxVars
  <2> QED
    BY Zenon, <1>b, <2>1
<1> QED
  BY Zenon, <1>1, <1>2, <1>3, <1>4, <1>5, <1>6 DEF Next, Step

(* What the invariant says of the connections in use. *)
LEMMA InvConsequences ==
  ASSUME IInv
  PROVE  CalledOnce /\ SharedIsUsable /\ NoLeak /\ PendingIsRead /\ ProbingIsProbed
<1>a. TypeOK /\ TokenInv /\ PoolInv /\ UseInv /\ ProbeInv
  BY Zenon DEF IInv
<1>1. CalledOnce
  <2>1. ASSUME NEW q \in Query
        PROVE  calls[q] <= 1 /\ ((\A t \in {q} \X {1, 2} : Over(t)) => calls[q] = 1)
    <3>1. calls[q] = IF Holds(<<q, 1>>) \/ Holds(<<q, 2>>) THEN 0 ELSE 1
      BY Zenon, <1>a DEF TokenInv
    <3>2. calls[q] <= 1
      BY ONLY <3>1
    <3>3. <<q, 1>> \in {q} \X {1, 2} /\ <<q, 2>> \in {q} \X {1, 2}
      OBVIOUS
    <3>4. (\A t \in {q} \X {1, 2} : Over(t)) => ~Holds(<<q, 1>>) /\ ~Holds(<<q, 2>>)
      BY Zenon, <3>3 DEF Over, Holds
    <3> QED
      BY Zenon, <3>1, <3>2, <3>4
  <2> QED
    BY Zenon, <2>1 DEF CalledOnce
<1>2. SharedIsUsable
  <2> SUFFICES ASSUME shared # None
               PROVE  /\ shared \in open /\ dial[shared].state = current
                      /\ ConnCause(shared) = None
                      /\ claimed <=> reader[shared] # "none"
    BY Zenon DEF SharedIsUsable
  <2>1. current \notin stateDone
    BY Zenon, <1>a DEF PoolInv, SharedInv, PastInv, Past
  <2> QED
    BY Zenon, <1>a, <2>1 DEF PoolInv, SharedInv, ConnCause, Reads
<1>3. NoLeak
  BY Zenon, <1>a DEF PoolInv
<1>4. PendingIsRead
  <2>1. \A c \in Conn : reader[c] # "twice"
    BY Zenon, <1>a DEF PoolInv, ReadInv
  <2>2. ASSUME NEW t \in Registered
        PROVE  \/ ConnCause(pending[t].conn) # None
               \/ \E old \in closing : old.conn = pending[t].conn
               \/ reader[pending[t].conn] \in {"reading", "demote"}
    <3>1. t \in Thread /\ pending[t] # None
      BY Zenon DEF Registered
    <3>2. pending[t].conn \in Conn
      <4>1. pending[t] \in PendingQuery
        BY Zenon, <1>a, <3>1, TypeParts DEF PendingTypes
      <4> QED
        BY <4>1 DEF PendingQuery
    <3>3. reader[pending[t].conn] # "none"
      BY Zenon, <1>a, <3>1 DEF UseInv, Use
    <3>4. Tracked(pending[t].conn) => reader[pending[t].conn] \in {"reading", "demote"}
      BY Zenon, <1>a, <3>2, <3>3, PoolAssumption DEF Tracked, PoolInv, SharedInv, Reads
    <3> QED
      BY Zenon, <1>a, <3>2, <3>3, <3>4 DEF PoolInv, ReadInv
  <2> QED
    BY Zenon, <2>1, <2>2 DEF PendingIsRead
<1>5. ProbingIsProbed
  BY Zenon, <1>a DEF ProbeInv
<1> QED
  BY Zenon, <1>1, <1>2, <1>3, <1>4, <1>5

(* The invariant holds of every behaviour of the multiplexer.              *)
THEOREM Invariance == Spec => []IInv
<1>1. Init => IInv
  BY InitInv
<1>2. IInv /\ [Next]_vars => IInv'
  BY NextInv
<1> QED
  BY <1>1, <1>2, PTL DEF Spec

(* Every value the multiplexer and its pool hold is of the type the model  *)
(* gives it, whatever the numbers of exchanges, connections and resets.    *)
THEOREM TypeCorrect == Spec => []TypeOK
<1>1. IInv => TypeOK
  BY Zenon DEF IInv
<1> QED
  BY <1>1, Invariance, PTL

(* The callback of an exchange runs exactly once (take, exchangeAsync,     *)
(* completeConnDone).                                                      *)
THEOREM OneCallback == Spec => []CalledOnce
<1>1. IInv => CalledOnce
  BY Zenon, InvConsequences
<1> QED
  BY <1>1, Invariance, PTL

(* The shared connection acquireShared hands out is open, of the state in  *)
(* force, live, and read exactly when it was claimed.                      *)
THEOREM SharedConnection == Spec => []SharedIsUsable
<1>1. IInv => SharedIsUsable
  BY Zenon, InvConsequences
<1> QED
  BY <1>1, Invariance, PTL

(* Reset, Close, Invalidate and connectSingle leave no connection open     *)
(* that nothing will close.                                                *)
THEOREM NothingLeaks == Spec => []NoLeak
<1>1. IInv => NoLeak
  BY Zenon, InvConsequences
<1> QED
  BY <1>1, Invariance, PTL

(* A pending query has exactly one recvLoop, or a cause that ends it.      *)
THEOREM ReaderServesPending == Spec => []PendingIsRead
<1>1. IInv => PendingIsRead
  BY Zenon, InvConsequences
<1> QED
  BY <1>1, Invariance, PTL

(* The reuse state "probing" stands for one running probe of the epoch in  *)
(* force (maybeStartProbe, runReuseProbe, Reset).                          *)
THEOREM OneProbe == Spec => []ProbingIsProbed
<1>1. IInv => ProbingIsProbed
  BY Zenon, InvConsequences
<1> QED
  BY <1>1, Invariance, PTL

(* A context error reaches an exchange whose own context is live only over *)
(* the connection it is pending on, which another query's deadline ended   *)
(* (completeContextDone, completeConnDone), never from the dial its        *)
(* starter gave up (collectShared).                                        *)
THEOREM ContextErrorSource == Spec => CtxErrorSource
<1>1. IInv /\ [Next]_vars =>
        [\A q \in Query : calls'[q] > calls[q] /\ result'[q] = "ctx" => CtxDoneFor(q)]_vars
  BY NextSource
<1> QED
  BY <1>1, Invariance, PTL DEF Spec, CtxErrorSource, CtxDoneFor
=============================================================================
