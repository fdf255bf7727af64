-------------------------- MODULE DNSClientProofs --------------------------
(***************************************************************************)
(* The lock and the cache of DNSClient for any number of exchanges,        *)
(* networks and changes of the network.                                    *)
(***************************************************************************)
EXTENDS DNSClient, TLAPS

Op == [pc : {"idle", "begin", "load", "wait", "check", "transport", "finish"},
       key : Env, at : Nat, holds : BOOLEAN, waits : BOOLEAN,
       woken : BOOLEAN, async : BOOLEAN, checker : BOOLEAN,
       noOptimistic : BOOLEAN, parent : Query \cup {None},
       answer : Answer \cup {None}]

Refresh == [pc : {"transport", "finish"}, at : Nat, checker : BOOLEAN,
            answer : Answer \cup {None}]

Entry == [from : Env, keyed : Env, good : BOOLEAN, back : BOOLEAN,
          age : {"fresh", "stale"}]

Finishing == \A q \in Query : op[q].pc = "finish" => op[q].answer \in Answer

Types ==
    /\ options \in Scenario /\ env \in Env /\ moves \in Nat
    /\ op \in [Query -> Op]
    /\ lock \in [Env -> Query \cup {None}]
    /\ refresh \in [Env -> Refresh \cup {None}]
    /\ cache \in [Env -> Entry \cup {None}]
    /\ Finishing
    /\ \A k \in Env : refresh[k] # None /\ refresh[k].pc = "finish" =>
          refresh[k].answer \in Answer

(* LockIsReleased, and where an exchange may hold or await a channel: the  *)
(* one that waits has nothing to release, so its key may be recomputed.    *)
LockInv ==
    /\ LockIsReleased
    /\ \A q \in Query :
          /\ op[q].pc \in {"idle", "begin"} => ~op[q].holds /\ ~op[q].waits
          /\ op[q].holds => ~op[q].waits
          /\ op[q].pc = "wait" => op[q].waits

(* An exchange asked for under key k after at changes: without a change    *)
(* since, the network is still the one of the key.                         *)
Asked(k, at) == at <= moves /\ (moves = at => env = k)

(* Its answer: without a change it comes from the network of the key; with *)
(* one, from that network or from the present one.                         *)
Got(k, at, a) ==
    /\ a.keyed = k /\ a.at = at
    /\ moves = at => a.from = k
    /\ moves = at + 1 => a.from \in {k, env}

OpsInv ==
    \A q \in Query :
       /\ op[q].pc \notin {"idle", "begin"} => Asked(op[q].key, op[q].at)
       /\ op[q].pc = "finish" => Got(op[q].key, op[q].at, op[q].answer)

RefreshInv ==
    \A k \in Env : refresh[k] # None =>
       /\ Asked(k, refresh[k].at)
       /\ refresh[k].pc = "finish" => Got(k, refresh[k].at, refresh[k].answer)

CacheInv == CachedForEnvironment /\ OpsInv /\ RefreshInv

IInv == Types /\ LockInv /\ CacheInv

-----------------------------------------------------------------------------
(* The record of an exchange that has not begun is well formed. *)
LEMMA IdleIsOp == Idle \in Op
  BY ConstantsAssumption DEF Idle, Op, Env

(* Closing the channel an exchange waits for keeps its record well formed. *)
LEMMA WokenIsOp == \A o \in Op : [o EXCEPT !.woken = TRUE] \in Op
  BY Zenon DEF Op

(* operation.release: the exchange that returns is idle and holds nothing, *)
(* the others only find their channel closed.                              *)
LEMMA ReturnOthers ==
  ASSUME Types, NEW q \in Query, Return(q)
  PROVE  /\ op'[q].pc = "idle" /\ ~op'[q].holds /\ ~op'[q].waits
         /\ \A r \in Query \ {q} :
              /\ op'[r].pc = op[r].pc /\ op'[r].key = op[r].key
              /\ op'[r].at = op[r].at /\ op'[r].answer = op[r].answer
              /\ op'[r].holds = op[r].holds /\ op'[r].waits = op[r].waits
              /\ op[q].holds /\ op[r].waits /\ op[r].key = op[q].key =>
                   op'[r].woken
              /\ op[r].woken => op'[r].woken
<1>1. op'[q] = Idle
  BY Zenon DEF Return, Released
<1>2. ASSUME NEW r \in Query \ {q}
      PROVE  /\ op'[r].pc = op[r].pc /\ op'[r].key = op[r].key
             /\ op'[r].at = op[r].at /\ op'[r].answer = op[r].answer
             /\ op'[r].holds = op[r].holds /\ op'[r].waits = op[r].waits
             /\ op[q].holds /\ op[r].waits /\ op[r].key = op[q].key =>
                  op'[r].woken
             /\ op[r].woken => op'[r].woken
  <2>1. CASE op[q].holds /\ op[r].waits /\ op[r].key = op[q].key
    <3>1. op'[r] = [op[r] EXCEPT !.woken = TRUE]
      BY Zenon, <2>1 DEF Return, Released
    <3>2. op[r] \in Op
      BY Zenon DEF Types
    <3> QED
      BY Zenon, <3>1, <3>2 DEF Op
  <2>2. CASE ~(op[q].holds /\ op[r].waits /\ op[r].key = op[q].key)
    BY Zenon, <2>2 DEF Return, Released
  <2> QED
    BY Zenon, <2>1, <2>2
<1> QED
  BY <1>1, <1>2 DEF Idle

(* An exchange that returns leaves well-formed records and locks. *)
LEMMA ReturnTypes ==
  ASSUME Types, NEW q \in Query, Return(q)
  PROVE  /\ op' \in [Query -> Op]
         /\ lock' \in [Env -> Query \cup {None}]
         /\ Finishing'
<1>1. op' = Released(q)
  BY Zenon DEF Return
<1>2. op' \in [Query -> Op]
  <2>1. \A r \in Query : op[r] \in Op /\ [op[r] EXCEPT !.woken = TRUE] \in Op
    BY Zenon, WokenIsOp DEF Types
  <2> QED
    BY Zenon, <1>1, <2>1, IdleIsOp DEF Released
<1>3. lock' \in [Env -> Query \cup {None}]
  BY Zenon DEF Return, Types
<1>4. Finishing'
  BY Zenon, ReturnOthers DEF Finishing, Types
<1> QED
  BY Zenon, <1>2, <1>3, <1>4

(* An exchange that returns gives its lock back and wakes whoever waits. *)
LEMMA ReturnLock ==
  ASSUME Types, LockInv, NEW q \in Query, Return(q)
  PROVE  LockInv'
<1>1. \A r \in Query : op[r].key \in Env
  BY Zenon DEF Types, Op
<1>2. lock' = IF op[q].holds THEN [lock EXCEPT ![op[q].key] = None] ELSE lock
  BY Zenon DEF Return
<1> QED
  BY <1>1, <1>2, ReturnOthers DEF LockInv, LockIsReleased, Types

(* An exchange that goes on: only its own record changes. *)
LEMMA MoveTypes ==
  ASSUME Types, NEW q \in Query, NEW o \in Op, op' = [op EXCEPT ![q] = o],
         o.pc = "finish" => o.answer \in Answer
  PROVE  op' \in [Query -> Op] /\ Finishing'
  BY Zenon DEF Types, Finishing

-----------------------------------------------------------------------------
(* Every assignment to the fields of an exchange keeps its record well     *)
(* formed.                                                                 *)
LEMMA OpUpdates ==
  \A o \in Op :
    /\ \A l \in {"idle", "begin", "load", "wait", "check", "transport"} :
          [o EXCEPT !.pc = l] \in Op
    /\ \A a \in Answer : [o EXCEPT !.pc = "finish", !.answer = a] \in Op
    /\ [o EXCEPT !.pc = "begin", !.async = FALSE, !.waits = FALSE,
                 !.woken = FALSE] \in Op
    /\ \A k \in Env, n \in Nat :
          [o EXCEPT !.pc = "load", !.key = k, !.at = n, !.waits = FALSE,
                    !.woken = FALSE] \in Op
<1> SUFFICES ASSUME NEW o \in Op
             PROVE  /\ \A l \in {"idle", "begin", "load", "wait", "check", "transport"} :
                         [o EXCEPT !.pc = l] \in Op
                    /\ \A a \in Answer : [o EXCEPT !.pc = "finish", !.answer = a] \in Op
                    /\ [o EXCEPT !.pc = "begin", !.async = FALSE, !.waits = FALSE,
                                 !.woken = FALSE] \in Op
                    /\ \A k \in Env, n \in Nat :
                         [o EXCEPT !.pc = "load", !.key = k, !.at = n, !.waits = FALSE,
                                   !.woken = FALSE] \in Op
  BY Zenon
<1>1. \A l \in {"idle", "begin", "load", "wait", "check", "transport"} :
        [o EXCEPT !.pc = l] \in Op
  BY ZenonT(60) DEF Op
<1>2. \A a \in Answer : [o EXCEPT !.pc = "finish", !.answer = a] \in Op
  BY ZenonT(60) DEF Op
<1>3. [o EXCEPT !.pc = "begin", !.async = FALSE, !.waits = FALSE,
                !.woken = FALSE] \in Op
  BY ZenonT(60) DEF Op
<1>4. \A k \in Env, n \in Nat :
        [o EXCEPT !.pc = "load", !.key = k, !.at = n, !.waits = FALSE,
                  !.woken = FALSE] \in Op
  BY ZenonT(60) DEF Op
<1> QED
  BY Zenon, <1>1, <1>2, <1>3, <1>4

(* A jump of an exchange to a step without an answer keeps the types. *)
LEMMA MoveTo ==
  ASSUME Types, NEW q \in Query, NEW l \in {"wait", "check", "transport"},
         Goto(q, l)
  PROVE  op' \in [Query -> Op] /\ Finishing'
<1>1. op' = [op EXCEPT ![q] = [op[q] EXCEPT !.pc = l]]
  BY Zenon DEF Goto
<1>2. [op[q] EXCEPT !.pc = l] \in Op
  BY Zenon, OpUpdates DEF Types
<1>3. [op[q] EXCEPT !.pc = l].pc = l
  BY Zenon DEF Types, Op
<1> QED
  BY Zenon, <1>1, <1>2, <1>3, MoveTypes

(* beginExchange leaves a well-formed record. *)
LEMMA BegunIsOp ==
  \A o \in Op, k \in Env, n \in Nat, h \in BOOLEAN, w \in BOOLEAN :
     [o EXCEPT !.pc = "load", !.key = k, !.at = n, !.holds = h,
               !.waits = w] \in Op
  BY ZenonT(60) DEF Op

(* Exchange starts with a well-formed record. *)
LEMMA StartedIsOp ==
  \A a \in BOOLEAN, c \in BOOLEAN, n \in BOOLEAN, p \in Query \cup {None} :
     [Idle EXCEPT !.pc = "begin", !.async = a, !.checker = c,
                  !.noOptimistic = n, !.parent = p] \in Op
  BY ZenonT(60), IdleIsOp DEF Op

(* Storing an answer: only under the present network. *)
LEMMA StoreTypes ==
  ASSUME Types, NEW k \in Env, NEW a \in Answer, Store(k, a)
  PROVE  cache' \in [Env -> Entry \cup {None}]
<1>1. (moves >= a.at + 2) \in BOOLEAN
  OBVIOUS
<1>2. [from |-> a.from, keyed |-> a.keyed, good |-> a.good,
       back |-> moves >= a.at + 2, age |-> "fresh"] \in Entry
  BY Zenon, <1>1 DEF Answer, Entry
<1> QED
  BY Zenon, <1>2 DEF Store, Types

(* storeCache keeps every entry under its network, if the answer is one    *)
(* that was asked for under the key and came as Got says.                  *)
LEMMA StoreKeeps ==
  ASSUME Types, CachedForEnvironment, NEW k \in Env, NEW a \in Answer,
         Asked(k, a.at), Got(k, a.at, a), Store(k, a)
  PROVE  CachedForEnvironment'
<1>1. CASE UNCHANGED cache
  BY Zenon, <1>1 DEF CachedForEnvironment
<1>2. CASE Storable(k) /\ cache' = [cache EXCEPT ![env] =
              [from |-> a.from, keyed |-> a.keyed, good |-> a.good,
               back |-> moves >= a.at + 2, age |-> "fresh"]]
  <2>1. a.at \in Nat /\ a.from \in Env /\ moves \in Nat /\ env \in Env
    BY Zenon DEF Types, Answer
  <2>2. a.from = env \/ a.keyed = 0 \/ moves >= a.at + 2
    BY <1>2, <2>1 DEF Storable, Asked, Got
  <2>3. \A e \in Env \ {env} : cache'[e] = cache[e]
    BY Zenon, <1>2 DEF Types
  <2>4. /\ cache'[env].from = a.from /\ cache'[env].keyed = a.keyed
        /\ cache'[env].back = (moves >= a.at + 2)
    BY Zenon, <1>2, <2>1 DEF Types
  <2> QED
    BY Zenon, <2>2, <2>3, <2>4 DEF CachedForEnvironment
<1> QED
  BY Zenon, <1>1, <1>2 DEF Store

-----------------------------------------------------------------------------
(* The types, action by action. *)
LEMMA TypesStep == Types /\ [Next]_vars => Types'
<1> SUFFICES ASSUME Types, [Next]_vars PROVE Types'
  BY Zenon
<1> USE DEF Types
<1>1. ASSUME NEW q \in Query, Exchange(q) PROVE Types'
  <2>1. PICK a \in BOOLEAN, c \in {FALSE, options.filtered},
             n \in {FALSE, options.optimistic}, p \in Query \cup {None} :
          op' = [op EXCEPT ![q] = [Idle EXCEPT !.pc = "begin", !.async = a,
                   !.checker = c, !.noOptimistic = n, !.parent = p]]
    BY ZenonT(60), <1>1 DEF Exchange
  <2>2. c \in BOOLEAN /\ n \in BOOLEAN
    BY Zenon, ConstantsAssumption
  <2>3. op' \in [Query -> Op] /\ Finishing'
    BY ZenonT(60), <2>1, <2>2, StartedIsOp, MoveTypes DEF Idle
  <2> QED
    BY Zenon, <1>1, <2>3 DEF Exchange
<1>2. ASSUME NEW q \in Query, beginExchange(q) PROVE Types'
  <2>1. CASE live[q]
    <3> DEFINE o == [op[q] EXCEPT !.pc = "load", !.key = env, !.at = moves,
                       !.holds = (lock[env] = None),
                       !.waits = (lock[env] # None)]
    <3>1. op' = [op EXCEPT ![q] = o]
      BY Zenon, <1>2, <2>1 DEF beginExchange
    <3>2. (lock[env] = None) \in BOOLEAN /\ (lock[env] # None) \in BOOLEAN
      BY Zenon
    <3>3. o \in Op
      BY Zenon, <3>2, BegunIsOp
    <3>4. o.pc = "load"
      BY Zenon DEF Op
    <3> HIDE DEF o
    <3>5. op' \in [Query -> Op] /\ Finishing'
      BY Zenon, <3>1, <3>3, <3>4, MoveTypes
    <3> QED
      BY Zenon, <1>2, <2>1, <3>5 DEF beginExchange
  <2>2. CASE ~live[q]
    BY Zenon, <1>2, <2>2, ReturnTypes DEF beginExchange
  <2> QED
    BY Zenon, <2>1, <2>2
<1>3. ASSUME NEW q \in Query, loadResponse(q) PROVE Types'
  <2>1. refresh' = refresh \/ backgroundRefreshDNS(q)
    BY Zenon, <1>3 DEF loadResponse
  <2>2. /\ refresh' \in [Env -> Refresh \cup {None}]
        /\ \A k \in Env : refresh'[k] # None /\ refresh'[k].pc = "finish" =>
              refresh'[k].answer \in Answer
    BY <2>1 DEF backgroundRefreshDNS, Refresh, Op
  <2>3. CASE Return(q)
    BY Zenon, <1>3, <2>2, <2>3, ReturnTypes DEF loadResponse
  <2>4. CASE Goto(q, "check") /\ UNCHANGED lock
    BY Zenon, <1>3, <2>2, <2>4, MoveTo DEF loadResponse
  <2>5. CASE Goto(q, "wait") /\ UNCHANGED lock
    BY Zenon, <1>3, <2>2, <2>5, MoveTo DEF loadResponse
  <2>6. CASE /\ op' = [op EXCEPT ![q] = [@ EXCEPT !.pc = "begin",
                           !.async = FALSE, !.waits = FALSE, !.woken = FALSE]]
             /\ UNCHANGED lock
    <3> DEFINE o == [op[q] EXCEPT !.pc = "begin", !.async = FALSE,
                       !.waits = FALSE, !.woken = FALSE]
    <3>1. o \in Op /\ o.pc = "begin"
      <4>1. o \in Op
        BY Zenon, OpUpdates
      <4>2. o.pc = "begin"
        BY Zenon DEF Op
      <4> QED
        BY Zenon, <4>1, <4>2
    <3>2. op' = [op EXCEPT ![q] = o]
      BY Zenon, <2>6
    <3> HIDE DEF o
    <3>3. op' \in [Query -> Op] /\ Finishing'
      BY Zenon, <3>1, <3>2, MoveTypes
    <3> QED
      BY Zenon, <1>3, <2>2, <2>6, <3>3 DEF loadResponse
  <2> QED
    BY Zenon, <1>3, <2>3, <2>4, <2>5, <2>6 DEF loadResponse
<1>4. ASSUME NEW q \in Query, wait(q) PROVE Types'
  <2>1. CASE Return(q)
    BY Zenon, <1>4, <2>1, ReturnTypes DEF wait
  <2>2. CASE /\ op' = [op EXCEPT ![q] = [@ EXCEPT !.pc = "load", !.key = env,
                          !.at = moves, !.waits = FALSE, !.woken = FALSE]]
             /\ UNCHANGED lock
    <3> DEFINE o == [op[q] EXCEPT !.pc = "load", !.key = env, !.at = moves,
                       !.waits = FALSE, !.woken = FALSE]
    <3>1. o \in Op /\ o.pc = "load"
      <4>1. o \in Op
        BY Zenon, OpUpdates
      <4>2. o.pc = "load"
        BY Zenon DEF Op
      <4> QED
        BY Zenon, <4>1, <4>2
    <3>2. op' = [op EXCEPT ![q] = o]
      BY Zenon, <2>2
    <3> HIDE DEF o
    <3>3. op' \in [Query -> Op] /\ Finishing'
      BY Zenon, <3>1, <3>2, MoveTypes
    <3> QED
      BY Zenon, <1>4, <2>2, <3>3 DEF wait
  <2> QED
    BY Zenon, <1>4, <2>1, <2>2 DEF wait
<1>5. ASSUME NEW q \in Query, check(q) PROVE Types'
  <2>1. CASE Return(q)
    BY Zenon, <1>5, <2>1, ReturnTypes DEF check
  <2>2. CASE Goto(q, "transport") /\ UNCHANGED lock
    BY Zenon, <1>5, <2>2, MoveTo DEF check
  <2> QED
    BY Zenon, <1>5, <2>1, <2>2 DEF check
<1>6. ASSUME NEW q \in Query, finishExchange(q) PROVE Types'
  <2>1. op' \in [Query -> Op] /\ lock' \in [Env -> Query \cup {None}]
        /\ Finishing'
    BY Zenon, <1>6, ReturnTypes DEF finishExchange
  <2>2. op[q].key \in Env /\ op[q].answer \in Answer
    BY Zenon, <1>6 DEF finishExchange, Finishing, Op
  <2>3. cache' \in [Env -> Entry \cup {None}]
    BY Zenon, <1>6, <2>2, StoreTypes DEF finishExchange
  <2> QED
    BY Zenon, <1>6, <2>1, <2>3 DEF finishExchange
<1>7. ASSUME NEW q \in Query, transportFails(q) PROVE Types'
  BY Zenon, <1>7, ReturnTypes DEF transportFails
<1>8. ASSUME NEW q \in Query, ctxDone(q) PROVE Types'
  BY Zenon, <1>8 DEF ctxDone, Finishing
<1>9. ASSUME NEW q \in Query, transportAnswers(q) PROVE Types'
  <2>1. PICK good \in BOOLEAN :
          op' = [op EXCEPT ![q] = [op[q] EXCEPT !.pc = "finish",
                   !.answer = [from |-> env, keyed |-> op[q].key,
                               at |-> op[q].at, good |-> good]]]
    BY ZenonT(60), <1>9 DEF transportAnswers
  <2>2. [from |-> env, keyed |-> op[q].key, at |-> op[q].at,
         good |-> good] \in Answer
    BY Zenon DEF Answer, Op
  <2> DEFINE a == [from |-> env, keyed |-> op[q].key, at |-> op[q].at,
                   good |-> good]
             o == [op[q] EXCEPT !.pc = "finish", !.answer = a]
  <2>3. op' = [op EXCEPT ![q] = o] /\ a \in Answer
    BY Zenon, <2>1, <2>2
  <2> HIDE DEF a
  <2>4. o \in Op /\ o.answer = a
    <3>1. o \in Op
      BY Zenon, <2>3, OpUpdates
    <3>2. o.answer = a
      BY Zenon DEF Op
    <3> QED
      BY Zenon, <3>1, <3>2
  <2> HIDE DEF o
  <2>5. op' \in [Query -> Op] /\ Finishing'
    BY Zenon, <2>3, <2>4, MoveTypes
  <2> QED
    BY Zenon, <1>9, <2>5 DEF transportAnswers
<1>10. ASSUME NEW k \in Env, refreshAnswers(k) PROVE Types'
  <2>1. PICK good \in BOOLEAN :
          refresh' = [refresh EXCEPT ![k] = [refresh[k] EXCEPT
                        !.pc = "finish",
                        !.answer = [from |-> env, keyed |-> k,
                                    at |-> refresh[k].at, good |-> good]]]
    BY Zenon, <1>10 DEF refreshAnswers
  <2>2. refresh[k] \in Refresh
    BY Zenon, <1>10 DEF refreshAnswers
  <2>3. [from |-> env, keyed |-> k, at |-> refresh[k].at,
         good |-> good] \in Answer
    BY Zenon, <2>2 DEF Answer, Refresh
  <2>4. refresh'[k] \in Refresh /\ refresh'[k].answer \in Answer
    BY Zenon, <2>1, <2>2, <2>3 DEF Refresh
  <2> QED
    BY Zenon, <1>10, <2>1, <2>4 DEF refreshAnswers, Finishing
<1>11. ASSUME NEW k \in Env, refreshFails(k) PROVE Types'
  BY Zenon, <1>11 DEF refreshFails, Finishing
<1>12. ASSUME NEW k \in Env, refreshFinishes(k) PROVE Types'
  BY Zenon, <1>12, StoreTypes DEF refreshFinishes, Refresh, Finishing
<1>13. ASSUME NEW k \in Env, entryAges(k) PROVE Types'
  BY <1>13 DEF entryAges, Entry, Finishing
<1>14. CASE ClearCache
  BY Zenon, <1>14 DEF ClearCache, Finishing
<1>15. CASE rejectionExpires
  BY Zenon, <1>15 DEF rejectionExpires, Finishing
<1>16. CASE environmentChanges
  BY <1>16 DEF environmentChanges, Finishing
<1>17. CASE UNCHANGED vars
  BY Zenon, <1>17 DEF vars, Finishing
<1> QED
  BY Zenon, <1>1, <1>2, <1>3, <1>4, <1>5, <1>6, <1>7, <1>8, <1>9, <1>10, <1>11,
     <1>12, <1>13, <1>14, <1>15, <1>16, <1>17 DEF Next, exchangeStep

-----------------------------------------------------------------------------
(* A step of an exchange that leaves holds, waits, woken and key alone. *)
LEMMA MoveLock ==
  ASSUME Types, LockInv, NEW q \in Query, UNCHANGED lock,
         NEW o, op' = [op EXCEPT ![q] = o],
         o.holds = op[q].holds, o.waits = op[q].waits,
         o.woken = op[q].woken, o.key = op[q].key,
         \/ o.pc \in {"load", "check", "transport", "finish"}
         \/ o.pc = "wait" /\ op[q].waits
  PROVE  LockInv'
<1>1. op'[q] = o /\ \A r \in Query \ {q} : op'[r] = op[r]
  BY Zenon DEF Types
<1> QED
  BY <1>1 DEF LockInv, LockIsReleased, Types

(* An exchange that holds and awaits nothing, before and after. *)
LEMMA FreeLock ==
  ASSUME Types, LockInv, NEW q \in Query, UNCHANGED lock,
         NEW o, op' = [op EXCEPT ![q] = o],
         ~op[q].holds, ~o.holds, ~o.waits, o.pc # "wait"
  PROVE  LockInv'
<1>1. op'[q] = o /\ \A r \in Query \ {q} : op'[r] = op[r]
  BY Zenon DEF Types
<1> QED
  BY <1>1 DEF LockInv, LockIsReleased, Types

(* The lock, action by action. *)
LEMMA LockStep == Types /\ LockInv /\ [Next]_vars => LockInv'
<1> SUFFICES ASSUME Types, LockInv, [Next]_vars PROVE LockInv'
  BY Zenon
<1>0. \A q \in Query : op[q] \in Op
  BY Zenon DEF Types
<1>1. ASSUME NEW q \in Query, Exchange(q) PROVE LockInv'
  <2>1. PICK a \in BOOLEAN, c \in {FALSE, options.filtered},
             n \in {FALSE, options.optimistic}, p \in Query \cup {None} :
          op' = [op EXCEPT ![q] = [Idle EXCEPT !.pc = "begin", !.async = a,
                   !.checker = c, !.noOptimistic = n, !.parent = p]]
    BY ZenonT(60), <1>1 DEF Exchange
  <2> DEFINE o == [Idle EXCEPT !.pc = "begin", !.async = a,
                     !.checker = c, !.noOptimistic = n, !.parent = p]
  <2>2. ~o.holds /\ ~o.waits /\ o.pc # "wait"
    BY Zenon DEF Idle
  <2>3. ~op[q].holds /\ UNCHANGED lock
    BY Zenon, <1>1 DEF Exchange, Started, LockInv
  <2>4. op' = [op EXCEPT ![q] = o]
    BY Zenon, <2>1
  <2> HIDE DEF o
  <2> QED
    BY Zenon, <2>2, <2>3, <2>4, FreeLock
<1>2. ASSUME NEW q \in Query, beginExchange(q) PROVE LockInv'
  <2>1. CASE live[q]
    <3>1. /\ op'[q].holds = (lock[env] = None)
          /\ op'[q].waits = (lock[env] # None)
          /\ op'[q].key = env /\ op'[q].pc = "load"
          /\ op'[q].woken = op[q].woken
      BY <1>0, <1>2, <2>1 DEF beginExchange, Types, Op
    <3>2. \A r \in Query \ {q} : op'[r] = op[r]
      BY Zenon, <1>2, <2>1 DEF beginExchange, Types
    <3>3. ~op[q].holds /\ ~op[q].waits
      BY Zenon, <1>2 DEF beginExchange, LockInv
    <3>4. CASE lock[env] = None
      <4>1. lock' = [lock EXCEPT ![env] = q]
        BY Zenon, <1>2, <2>1, <3>4 DEF beginExchange
      <4>2. op'[q].holds /\ ~op'[q].waits
        BY Zenon, <3>1, <3>4
      <4> QED
        BY <3>1, <3>2, <3>3, <3>4, <4>1, <4>2, ConstantsAssumption
           DEF LockInv, LockIsReleased, Types
    <3>5. CASE lock[env] # None
      <4>1. lock' = lock
        BY Zenon, <1>2, <2>1, <3>5 DEF beginExchange
      <4>2. ~op'[q].holds /\ op'[q].waits
        BY Zenon, <3>1, <3>5
      <4> QED
        BY <3>1, <3>2, <3>3, <3>5, <4>1, <4>2
           DEF LockInv, LockIsReleased, Types
    <3> QED
      BY Zenon, <3>4, <3>5
  <2>2. CASE ~live[q]
    BY Zenon, <1>2, <2>2, ReturnLock DEF beginExchange
  <2> QED
    BY Zenon, <2>1, <2>2
<1>3. ASSUME NEW q \in Query, loadResponse(q) PROVE LockInv'
  <2>1. CASE Return(q)
    BY Zenon, <2>1, ReturnLock
  <2>2. CASE Goto(q, "check") /\ UNCHANGED lock
    <3> DEFINE o == [op[q] EXCEPT !.pc = "check"]
    <3>1. o.holds = op[q].holds /\ o.waits = op[q].waits
          /\ o.woken = op[q].woken /\ o.key = op[q].key /\ o.pc = "check"
      BY Zenon, <1>0 DEF Op
    <3>2. op' = [op EXCEPT ![q] = o]
      BY Zenon, <2>2 DEF Goto
    <3> HIDE DEF o
    <3> QED
      BY Zenon, <2>2, <3>1, <3>2, MoveLock
  <2>3. CASE Goto(q, "wait") /\ UNCHANGED lock /\ op[q].waits
    <3> DEFINE o == [op[q] EXCEPT !.pc = "wait"]
    <3>1. o.holds = op[q].holds /\ o.waits = op[q].waits
          /\ o.woken = op[q].woken /\ o.key = op[q].key /\ o.pc = "wait"
      BY Zenon, <1>0 DEF Op
    <3>2. op' = [op EXCEPT ![q] = o]
      BY Zenon, <2>3 DEF Goto
    <3> HIDE DEF o
    <3> QED
      BY Zenon, <2>3, <3>1, <3>2, MoveLock
  <2>4. CASE /\ op' = [op EXCEPT ![q] = [@ EXCEPT !.pc = "begin",
                           !.async = FALSE, !.waits = FALSE, !.woken = FALSE]]
             /\ UNCHANGED lock /\ op[q].waits
    <3> DEFINE o == [op[q] EXCEPT !.pc = "begin", !.async = FALSE,
                       !.waits = FALSE, !.woken = FALSE]
    <3>1. o.holds = op[q].holds /\ ~o.waits /\ o.pc # "wait"
      BY Zenon, <1>0 DEF Op
    <3>2. op' = [op EXCEPT ![q] = o] /\ ~op[q].holds
      BY Zenon, <2>4 DEF LockInv
    <3> HIDE DEF o
    <3> QED
      BY Zenon, <2>4, <3>1, <3>2, FreeLock
  <2> QED
    BY Zenon, <1>3, <2>1, <2>2, <2>3, <2>4 DEF loadResponse
<1>4. ASSUME NEW q \in Query, wait(q) PROVE LockInv'
  <2>1. CASE Return(q)
    BY Zenon, <2>1, ReturnLock
  <2>2. CASE /\ op' = [op EXCEPT ![q] = [@ EXCEPT !.pc = "load", !.key = env,
                          !.at = moves, !.waits = FALSE, !.woken = FALSE]]
             /\ UNCHANGED lock
    <3> DEFINE o == [op[q] EXCEPT !.pc = "load", !.key = env, !.at = moves,
                       !.waits = FALSE, !.woken = FALSE]
    <3>1. o.holds = op[q].holds /\ ~o.waits /\ o.pc # "wait"
      BY Zenon, <1>0 DEF Op
    <3>2. op' = [op EXCEPT ![q] = o] /\ ~op[q].holds
      BY Zenon, <1>4, <2>2 DEF wait, LockInv
    <3> HIDE DEF o
    <3> QED
      BY Zenon, <2>2, <3>1, <3>2, FreeLock
  <2> QED
    BY Zenon, <1>4, <2>1, <2>2 DEF wait
<1>5. ASSUME NEW q \in Query, check(q) PROVE LockInv'
  <2>1. CASE Return(q)
    BY Zenon, <2>1, ReturnLock
  <2>2. CASE Goto(q, "transport") /\ UNCHANGED lock
    <3> DEFINE o == [op[q] EXCEPT !.pc = "transport"]
    <3>1. o.holds = op[q].holds /\ o.waits = op[q].waits
          /\ o.woken = op[q].woken /\ o.key = op[q].key
          /\ o.pc = "transport"
      BY Zenon, <1>0 DEF Op
    <3>2. op' = [op EXCEPT ![q] = o]
      BY Zenon, <2>2 DEF Goto
    <3> HIDE DEF o
    <3> QED
      BY Zenon, <2>2, <3>1, <3>2, MoveLock
  <2> QED
    BY Zenon, <1>5, <2>1, <2>2 DEF check
<1>6. ASSUME NEW q \in Query, finishExchange(q) \/ transportFails(q)
      PROVE LockInv'
  BY Zenon, <1>6, ReturnLock DEF finishExchange, transportFails
<1>7. ASSUME NEW q \in Query, transportAnswers(q) PROVE LockInv'
  <2>1. PICK a :
          op' = [op EXCEPT ![q] = [op[q] EXCEPT !.pc = "finish",
                                                !.answer = a]]
    BY Zenon, <1>7 DEF transportAnswers
  <2> DEFINE o == [op[q] EXCEPT !.pc = "finish", !.answer = a]
  <2>2. o.holds = op[q].holds /\ o.waits = op[q].waits
        /\ o.woken = op[q].woken /\ o.key = op[q].key /\ o.pc = "finish"
    BY Zenon, <1>0 DEF Op
  <2>3. op' = [op EXCEPT ![q] = o] /\ UNCHANGED lock
    BY Zenon, <1>7, <2>1 DEF transportAnswers
  <2> HIDE DEF o
  <2> QED
    BY Zenon, <2>2, <2>3, MoveLock
<1>8. CASE UNCHANGED <<op, lock>>
  BY Zenon, <1>8 DEF LockInv, LockIsReleased
<1> QED
  BY Zenon, <1>1, <1>2, <1>3, <1>4, <1>5, <1>6, <1>7, <1>8
     DEF Next, exchangeStep, ctxDone, refreshAnswers, refreshFails,
         refreshFinishes, entryAges, ClearCache, rejectionExpires,
         environmentChanges, vars

-----------------------------------------------------------------------------
(* The exchanges, while the network stays: each is over, begins again, is  *)
(* keyed anew, or keeps its key and its answer.                            *)
LEMMA OpsKept ==
  ASSUME Types, OpsInv, UNCHANGED <<env, moves>>,
         \A r \in Query :
            \/ op'[r].pc \in {"idle", "begin"}
            \/ op'[r].pc = "load" /\ op'[r].key = env /\ op'[r].at = moves
            \/ /\ op[r].pc \notin {"idle", "begin"}
               /\ op'[r].key = op[r].key /\ op'[r].at = op[r].at
               /\ op'[r].pc = "finish" =>
                    op[r].pc = "finish" /\ op'[r].answer = op[r].answer
  PROVE  OpsInv'
  BY DEF Types, OpsInv, Asked, Got

(* The return of an exchange changes nothing about the answers of others. *)
LEMMA OpsReturn ==
  ASSUME Types, OpsInv, UNCHANGED <<env, moves>>, NEW q \in Query, Return(q)
  PROVE  OpsInv'
<1>1. \A r \in Query \ {q} :
         /\ op'[r].pc = op[r].pc /\ op'[r].key = op[r].key
         /\ op'[r].at = op[r].at /\ op'[r].answer = op[r].answer
  BY Zenon, ReturnOthers
<1>2. op'[q].pc = "idle"
  BY Zenon, ReturnOthers
<1> QED
  BY Zenon, <1>1, <1>2 DEF OpsInv, Asked, Got

(* A step of one exchange changes nothing about the answers of others. *)
LEMMA OpsMove ==
  ASSUME Types, OpsInv, UNCHANGED <<env, moves>>, NEW q \in Query, NEW o,
         op' = [op EXCEPT ![q] = o],
         \/ o.pc \in {"idle", "begin"}
         \/ o.pc = "load" /\ o.key = env /\ o.at = moves
         \/ /\ op[q].pc \notin {"idle", "begin"}
            /\ o.key = op[q].key /\ o.at = op[q].at /\ o.pc # "finish"
  PROVE  OpsInv'
<1>1. op'[q] = o /\ \A r \in Query \ {q} : op'[r] = op[r]
  BY Zenon DEF Types
<1> QED
  BY Zenon, <1>1, OpsKept

(* What each action does to the exchanges, while the network stays. *)
LEMMA OpsStep ==
  ASSUME Types, OpsInv, UNCHANGED <<env, moves>>, Next
  PROVE  OpsInv'
<1>0. \A q \in Query : op[q] \in Op
  BY Zenon DEF Types
<1>1. ASSUME NEW q \in Query, Exchange(q) PROVE OpsInv'
  <2>1. PICK o : op' = [op EXCEPT ![q] = o] /\ o.pc = "begin"
    BY ZenonT(60), <1>1 DEF Exchange, Idle
  <2> QED
    BY Zenon, <2>1, OpsMove
<1>2. ASSUME NEW q \in Query, beginExchange(q) PROVE OpsInv'
  <2>1. CASE live[q]
    <3> DEFINE o == [op[q] EXCEPT !.pc = "load", !.key = env, !.at = moves,
                       !.holds = (lock[env] = None),
                       !.waits = (lock[env] # None)]
    <3>1. o.pc = "load" /\ o.key = env /\ o.at = moves
      BY Zenon, <1>0 DEF Op
    <3>2. op' = [op EXCEPT ![q] = o]
      BY Zenon, <1>2, <2>1 DEF beginExchange
    <3> HIDE DEF o
    <3> QED
      BY Zenon, <3>1, <3>2, OpsMove
  <2> QED
    BY Zenon, <1>2, <2>1, OpsReturn DEF beginExchange
<1>3. ASSUME NEW q \in Query, NEW l \in {"wait", "check", "transport"},
             Goto(q, l), op[q].pc \notin {"idle", "begin"}
      PROVE  OpsInv'
  <2> DEFINE o == [op[q] EXCEPT !.pc = l]
  <2>1. o.pc = l /\ o.key = op[q].key /\ o.at = op[q].at
    BY Zenon, <1>0 DEF Op
  <2>2. op' = [op EXCEPT ![q] = o]
    BY Zenon, <1>3 DEF Goto
  <2> HIDE DEF o
  <2> QED
    BY Zenon, <1>3, <2>1, <2>2, OpsMove
<1>4. ASSUME NEW q \in Query, loadResponse(q) PROVE OpsInv'
  <2>1. CASE op' = [op EXCEPT ![q] = [@ EXCEPT !.pc = "begin",
                      !.async = FALSE, !.waits = FALSE, !.woken = FALSE]]
    <3> DEFINE o == [op[q] EXCEPT !.pc = "begin", !.async = FALSE,
                       !.waits = FALSE, !.woken = FALSE]
    <3>1. o.pc = "begin"
      BY Zenon, <1>0 DEF Op
    <3>2. op' = [op EXCEPT ![q] = o]
      BY Zenon, <2>1
    <3> HIDE DEF o
    <3> QED
      BY Zenon, <3>1, <3>2, OpsMove
  <2> QED
    BY Zenon, <1>3, <1>4, <2>1, OpsReturn DEF loadResponse
<1>5. ASSUME NEW q \in Query, wait(q) PROVE OpsInv'
  <2>1. CASE op' = [op EXCEPT ![q] = [@ EXCEPT !.pc = "load", !.key = env,
                      !.at = moves, !.waits = FALSE, !.woken = FALSE]]
    <3> DEFINE o == [op[q] EXCEPT !.pc = "load", !.key = env, !.at = moves,
                       !.waits = FALSE, !.woken = FALSE]
    <3>1. o.pc = "load" /\ o.key = env /\ o.at = moves
      BY Zenon, <1>0 DEF Op
    <3>2. op' = [op EXCEPT ![q] = o]
      BY Zenon, <2>1
    <3> HIDE DEF o
    <3> QED
      BY Zenon, <3>1, <3>2, OpsMove
  <2> QED
    BY Zenon, <1>5, <2>1, OpsReturn DEF wait
<1>6. ASSUME NEW q \in Query, check(q) PROVE OpsInv'
  BY Zenon, <1>3, <1>6, OpsReturn DEF check
<1>7. ASSUME NEW q \in Query, finishExchange(q) \/ transportFails(q)
      PROVE  OpsInv'
  BY Zenon, <1>7, OpsReturn DEF finishExchange, transportFails
<1>8. ASSUME NEW q \in Query, transportAnswers(q) PROVE OpsInv'
  <2>1. PICK good \in BOOLEAN :
          op' = [op EXCEPT ![q] = [op[q] EXCEPT !.pc = "finish",
                   !.answer = [from |-> env, keyed |-> op[q].key,
                               at |-> op[q].at, good |-> good]]]
    BY Zenon, <1>8 DEF transportAnswers
  <2>2. /\ op'[q].pc = "finish" /\ op'[q].key = op[q].key
        /\ op'[q].at = op[q].at
        /\ op'[q].answer = [from |-> env, keyed |-> op[q].key,
                            at |-> op[q].at, good |-> good]
    BY Zenon, <1>0, <2>1 DEF Op, Types
  <2>3. Asked(op[q].key, op[q].at)
    BY Zenon, <1>8 DEF transportAnswers, OpsInv
  <2>4. Got(op[q].key, op[q].at, op'[q].answer)
    BY <2>2, <2>3 DEF Asked, Got
  <2>5. \A r \in Query \ {q} : op'[r] = op[r]
    BY Zenon, <2>1 DEF Types
  <2> QED
    BY <2>2, <2>3, <2>4, <2>5 DEF OpsInv, Asked, Got
<1>9. CASE UNCHANGED op
  BY Zenon, <1>9 DEF OpsInv, Asked, Got
<1> QED
  BY Zenon, <1>1, <1>2, <1>4, <1>5, <1>6, <1>7, <1>8, <1>9
     DEF Next, exchangeStep, ctxDone, refreshAnswers, refreshFails,
         refreshFinishes, entryAges, ClearCache, rejectionExpires,
         environmentChanges

-----------------------------------------------------------------------------
(* The refreshes and the cache, while the network stays. *)
LEMMA RefreshStep ==
  ASSUME Types, CacheInv, UNCHANGED <<env, moves>>, Next
  PROVE  RefreshInv'
<1>1. ASSUME NEW q \in Query, loadResponse(q) PROVE RefreshInv'
  <2>1. Asked(op[q].key, op[q].at) /\ op[q].key \in Env
    BY Zenon, <1>1 DEF loadResponse, CacheInv, OpsInv, Types, Op
  <2>2. CASE backgroundRefreshDNS(q) /\ refresh[op[q].key] = None
    <3>1. /\ refresh'[op[q].key].at = op[q].at
          /\ refresh'[op[q].key].pc = "transport"
          /\ \A k \in Env \ {op[q].key} : refresh'[k] = refresh[k]
      BY Zenon, <2>1, <2>2 DEF backgroundRefreshDNS, Types
    <3> QED
      BY Zenon, <2>1, <3>1 DEF CacheInv, RefreshInv, Asked, Got
  <2>3. CASE UNCHANGED refresh
    BY Zenon, <2>3 DEF CacheInv, RefreshInv, Asked, Got
  <2> QED
    BY Zenon, <1>1, <2>2, <2>3 DEF loadResponse, backgroundRefreshDNS
<1>2. ASSUME NEW k \in Env, refreshAnswers(k) PROVE RefreshInv'
  <2>1. PICK good \in BOOLEAN :
          refresh' = [refresh EXCEPT ![k] = [refresh[k] EXCEPT
                        !.pc = "finish",
                        !.answer = [from |-> env, keyed |-> k,
                                    at |-> refresh[k].at, good |-> good]]]
    BY ZenonT(60), <1>2 DEF refreshAnswers
  <2>2. refresh[k] \in Refresh /\ Asked(k, refresh[k].at)
    BY Zenon, <1>2 DEF refreshAnswers, Types, CacheInv, RefreshInv
  <2>3. /\ refresh'[k].at = refresh[k].at
        /\ refresh'[k].answer = [from |-> env, keyed |-> k,
                                 at |-> refresh[k].at, good |-> good]
        /\ \A e \in Env \ {k} : refresh'[e] = refresh[e]
    BY Zenon, <2>1, <2>2 DEF Refresh, Types
  <2>4. Got(k, refresh[k].at, refresh'[k].answer)
    BY <2>2, <2>3 DEF Asked, Got
  <2> QED
    BY <2>2, <2>3, <2>4 DEF CacheInv, RefreshInv, Asked, Got
<1>3. ASSUME NEW k \in Env, refresh' = [refresh EXCEPT ![k] = None]
      PROVE  RefreshInv'
  <2>1. refresh'[k] = None /\ \A e \in Env \ {k} : refresh'[e] = refresh[e]
    BY Zenon, <1>3 DEF Types
  <2> QED
    BY Zenon, <2>1 DEF CacheInv, RefreshInv, Asked, Got
<1>4. CASE UNCHANGED refresh
  BY Zenon, <1>4 DEF CacheInv, RefreshInv, Asked, Got
<1> QED
  BY Zenon, <1>1, <1>2, <1>3, <1>4
     DEF Next, exchangeStep, Exchange, beginExchange, wait, check,
         finishExchange, transportFails, transportAnswers, ctxDone,
         refreshFails, refreshFinishes, entryAges, ClearCache,
         rejectionExpires, environmentChanges

(* What is stored, aged or cleared leaves every entry under its network. *)
LEMMA CachedStep ==
  ASSUME Types, CacheInv, Next
  PROVE  CachedForEnvironment'
<1>0. CachedForEnvironment
  BY Zenon DEF CacheInv
<1>1. ASSUME NEW q \in Query, finishExchange(q) PROVE CachedForEnvironment'
  <2>1. op[q].key \in Env /\ op[q].answer \in Answer
    BY Zenon, <1>1 DEF finishExchange, Types, Finishing, Op
  <2>2. /\ Asked(op[q].key, op[q].at)
        /\ Got(op[q].key, op[q].at, op[q].answer)
        /\ op[q].answer.at = op[q].at
    BY Zenon, <1>1 DEF finishExchange, CacheInv, OpsInv, Got
  <2>3. CASE Store(op[q].key, op[q].answer)
    BY Zenon, <1>0, <2>1, <2>2, <2>3, StoreKeeps
  <2>4. CASE UNCHANGED cache
    BY Zenon, <1>0, <2>4 DEF CachedForEnvironment
  <2> QED
    BY Zenon, <1>1, <2>3, <2>4 DEF finishExchange
<1>2. ASSUME NEW k \in Env, refreshFinishes(k) PROVE CachedForEnvironment'
  <2>1. refresh[k].answer \in Answer
    BY Zenon, <1>2 DEF refreshFinishes, Types
  <2>2. /\ Asked(k, refresh[k].at)
        /\ Got(k, refresh[k].at, refresh[k].answer)
        /\ refresh[k].answer.at = refresh[k].at
    BY Zenon, <1>2 DEF refreshFinishes, CacheInv, RefreshInv, Got
  <2>3. CASE Store(k, refresh[k].answer)
    BY Zenon, <1>0, <2>1, <2>2, <2>3, StoreKeeps
  <2>4. CASE UNCHANGED cache
    BY Zenon, <1>0, <2>4 DEF CachedForEnvironment
  <2> QED
    BY Zenon, <1>2, <2>3, <2>4 DEF refreshFinishes
<1>3. ASSUME NEW k \in Env, entryAges(k) PROVE CachedForEnvironment'
  <2>1. cache[k] \in Entry
    BY Zenon, <1>3 DEF entryAges, Types
  <2>2. CASE cache' = [cache EXCEPT ![k] = None]
    BY Zenon, <1>0, <2>2 DEF CachedForEnvironment, Types
  <2>3. CASE cache' = [cache EXCEPT ![k].age = "stale"]
    <3>1. /\ cache'[k].from = cache[k].from /\ cache'[k].back = cache[k].back
          /\ cache'[k].keyed = cache[k].keyed
          /\ \A e \in Env \ {k} : cache'[e] = cache[e]
      BY Zenon, <2>1, <2>3 DEF Types, Entry
    <3> QED
      BY Zenon, <1>0, <1>3, <3>1 DEF CachedForEnvironment, entryAges
  <2> QED
    BY Zenon, <1>3, <2>2, <2>3 DEF entryAges
<1>4. CASE ClearCache
  BY Zenon, <1>4 DEF ClearCache, CachedForEnvironment
<1>5. CASE UNCHANGED cache
  BY Zenon, <1>0, <1>5 DEF CachedForEnvironment
<1> QED
  BY ZenonT(60), <1>1, <1>2, <1>3, <1>4, <1>5
     DEF Next, exchangeStep, Exchange, beginExchange, loadResponse, wait,
         check, transportFails, transportAnswers, ctxDone, refreshAnswers,
         refreshFails, rejectionExpires, environmentChanges

(* A change of the network makes every bound on the past weaker. *)
LEMMA EnvironmentStep ==
  ASSUME Types, CacheInv, environmentChanges
  PROVE  OpsInv' /\ RefreshInv'
<1>1. /\ moves' = moves + 1 /\ moves \in Nat
      /\ UNCHANGED <<op, refresh>>
  BY Zenon DEF environmentChanges, Types
<1>2. \A q \in Query : op[q].at \in Nat
  BY Zenon DEF Types, Op
<1>3. \A k \in Env : refresh[k] # None => refresh[k].at \in Nat
  BY Zenon DEF Types, Refresh
<1>4. OpsInv'
  BY <1>1, <1>2 DEF CacheInv, OpsInv, Asked, Got
<1>5. RefreshInv'
  BY <1>1, <1>3 DEF CacheInv, RefreshInv, Asked, Got
<1> QED
  BY Zenon, <1>4, <1>5

-----------------------------------------------------------------------------
(* An empty cache, no lock, no exchange. *)
LEMMA InitIInv == Init => IInv
<1> SUFFICES ASSUME Init PROVE IInv
  BY Zenon
<1>1. options \in Scenario /\ options.start \in Env
  BY Zenon, ConstantsAssumption DEF Init
<1>2. \A q \in Query : op[q] = Idle
  BY Zenon DEF Init
<1>3. Types
  BY Zenon, <1>1, <1>2, IdleIsOp DEF Init, Types, Finishing, Idle
<1>4. LockInv
  BY Zenon, <1>2 DEF Init, LockInv, LockIsReleased, Idle
<1>5. CacheInv
  BY Zenon, <1>2 DEF Init, CacheInv, CachedForEnvironment, OpsInv, RefreshInv, Idle
<1> QED
  BY Zenon, <1>3, <1>4, <1>5 DEF IInv

(* The inductive invariant holds in every reachable state. *)
LEMMA Inductive == Spec => []IInv
<1>1. IInv /\ [Next]_vars => IInv'
  <2> SUFFICES ASSUME IInv, [Next]_vars PROVE IInv'
    BY Zenon
  <2>1. Types /\ LockInv /\ CacheInv
    BY Zenon DEF IInv
  <2>2. Types' /\ LockInv'
    BY Zenon, <2>1, TypesStep, LockStep
  <2>3. CASE environmentChanges
    <3>1. CachedForEnvironment'
      BY Zenon, <2>1, <2>3 DEF CacheInv, CachedForEnvironment, environmentChanges
    <3> QED
      BY Zenon, <2>1, <2>2, <2>3, <3>1, EnvironmentStep DEF IInv, CacheInv
  <2>4. CASE Next /\ UNCHANGED <<env, moves>>
    BY Zenon, <2>1, <2>2, <2>4, OpsStep, RefreshStep, CachedStep DEF IInv, CacheInv
  <2>5. CASE UNCHANGED vars
    BY Zenon, <2>1, <2>2, <2>5
       DEF vars, IInv, CacheInv, CachedForEnvironment, OpsInv, RefreshInv,
           Asked, Got
  <2> QED
    BY ZenonT(60), <2>3, <2>4, <2>5
       DEF Next, exchangeStep, Exchange, beginExchange, loadResponse, wait,
           check, finishExchange, transportFails, transportAnswers, ctxDone,
           refreshAnswers, refreshFails, refreshFinishes, entryAges,
           ClearCache, rejectionExpires
<1> QED
  BY InitIInv, <1>1, PTL DEF Spec

(* No path of an exchange keeps the lock of a key or misses the close of   *)
(* the channel it waits for.                                               *)
THEOREM NoLockKept == Spec => []LockIsReleased
<1>1. IInv => LockIsReleased
  BY Zenon DEF IInv, LockInv
<1> QED
  BY Inductive, <1>1, PTL

(* An answer is cached under the network it was obtained in, unless it was *)
(* asked for in an unidentified one, or in one the node left and came back *)
(* to before the answer was stored.                                        *)
THEOREM CacheFollowsNetwork == Spec => []CachedForEnvironment
<1>1. IInv => CachedForEnvironment
  BY Zenon DEF IInv, CacheInv
<1> QED
  BY Inductive, <1>1, PTL
=============================================================================
