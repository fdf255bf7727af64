----------------------------- MODULE DNSClient -----------------------------
(***************************************************************************)
(* The DNS client (dns/client.go): the answer cache, the per-key lock that *)
(* makes equal queries wait for one another, the background refresh of     *)
(* stale answers, the cache of rejections.                                 *)
(*                                                                         *)
(* All exchanges of the model are for one question on one transport, which *)
(* depends on the network (DNSTransportWithEnvironment), so that two cache *)
(* keys differ in the environment only.  Environment 0 is a network that   *)
(* is not identified (environmentHash = 0).  The transport is external:    *)
(* what it promises is what Multiplexer shows, one callback per exchange,  *)
(* at the latest when the context of the exchange is done.                 *)
(*                                                                         *)
(* An answer is abstracted to where it was obtained (from), under which    *)
(* key it was asked for (keyed), after how many changes of the network     *)
(* (at), and whether the response checker of the rule with address filters *)
(* accepts it (good).                                                      *)
(***************************************************************************)
EXTENDS Naturals, FiniteSets

CONSTANTS Query,      \* concurrent exchanges
          Scenario,   \* the records options is chosen from
          MaxEnv,     \* bound: networks that can be identified
          None

Env == 0 .. MaxEnv

ASSUME ConstantsAssumption ==
    /\ MaxEnv \in Nat /\ None \notin Query
    /\ Scenario \subseteq [optimistic : BOOLEAN, nested : BOOLEAN,
                           filtered : BOOLEAN, start : Env, moves : Nat,
                           exchanges : Nat]

VARIABLES options,  \* fixed: optimistic (optimistic_timeout > 0), nested (the
                    \* transport may resolve its server through itself),
                    \* filtered (some rules have address filters);
                    \* start: the first network; moves, exchanges: bounds
          env,      \* what environmentHash returns
          moves,    \* how often it has changed
          cache,    \* the memory cache, by key
          rdrc,     \* the rejected answer is in the rejection cache
          lock,     \* cacheLock: which exchange stored the channel, by key
          refresh,  \* backgroundRefresh, by key, with its goroutine
          op,       \* the exchanges
          live,     \* their contexts are not done
          exchanges \* started so far

vars == <<options, env, moves, cache, rdrc, lock, refresh, op, live, exchanges>>

(* key: cacheKey; at: moves when it was computed.  holds: releaseCond is   *)
(* set.  waits: loaded, the channel of another exchange is to be awaited;  *)
(* woken: it is closed.  parent: the exchange whose transport made this    *)
(* one (DNSTransportTagFromContext).                                       *)
Idle == [pc |-> "idle", key |-> 0, at |-> 0, holds |-> FALSE, waits |-> FALSE,
         woken |-> FALSE, async |-> FALSE, checker |-> FALSE,
         noOptimistic |-> FALSE, parent |-> None, answer |-> None]

Init ==
    /\ options \in Scenario
    /\ env = options.start /\ moves = 0
    /\ cache = [e \in Env |-> None]
    /\ rdrc = FALSE
    /\ lock = [e \in Env |-> None]
    /\ refresh = [e \in Env |-> None]
    /\ op = [q \in Query |-> Idle]
    /\ live = [q \in Query |-> FALSE]
    /\ exchanges = 0

Started(q) == op[q].pc # "idle"

Goto(q, pc) == op' = [op EXCEPT ![q].pc = pc]

BugReleased(q) == [op EXCEPT ![q] = Idle]

(* operation.release: the lock goes, the channel is closed.                *)
Released(q) ==
    [r \in Query |->
       IF r = q THEN Idle
       ELSE IF op[q].holds /\ op[r].waits /\ op[r].key = op[q].key
         THEN [op[r] EXCEPT !.woken = TRUE] ELSE op[r]]

(* The exchange ends. *)
Return(q) ==
    /\ op' = Released(q)
    /\ lock' = IF op[q].holds THEN [lock EXCEPT ![op[q].key] = None] ELSE lock
    /\ live' = [live EXCEPT ![q] = FALSE]

-----------------------------------------------------------------------------
(* Exchange and ExchangeAsync.  A nested exchange is made by the transport *)
(* in the context of the one it serves.                                    *)
Exchange(q) ==
    /\ ~Started(q)
    /\ exchanges < options.exchanges
    /\ exchanges' = exchanges + 1
    /\ \E async \in BOOLEAN,
          checker \in {FALSE, options.filtered},
          noOptimistic \in {FALSE, options.optimistic},
          p \in {None} \cup {r \in Query : options.nested /\ live[r]
                                           /\ op[r].pc = "transport"} :
         op' = [op EXCEPT ![q] = [Idle EXCEPT !.pc = "begin",
                  !.async = async, !.checker = checker,
                  !.noOptimistic = noOptimistic, !.parent = p]]
    /\ live' = [live EXCEPT ![q] = TRUE]
    /\ UNCHANGED <<options, env, moves, cache, rdrc, lock, refresh>>

(* newCacheKey and cacheLock.LoadOrStore. *)
beginExchange(q) ==
    /\ op[q].pc = "begin"
    /\ IF live[q]
         THEN /\ op' = [op EXCEPT ![q].pc = "load", ![q].key = env,
                                  ![q].at = moves,
                                  ![q].holds = (lock[env] = None),
                                  ![q].waits = (lock[env] # None)]
              /\ lock' = IF lock[env] = None
                           THEN [lock EXCEPT ![env] = q] ELSE lock
              /\ UNCHANGED <<live>>
         ELSE Return(q)
    /\ UNCHANGED <<options, env, moves, cache, rdrc, refresh, exchanges>>

BugBackgroundRefreshDNS(q) ==
    LET k == op[q].key
    IN refresh' = IF refresh[k] # None \/ lock[k] # None THEN refresh
                  ELSE [refresh EXCEPT ![k] =
                          [pc |-> "transport", at |-> op[q].at,
                           checker |-> op[q].checker, answer |-> None]]

(* backgroundRefreshDNS: one goroutine per key. *)
backgroundRefreshDNS(q) ==
    LET k == op[q].key
    IN refresh' = IF refresh[k] # None THEN refresh
                  ELSE [refresh EXCEPT ![k] =
                          [pc |-> "transport", at |-> op[q].at,
                           checker |-> op[q].checker, answer |-> None]]

(* The cached answer is usable by q, and its age. *)
Cached(q) ==
    /\ cache[op[q].key] # None
    /\ cache[op[q].key].age = "stale" => ~op[q].noOptimistic

(* loadResponse and what follows it in the loop of beginExchange.  Nothing *)
(* looks at the response checker when the answer comes from the cache.     *)
loadResponse(q) ==
    LET a == cache[op[q].key]
    IN /\ op[q].pc = "load"
       /\ \/ /\ Cached(q)
             /\ IF a.age = "stale" THEN backgroundRefreshDNS(q)
                                   ELSE UNCHANGED refresh
             /\ Return(q)
             /\ UNCHANGED exchanges
          \/ /\ ~Cached(q) /\ ~op[q].waits
             /\ Goto(q, "check")
             /\ UNCHANGED <<lock, refresh, live, exchanges>>
          \/ /\ ~Cached(q) /\ op[q].waits
             /\ IF op[q].async   \* exchangeWait: a goroutine begins again
                  THEN op' = [op EXCEPT ![q] = [@ EXCEPT !.pc = "begin",
                                !.async = FALSE, !.waits = FALSE,
                                !.woken = FALSE]]
                  ELSE Goto(q, "wait")
             /\ UNCHANGED <<lock, refresh, live, exchanges>>
       /\ UNCHANGED <<options, env, moves, cache, rdrc>>

(* case <-cond and case <-ctx.Done(): the key is computed again, the lock  *)
(* is not taken again.                                                     *)
wait(q) ==
    /\ op[q].pc = "wait"
    /\ \/ /\ op[q].woken /\ live[q]
          /\ op' = [op EXCEPT ![q] = [@ EXCEPT !.pc = "load", !.key = env,
                                        !.at = moves, !.waits = FALSE,
                                        !.woken = FALSE]]
          /\ UNCHANGED <<lock, live>>
       \/ /\ ~live[q]
          /\ Return(q)
    /\ UNCHANGED <<options, env, moves, cache, rdrc, refresh, exchanges>>

BugCheck(q) ==
    /\ op[q].pc = "check"
    /\ IF op[q].parent # None \/ (op[q].checker /\ rdrc)
         THEN op' = [op EXCEPT ![q] = Idle] /\ live' = [live EXCEPT ![q] = FALSE]
         ELSE Goto(q, "transport") /\ UNCHANGED live
    /\ UNCHANGED <<options, env, moves, cache, rdrc, lock, refresh, exchanges>>

(* The end of beginExchange: loopback, then the rejection cache. *)
check(q) ==
    /\ op[q].pc = "check"
    /\ IF op[q].parent # None THEN Return(q)
       ELSE IF op[q].checker /\ rdrc THEN Return(q)
       ELSE Goto(q, "transport") /\ UNCHANGED <<lock, live>>
    /\ UNCHANGED <<options, env, moves, cache, rdrc, refresh, exchanges>>

NestedIn(q) == {r \in Query : Started(r) /\ op[r].parent = q}

(* exchangeToTransport. *)
transportAnswers(q) ==
    /\ op[q].pc = "transport"
    /\ live[q]
    /\ NestedIn(q) = {}
    /\ \E good \in BOOLEAN :
         op' = [op EXCEPT ![q].pc = "finish",
                  ![q].answer = [from |-> env, keyed |-> op[q].key,
                                 at |-> op[q].at, good |-> good]]
    /\ UNCHANGED <<options, env, moves, cache, rdrc, lock, refresh, live, exchanges>>

transportFails(q) ==
    /\ op[q].pc = "transport"
    /\ NestedIn(q) = {}
    /\ Return(q)
    /\ UNCHANGED <<options, env, moves, cache, rdrc, refresh, exchanges>>

BugStorable(k) == TRUE

(* finishCacheKey: the key still fits the network. *)
Storable(k) == env = k \/ k = 0

(* storeCache, under the key finishCacheKey returned; an answer whose time *)
(* to live is 0 or whose rcode is an error is not stored.                  *)
Store(k, a) ==
    \/ Storable(k) /\ cache' = [cache EXCEPT ![env] =
         [from |-> a.from, keyed |-> a.keyed, good |-> a.good,
          back |-> moves >= a.at + 2, age |-> "fresh"]]
    \/ UNCHANGED cache

(* SaveRDRCAsync; an answer rejected for its rcode is not saved. *)
Reject == rdrc' \in {rdrc, TRUE}

finishExchange(q) ==
    /\ op[q].pc = "finish"
    /\ \/ /\ op[q].checker /\ ~op[q].answer.good
          /\ Return(q)
          /\ Reject
          /\ UNCHANGED cache
       \/ /\ op[q].checker => op[q].answer.good
          /\ Return(q)
          /\ Store(op[q].key, op[q].answer)
          /\ UNCHANGED rdrc
    /\ UNCHANGED <<options, env, moves, refresh, exchanges>>

-----------------------------------------------------------------------------
(* The goroutine of backgroundRefreshDNS. *)
refreshAnswers(k) ==
    /\ refresh[k] # None
    /\ refresh[k].pc = "transport"
    /\ \E good \in BOOLEAN :
         refresh' = [refresh EXCEPT ![k].pc = "finish",
                       ![k].answer = [from |-> env, keyed |-> k,
                                      at |-> refresh[k].at, good |-> good]]
    /\ UNCHANGED <<options, env, moves, cache, rdrc, lock, op, live, exchanges>>

refreshFails(k) ==
    /\ refresh[k] # None
    /\ refresh[k].pc = "transport"
    /\ refresh' = [refresh EXCEPT ![k] = None]
    /\ UNCHANGED <<options, env, moves, cache, rdrc, lock, op, live, exchanges>>

refreshFinishes(k) ==
    /\ refresh[k] # None
    /\ refresh[k].pc = "finish"
    /\ refresh' = [refresh EXCEPT ![k] = None]
    /\ IF refresh[k].checker /\ ~refresh[k].answer.good
         THEN Reject /\ UNCHANGED cache
         ELSE Store(k, refresh[k].answer) /\ UNCHANGED rdrc
    /\ UNCHANGED <<options, env, moves, lock, op, live, exchanges>>

-----------------------------------------------------------------------------
(* A deadline, of an exchange and of those nested in it. *)
ctxDone(q) ==
    /\ live[q]
    /\ live' = [r \in Query |-> live[r] /\ r # q /\ r \notin NestedIn(q)]
    /\ UNCHANGED <<options, env, moves, cache, rdrc, lock, refresh, op, exchanges>>

(* An entry ages; it is removed when it is of no use or room is needed. *)
entryAges(k) ==
    /\ cache[k] # None
    /\ \/ /\ options.optimistic
          /\ cache' = [cache EXCEPT ![k].age = "stale"]
       \/ cache' = [cache EXCEPT ![k] = None]
    /\ UNCHANGED <<options, env, moves, rdrc, lock, refresh, op, live, exchanges>>

ClearCache ==
    /\ cache' = [e \in Env |-> None]
    /\ UNCHANGED <<options, env, moves, rdrc, lock, refresh, op, live, exchanges>>

(* rdrc_timeout *)
rejectionExpires ==
    /\ rdrc
    /\ rdrc' = FALSE
    /\ UNCHANGED <<options, env, moves, cache, lock, refresh, op, live, exchanges>>

environmentChanges ==
    /\ moves < options.moves
    /\ moves' = moves + 1
    /\ env' \in Env \ {env}
    /\ UNCHANGED <<options, cache, rdrc, lock, refresh, op, live, exchanges>>

(* What an exchange does without the server. *)
exchangeStep(q) ==
    \/ beginExchange(q) \/ loadResponse(q) \/ wait(q) \/ check(q)
    \/ finishExchange(q) \/ (~live[q] /\ transportFails(q))

Next ==
    \/ \E q \in Query : \/ Exchange(q) \/ exchangeStep(q) \/ ctxDone(q)
                        \/ transportAnswers(q)
                        \/ live[q] /\ transportFails(q)
    \/ \E k \in Env : \/ refreshAnswers(k) \/ refreshFails(k)
                      \/ refreshFinishes(k) \/ entryAges(k)
    \/ ClearCache \/ rejectionExpires \/ environmentChanges

Spec == Init /\ [][Next]_vars

(* Goroutines are scheduled, and a transport returns when the context of   *)
(* the exchange is done.  Nothing is assumed of servers and deadlines.     *)
FairSpec == Spec /\ \A q \in Query : WF_vars(exchangeStep(q))

-----------------------------------------------------------------------------
Answer == [from : Env, keyed : Env, at : Nat, good : BOOLEAN]

TypeOK ==
    /\ options \in Scenario /\ env \in Env /\ rdrc \in BOOLEAN
    /\ \A e \in Env :
          /\ lock[e] \in Query \cup {None}
          /\ cache[e] # None => cache[e].age \in {"fresh", "stale"}
          /\ refresh[e] # None => refresh[e].answer \in Answer \cup {None}
    /\ \A q \in Query :
          /\ op[q].pc \in {"idle", "begin", "load", "wait", "check",
                           "transport", "finish"}
          /\ op[q].key \in Env
          /\ op[q].pc = "idle" => op[q] = Idle /\ ~live[q]
          /\ op[q].pc = "finish" <=> op[q].answer \in Answer

(* The lock of a key is held by an exchange that is on its way and will    *)
(* release it, and whoever waits for a channel waits for one that is still *)
(* to be closed or is closed: no path of beginExchange, finishExchange or  *)
(* of the two callers keeps the lock, none misses the wakeup.              *)
LockIsReleased ==
    /\ \A k \in Env : lock[k] # None =>
          op[lock[k]].holds /\ op[lock[k]].key = k
    /\ \A q \in Query :
          /\ op[q].holds => lock[op[q].key] = q
          /\ op[q].waits /\ ~op[q].woken => lock[op[q].key] # None

(* An answer is found under the environment it was obtained in, although   *)
(* the network may change while it is asked for: otherwise a node would    *)
(* be given, after moving back to a network, what another one had said.    *)
(* Except: an answer asked for before the network was identified is stored *)
(* under whatever it is identified as when the answer arrives; and one     *)
(* asked for in a network that the node leaves and is back in at the end   *)
(* (at least two changes) is stored, wherever it was obtained.             *)
CachedForEnvironment ==
    \A k \in Env :
       cache[k] # None =>
         cache[k].from = k \/ cache[k].keyed = 0 \/ cache[k].back

(* Who is served a stale answer leaves a refresh behind, its own or one    *)
(* that is already running: staleness ends with the next answer.           *)
StaleIsRefreshed ==
    [][\A q \in Query :
         op[q].pc = "load" /\ op'[q].pc = "idle" =>
           (cache[op[q].key].age = "stale" => refresh'[op[q].key] # None)]_vars

(* q waits for r, or for what the transport of r is waiting for. *)
WaitsFor(q, r) == op[q].waits /\ ~op[q].woken /\ lock[op[q].key] = r

InLoop(q) ==
    \/ \E r \in Query : WaitsFor(q, r) /\ op[q].parent = r
    \/ \E n \in NestedIn(q) : WaitsFor(n, q)

(* An exchange never hangs on the client.  If it does not end, then again  *)
(* and again its context is live and a server owes an answer, to it, to    *)
(* the exchange it waits for or to one nested in these, or it is part of a *)
(* loop: a transport that resolves its own server through itself makes an  *)
(* equal exchange that waits for the one that made it; the loopback check  *)
(* comes after the wait, so that the loop ends with the deadline only.     *)
HangsOnlyOnServer ==
    \A q \in Query :
       []<>(\/ ~Started(q)
            \/ /\ live[q]
               /\ \/ \E r \in Query :
                        /\ q = r \/ WaitsFor(q, r) \/ r \in NestedIn(q)
                        /\ op[r].pc = "transport" \/ InLoop(r)
                  \/ InLoop(q))
=============================================================================
