---------------------------- MODULE LoadBalance ----------------------------
(***************************************************************************)
(* The loadbalance outbound (protocol/group/loadbalance.go) on top of the  *)
(* health checker it shares with urltest (URLTestGroup, urltest.go), the   *)
(* history storage (common/urltest) and the interrupt group                *)
(* (common/interrupt).                                                     *)
(*                                                                         *)
(* Members are numbered in the order of their tags, which is the order of  *)
(* the configuration too.  A member that is a urltest group (kind nested)  *)
(* measures its own delay; all others are leaves that the group probes.  A *)
(* loadbalance as a member, which reports the least delay of its own pool, *)
(* is not modelled.  Delays are a few numbers; the score of a member is    *)
(* its delay (the default sorter) or a metric its transport reports.  The  *)
(* networks a member supports stay what they are.                          *)
(*                                                                         *)
(* Time passes in units; a probe takes less than one.  A group that is     *)
(* used is checked every Interval units, never early, and no longer after  *)
(* IdleTimeout units without use.                                          *)
(***************************************************************************)
EXTENDS Naturals, FiniteSets, Sequences, FiniteSetsExt

CONSTANTS Group, Conn,
          Scenario,      \* the records setting is chosen from
          Interval, IdleTimeout,
          Timeout,       \* delays from here on are unhealthy
          Tolerance,
          None

Net == {"tcp", "udp"}

ASSUME ConstantsAssumption ==
    /\ {Interval, IdleTimeout, Timeout, Tolerance} \subseteq Nat
    /\ \A s \in Scenario :
          /\ s.primary \in [Group -> SUBSET Nat]
          /\ s.backup \in [Group -> SUBSET Nat]
          /\ \A g \in Group : IsFiniteSet(s.primary[g] \cup s.backup[g])
          /\ s.supports \in [Net -> SUBSET Nat] /\ s.nets \subseteq Net
          /\ s.delays \subseteq Nat /\ s.metrics \subseteq Nat
          /\ s.top \in Nat

VARIABLES setting,   \* fixed: primary, backup (tags by group), nested (tags),
                     \* supports (tags by network: Outbound.Network),
                     \* top (top_n.primary), byMetric (the sorter), random
                     \* (empty_pool_action), interrupt (also connections
                     \* from inbounds), asked (the API asks for tests),
                     \* busy (groups used in every unit), nets (the
                     \* networks dialled), delays,
                     \* metrics (values), the bounds faults, dials, and
                     \* endless (dials go on for ever, which no bound counts)
          up, metric,        \* the members as they are
          faults, dials,     \* so far
          history,   \* HistoryStorage: the latest delay, how old it is, and
                     \* late: it was stored after the unit had begun
          snapshot,  \* by group: the candidate pool, best first
          ticker,    \* by group: units to the next check, None when stopped
          idle,      \* by group: units since lastActive
          check,     \* by group: the round of checks under way (checking)
          changed,   \* by group: stored a new set, Interrupt is to follow
          conn       \* dials and connections

network == <<up, metric, faults>>
vars == <<setting, network, dials, history, snapshot, ticker, idle, check,
          changed, conn>>

Members(g) == setting.primary[g] \cup setting.backup[g]
Member == UNION {Members(g) : g \in Group}

(* pc: idle, dialing, connected, open (in the interrupt group).  net: the  *)
(* network dialled; left: the attempts left; tried: those that failed;     *)
(* old: the set has changed since it was registered.                       *)
NoConn == [pc |-> "idle", group |-> None, net |-> None, left |-> <<>>,
           tried |-> {}, external |-> FALSE, old |-> FALSE]

-----------------------------------------------------------------------------
(* liveMemberDelay and healthyCandidates. *)
Measured(m) == history[m] # None /\ history[m].delay # 0

Healthy(m) == Measured(m) /\ history[m].delay < Timeout

Score(m) == IF setting.byMetric THEN metric[m] ELSE history[m].delay

(* sortCandidatesByScore and rankAfter. *)
RankBefore(m, n) ==
    \/ Score(m) < Score(n)
    \/ Score(m) = Score(n) /\ history[m].delay < history[n].delay
    \/ /\ Score(m) = Score(n) /\ history[m].delay = history[n].delay
       /\ m < n

(* sort.Slice: the members of S by the strict order before, a set of       *)
(* pairs.  The place of a member is the number of those before it.         *)
InOrder(S, before) ==
    [i \in 1 .. Cardinality(S) |->
       CHOOSE m \in S :
          Cardinality({k \in S : <<k, m>> \in before}) = i - 1]

Ranks(S) == {p \in S \X S : RankBefore(p[1], p[2])}

sortCandidatesByScore[S \in SUBSET Member] == InOrder(S, Ranks(S))

healthyCandidates(S) == sortCandidatesByScore[{m \in S : Healthy(m)}]

BugOutranks(next, incumbent) ==
    IF Score(incumbent) # Score(next)
      THEN Score(incumbent) >= Score(next) + Tolerance
      ELSE history[incumbent].delay >= history[next].delay + Tolerance

outranksBeyondTolerance(next, incumbent) ==
    IF Score(incumbent) # Score(next)
      THEN Score(incumbent) > Score(next) + Tolerance
      ELSE history[incumbent].delay > history[next].delay + Tolerance

Selection == [in : SUBSET Member, done : BOOLEAN]

BugChallenge(n, next) == [r \in Selection |->
    IF next \in r.in THEN r
    ELSE IF Cardinality(r.in) < n THEN [in |-> r.in \cup {next}, done |-> FALSE]
    ELSE [in |-> r.in, done |-> TRUE]]

(* One round of the loop over the members that are not selected yet. *)
Challenge(n, next) == [r \in Selection |->
    LET worst == CHOOSE w \in r.in :
                   \A m \in r.in \ {w} : RankBefore(m, w)
    IN IF r.done \/ next \in r.in THEN r
       ELSE IF Cardinality(r.in) < n
         THEN [in |-> r.in \cup {next}, done |-> FALSE]
       ELSE IF outranksBeyondTolerance(next, worst)
         THEN [in |-> (r.in \ {worst}) \cup {next}, done |-> FALSE]
       ELSE [in |-> r.in, done |-> TRUE]]

(* selected after so many rounds, from the first: incumbents. *)
Selected(healthy, n, first) ==
    LET selected[i \in 0 .. Len(healthy)] ==
          IF i = 0 THEN [in |-> first, done |-> FALSE]
          ELSE Challenge(n, healthy[i])[selected[i - 1]]
    IN selected

selectTopNWithTolerance(healthy, n, previous) ==
    IF n = 0 \/ n >= Len(healthy) THEN healthy
    ELSE IF previous = {} THEN SubSeq(healthy, 1, n)
    ELSE LET kept == sortCandidatesByScore[Range(healthy) \cap previous]
             first == {kept[i] : i \in 1 .. Min({n, Len(kept)})}
         IN sortCandidatesByScore[
              Selected(healthy, n, first)[Len(healthy)].in]

(* The candidates of a rebuild. *)
Candidates(g) ==
    LET primaries == healthyCandidates(setting.primary[g])
    IN IF primaries # <<>>
         THEN selectTopNWithTolerance(primaries, setting.top,
                                      Range(snapshot[g].pool))
         ELSE healthyCandidates(setting.backup[g])

(* hasPendingSelfTestingMember *)
Pending(g) ==
    \E m \in IF setting.primary[g] # {} THEN setting.primary[g]
                                        ELSE setting.backup[g] :
       m \in setting.nested /\ ~Measured(m)

Registered(g) == {c \in Conn : conn[c].pc = "open" /\ conn[c].group = g}

BugSameCandidateSet(previous, next) == Len(previous) = Len(next)

(* A tag is primary or backup, not both. *)
sameCandidateSet(previous, next) == Range(previous) = Range(next)

(* rebuildSnapshot, up to the call of Interrupt.  zero: the seed, whose    *)
(* latencies are all 0.                                                    *)
rebuild(g) ==
    /\ ~changed[g]
    /\ \E pool \in {Candidates(g)} :
         IF pool = <<>> /\ snapshot[g].zero /\ Pending(g)
            THEN UNCHANGED <<snapshot, changed, conn>>
            ELSE /\ snapshot' = [snapshot EXCEPT ![g] =
                                   [pool |-> pool, zero |-> FALSE]]
                 /\ changed' = [changed EXCEPT ![g] =
                                  ~sameCandidateSet(snapshot[g].pool, pool)]
                 /\ conn' = [c \in Conn |->
                      IF /\ c \in Registered(g)
                         /\ Range(pool) # Range(snapshot[g].pool)
                        THEN [conn[c] EXCEPT !.old = TRUE] ELSE conn[c]]

(* interruptGroup.Interrupt *)
Interrupt(g) ==
    /\ changed[g]
    /\ changed' = [changed EXCEPT ![g] = FALSE]
    /\ conn' = [c \in Conn |->
                  IF c \in Registered(g)
                     /\ (~conn[c].external \/ setting.interrupt)
                    THEN NoConn ELSE conn[c]]
    /\ UNCHANGED <<setting, network, dials, history, snapshot, ticker, idle,
                   check>>

-----------------------------------------------------------------------------
(* URLTestGroup.urlTest: one round at a time.  todo: members still to be   *)
(* looked at; cached: a delay about to be stored again; probing: probes    *)
(* under way; force: asked for by the API.                                 *)
Round(g, force) ==
    [todo |-> Members(g), cached |-> None, probing |-> {}, force |-> force]

urlTest(g, force) ==
    check' = IF check[g] # None THEN check
             ELSE [check EXCEPT ![g] = Round(g, force)]

(* time.Since(history.Time) < interval.  A probe ends after the tick that  *)
(* started it, so that its result is still fresh at the next tick.         *)
Fresh(m) ==
    \/ history[m].age < Interval
    \/ history[m].age = Interval /\ history[m].late

BugUseCache(m) ==
    Measured(m) /\ (m \in setting.nested \/ history[m].age <= Interval)

(* memberProbe: what the history says may be used instead of a probe, even *)
(* for a forced test.                                                      *)
UseCache(m) == Measured(m) /\ (m \in setting.nested \/ Fresh(m))

BugLook(g) ==
    /\ check[g] # None /\ check[g].todo # {} /\ check[g].cached = None
    /\ LET m == Min(check[g].todo)
       IN check' = IF UseCache(m)
                     THEN [check EXCEPT ![g].cached =
                             [of |-> m, delay |-> history[m].delay]]
                   ELSE [check EXCEPT ![g].probing = @ \cup {m}]
    /\ UNCHANGED <<setting, network, dials, history, snapshot, ticker, idle,
                   changed, conn>>

(* The loop of urlTestBatch.test.  The delay read is stored again as of    *)
(* now, under the name of the member.                                      *)
look(g) ==
    /\ check[g] # None /\ check[g].todo # {} /\ check[g].cached = None
    /\ LET m == Min(check[g].todo)
       IN check' =
            IF UseCache(m)
              THEN [check EXCEPT ![g].cached =
                      [of |-> m, delay |-> history[m].delay]]
            ELSE IF \/ m \in setting.nested
                    \/ ~check[g].force /\ history[m] # None /\ Fresh(m)
              THEN [check EXCEPT ![g].todo = @ \ {m}]
            ELSE [check EXCEPT ![g].todo = @ \ {m},
                               ![g].probing = @ \cup {m}]
    /\ UNCHANGED <<setting, network, dials, history, snapshot, ticker, idle,
                   changed, conn>>

storeCached(g) ==
    /\ check[g] # None /\ check[g].cached # None
    /\ LET m == check[g].cached.of
       IN /\ check' = [check EXCEPT ![g].cached = None,
                                    ![g].todo = @ \ {m}]
          /\ history' = IF m \in setting.nested THEN history
                        ELSE [history EXCEPT ![m] =
                                [delay |-> check[g].cached.delay, age |-> 0,
                                 late |-> FALSE]]
    /\ UNCHANGED <<setting, network, dials, snapshot, ticker, idle, changed,
                   conn>>

(* testOutbound's goroutine. *)
probe(g, m) ==
    /\ check[g] # None /\ m \in check[g].probing
    /\ check' = [check EXCEPT ![g].probing = @ \ {m}]
    /\ IF up[m] THEN \E d \in setting.delays :
                       history' = [history EXCEPT ![m] =
                                     [delay |-> d, age |-> 0, late |-> TRUE]]
                ELSE history' = [history EXCEPT ![m] = None]
    /\ UNCHANGED <<setting, network, dials, snapshot, ticker, idle, changed,
                   conn>>

(* b.Wait returns; updateCallback is rebuildSnapshot. *)
finishCheck(g) ==
    /\ check[g] # None
    /\ check[g].todo = {} /\ check[g].probing = {}
    /\ check' = [check EXCEPT ![g] = None]
    /\ rebuild(g)
    /\ UNCHANGED <<setting, network, dials, history, ticker, idle>>

(* The Clash API, CheckOutbounds: a test of the group. *)
URLTest(g) ==
    /\ setting.asked
    /\ check[g] = None
    /\ urlTest(g, TRUE)
    /\ UNCHANGED <<setting, network, dials, history, snapshot, ticker, idle,
                   changed, conn>>

(* The Clash API after a test of one outbound. *)
PerformUpdateCheck(g) ==
    /\ setting.asked
    /\ rebuild(g)
    /\ UNCHANGED <<setting, network, dials, history, ticker, idle, check>>

-----------------------------------------------------------------------------
(* Touch and the start of loopCheck. *)
Touch(g) ==
    IF ticker[g] # None
      THEN /\ idle' = [idle EXCEPT ![g] = 0]
           /\ UNCHANGED <<ticker, check>>
      ELSE /\ ticker' = [ticker EXCEPT ![g] = Interval]
           /\ IF idle[g] > Interval
                THEN idle' = [idle EXCEPT ![g] = 0] /\ urlTest(g, FALSE)
                ELSE UNCHANGED <<idle, check>>

(* A tick of loopCheck. *)
tick(g) ==
    /\ ticker[g] = 0
    /\ IF idle[g] > IdleTimeout
         THEN /\ ticker' = [ticker EXCEPT ![g] = None]
              /\ UNCHANGED check
         ELSE /\ ticker' = [ticker EXCEPT ![g] = Interval]
              /\ urlTest(g, FALSE)
    /\ UNCHANGED <<setting, network, dials, history, snapshot, idle, changed,
                   conn>>

(* The rest of the time nothing is under way.  The groups of started are   *)
(* used for the first time, those that are busy again.                     *)
timePasses ==
    /\ \A g \in Group : check[g] = None /\ ticker[g] # 0 /\ ~changed[g]
    /\ history' = [m \in Member |->
                     IF history[m] = None THEN None
                     ELSE [history[m] EXCEPT !.age = Min({@ + 1, Interval + 1})]]
    /\ \E started \in SUBSET {g \in setting.busy : ticker[g] = None} :
         ticker' = [g \in Group |-> IF g \in started THEN Interval
                                    ELSE IF ticker[g] = None THEN None
                                    ELSE ticker[g] - 1]
    /\ idle' = [g \in Group |-> IF g \in setting.busy THEN 0
                                ELSE Min({idle[g] + 1, IdleTimeout + 1})]
    /\ UNCHANGED <<setting, network, dials, snapshot, check, changed, conn>>

-----------------------------------------------------------------------------
(* sortCandidatesByLatency: the measured by delay, then the others. *)
DialBefore(m, n) ==
    IF Measured(m) /\ Measured(n) /\ history[m].delay # history[n].delay
      THEN history[m].delay < history[n].delay
    ELSE IF Measured(m) # Measured(n) THEN Measured(m)
    ELSE m < n

DialOrder[S \in SUBSET Member] ==
    InOrder(S, {p \in S \X S : DialBefore(p[1], p[2])})

(* A member that does not support the network is skipped, like one tried. *)
poolByLastDelay(S, net, tried) ==
    DialOrder[(S \cap setting.supports[net]) \ tried]

BugFailoverAttempts(g, selected, net) ==
    LET first == IF Range(selected) \subseteq setting.supports[net]
                   THEN selected ELSE <<>>
    IN first \o poolByLastDelay(setting.primary[g], net, Range(first))
             \o (IF snapshot[g].pool = <<>>
                   THEN poolByLastDelay(setting.backup[g], net, Range(first))
                   ELSE <<>>)

(* selected: <<>> or <<the first choice>>, which is skipped too when it    *)
(* does not support the network.                                           *)
failoverAttempts(g, selected, net) ==
    LET first == IF Range(selected) \subseteq setting.supports[net]
                   THEN selected ELSE <<>>
    IN first \o poolByLastDelay(setting.primary[g], net, Range(first))
             \o poolByLastDelay(setting.backup[g], net, Range(first))

(* pickCandidate: by hash or at random, any candidate of the pool. *)
pickCandidate(g) ==
    IF snapshot[g].pool # <<>> THEN {<<m>> : m \in Range(snapshot[g].pool)}
    ELSE IF setting.random THEN {<<m>> : m \in Members(g)}
    ELSE {<<>>}

(* DialContext and ListenPacket: Touch, pick, and the frozen order. *)
DialContext(c, g) ==
    /\ conn[c].pc = "idle"
    /\ dials < setting.dials
    /\ dials' = IF setting.endless THEN dials ELSE dials + 1
    /\ Touch(g)
    /\ \E external \in BOOLEAN, net \in setting.nets, selected \in pickCandidate(g) :
         conn' = [conn EXCEPT ![c] =
                    [NoConn EXCEPT !.pc = "dialing", !.group = g,
                       !.net = net,
                       !.left = failoverAttempts(g, selected, net),
                       !.external = external]]
    /\ UNCHANGED <<setting, network, history, snapshot, changed>>

(* dialAttempts: one member.  It fails when the member is down, and for    *)
(* any other error of dial: the destination is rejected, a deadline        *)
(* passes, the caller gives up while it is under way.                      *)
dialAttempt(c) ==
    LET m == Head(conn[c].left)
    IN /\ conn[c].pc = "dialing" /\ conn[c].left # <<>>
       /\ \/ /\ up[m]
             /\ conn' = [conn EXCEPT ![c].pc = "connected"]
             /\ UNCHANGED history
          \/ /\ conn' = [conn EXCEPT ![c].left = Tail(@),
                                     ![c].tried = @ \cup {m}]
             /\ history' = [history EXCEPT ![m] = None]
       /\ UNCHANGED <<setting, network, dials, snapshot, ticker, idle, check,
                      changed>>

Exhausted(c) == conn[c].pc = "dialing" /\ conn[c].left = <<>>

(* The dial fails: no attempt is left, or ctx.Err tells between two        *)
(* attempts that the caller gave up (the attempt under way when that       *)
(* happened has failed like any other).                                    *)
dialEnds(c) ==
    /\ conn[c].pc = "dialing"
    /\ conn' = [conn EXCEPT ![c] = NoConn]
    /\ UNCHANGED <<setting, network, dials, history, snapshot, ticker, idle,
                   check, changed>>

(* interruptGroup.NewConn *)
NewConn(c) ==
    /\ conn[c].pc = "connected"
    /\ conn' = [conn EXCEPT ![c].pc = "open"]
    /\ UNCHANGED <<setting, network, dials, history, snapshot, ticker, idle,
                   check, changed>>

(* interrupt.Conn.Close by its user *)
CloseConn(c) ==
    /\ conn[c].pc = "open"
    /\ conn' = [conn EXCEPT ![c] = NoConn]
    /\ UNCHANGED <<setting, network, dials, history, snapshot, ticker, idle,
                   check, changed>>

-----------------------------------------------------------------------------
(* Members fail and recover, transports report other figures. *)
memberChanges(m) ==
    /\ faults < setting.faults
    /\ faults' = faults + 1
    /\ \/ up' = [up EXCEPT ![m] = ~@] /\ UNCHANGED metric
       \/ \E x \in setting.metrics \ {metric[m]} :
            metric' = [metric EXCEPT ![m] = x] /\ UNCHANGED up
    /\ UNCHANGED <<setting, dials, history, snapshot, ticker, idle, check,
                   changed, conn>>

(* A nested group has measured (or failed to reach) the outbound it uses. *)
nestedTests(m) ==
    /\ m \in setting.nested
    /\ history[m] # None \/ up[m]
    /\ IF up[m] THEN \E d \in setting.delays :
                       history' = [history EXCEPT ![m] =
                                     [delay |-> d, age |-> 0, late |-> TRUE]]
                ELSE history' = [history EXCEPT ![m] = None]
    /\ UNCHANGED <<setting, network, dials, snapshot, ticker, idle, check,
                   changed, conn>>

inTagOrder(S) == InOrder(S, {p \in S \X S : p[1] < p[2]})

(* Start seeds the pool, PostStart begins a first round. *)
Init ==
    /\ setting \in Scenario
    /\ up = [m \in Member |-> TRUE]
    /\ metric = [m \in Member |-> 0]
    /\ faults = 0 /\ dials = 0
    /\ history = [m \in Member |-> None]
    /\ snapshot = [g \in Group |->
         [pool |-> IF setting.primary[g] # {}
                     THEN inTagOrder(setting.primary[g])
                     ELSE inTagOrder(setting.backup[g]),
          zero |-> Members(g) # {}]]
    /\ ticker = [g \in Group |-> None]
    /\ idle = [g \in Group |-> 0]
    /\ check = [g \in Group |-> IF Members(g) = {} THEN None
                             ELSE Round(g, FALSE)]
    /\ changed = [g \in Group |-> FALSE]
    /\ conn = [c \in Conn |-> NoConn]

(* What the checkers do and the clock, which waits for them. *)
Progress ==
    \/ timePasses
    \/ \E g \in Group : \/ tick(g) \/ look(g) \/ storeCached(g)
                        \/ Interrupt(g) \/ finishCheck(g)
                        \/ \E m \in Members(g) : probe(g, m)

Next ==
    \/ Progress
    \/ \E g \in Group : URLTest(g) \/ PerformUpdateCheck(g)
    \/ \E c \in Conn : \/ \E g \in Group : Members(g) # {}
                                           /\ DialContext(c, g)
                       \/ dialAttempt(c) \/ dialEnds(c)
                       \/ NewConn(c) \/ CloseConn(c)
    \/ \E m \in Member : memberChanges(m) \/ nestedTests(m)

Spec == Init /\ [][Next]_vars

(* The checker's goroutines are scheduled and probes end (they have a      *)
(* deadline); time passes.                                                 *)
FairSpec == Spec /\ WF_vars(Progress)

-----------------------------------------------------------------------------
Entry == [delay : setting.delays, age : 0 .. Interval + 1, late : BOOLEAN]

Checking == [todo : SUBSET Member, probing : SUBSET Member, force : BOOLEAN,
             cached : [of : Member, delay : setting.delays] \cup {None}]

Connection == [pc : {"idle", "dialing", "connected", "open"},
               group : Group \cup {None}, net : Net \cup {None},
               left : Seq(Member), tried : SUBSET Member, external : BOOLEAN, old : BOOLEAN]

TypeOK ==
    /\ setting \in Scenario /\ faults \in Nat /\ dials \in Nat
    /\ up \in [Member -> BOOLEAN]
    /\ metric \in [Member -> setting.metrics \cup {0}]
    /\ history \in [Member -> Entry \cup {None}]
    /\ snapshot \in [Group -> [pool : Seq(Member), zero : BOOLEAN]]
    /\ ticker \in [Group -> 0 .. Interval \cup {None}]
    /\ idle \in [Group -> 0 .. IdleTimeout + 1]
    /\ check \in [Group -> Checking \cup {None}]
    /\ changed \in [Group -> BOOLEAN]
    /\ conn \in [Conn -> Connection]
    /\ \A g \in Group :
          /\ Range(snapshot[g].pool) \subseteq Members(g)
          /\ IsInjective(snapshot[g].pool)
          /\ check[g] # None =>
               /\ check[g].todo \cup check[g].probing \subseteq Members(g)
               /\ check[g].todo \cap check[g].probing = {}

(* m is better than n by more than the tolerance: by score, or by delay    *)
(* where the scores tell nothing.                                          *)
Better(m, n) ==
    \/ Score(n) > Score(m) + Tolerance
    \/ Score(n) = Score(m) /\ history[n].delay > history[m].delay + Tolerance

(* The step stores a choice of the N best primaries in place of another. *)
Rechosen(g) ==
    /\ snapshot'[g] # snapshot[g]
    /\ Range(snapshot[g].pool) \cup Range(snapshot'[g].pool)
          \subseteq setting.primary[g]

(* Hysteresis: a primary that is still healthy loses its place in the      *)
(* top N only to one that is better by more than the tolerance (an equal   *)
(* delta keeps the incumbent), however many change places in one rebuild.  *)
(* With the default sorter every newcomer is; with another one some are    *)
(* (of two newcomers one may have displaced another incumbent).  Of a seed *)
(* larger than N the best remain, newcomers or not.                        *)
TopNIsStable ==
    [][\A g \in Group : Rechosen(g) =>
         \A old \in Range(snapshot[g].pool) \ Range(snapshot'[g].pool) :
           LET newcomers == Range(snapshot'[g].pool) \ Range(snapshot[g].pool)
           IN Healthy(old) =>
                /\ ~setting.byMetric =>
                     \A new \in newcomers : Better(new, old)
                /\ Len(snapshot[g].pool) <= setting.top =>
                     \E new \in newcomers : Better(new, old)]_vars

(* And nothing much better is left out: selectTopNWithTolerance stops at   *)
(* the first member that does not displace the worst, and with the default *)
(* sorter none of those after it would.  (With another sorter one that     *)
(* ties with the worst on score may be far better by delay.)               *)
NothingBetterLeftOut ==
    [][\A g \in Group : Rechosen(g) /\ ~setting.byMetric =>
         \A new \in Range(snapshot'[g].pool),
            out \in setting.primary[g] \ Range(snapshot'[g].pool) :
              Healthy(out) => ~Better(out, new)]_vars

(* No internal connection registered before a change of the candidate set  *)
(* outlives the Interrupt that follows the change, and with                *)
(* interrupt_exist_connections none at all.                                *)
SetChangeInterrupts ==
    \A c \in Conn :
       conn[c].pc = "open" /\ conn[c].old
       /\ (~conn[c].external \/ setting.interrupt) =>
         changed[conn[c].group]

Supporting(g, net) == Members(g) \cap setting.supports[net]

(* A dial runs out of attempts only when every configured member that      *)
(* supports its network, in the pool or not, healthy or not, has been      *)
(* tried and failed (loadbalance.go: failoverAttempts, dialAttempts).      *)
FailoverIsComplete ==
    \A c \in Conn :
       Exhausted(c) => conn[c].tried = Supporting(conn[c].group, conn[c].net)

(* The pool of g says of a primary leaf what it is. *)
Follows(g, m) ==
    \/ ticker[g] = None
    \/ m \in setting.nested \/ m \notin setting.primary[g]
    \/ setting.top # 0 \/ \E d \in setting.delays : d = 0 \/ d >= Timeout
    \/ up[m] <=> m \in Range(snapshot[g].pool)

(* Others ask for tests too, or share members. *)
Disturbed ==
    \/ setting.asked
    \/ \E g, h \in Group : g # h /\ Members(g) \cap Members(h) # {}

(* A failed dial deletes the delay of a member that is up. *)
Disowned ==
    \E m \in Member : up[m] /\ history[m] # None /\ history'[m] = None

(* Health checks follow the members: in a group in use that is alone with  *)
(* its members, a primary that stays down leaves the pool and one that     *)
(* stays up is in it, unless dials go on failing through members that are  *)
(* up: one that does so between the probe and the rebuild keeps its member *)
(* out of the pool for another round (loadbalance.go: dialAttempts).       *)
PoolFollowsHealth ==
    <>[][~Disowned]_vars =>
       []<>(Disturbed \/ \A g \in Group : \A m \in Members(g) : Follows(g, m))

(* The same of all groups: members are probed in the background, every     *)
(* interval, and those that fail leave the pool with a health check.       *)
MembersAreProbed ==
    <>[][~Disowned]_vars =>
       []<>(\A g \in Group : \A m \in Members(g) : Follows(g, m))
=============================================================================
