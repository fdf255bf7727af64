# Verification of the sing-box panel adapter and parts of sing-box

TLA+ specifications of the concurrent parts of this repository, with the TLC runs
that check them on small instances and the TLAPS proofs that hold for every
instance. Paths in this document are relative to `src/`.

Two groups of parts are modelled:

- the panel adapter (`cmd/sing-box-panel-adapter`, `internal/paneladapter`), which
  turns a sing-box node into one managed by a panel. It is what the fork adds, its
  failures are silent (wrong bills, a node that says it is fine and serves nobody,
  an update that cannot be undone), and it is concurrent, persistent and
  distributed at once;
- the parts of sing-box proper in which several goroutines share state under
  locks, channels and contexts: the DNS client, the connection pool and query
  multiplexer under it, the load-balancing group with its health checker, and the
  session pool of the Noisy-Shuttle outbound.

The rest of sing-box is inventoried in section 6.

## 1. The system and its parts

`main.go` starts the adapter: it loads the config file and the state file,
decides whether this is the first start of a new binary, bootstraps a Box from
the panel's configuration, recovers unsent traffic reports, and then starts one
goroutine each for the configuration, the users of each inbound, the traffic
report, the heartbeat and the token. A signal ends them, the Box is closed and
the last traffic is flushed.

| Part | Source | What it keeps | Module |
|---|---|---|---|
| Traffic tracker | `internal/paneladapter/traffic/tracker.go` | live counters by (tag, user), one staged snapshot | `Tracker` (in detail), `Reporter` (as sets) |
| Traffic reporter | `internal/paneladapter/reporter/reporter.go` | the report being sent; journal and quarantine in the state file | `Reporter`, `TrafficLedger` |
| Runtime manager | `internal/paneladapter/runtime/manager.go` | the running Box; revision and ETag in the state file | `NodeConfig` |
| User poller | `internal/paneladapter/users/poller.go` | user ETag, revision and status of each inbound in the state file | `NodeConfig` |
| Binary updater | `internal/paneladapter/update/updater.go`, `replace.go` | executable, backup and staged file; pending and blacklisted versions in the state file | `Updater` |
| Token rotation, SIGHUP | `main.go`, `config/config.go`, `client/client.go` | the token in the config file, in the client, and one received but not yet written | `TokenRotation` |
| State store | `internal/paneladapter/state/store.go` | the state file, written atomically | part of `Reporter`, `NodeConfig`, `Updater` |
| Panel client | `internal/paneladapter/client/client.go` | the token | answers and failures in `Reporter`, `NodeConfig`, `TokenRotation` |
| Goroutines, startup, shutdown | `cmd/sing-box-panel-adapter/main.go` | – | the program counters of these modules |
| Heartbeat | `main.go` (`sendHeartbeat`) | – (reads the state) | not modelled |
| Wire contract, config parsing, template editing, archive unpacking | `contract`, `config`, `runtime/clickhouse.go`, `update/archive.go` | – | not modelled: pure |
| DNS client | `dns/client.go`, `route/network_environment.go` | answer cache, lock per cache key, running refreshes, rejection cache | `DNSClient` |
| DNS query multiplexer | `dns/transport/multiplexer.go` | pending queries, what is known of connection reuse | `Multiplexer` |
| DNS connection pool | `dns/transport/conn_pool.go` | the shared connection, the dial in progress | `ConnPool` |
| Load-balancing group | `protocol/group/loadbalance.go` | the candidate pool | `LoadBalance` |
| Health checker, history | `protocol/group/urltest.go`, `common/urltest` | delays of members, ticker, last use | `LoadBalance` |
| Connection interruption | `common/interrupt` | connections of a group | `LoadBalance` |
| Noisy-Shuttle sessions | `protocol/noisyshuttle/session.go` | the pooled session | `SessionPool` |

How they interact: the parts share the state file through `UpdateAndSave`, which
clones, mutates, writes and only then replaces the state in memory, under one
lock. The configuration goroutine drives the manager, after a change of revision
the poller, and then the updater; the updater calls back into the reporter (to
flush) and into the manager (to close the Box) before it replaces the
executable. The user goroutines drive the poller, which calls into the manager.
The traffic goroutine drives the reporter, which drives the tracker. The
reporter and the poller have no lock of their own.

The state machines of the adapter are separate modules because they share nothing
but the store's atomicity and these calls; each call is in the module of the part
it changes: the updater's flush is a caller of `Reporter` (constant `Updaters`),
its closing of the Box is an action of `NodeConfig` (`UpdateFails`), and to
`Updater` both are the step `Prepare`.

In sing-box the DNS client asks a transport, which for UDP, TCP and TLS is a
multiplexer on a pool. `Multiplexer` EXTENDS `ConnPool`: the pool's critical
sections are conjuncts of its actions. What it shows of an exchange (one callback,
at the latest when the context is done) is what `DNSClient` assumes of its
transport. The load-balancing group, the health checker and the interrupt group
call each other synchronously and are one module.

## 2. Modules

### Reporter

Traffic is a set of *bytes*, chunks that a connection counts once. A report is a
set of bytes, a window and whether the store has its body; its idempotency key
and hash are functions of these (in the code of the node, the start of the
window and the body's hash), so that a report stands for its key. The panel takes
a key once.

State: `pendingReports`, `quarantinedReports` (the store), `live`, `staged`,
`inboundMapping` (the tracker), `pendingReport` (the reporter's field), a program
counter and the locals of `stageAndSend` and `Recovery` for each goroutine,
`accepted` and `inflight` (the panel, and requests the adapter gave up on),
`counted`, `lost` and `unbilled` (history: counted, gone with a process, subtracted
without a record).

Each byte is counted under a tag. The configuration goroutine replaces the mapping
of tags to inbounds after every poll (`UpdateInboundMapping`), whatever the reporter
is doing. A tag is unknown, mapped or withdrawn: connections of a withdrawn tag go
on counting. A snapshot has all counters (`staged.bytes`), the report only those of
mapped tags (`staged.records`); what is subtracted is the snapshot.

There is one action per access to something shared: `ReportNow`, `CheckJournal`
and `RecheckJournal` are the branches of `ReportNow`; `Stage`/`StageNothing`,
`Journal`, `ConfirmJournaled` and `ResetJournaled` are `stageAndSend`; `RetryPending`,
`SendOK`, `ConfirmAccepted`, `ResetAccepted`, `ClearPending` are `retryPending` and
`sendAndFinalize`; `Recover...` and `RecoverySaved` are the loop of `Recovery` and
its save; each save has a failing twin. `Shutdown` and `FlushStages` are `Flush`,
`Exec` and `ExecFails` the end of a binary update, `Start` the start with the
recovery of `main`. `Crash` is enabled everywhere. A new window may be any window,
also one used before and one the panel does not take, because the clock may jump.

Accepted and journaled flags of a snapshot are only read as a disjunction and are
one flag. Retry counters and error classes change nothing and are left out. The
journal is a set: its order only decides the order of resending, which is any
order here.

### TrafficLedger

What the pipeline promises: a byte is counted, then journaled, then settled
(accepted, or in quarantine for an operator), it never moves back, and only bytes
that are not journaled die with the process. Bytes whose tag is not mapped when
traffic is staged are skipped (`Stage`); they may be dropped for good (`GiveUp`),
and are not in the report that is journaled for that staging. `Reporter` defines
the refinement mapping (`Ledger`) and `LedgerSpec`.

### Tracker

The reason `Reporter` may speak of sets. Counter objects have identities (a
connection keeps a pointer to its object for life, while the table of live
counters may drop the object and make a new one for the same key), values are
integers per direction, and the units behind a value are history. `Transfer` and
`CountFunc` are the two halves of a counted read: the bytes move, then the counter
is increased, and the connection may be closed in between. `Close` decrements and
`releaseCounters` takes the lock, as two steps. The callers of `StageForReport`,
`Confirm` and `ResetLiveCountersWhenJournaled` are arbitrary.

### Updater

Files are the version they hold; the update record is the state file's. One
action per write: `BackupCurrent`, `RecordPending`, `Prepare`, `Replace`, `Exec`,
`Restore`, `RestoreSaved`, `ExecRestored`, `CommitSuccess`, `RemoveBackup`, each with
the failure the code handles; `Crash` between any two, and `Restart` by the
supervisor of whatever the executable then is. `Bad` versions return an error from
`Bootstrap`, `Dying` ones never return; `BootstrapFails` is an outage, which hits
any version. `proven` (versions that have bootstrapped) and `restoreFailed` are
history.

### NodeConfig

One managed inbound with a supported protocol and hot reload of users; the
configuration goroutine (also `main` during the start) and the user goroutine,
each with its program counter and the locals of `PollInbound`. The manager's lock
is held in the program points `Locked`. Revisions and user lists are numbered as
the panel makes them. The ETag of a configuration is its revision and the ETag
of a user snapshot is the pair of list and revision: an assumption about the
panel, whose snapshots contain `configuration_revision`. The variable `setting` is
chosen once: what may fail (fetches, the creation of a Box, saves, the process),
which revisions wait for an operator, how many binary updates fail.

### TokenRotation

Tokens are numbered as the panel issues them. `RotateToken`, `UpdateNodeToken`
(load and write of a temporary file), `Rename` and `Activate` are the rotation
goroutine, each with its failure; `SIGHUP` (load) and `ReloadToken` (set) the
signal loop, which runs beside it; `Edit` an operator at the file, `Crash` the end
of the process. `copy` is the settings `UpdateNodeToken` has loaded; `overlap` and
`raced` are history: a reload that began before a rename and ended after the
activation, an edit between load and rename.

### ConnPool, Multiplexer

One shared connection per pool. Connections have numbers, which are used again when
nothing refers to them (`recycle`, taken before any other step, so that it adds no
interleavings). Each exchange has two goroutine slots: its own and the one of the
retry that `completeConnDone` starts while the first may still be writing. An
exchange runs through `dispatch`, `acquireShared`, `collectShared` or
`waitCancelled`, `register`, `writeSucceeds` or `writeFails`; from `register` on
`complete` (the reader), `completeContextDone`, `completeConnDone` and `writeFails`
compete for the entry in `pending`. `Reset` is two steps (the probe state, then the
pool), and the pool's `Reset` and `Close` are two more (swap, `closeState`).
`runReuseProbe` ends with any verdict. A shared connection that is given up keeps
the cause (`cause`): a failed read, another error, or the context error of a query
whose deadline passed in silence; `completeConnDone` retries after the first, where
the query may still be retried, and otherwise tells the caller the error. `options`
is chosen once: what the UDP, TCP and TLS transports pass to `newQueryMultiplexer`,
and the bounds.

Ids of queries are identities, not 16-bit numbers: a straggler never finds a
younger query. The pool's Ordered mode has no caller and is left out.

### DNSClient

All exchanges are for one question on one transport that depends on the network,
so that cache keys differ in the environment only. `beginExchange` is
`LoadOrStore` of the lock, `loadResponse` the look into the cache (whose stale
branch starts `backgroundRefreshDNS`), `wait` the select on the channel, `check`
the loopback and rejection checks, `transportAnswers` and `transportFails` the
transport, `finishExchange` the checker and the store. Refreshes are goroutines of
their own. An exchange may be made by the transport of another one (`parent`).
`env` is the *identified* environment: the code updates it a second after the
interface changes.

### LoadBalance

Members, numbered; delays are small numbers, and the clock counts units of which
the check interval has two. A round of health checks (`urlTest`) walks the members
in steps: `look` decides between cache, skip and probe, `storeCached` stores a
cached delay again (a separate step, because the history is shared), `probe` ends a
probe, `finishCheck` rebuilds the pool. `rebuild` has the whole of
`rebuildSnapshot` with `selectTopNWithTolerance` up to the call of `Interrupt`,
which is an action of its own. `DialContext` stands for `ListenPacket` too: `Touch`,
the choice (any candidate: the hash and the random number are arbitrary) and the
frozen order of attempts, from which members that do not support the network are
left out. `dialAttempt` tries one member. It succeeds only if the member is up and
may fail in any case, as for any error of the member's dial (a rejected
destination, a deadline, a caller that gives up meanwhile); a failure deletes the
member's delay. `dialEnds` is the end of the attempts, or the look at `ctx.Err`
between two of them. `NewConn` registers.

### SessionPool

The pool's lock is a variable, because `session.close` takes it and is called with
and without it; a session's own lock guards straight-line code only. `lookup` and
`install` are the two critical sections of `OpenStream`, `removeLocked` is
`session.close` inside the first. `backgroundLoop`, `sendKeepalive` and
`backgroundRemove` are the session's own goroutine.

### MC modules

`MCReporter`, `MCTracker`, `MCNodeConfig`, `MCMultiplexer`, `MCDNSClient`,
`MCLoadBalance`: values of the constants that a cfg cannot write (leftovers in the
journal, tag mappings, symmetry, the scenarios a run ranges over). The other
modules are run as they are.

### Proof modules

One for each component with theorems, which EXTENDS the component's module and
TLAPS: `ReporterProofs`, `TrackerProofs`, `UpdaterProofs`, `NodeConfigProofs`,
`TokenRotationProofs`, `MultiplexerProofs` (pool and multiplexer), `DNSClientProofs`,
`LoadBalanceProofs`; see section 5.

## 3. Runs

`tlc -config <cfg> <module>` in this directory.

| Run | cfg | Checks | Shows |
|---|---|---|---|
| reporter_safety | MCReporter | `NoDoubleCount` `Conserved` `WindowContract` `FlushLeavesNothing` `LedgerSpec` `PendingSettles` `CountedIsReported` | with one reporting goroutine nothing is billed twice or lost outside a dying counter and the counters of a withdrawn tag; the pipeline implements the ledger; after an outage everything that can be sent is settled, and traffic of a tag that stays mapped reaches a report |
| reporter_race | MCReporterRace | `NoDoubleCount` violated | two goroutines in `ReportNow` |
| tracker | MCTracker | `ValueIsUnits` `InvisibleIsLate` `CountedOnce` | subtraction of numbers is subtraction of sets |
| updater | MCUpdater | `Recoverable` `BlacklistHonoured` `RollsBackToProven` `FailedStartRollsBack` `UpdatesSettle` | an update can be undone after a kill at any point; a version whose bootstrap fails is left for good |
| nodeconfig | MCNodeConfig | `TypeOK` `NotModifiedIsRunning` `RevisionIsRunning` `NodeConverges` | a 304 never hides a configuration that does not run; the state names the running revision; the node converges |
| nodeconfig_race | MCNodeConfigRace | `OkIsApplied` violated | two pollers apply in one order and record in the other |
| rotation | MCTokenRotation | `TokensAccounted` `ActiveIsPersisted` `EditsSurvive` `PendingSettles` | no token is forgotten after it was received; what a reload and an edit can disturb, and nothing else |
| multiplexer | MCMultiplexer | `CalledOnce` `SharedIsUsable` `NoLeak` `PendingIsRead` `ProbingIsProbed` `CtxErrorSource` `HangsOnlyOnServer` | one callback per exchange, no connection leaked, no query without a reader, one source of foreign context errors, no exchange that hangs on the code |
| dns_client | MCDNSClient | `LockIsReleased` `CachedForEnvironment` `StaleIsRefreshed` `HangsOnlyOnServer` | no lock kept, no wakeup missed, no answer cached for a network it is not from |
| loadbalance | MCLoadBalance | `TypeOK` `SetChangeInterrupts` `FailoverIsComplete` `TopNIsStable` `NothingBetterLeftOut` `PoolFollowsHealth` | hysteresis in both directions, fail-over to every member that supports the network, interruption, and a pool that follows its members |
| loadbalance_shared | MCLoadBalanceShared | `MembersAreProbed` violated | two groups keep one another from probing a member they share |
| shuttle_pool | MCSessionPool | `OpenStreamReturns` violated | a second stream closes the session inside the lock that closing needs |

A violated property states what a comment or a document of the repository says;
`PROJECT.json` quotes the line under "findings" and says what the trace does.

The type invariants of `Reporter`, `Tracker`, `Updater`, `TokenRotation`, `DNSClient`
and `Multiplexer`, and `SentWhileJournaled`, `OpenIsLive` and `PersistedBeforeActive`,
are not in a run: they are proved (section 5).

### Bounds, and why they are enough

States and times are of `tlc -workers 2`.

- *Reporter* (380,401 states): two bytes (one in a report and one counted
  meanwhile) under two tags, of which the panel may withdraw one, one valid and one
  invalid window; because a window may be used again and requests may
  arrive at any later time, one valid window is the harder case, and two are used
  where two reports must be able to differ in the window alone (the race). The
  journal may start with an entry without a body, one with an invalid window, or
  one to resend beside one that cannot be. One reporting goroutine in the passing
  run is what the adapter has while no binary is offered, and at the start when
  one is; here it may exec a new binary after each report. With two the property
  fails, which is the finding.
- *Tracker* (424,348 states): three connections on one key, two units: one
  object, its successor under the same key, and a late count on the first; the
  panel may withdraw the tag. Connections and units are interchangeable and appear
  in no cfg constant by name: symmetry is sound (no temporal property is checked
  with it).
- *Updater*: four versions: the installed one, a good one, a failing one, a dying
  one, so that an update can follow a rollback of each kind.
- *NodeConfig* (327,303 states): three revisions (running, failed, next), two user
  lists, and the five settings of `MCSettings`: all faults at once, faults after
  which the node must converge with and without a manual revision, and binary
  updates that close the Box and fail, up to two.
- *TokenRotation* (16,555 states): three tokens, so that a rotation can follow one
  that was lost; three troubles (lost answers, failed writes, crashes), two reloads
  or edits.
- *Multiplexer* (328,126 states): two exchanges at a time and up to three in all,
  four connections, one `Reset`, one failed reuse (`DemoteLimit`) before reuse is
  given up. Each scenario of `MCScenario` concentrates on one kind of trouble; the
  combinations are what the proofs are for.
- *DNSClient* (574,653 states): two exchange slots, up to four exchanges, three
  environments of which 0 is "not identified", and the five scenarios of
  `MCScenario`.
- *LoadBalance* (774,387 states): up to three members, an interval of two ticks,
  delays around a tolerance of 1 and, in one scenario, 0 and the timeout itself. One
  scenario has members that support only TCP or only UDP. In another dials go on
  for ever, so that a dial may fail in every round of checks; the others have at most
  two.
- *SessionPool*: two callers, two sessions, two streams: the second caller meets
  the session of the first.

`CHECK_DEADLOCK FALSE` is used where the finite supply of a model runs out and the
system then rests: units and connections (tracker), tokens and troubles
(rotation), exchanges (multiplexer, dns_client), dials and faults of a group whose
ticker has stopped for want of use (loadbalance), and in shuttle_pool, where the
blocked lock is what the temporal property shows. The other runs check deadlock.

### Fairness

- *Reporter*: weak fairness of each goroutine's steps (the tickers of
  `runPeriodic` fire for ever), of the shutdown sequence and of the restart of a
  stopped adapter. Liveness is claimed only if the outage ends
  (`OutageEnds`: from some point on no crash, failed save or failed request), and
  `CountedIsReported` of a byte whose tag is mapped from some point on.
- *Updater*: weak fairness of the process' own steps and the supervisor's restart
  (`Startup`, `Install`, `Rollback`), if from some point on only these happen and
  no restore failed.
- *NodeConfig*: weak fairness of each goroutine, if from some point on only their
  fault-free steps happen (`FaultsEnd`).
- *TokenRotation*: weak fairness of the rotation goroutine and of a reload that
  has begun. Nothing of the panel or the disk: troubles are finitely many.
- *DNSClient*: weak fairness of each exchange's own steps, among them the return
  of a transport whose context is done. Nothing of servers and deadlines.
- *Multiplexer*: one weak fairness of all steps of goroutines (`Progress`): a read
  on a connection closed on this side returns, a dial whose context is cancelled
  returns, a probe has a timeout. Nothing of the server; `HangsOnlyOnServer` names
  the deadline where it needs one.
- *LoadBalance*: one weak fairness of the checker's steps and the clock, which
  waits for them: probes have a deadline that is short against the interval.
  Liveness is claimed if from some point on no failed dial deletes the delay of a
  member that is up (`Disowned`).
- *SessionPool*: strong fairness of whoever waits for the pool's lock, which a Go
  mutex gives (starvation mode); the violation stands in spite of it.

Fairness of a goroutine is what the Go scheduler and a ticker give; nothing is
assumed of the panel but that it answers once the outage is over.

## 4. What can go wrong, and which property would show it

`PROJECT.json` lists the hazards at the lines where they bite. The main ones:

- a report accepted by the panel and not yet cleared from the journal when the
  process dies, or when the save fails (`NoDoubleCount`, proved);
- traffic between staging, journaling, subtraction and sending (`Conserved`,
  `SentWhileJournaled`, `LedgerSpec`, proved);
- the clock jumping between two reports (`WindowContract`);
- a counter deleted while a connection still holds it (`OpenIsLive`,
  `InvisibleIsLate`, proved). The model shows the exact extent of the loss: only units
  counted after their own connection was closed can become invisible;
- a kill between two writes of an update (`Recoverable`, proved). Two limits are
  visible in its statement and in `BlacklistHonoured`: after a *failed restore* the
  next update backs up the unproven binary, and a commit that could not be saved
  leaves a working version on trial;
- apply and record under two locks, two pollers of one inbound (`OkIsApplied`);
- an ETag that outlives the Box it describes (`NotModifiedIsRunning`, proved;
  `OkIsApplied`);
- four parties that may end one DNS query while a fifth retries it (`CalledOnce`,
  proved), and a dial that completes while its pool is reset or closed (`NoLeak`,
  `SharedIsUsable`, proved);
- a cache lock whose holder returns early, is nested or loses its network
  (`LockIsReleased`, `CachedForEnvironment`, proved);
- a pool of members that is rebuilt under dials and connections (`FailoverIsComplete`,
  `SetChangeInterrupts`, proved).

Limits of the code that other instances of the same properties show (give
`Settings` a member with these fields, with `FairSpec`, to see the traces):

- `RevisionIsRunning` without its hypothesis fails with `manual = {2}`:
  `recordPendingRevision` (`manager.go:335`) writes the revision it does not apply
  into the field of the applied one.
- `OkIsApplied` fails with `faults = {"save", "crash"}` and one revision: after a
  restart, a failed save of the applied configuration (`manager.go:387`) leaves
  the user ETag of the previous process beside an empty Box.
- `OkIsApplied` fails with `updates = 1`, `faults = {"fetch"}` and one revision:
  a failed update has closed the Box, the re-bootstrap (`main.go:252`) fails, and
  from then on every poll is answered 304. For the same reason `NotModifiedIsRunning`
  has the hypothesis `RebootSafe`; it fails without it with `updates = 1` and either
  `{"fetch"}` or `{"create", "save"}`.
- `NodeConverges` without its hypothesis `Calm` fails with `updates = 1` and no
  faults at all: a poll applies its users to the old Box and records their ETag
  after the re-bootstrap.

Limits that the statements of the other properties name:

- `CachedForEnvironment`: an answer that arrives after the network changed may be
  stored under the new environment in the two cases its comment describes.
- `TopNIsStable` and `NothingBetterLeftOut`: with a sorter other than the default one
  `outranksBeyondTolerance` compares scores where the sort has used delays for
  ties, so that it is not monotone along the sort: several members can push each
  other out in one rebuild. The first property then only says that *some* newcomer
  is better, and only while the pool is no larger than `top` (the seeded pool holds
  all primaries); the second is for the default sorter.
- `PoolFollowsHealth`: not for groups that share members (the finding of
  loadbalance_shared) or are tested through the API, and not while dials through
  members that are up go on failing: `loadbalance.go:478` deletes the delay for any
  error, and a dial that fails between the probe and the rebuild of each round keeps
  its member out of the pool. Without that hypothesis TLC finds the behaviour in the
  scenario with endless dials.
- `FailoverIsComplete` is about members that support the network of the dial.
- `Conserved` and `LedgerSpec` account for the counters of a withdrawn tag:
  `tracker.go:255` leaves them out of the records and 381-388 subtract them with the
  rest, so that they are billed to nobody (`unbilled`). When no other tag has
  traffic there are no records, `stageAndSend` returns, and they stay in the
  counters; hence the hypothesis of `CountedIsReported`, and `FlushLeavesNothing` is
  about what has a record.
- `CtxErrorSource`: a query whose deadline passes while nothing was read on the
  shared connection gives the connection up with its own context error
  (`multiplexer.go:418-420`), and 382 passes that on to the other queries pending
  there, whose contexts are live.
- `ActiveIsPersisted` and `EditsSurvive` each except one interleaving, which their
  comments name.
- `SetChangeInterrupts` is about connections registered before the change: a dial in
  flight survives an `Interrupt` and registers afterwards.
- `Touch` after `Close` starts a ticker that nobody stops; closing a group is not
  modelled.

Divergences of code and comment that have no run:

- `main.go:538` flushes the traffic before the Box is closed (544): what is counted
  in between dies with the process. `updater.go:172-173` names the order "flush
  traffic, close box", `docs/sing-box-panel-adapter.md:218` says that the adapter
  "flushes traffic" before it replaces the file; neither speaks of a loss.
- `updater.go:126`: a version that dies before `Bootstrap` returns is started for
  ever, where `updater.go:2` promises a rollback. `FailedStartRollsBack` is
  therefore stated for `Bad`, not `Dying`, versions.
- `dns/client.go:306-320`: a cached answer is returned without the response check of
  the rule that asks, where `docs/configuration/dns/rule.md:654` says "When the query
  results do not match the address filtering rule items, the current rule will be
  skipped."
- `protocol/noisyshuttle/session.go`: the keepalive reads the connection without
  the lock, `KeepaliveTimeout` is never used, and the two ends disagree on the
  length of a pong.

Two more are plain from the code and have no property: a tag that the panel gives
to another inbound takes the unreported traffic of the old one with it
(`tracker.go:255`), and the old Box is closed before the new one is created, so
that a failed creation leaves none, where `manager.go:196-198` says that it keeps
running. `NeedsConfigRefetch` (`poller.go:90`) has no caller: a revision conflict
waits for the next configuration tick.

Every property of a passing run has a mutant in `PROJECT.json`: a definition
`Bug...` in the module, a plausible slip in the code, under which TLC finds the
property violated.

## 5. Proofs

`tlapm <module>.tla` in this directory. The proofs hold for every value of the
constants that satisfies the assumption of the module (`ConstantsAssumption`,
`Bounds`, `PoolAssumption`, `MultiplexerAssumption`): they say that bounds are
naturals, that `None` is none of the values it stands beside, and what fields a
scenario has. TLC evaluates them in every run.

Each proof is that of one inductive invariant, action by action; the properties
follow from it. The invariants were first checked with TLC on the instances of
section 3.

**Reporter.** `TypeCorrect` is for any set of goroutines. The other properties hold
only if one goroutine reports, so their theorems assume `SoleReporter`:
`\A s, t \in Reporters : s = t`. From it `Spec => []Inv` and

- `NoByteReportedTwice` (`NoDoubleCount`), `NoByteDisappears` (`Conserved`),
  `OnlyValidWindowsSent` (`WindowContract`), `ShutdownFlushes`
  (`FlushLeavesNothing`);
- `ImplementsLedger`: `Spec => LedgerSpec`, the refinement of `TrafficLedger`;
- `JournalFirst` (`SentWhileJournaled`): a report goes to the panel for the first
  time only while the journal holds it.

`NoDoubleCount` is not inductive. That a new report does not overlap an old one
follows from the old one's bytes being out of the counters (`CountersInv`), which
needs that the snapshot subtracted is the one of the report just journaled
(`SnapshotInv`), which needs that a recovery never meets a snapshot of somebody
else: a snapshot outside of staging is left over from a failed save, and then the
journal is empty (`LeftoverInv`, `StageInv`), so that no recovery runs
(`RecoveryInv`: a recovery has a non-empty journal and accounts for all of it).
`PhaseInv` says who may run when; `FinalInv` that the counters only shrink after
the Box is closed. For `Conserved`, `SnapshotInv` also says that the report just
journaled is the recorded part of the snapshot, so that exactly the rest becomes
`unbilled`; the mapping may change at every step in between.

**Tracker.** `IInv == TypeOK /\ StagedInv /\ ObjectInv /\ ActiveInv /\ OpenIsLive /\
PlaceInv /\ ValueInv /\ SnapshotInv /\ InvisibleIsLate`, for any number of
connections, keys and units. `CountersCount` (`ValueIsUnits`) needs that a unit is
in one place (`PlaceInv`) and that a staged snapshot is a subset of what its
counter still holds (`SnapshotInv`); the latter needs that an object named in the
snapshot is not replaced under its key while it holds anything (`ObjectInv`,
`ActiveInv`: the count of holders is the number of connections that hold it). Also
`OpenCountersAreLive`, `OnlyLateEscapes` (`InvisibleIsLate`) and `UnitsCountedOnce`
(`CountedOnce`). Sums over sets of units are cardinalities, from
`FiniteSetTheorems`.

**Updater.** `IInv == TypeOK /\ StagedInv /\ RecoverableInv` gives `TypeCorrect`,
`AlwaysRecoverable` (`Recoverable`), `RestoresOnlyProven` (`RollsBackToProven`) and
`NeverInstallsBlacklisted` (`BlacklistHonoured`). `Recoverable` is about files
alone; to be inductive it needs that the executable is proven wherever `Apply`
runs (only a process that bootstrapped gets there), that the staged file is the
recorded version and not blacklisted, and that a process that starts is of the
version of the executable.

**NodeConfig.** `IInv == TypeOK /\ PollInv /\ CallInv /\ BoxInv /\ RevisionIsRunning
/\ NotModifiedIsRunning`: `PollInv` says that a poll about to apply or record
has a snapshot and that only a process without goroutines boots, `CallInv` that a
call of the manager is about a revision at least as new as the ETag's, `BoxInv`
what the Box is between the parts of `applyConfigLocked`. Theorems
`TypeCorrect`, `StateNamesTheBox` (`RevisionIsRunning`), `NoStaleETag`
(`NotModifiedIsRunning`). Their hypotheses on the setting are part of the
properties and necessary (section 4).

**TokenRotation.** `IInv == TypeOK /\ Order /\ Agreement /\ TokensAccounted /\ Edits`:
`Order` relates the numbers of the tokens in the file, in the client, pending and
loaded by a reload at each program point; `Agreement` says when client and file
differ. Theorems `ActiveTokenIsPersisted` (`PersistedBeforeActive`),
`NoTokenForgotten` (`TokensAccounted`), `RestAgrees` (`ActiveIsPersisted`),
`RotationKeepsEdits` (`EditsSurvive`).

**DNSClient.** `IInv == Types /\ LockInv /\ CacheInv`, for any number of exchanges,
nested or not, and of networks: `NoLockKept` (`LockIsReleased`) and
`CacheFollowsNetwork` (`CachedForEnvironment`). `LockInv` ties each lock to the
exchange on its way that will release it and each waiter to a lock; `CacheInv`
follows the environment from the key to the answer.

**Multiplexer and ConnPool.** `IInv == TypeOK /\ CountInv /\ TokenInv /\ PoolInv /\
UseInv /\ OwnerInv /\ ProbeInv`, with `PoolInv == SharedInv /\ DialInv /\ PastInv /\
ReadInv /\ NoLeak`, for any number of exchanges, connections, resets and failures.
`CalledOnce` needs an account of the right to call back (`TokenInv`: for each
exchange one of the goroutines, the pending entry or the retry has it); the
pool's properties need that a connection is closed with the state it was dialled
for, and the state in force only by `Close` (`PastInv`), that what a goroutine uses
was dialled and has a reader (`UseInv`), and that the exchange that started a dial
owns it (`OwnerInv`). Theorems `TypeCorrect`, `OneCallback` (`CalledOnce`), `SharedConnection`
(`SharedIsUsable`), `NothingLeaks` (`NoLeak`), `ReaderServesPending`
(`PendingIsRead`), `OneProbe` (`ProbingIsProbed`), and the action property
`ContextErrorSource` (`CtxErrorSource`), which needs besides that `completeConnDone`
passes on the cause of the connection (`ConnDoneTells`).

**LoadBalance.** For any groups (sharing members or not), members, connections,
delays and pool sizes. Two halves:

- *What the algorithms return.* `InOrderLists`: sorting by counting lists a
  finite set, each member once, in the order given, if that is a strict total
  order; `RankLawsHold`: the order of the code is one. `IterationExists`: the loop
  of `selectTopNWithTolerance`, a recursive function, exists; `LoopStart` and
  `LoopStep` are the induction of its invariant `LoopInv`, `LoopHolds` its
  conclusion, `Choosing` what it means for the choice (`Chosen`): a healthy member
  of the old pool is left out only for better newcomers, and with the default
  sorter nothing better stays outside. There is no induction rule in these
  proofs: each takes the least round at which the claim would fail
  (`LeastNatural`, from the well-foundedness of the naturals).
- *The state machine.* `IInv == TypeOK /\ ConnInv /\ SetChangeInterrupts`, where
  `ConnInv` says of a dial in progress that the members it has tried and those it
  has left are together those of its group that support its network, and that only a
  registered connection is marked as older than a change of the set. Theorems
  `TypeCorrect` (`TypeOK`, with the published pools within their groups and without
  repetition), `ChangesInterrupt` (`SetChangeInterrupts`), `EveryMemberIsTried`
  (`FailoverIsComplete`), and the action properties `HysteresisHolds`
  (`TopNIsStable`) and `NothingBetter` (`NothingBetterLeftOut`), which combine both
  halves: only a rebuild changes a pool (`PoolsChangeInRebuilds`), and what it
  publishes was `Chosen`.

**Only model-checked**: everything under fairness (`PendingSettles` of both modules,
`CountedIsReported`, `FailedStartRollsBack`, `UpdatesSettle`, `NodeConverges`,
`HangsOnlyOnServer` of both modules, `StaleIsRefreshed`, `PoolFollowsHealth`):
liveness and ENABLED are out of the prover's reach. `SessionPool` has no theorem:
its one property is violated.

## 6. Not modelled, and why

- HTTP, JSON, hashing, the download and unpacking of a binary, logging: data.
- The tracker's distinct-address tables (they only grow) and heartbeats (they
  only read).
- More than one managed inbound, unsupported protocols, user policies other than
  hot reload.
- The panel beyond: it takes a report's key once, answers a matching ETag with
  304, and numbers what it serves.
- A corrupt state file: `NewStore` returns an error and the adapter does not start.
- DNS: rule evaluation (`dns/router.go`), message editing, time-to-live arithmetic,
  `Lookup` (two exchanges side by side), transports other than through the
  multiplexer, 16-bit query ids that come round while a query is pending.
- Groups: the selection of `urltest` and `selector`, the hash ring, metric windows
  and transport statistics, the snapshot's `Generation`, load-balancing groups as
  members of one another beyond their own tests of members (`nestedTests`), members
  whose networks change (a `selector` has those of its selection).
- Noisy-Shuttle: frames, the contents of the handshake, datagrams, the inbound side.
- The rest of sing-box: `box.go` and the managers (`adapter/*/manager.go`), routing
  (`route/...`), cache file, Clash and V2Ray APIs, services, protocols and transports,
  TLS, options, platform bindings. These are I/O, encoding, configuration data,
  generated code, or a fixed sequence run by one goroutine.

## 7. Plan

1. *SessionPool* with the lock taken outside of `close`: the pool's invariants, which
   the deadlock hides, and their proof.
2. *OutboundManager* (`adapter/outbound/manager.go`): start order by dependencies,
   Create and Remove.
3. *FakeIP* (`dns/transport/fakeip/store.go`): allocation around the end of the range.
4. *ssmapi* (`service/ssmapi`): traffic and user managers.
5. *NodeConfig* with a set of inbounds that the panel may change.
