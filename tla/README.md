# Formal model of go-bb-browser

`go-bb-browser` drives a running Chrome for many callers. `bb-daemon` keeps one
CDP session to Chrome and serves JSON-RPC over HTTP; callers name tabs by short
ids; a recovery log lets a restarted daemon go on looking after the tabs it had
opened; a client library spreads calls over several daemons. This directory
holds TLA+ modules of the parts where steps of several goroutines, events of
Chrome and crashes meet, TLC configurations that check them on small instances,
and proofs that TLAPS checks for all instances.

Source paths below are relative to `src/`.

## The system

| part | source | state it keeps | what changes it |
|---|---|---|---|
| tab registry | `internal/state/tab_registry.go` | target id ⇄ short id, the selected tab | target events, syncs with `Target.getTargets`, `tab_new`, `tab_close`, `tab_select`, `tab_focus` |
| idle tracker | `internal/state/tab_idle.go` | last activity of daemon-created tabs | `tab_new`, every successful operation on a tab, removals, reconciliation with the log |
| per-tab lock | `internal/daemon/rpc_connections.go` | short id → lock entry (token, reference count, forgotten) | operations on tabs, the sweeper, removals |
| lifecycle coordinator | `internal/daemon/{v1,tab_idle,browser_reconnect,server}.go` | none of its own | RPC handlers, `runTargetSync`, `closeExpiredTabs`, `connectBrowserLocked` |
| CDP session | `internal/browser/session.go` | target event queue and dirty flag, cached contexts of tabs | Chrome, operations, removals |
| audit pipeline | `internal/daemon/v1.go`, `server.go` | `auditCh`, `auditClosed` | every RPC, the writer goroutine, shutdown |
| RPC log store | `internal/store` | `rpc.jsonl` and its backups, the managed map, `seq` | the audit pipeline, rotation, crashes, start |
| CDP supervisor | `internal/daemon/browser_reconnect.go`, `health.go` | `ready`/`suspect`/`failed`, failure count, last probe | ticker, early probes, end of the session |
| observers | `internal/browser/observer.go`, `internal/daemon/rpc_observation.go`, `obs_sink.go` | per target: leased domains, queue, cursors, drop counts | `network`, `console`, `errors` RPCs, Chrome events, observer sweeper |
| observation buffers | `internal/state/obs_store.go`, `ringbuf.go` | three rings per target | observers, clear RPCs, removals |
| network routes | `internal/browser/network_routes.go` | per target: rules, generation, worker, queue of paused requests | `network_route`, `network_unroute`, Chrome events, removals |
| client pool | `pkg/daemonclient/pool.go` | bound tabs, in-flight counts, round-robin counter | calls of the embedding program, answers of the daemons |
| CLI, launcher, site adapters, protocol, auth, configuration | `cmd/`, `internal/site`, `pkg/protocol`, ... | none that lives longer than a request | |

How the parts meet. An RPC handler takes the lock of its short id, resolves it
in the registry, runs CDP commands in the cached context of the target, renews
the idle tracker, answers, and schedules an audit record; the audit writer
appends it to the log. Chrome's target events go through a bounded queue to
`runTargetSync`, which registers and removes targets; an overflow sets a dirty
flag and leads to a resync. Handlers that list targets, the resync and the
start apply the reply in several steps, each under a mutex of its own. The idle
sweeper closes tracked tabs that have expired, under the same per-tab locks.
After a restart the log tells which short ids were daemon-created. The session
keeps three things for a target, each under a mutex of its own: the cached
context, the route rules with their worker, and the observer, which has a context
of its own and fills rings in the daemon. Removing a target (`clearRemovedTarget`,
`ForgetTarget`) goes through them one after the other, holding no lock that RPCs on
the tab hold. A client library's pool spreads calls over several daemons that
know nothing of each other.

What is hard here is exactly this: a reply applied after things have moved on;
decisions taken before a lock is held; short ids that are reused; locks that
are reference-counted and forgotten; events lost to a full queue; a log that
must survive torn writes, rotation, late handlers and shutdown; contexts,
routes and observers of a tab that is removed while they are being set up; calls
that fail over after a daemon has already acted. `PROJECT.json` lists the hazards
at their lines.

What makes each part correct: the registry's maps are inverse and short ids are
stable; operations on a tab exclude each other and the lock neither leaks nor
starves; the sweeper closes only daemon-created tabs that are idle, and does not
leave one behind; the log always rebuilds the managed map and loses no scheduled
record; the supervisor exits when and only when the session is lost; a leased
observation domain is enabled and every event is recorded or counted as dropped;
no paused request is left without an answer; a pool tab is only ever served by
the daemon that owns it.

## Modules

| module | models | correspondence |
|---|---|---|
| `TabRegistry` | the registry | `targetToShort`, `shortToTarget`, `selected` are the fields of the struct, with the empty sequence for "absent"; one action per method, as each runs under one mutex. A target id is a sequence of `IdLen` digits and a short id a suffix of one, so the collisions are the code's |
| `KeyedMutex` | what the per-tab lock promises | abstract specification: holders of each short id, at most one |
| `TabLock` | `lockTab`, unlock, `releaseTabLockRef`, `forgetTabLock` | `entryOf` is `tabCDPLocks`; `refs`, `forgotten`, `token` are the entry's fields; a goroutine goes idle → waiting → inside → leaving; each step is one critical section or one channel operation |
| `TabLifecycle` | handlers, watcher, resync, sweeper, start and restart over the registry (extended) and the locks (an instance of `KeyedMutex`) | `at[p]` holds a goroutine's position and local variables; the starter is `connectBrowserLocked`; `Capture`/`Apply`/`Untrack`/`Detach`/`Present` are the steps of `syncTabsFromTargets`; the rest has the name of its step |
| `ManagedTabs` | a record and what it does to the managed map | `Update` is `applyManagedUpdate` |
| `DurableLog` | what the log promises | abstract specification: a map on disk, records accepted and each applied once, at a stroke |
| `RpcLog` | audit pipeline and store | the file is a sequence of lines, each with a record, whether it is JSON and whether it ends; `managed`, `auditCh`, `auditClosed` are the code's; `writing` and `handing` are the records in `AppendRPC` of the writer and of a handler that holds `auditMu`; `durable` and `unwritten` are history variables |
| `Supervisor` | the CDP supervisor, the fatal exit, starting and stopping | `browserState`, `browserFailures`, `probeTrigger`, `fatalCh` are the server's fields; `once` is how far the body of `fatalOnce.Do` has come; `main` is where `ListenAndServe` is; `at` where the watchdog, `watchCDPSession` and the handlers are |
| `Target` | the target in Chrome and the connection (external), shared by the next four | `live`, `lost` |
| `TabContext` | `Session.tabPool`, the attach in the background, `attachCancellation`, `releaseFailedAttach` | `pool` is `tabPool[target]`; `ent[e].phase` is where `initializeTabPoolEntry` is, `cancelled`, `err` are the code's, `target` says whether chromedp's `Target` is set, `watched` whether chromedp's watcher has run |
| `NetworkRoutes` | rules, generation, worker and listener of one target, the worker's loop, `ClearRoutesForTarget` | `rules`, `gen`, `current` are the maps of `routeState` at the target; `worker[w]` has the fields of `routeWorker` and where its loop is; `rpc` is where `syncRoutes` is; `fetch` and `req` are Chrome's Fetch domain and its requests |
| `Observation` | the observer of one target, its writer and rings, the observation and clear RPCs, the lease sweeper | `observer` is `observers[target]`; `obs[o]` has the fields of `tabObserver`, the domains Chrome has on and who holds its mutex; `rings` is `TabObsStore`; `query` is where `handleObsQuery` is; `cursor` is the client's |
| `TabSession` | the last three put together with the removal of the target | `stage` is how far `clearRemovedTarget` and `ForgetTarget` have come |
| `ClientPool` | `daemonclient.Pool`, with daemons that are external | `tabs`, `inFlight`, `rr` are the fields of the struct; `call[c]` is where a goroutine's call is and its local variables |
| `TabRegistryProofs`, `TabLockProofs`, `TabLifecycleProofs`, `RpcLogProofs`, `SupervisorProofs`, `ClientPoolProofs` | | theorems about the module of the name, which each extends |
| `ObservationProofs`, `TabSessionProofs` | | what every step on the observation preserves; the theorems about `TabSession`, which put it together with the contexts, the routes and the removal |
| `MC*` | | constants of the runs |

`TabLifecycle` uses the abstract lock where the code uses the entries; that is
sound because `TabLock` implements it (run `tab_lock`, theorem `LockIsMutex`).

Definitions whose name ends in what they get wrong (`RemoveTargetOneMap`,
`SweepLockOnly`, ...) are planted bugs, each marked so. No specification uses
them; put in place of the definition they precede, they make the property that
`PROJECT.json` pairs them with fail, which shows that the property depends on
that piece of code.

### Abstractions

- Time: a tracked tab is recently active or expired (`idle`). `"op"` and
  `"other"` tell renewals under the tab's lock from those without it. An expiry
  may happen at any moment, so every timeout value is covered.
- A getTargets reply is the set of page targets Chrome had when it answered.
  Steps under different mutexes are steps of their own: the replay of the log, each
  lookup of an id it names and each mark of the tracker, the lookup of a renewal and
  the renewal. Merged are taking a lock and the one read that follows it, giving it
  back and the local steps around it, and a close in Chrome and dropping the cached
  context, since the context of a target that is gone does nothing any more.
- The CDP operations on a tab (`goto`, `reload`, `eval`, `click`, `fill`,
  `fetch`, `snapshot`, `screenshot`, routes, clears) are one operation that
  attaches to the target and succeeds or fails: to the lifecycle they are alike.
- Observation buffers, route rules and lock entries are cleared by the same
  steps that clear a tab's context; the lifecycle does not model them. `TabSession`
  looks at the same steps from below: one target, its RPCs under the lock of the tab
  (one route RPC and one observation RPC at a time), and a removal at any moment.
- chromedp is external. What `TabContext` says of it is what the comments in
  `session.go` rely on: the watcher of a cancelled context detaches from and closes
  the tab whose `Target` is set, and `Target` is set before an attach has ended.
- Of a rule `NetworkRoutes` keeps its pattern, of a request its URL, and a pattern
  matches the URL of its name: what matters is that a paused request is answered,
  not how. A `Fetch.disable` continues what its session has paused.
- Of an event `Observation` keeps its kind and its sequence number, of time whether
  a lease is fresh. Commands that fail may have run in part, in any part, which is
  coarser than the order they are sent in.
- History variables: `taken` (the coordinator took the entry), `synced` (the last
  route RPC has succeeded), `stranded` (a request may wait for nobody: `Disable` or
  an answer failed, or a tab Chrome still has was removed), `owed` (events accepted
  that the client has neither received nor cleared), `born` in the
  pool (tabs ever opened).
- In the pool `order` reads the loads in one step, where the code reads them one
  after the other. Holding and releasing a backend, binding and unbinding are steps
  of their own. A daemon gives a new tab any id that no open tab has, so the id of a
  closed one is soon another's. "unbound" and "use" stand for all methods without and
  with a tab.
- The supervisor check of the sweeper (`ensureBrowserSession`) and missing
  sessions are left out: they only skip work.
- `Supervisor` keeps of an error only what `isCDPSessionLost` tells apart. An
  interval of the ticker may pass at any moment; whether an early probe is too
  early is a flag that only the passing of an interval clears. `tabMu` is seen
  where somebody waits for it: the fatal exit waits for the start.
- Records of failed RPCs and of RPCs without a tab do not change the managed
  map and are left out of `RpcLog`. A file's size is its number of lines.

## Runs

| run | instance | shows |
|---|---|---|
| `tab_registry` | five 4-digit ids, short ids of 2 digits or more; three ids collide on two digits and two of them on three, the other two collide as well | the maps stay inverse, the focus is registered, names are stable |
| `tab_lock` | 3 goroutines, 2 short ids, 3 entries | the entries implement the mutex, counts are exact, no early drop, no leak of forgotten entries, no starvation |
| `tab_lifecycle` | one tab that the user or `tab_new` opens, one client that creates, selects, uses and closes, queue of 1, one restart | a crash at any moment loses no tab that is looked after, other than one whose `tab_new` is under way; one actor per target; the sweeper's second decision holds; idle tabs are dealt with; dead tabs do not stay tracked |
| `lifecycle_start` (violated) | one user tab | the start may never end |
| `lifecycle_stale` (violated) | one daemon tab, one user tab, one client that creates, lists, uses and closes, no restart | a live tab's context is dropped, which closes the tab |
| `lifecycle_collide` (violated) | a daemon tab and a user tab whose ids end alike, one restart | the user's tab is tracked as the daemon's |
| `rpc_log` | 2 tabs, channel of 1, rotation at 3 lines, 5 records, torn lines | the log implements `DurableLog`, memory and log agree, nothing scheduled is lost, the shutdown ends |
| `rpc_log_rotation` (violated) | the same, crashes within a rotation | the managed map can be lost |
| `supervisor` | 2 handlers, 2 misses to a verdict, errors of a page recognised as such | the cached state tells the truth, the verdict is final, only a lost session is fatal, lost or stopped daemons exit with the right status |
| `supervisor_page_error` (violated) | the same, errors of a page that sound like a lost session | the daemon exits although Chrome answers |
| `tab_session` | one target in four scenarios: commands with a removal and a loss; three route RPCs or removals; observation of two kinds that share a domain, with a removal and a loss, or with two events and a queue and rings of one | a failed attach is neither cached nor fatal to the tab; no listener without its worker; installed routes work; paused requests are answered; leased domains are on; lapsed leases end; losses are reported |
| `client_pool` | 2 goroutines, 3 daemons, one tab id each, 3 calls | tabs go to their owner only, loads are exact, a walk fails only when all have failed |

Why the bounds are enough. Registry: the shortest search that has to skip two taken
candidates needs three ids that agree on a suffix; with five ids every length and a
freed shorter candidate occur. Lock: one goroutine inside, one waiting and one
arriving are all the roles there are, and a second short id shows that they do not
mix. Lifecycle: one client, the watcher, the sweeper and the starter are four
goroutines on the same tab, which may be created, registered by its event, removed,
registered again and resolved in any order; a second client would queue for the same
lock, and a second tab that does not collide would have its own: the theorems cover
both. Two targets are needed for a stale reply of one to hurt the other, and for ids
to collide, which the violated runs have. A queue of one makes every second event an
overflow. More than one restart adds nothing that one does not, because a restart
forgets everything but the log. Log: a channel of one and five records give
overtaking, two rotations and records behind a torn line. `RecoveryComplete` itself
is checked where it fails; for torn lines it follows from the refinement and is
proved. Supervisor: with two misses to a verdict there is a state between none and
all, and two handlers make one run the fatal exit while the other waits for it or
begins an RPC. Session: routes and observation share the target, the connection and
the removal but no state, so `MCScenarios` explores them apart, each with what can
disturb it; together they would multiply. Two entries and two workers give one that
is removed and one that takes its place, three calls give two route RPCs around a
removal or the reverse; a ring and a queue of one make the second event a loss. An
observer that fails its attach gives its place to the next, so one observer at a
time is enough; a second observer after a removal is beyond this bound. Pool: three
backends make a failover walk with a middle, two goroutines let a list, a creation
and a close overlap, and the daemons fail and open tabs on their own. One tab id for
each daemon makes every new tab reuse the id of the last.

Bounds are the constants `QueueCap`, `RingCap`, `MaxRestarts`, `AuditCap`,
`MaxLines`, `MaxRecords`, `Limit`, `MaxFailures`, `MaxEntries`, `MaxWorkers`,
`MaxObservers`, `MaxCalls`, `MaxRemovals` and `MaxSeq`; `QueueCap`, `RingCap`,
`AuditCap`, `MaxLines` and `Limit` are the code's own limits made small, the others
stop unbounded behaviour.

`CHECK_DEADLOCK FALSE` stands where the system may stop: a lifecycle whose tabs are
all gone and whose start is stuck, a log whose records are used up, a daemon that
has exited, a tab that is gone, a pool whose calls are used up. The registry and the
lock never stop and are checked for deadlock.

### Fairness

- `TabLock`: an operation ends (its context expires after 60 seconds) and runs
  its deferred unlock; goroutines blocked on a channel are served in order, so
  taking the token is strongly fair. Giving up is not fair: the sweeper waits
  without a timeout.
- `TabLifecycle`: goroutines keep running. The sweeper's lock is strongly fair
  by the point above. A close that is asked for again and again succeeds some time if
  the tab is live, and is some time answered "target gone" if it is not; until then it
  may fail with any error, a timeout among them. The steps of a goroutine are
  weakly fair as a group, `Capture` among them; how often `getTargets` fails
  (`ListFails`, `ResyncFails`) is left open. A tab that is gone passes its timeout.
  Nothing is assumed of the user, of clients' requests and of restarts.
- `RpcLog`: the writer and handlers run; `closeAudit` gets `auditMu` in the end,
  as a Go mutex starves nobody.
- `Supervisor`: the ticker fires and goroutines run; probes and draining have
  timeouts. Connecting has none, and the listing of the start holds the initial sync,
  which can block for ever (finding 1), so neither is assumed to end: `DaemonExits`
  speaks of a daemon whose start is over. Its handlers may hang.
- `TabSession`: the worker's goroutine runs, events that Chrome has sent arrive,
  watchers and removals go on, and the sweeper gets the observer's mutex as a Go
  mutex starves nobody. Commands under the mutex have timeouts. That an attach ends
  or that anybody makes a call is not assumed.

### Findings

1. `lifecycle_start`: `connectBrowserLocked` starts the watcher before the
   initial sync and holds `tabMu` during it. If the watcher registers a target
   that is not in the reply, the sync removes it and `clearRemovedTarget` asks
   for `tabConn()`, which waits for `tabMu` for ever.
2. `lifecycle_stale`: a reply captured before a tab was created and applied
   after it was registered and attached removes the tab; forgetting its context
   closes it.
3. `rpc_log_rotation`: between the rename and the snapshot the current file says
   nothing about the managed tabs.
4. `supervisor_page_error`: `isCDPSessionLost` looks for words in the text of an
   error, and that of a failed `eval` holds the message of the exception the page
   threw. A message with "websocket", or "instanceof" (which holds "eof"), makes
   the daemon exit.
5. `lifecycle_collide`: the log knows tabs by their short ids, which are suffixes
   of target ids. A daemon's tab that disappears without a `tab_close` stays in the
   log; if after a restart a tab of the user gets its short id, the daemon tracks it
   and closes it when it is idle.

Known limits, which no property covers because the code allows them: a daemon that
is stopped or loses Chrome while its start is blocked (finding 1) never exits, since
`ListenAndServe` is not at its select and `fatalCDPLost` waits for the same mutex; a
crash between the tracking of a new tab and its record in the log loses the
tracking; a stale reply stops the tracking of a new tab; `tab_select` renews a tab
without its lock, after the sweeper's second decision; with colliding short ids the
sweeper, which looks its short id up again, may close another tab than it decided
about; an RPC with an unknown short id leaves a lock entry behind; a record that
overtakes queued ones puts a `tab_close` before its `tab_new`; a probe in flight
while somebody else begins the fatal exit makes the cached state `suspect` or
`ready` again until the daemon has exited; a Chrome that hangs while the daemon
attaches blocks its start; a crash that leaves a record without its newline makes
the next record unreadable; a `Fetch.disable` or an answer that fails leaves a
paused request to nobody; a `network_route` that fails keeps its rule; an attach
that hangs makes every call on the tab wait for it; a record the writer makes after
a removal brings rings back that nothing removes; a `tab_list` slower than a
`tab_close` binds the closed tab of a pool again; a `tab_close`, or a `tab_new` that
cannot be decoded, unbinds in a pool an id that the daemon has given to a new tab
meanwhile; a `tab_new` whose reply is lost or has no id, or whose result cannot be
decoded and whose cleanup fails, leaves an open tab that the pool does not know.

## Proofs

Every invariant and every action property of a run that passes is also proved, for
all values of the constants that satisfy the assumptions of the modules. Two groups
of theorems have a further hypothesis, which is a part of their statement:
`ShortIdsDiffer` for two about the lifecycle, and the kind of torn lines for three
about the log; `FatalJustified` excludes what finding 4 is about. The property
`CleanupSurvives` has `ShortIdsDiffer` as a premise of its own: otherwise the record
of a `tab_close`, written after its lock is released, can take the id of a newer tab
out of the log, and what the log names need not be the tab it was written for
(finding 5). The assumptions say of the constants that numbers are in range, that
sets of goroutines and tabs are finite, and that the daemon's own goroutines are not
among the clients or handlers.

All proofs have one shape: an inductive invariant, a lemma for each group of
actions, and a theorem that combines them with temporal logic. The properties by
themselves are seldom inductive; what had to be added is said below.

`TabRegistryProofs` (for every set of equally long target ids):

- `RegistryInverse`, `RegistryTyped`: `MapsInverse` and type correctness.
- `SelectionSafe`: `SelectedRegistered`.
- `ShortIdsStable`: the action property `ShortIdStable`.

The inductive invariant `RegistryInv` adds `OwnSuffix`, "a tab is named by a
suffix of its own id". It is what makes the last line of `assignShortLocked`
harmless: the full id is taken unchecked, and only because holders are named by
their own suffixes can nobody else hold it (`FullIdFree`). For a sync the hard
case is two new targets: the later one in the order of ids avoids the earlier
one's choice, so the order has to be total (`BeforeTotal`) and every search has
to end at a free candidate (`ShortestFreeIsFree`, by the least element of a set
of naturals).

`TabLockProofs` (for every number of goroutines, short ids and entries):

- `LockSafe`, `LockTyped`, `ForgottenEntriesDropped`: `EntryKept`, type
  correctness, `ForgottenDropped`.
- `LockIsMutex`: `LockSpec` implements `KeyedMutex`, by a step simulation:
  taking the token enters, returning it leaves, everything else stutters.

The inductive invariant `LockInv` adds that no two short ids share an entry and
that a goroutine inside has the token of its entry alone. The reference count
equals the number of users, which is where cardinalities of finite sets enter.

`TabLifecycleProofs` (for every number of clients, targets, queued events and
restarts):

- `LifecycleTyped`: `LifecycleTypeOK`.
- `CleanupOutlivesCrash`: `CleanupSurvives`.
- `OneActor`, `DecisionHolds`: under `ShortIdsDiffer`, `OneActorPerTarget` and
  `CloseDecisionHolds`.

`ShortIdsDiffer` says that no two targets agree in the last `MinLen` digits. Then
a tab has the same short id whenever it is registered, so the lock of a short id
is a lock of a target. Without it the code promises less: a short id freed by one tab
can name another before an operation that resolved it earlier has ended (see
the known limits). The inductive invariant `LifecycleInv` extends `RegistryInv`
with `PlacesOK`, which operation can be at which step with which local
variables, and `LocksOK`, that a goroutine between taking and releasing a lock
is its only holder. `CleanupOutlivesCrash` adds `CleanupOK`: besides the tabs in the
tracker, those that a renewal, a reconciliation or a `tab_new` is about to enter
there have to be in the log unless they are gone, and a `tab_close` that is about to
record its end has closed its tab, which never comes back (`GoneStays`).
`DecisionHolds` adds `SweeperDecides`: from the second decision until the
unlock the victim's short id is the one the sweeper holds, so no operation that
renews under that lock can come in between.

`RpcLogProofs` (for every set of tabs, channel capacity and rotation threshold):

- `RpcLogTyped`: `RpcLogTypeOK`, which bounds channel and writers.
- `NothingLost`: `NothingDropped`, for every kind of torn line.
- `LogIsComplete`, `MemoryIsLogged`: `RecoveryComplete` and `MemoryMatchesLog`
  if `Tears \subseteq {"partial"}`, crashes tear lines in the middle only.
- `LogIsDurable`: under the same hypothesis `RpcLogSpec` implements `DurableLog`.

What `Replayed` computes is proved by taking a least counterexample among the line
numbers: a replay of a file exists and is unique (`ReplayExists`, `ReplaysAgree`), a
record appended to the file is applied last (`ReplayedAppend`), and a snapshot of a
map replays to that map (`ReplayedSnapshot`). `Faithful` is inductive: apart from a
torn last line the file is whole, its replay is what all records written add up to,
and memory says the same. The hypothesis is needed: "in rotation" is finding 3, and
a crash that loses only the newline makes the next record unreadable. `Bounded` says
how long a file can get: a snapshot can be longer than the threshold.
`NothingDropped` needs `Owed`: a record not yet written waits in the channel or in
the hands of a writer or a handler as long as the store is open, and none is left
when it closes. `LogIsDurable` maps the map on disk to what a replay would find, and
the accepted records to those in flight that the store still owes. Accepting,
writing, closing, dying and starting are single steps of `RpcLog`, a rotation being
part of its write and a torn line of its crash; the channel only stutters. It needs
`OneHand`: the records in flight are numbered in the order writer, channel, handler,
so that a record is in one hand only and is not written twice.

`SupervisorProofs` (for every set of handlers and every limit):

- `SupervisorSafe`, `SupervisorTyped`, `CleanExitAsked`: `HealthTells`, type
  correctness, `CleanExitIsAsked`.
- `VerdictFinalAlways`: the action property `VerdictStands`.
- `FatalJustified`: `FatalOnlyOnLoss`, from the assumption that no error of a
  page sounds like a lost session, which finding 4 shows to be needed.

The inductive invariant `SupervisorInv` says who may still change the cached
state after the verdict: the watchdog is in the fatal exit, or the run context
is cancelled and no probe is answered any more (`VerdictFinal`). `Reasoned`
carries the reason of a fatal exit from the goroutine that met it to `fatalOnce`.

`ClientPoolProofs` (for every number of daemons, goroutines, tabs and calls):

- `PoolTyped`: `PoolTypeOK`, with it that no load is negative.
- `PoolAffinity`: `BoundTabsAreReal`.
- `PoolLoadsExact`: `LoadIsExact`, on every way out of a call.
- `PoolTriesAll`: the action property `AllFailedMeansAll`.

The inductive invariant `PoolInv` says of a call (`CallOK`) that a bound one has
the one backend its tab names, and that in a walk every backend has failed or is
still to be tried; of an answer on its way (`RepliesReal`) that it names tabs
its daemon has opened. `LoadOK` counts the calls in flight to a backend.
`RingFacts` shows that the rotation of the round-robin order visits each backend
once.

`ObservationProofs` and `TabSessionProofs` (for every number of entries, workers,
observers, calls, removals and events, and every capacity of queue and rings;
no further hypothesis):

- `SessionTyped`: `SessionTypeOK`.
- `PoolWorks`, `FailureKeepsTab`: `PooledWorks` and the action property
  `FailedAttachKeepsTab`.
- `ListenersOwned`, `RulesInForce`: `NoOrphanListener`, `InstalledRoutesWork`.
- `LeasesHold`, `LossesCounted`: `LeasedDomainsOn`, `LossIsCounted`.

The inductive invariant `SessionInv` has five parts. `ContextInv`: an entry that
is cancelled with its `Target` set was taken by a removal. `RouteInv`: an RPC
whose generation is still the target's works on the target's worker (`RpcOK`),
and whoever claims to listen is the current worker, is about to be stopped by
the removal, or belongs to an RPC that will find its generation stale
(`ListenersOK`). `ForceInv`: while nothing was removed, lost or stranded there
is one worker, in the cached context, and what the RPC has installed so far
agrees with the rules. `LeaseInv`: while commands reach Chrome the domains of an
observer's leased kinds are on, in the middle of a sweep those of the kinds that
remain, and between the commands of `activate` and the lease the RPC holds the
observer's mutex. `LossInv`: queues are in order of sequence numbers, of all
that is queued a client waits only for what the current observer has, and that
is newer than its cursor and than the ring; so no step loses more than it adds
to a drop counter.
TLC checked `ContextInv`, `RouteInv` and `ForceInv` with removals and losses
(two entries, two workers, three calls) before they were proved.

Only model-checked is liveness (`NoStarvation`, `ExpiredHandled`, `GoneUntracked`,
`ShutdownEnds`, `DaemonExits`, `PausedAnswered`, `LeaseEnds`): it rests on fairness,
and fairness on ENABLED, which the prover does not handle.

## Not modelled

- The foreground detection of `tab_focus`: it probes all tabs at once and keeps
  nothing but the selection it ends with, which `TabRegistry` has.
- `Session.Close`: it unlinks cancellations while the process ends.
- `SetNetworkRoutes` and `TabObsStore.SyncPresence`: the daemon never calls them.
- What a route rule answers, wildcard matching, the payload of events.
- JSON encoding, authentication, configuration, the site adapters, the page
  scripts and the CLI keep no state that outlives a request. The launcher is
  process management of the operating system.
- Wall-clock time and `seq`, failing disk writes and the in-memory mode of the
  store.

## Plan

Done: `TabRegistry`, `KeyedMutex`, `TabLock`, `TabLifecycle`, `RpcLog`,
`ManagedTabs`, `DurableLog`, `Supervisor`, `TabContext`, `NetworkRoutes`,
`Observation`, `TabSession`, `ClientPool`, and the eight proof modules: every safety
invariant and action property of the runs that pass is a theorem.

1. Proofs: `OneActorPerTarget` from a weaker hypothesis than `ShortIdsDiffer`,
   such as one about the tabs that are open at a time; an abstract specification
   of the observation (a stream of events with counted gaps) that `Observation`
   implements.
2. `RpcLog` with failing writes; `TabLifecycle` with the detection of `tab_focus`.

