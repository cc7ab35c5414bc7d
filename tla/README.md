# pmesh in TLA+

pmesh is a service manager, reverse proxy and message bus in one Go process per
node. A *session* loads a manifest, starts the services it names, keeps their
instances alive and routes requests and messages to them. This directory models
the parts of it where goroutines, timers, processes and requests meet, checks
them with TLC on small instances and proves the main invariants with TLAPS.

All line numbers are in `PROJECT.json` (`map`): one entry per definition.

## Inventory

| Component | State it keeps | Operations | What is hard about it |
|---|---|---|---|
| `session/session.go` Session | `ServiceMap` name → state, current manifest, task subscriptions, a timed lock | `StartService`, `RestartService`, `StopService`, `ReloadLocked`, `Shutdown`, `Close` | restart and stop take no lock, reload does; states are swapped while they serve |
| `service/svc_proxy.go` ProxyService | one load balancer | `Start`, `Stop` | the service *is* its instance: two states share it |
| `service/svc_app.go` AppServer | list of instances, ticker, streaks | `Start`, `spawnProcess`, `tick`, `Stop` | decisions on a snapshot; spawns race with deaths and with Stop |
| `service/svc_app.go` appProcessState | termination deadline, `signalSent`, context | `tryTerminate`, `drain`, `requestTermination`, `terminate` | three concurrent callers, a CAS loop, deadlines |
| `health/monitor.go` Monitor | streak, previous report | `Check`, `observe` | checks outlive their round; thresholds; cancellation |
| `lb/lb.go`, `lb/upstream.go` | upstream list, health, load factor, sticky choice | `PickUpstream`, `NextUpstream`, `ServeHTTP`, `OnError`, `OnErrorResponse` | health changes without the lock; retries nest |
| `retry/` | attempt counter, delay, deadline | `Step`, `Consume` | exhaustion, cancellation while waiting |
| `service/build_files.go` | `.build`, `.run`, archives, build id | `RunBuild` | crash between steps, two builds of one root |
| `session/runner.go` Runner | deliveries, results | `ServeJetstream`, `consumeWrapper` | at-least-once delivery, panics, acknowledgement races |
| `session/runner.go` ScheduledRunner | one key per schedule | `Run` | nodes racing with compare-and-swap |
| `rate/` | packed window words, queue length | `Inc`, `Enforce` | CAS loops, window boundaries |
| `pmtp/` | pending calls, pool of connections | `roundtrip`, `input`, `Acquire`, `Release`, `Close` | out-of-order replies, shutdown with calls pending |
| `vhttp/` | virtual hosts, client sessions | routing, `StartClientRequest`, cleaner | deletion of sessions in use |
| `tlsmux/` | sublisteners | `Listen`, `Close`, accept loop | connections during close |
| `xpost/` | peers in a key-value store | `tick`, `Close` | heartbeat after close |
| `autonats/`, `enats/` | embedded server, channels `ready` and `done`, one connection | `StartServer`, `Gateway.Open`, `Close` | readiness probe, death and close while Open waits |
| `session/api_kv.go` | one entry and its revision per key | GET, PUT, POST, DELETE, `cas` | compare and update are two requests |
| `xlog/` | collectors, quota, lines held back | `WriteLevel`, `TailContext`, `MuxWriter` | pipes without a buffer under a lock; partial lines |
| `glob/` | queue of files, list of digests | `Walk`, `ReduceToHash` | cancellation, goroutines in any order |
| `service/svc_file.go`, `svc_wrappers.go`, `npm/` | files in memory; prepared commands | `ServeHTTP`, `Advise`, `Prepare` | parallel loading, files that change in between |
| `service/glue.go`, `process.go` | tracker file, process table | `glueChild`, `KillOrphans` | crashes, reused process numbers |
| `netx/remote_file.go` | local copy, parsed value, semaphore | `LoadContext` | callers that leave, lazy loads |
| `hosts/`, `security/cert_cache.go`, `config/lock.go` | one or two files and a copy in memory | `Insert`, `ObtainCertificate`, `TryLock` | crashes between two writes, other writers |
| `subnet/`, `lru/` | small shared structures | | limits, wrap-around, self-terminating cleaners |
| `cmd`, `client`, `ui`, `lyml`, `luae`, `geo`, … | none | parsing, I/O, presentation | not modelled |

How they interact: the API or `Open` calls the session; the session calls
`Start` and `Stop` of services; an app service spawns instances, gives each an
upstream, an observer and an exit watcher; the monitor writes the upstream's
health flag; the load balancer reads it and counts requests in the load factor;
draining reads the load factor back. Every arrow of that circle is a plain
atomic variable, which is where the properties are.

## Modules

| Module | Models | Run |
|---|---|---|
| `AppServer` | cluster control of an app: initial spawn, one-second tick, memory limit, fill to minimum, auto-scaling, Stop | `scale`, `process` |
| `AppProcess` | termination of one instance by the ticker, the unhealthy timer and Stop at once | `terminate` |
| `AppInstance` | the four goroutines around one instance: spawner, exit watcher, observer, timer | `process` |
| `HealthMonitor` | one observer: rounds of concurrent checks, streak, report | `process` |
| `GlobWalk` | walk of a source tree, its readers, the checksum | `process` |
| `LogTail` | loggers and those who follow them; the writer that merges hosts | `process` |
| `LoadBalancer` | upstream list, picking, stickiness, load factor, nested retries | `balance`, `sticky` |
| `Session` | service map, reload, restart, stop, shutdown, shared proxies, listeners | `deploy`, `proxy_empty` |
| `AppBuild` | start of an app up to its instances: build id, clean, build, archive, run link, second attempt, crashes | `deploy`, `two_builds` |
| `TaskRunner` | tasks of a topic, at-least-once; the rate of a runner | `tasks` |
| `Scheduler` | nodes that claim the runs of one schedule | `tasks` |
| `RateLimiter` | windows and queue of one limit | `tasks` |
| `JrpcDuplex` | calls, replies and shutdown on one connection | `rpc` |
| `PoolMux`, `SharedClient` | pool of connections; expiring cache of shared clients | `rpc` |
| `RpcDial`, `RpcServe` | set-up of a connection by both ends; serving of streams | `rpc` |
| `CertCache`, `NodeLock`, `Subnet` | certificates and their files; lock of the home directory; loopback addresses | `rpc` |
| `HttpServe` | one request through hosts, muxes and handlers | `http` |
| `ClientSessions` | table of client sessions, sweep, blocks | `http` |
| `HostsFile`, `RemoteFile` | hosts file; file kept in step with the web | `http` |
| `Orphans` | what an earlier run left and how it is ended | `http` |
| `FileServe`, `AppKinds` | file service; presets of frameworks | `http` |
| `TlsMux` | one TLS listener, several protocols | `edge` |
| `PeerList` | heartbeats and peers | `edge` |
| `NatsNode` | embedded NATS server and gateway | `edge` |
| `KvApi`, `KvRegister` | the key-value API, and the register it implements | `edge` |
| `App_proofs`, `Deploy_proofs`, `LoadBalancer_proofs`, `Edge_proofs`, `Rpc_proofs`, `Http_proofs`, `Tasks_proofs` | theorems | — |

A component's definitions carry its own prefix (`ServerInit`, `ProcNext`,
`LbFairSpec`), so that modules can be extended together. `MC*` modules give
constants that a configuration cannot write, the symmetry sets of the safety
runs, and the suites: `MCDeploy`, `MCProcess`, `MCTasks`, `MCRpc`, `MCHttp` and
`MCEdge` extend several components and choose one of them (`part`) in the initial
state. The components of a suite do not interact; a behaviour of the suite is a
behaviour of one component with the others standing still, so each property is
checked over exactly the behaviours of its own component. Most of them start at
rest, where the fairness of a component that is not chosen asks for nothing;
where a component is under way from the start (`AppInstance`, `HealthMonitor`,
`AppServer`) its fairness is conditioned on being chosen (`RunningFairness`).

### How state and actions correspond to the code

*AppServer.* `life` abstracts `dead()` and `terminating()` of an instance,
`processes` is the slice as a set, `spawner`, `list`, `count`, `upTicks`,
`downTicks` are the locals of `tick`, `tickC` its ticker channel of capacity
one. Each spawn is one action from `cmd.Start` to the append under the lock; an
initial spawn then waits for its ready check. Streak counters are only compared
with the threshold, so they saturate there. A dead instance that no slice
mentions is reused for the next spawn, so a finite `Procs` gives unbounded
behaviours. A second attempt of `Start` creates a new `AppServer`: it is another
instance of the module. CPU usage and memory are arbitrary at each tick.

*AppProcess.* Time is counted in polls of 200 ms. `bumpDeadline` is three steps
(clamp, load, compare-and-swap) for each caller; `drain` and `signalSent` are
shared. `cohort` is a history variable: the requests in service when the drain
began.

*AppInstance.* One upstream's `Healthy` flag and membership of the load balancer
with the goroutines that write them; `Init` is just after the append in
`spawnProcess`, for an initial and for a later instance. An app with a negative
`unhealthy_timeout` (no timer) and a background app (no upstream) are left out.

*HealthMonitor.* The result channel of capacity one, the counter and the
goroutines belong to a round; a timed-out round's goroutines end with its
channel. The last rounds are kept as history to say what a report must rest on.
The streak saturates at the larger threshold. A monitor without checks reports
healthy at once and has no behaviour to model.

*LoadBalancer.* The upstream list is a sequence, because the index matters. The
entropy of the strategies is nondeterministic. Counting and indexing the healthy
upstreams are two steps, since health changes without the lock. A request's
stack of upstream calls is `held`: a retry runs inside the call that failed.
Retry delays and the retry deadline are abstract: waiting may end in a retry or
in a cancellation. A negative number of attempts, for no limit, is left out.

*Session.* A state is a member of `States`, launched, up, or failed; `asked`
says that a Stop was requested of it, `stopping` that its Stop runs. Several
Stop calls of one state are merged. `Range` of a concurrent map may or may not
visit keys that are added while it runs. `Proxies` names the proxy services,
whose states of one manifest generation share a load balancer. Manifest
generations are bounded by `MaxGen`.

*AppBuild.* `run`, `build` and `arch` are the directories of one app root: a
directory holds nothing, part of a build or the build of a checksum, and an
archive also its build id file. A checksum stands for the sources it was
computed from. Each file operation is a step and may fail; `rm` errors are
ignored by the code and leave the directory (`stuck` remembers it). `Crash`
forgets the starts and keeps the files. Archive names come from a timestamp and
are never reused while they exist. The sources are not edited between hashing
and the end of the build commands: the code takes no precaution there. Apps
without build commands and with `no_build_control` touch none of this state.

*TaskRunner.* `stream` and `delivered` are the server's view of a task (external:
JetStream with explicit acknowledgement and an acknowledgement wait), `result`
its entry in ResultKV, `wk` one call of `ServeJetstream` per worker and `ticker`
its progress goroutine. The gate of a runner's rate (`Gate*`) is a component of
its own in the same module. `StepN` of the retry policy is its attempt counter.
`MaxFaults` bounds crashes of a worker and lost messages.

The rate gate and *Scheduler* use relative times, so they run for ever on finite
states. In the scheduler each reading of a clock is off the true time by `Skew`
at most, on either side, so that a node compares its own time with a stamp of
another's clock; a sleep is up to `Jitter` shorter or longer. A revision is
known only by comparison: `seen` holds the nodes whose loaded revision is
current, `gap` says whether the guessed revision of a roll-back can still be
right.

*RateLimiter.* `window` has the two words of the sliding window and the word of
the block window; each load and compare-and-swap is a step. `Carry` is modelled
by what it does in this code, nothing (see Limits). A request may be held up for
any number of periods between reading the clock and using it; `late` is the
history of windows that such a request set back.

*JrpcDuplex.* A message is its sequence number and the call whose body it
carries. Sequence numbers wrap at `Seqs` instead of 2^31. `PoolMux`: a dial
holds `connsMu`; `common` is `shared`, `free` the channel of released
connections. `SharedClient`: `Connect` is look-up, dial, store, count and
acquire; a `cleaner` belongs to each ticker. `RpcDial`: client and server of one
dial; TLS, upgrade and websocket are the kinds of request. Its connection is
`"closing"` from the moment a yamux session goes away until its close timeout
ends (`SessionCloses`): the code does not wait for that. `RpcServe`: the two
wait groups of `YamuxCode.Serve` and `stdCodeAdapter.Serve`; yamux itself is
external.

*CertCache.* A call of `ObtainCertificate` for a host calls itself for the root:
`asker` is a stack. A certificate is a number, since its signature is new every
time; a file that is there is valid, so that it is never made anew
(`cert_cache.go:108`). `NodeLock`: `flock` belongs to the operating system and
is released with the process. `Subnet`: candidates come round; listening is an
outcome.

*HttpServe.* `stack` holds the handlers in progress, `call`, `ret` and `at` the
control; hosts are sequences of labels, patterns the set of targets they match.
`Tables`, `Handlers` and `Inbound` are the configurations and requests of
`MCHttp`. A directive of the manifest is the result it gives; the status of a
message's responder and of a return directive is any number (`Codes`), as the
code checks neither. Of the header directives those count that set or delete a
header pmesh itself looks at. *ClientSessions.* `client` holds the two atomic
stamps of a session; a session is named after the request that created it. A
sweep is a snapshot that is visited key by key. `Idle` is the 30 minutes of the
sweep; a limit may block for longer (`BlockTimes`), since nothing bounds
`block_for`.

*HostsFile.* The file has lines of the user and mappings of pmesh; `copy` is the
copy in memory. *RemoteFile.* A version is a number and odd versions do not
parse; `load` is the goroutine, which may wait for the web for ever. *Orphans.*
`ptable` is the process table with reused numbers (external: start, exit and
re-parenting). *FileServe* names a file by the sequence of its parts, the last of
which may be the suffix `@br`, in a request as on the disk; a request may have a
range or a condition, which `http.ServeContent` (external) answers. *AppKinds*
names files and programs by strings; a package has the export that
`ResolveExport` finds, and `package.json` parses or does not.

*TlsMux.* `conn` follows a connection from accept to hand-over, `sub` a
sublistener with its channels. A panic ends the process (`Crashed`). *PeerList.*
Every request to the bucket is a step that may fail, the purge of `Close` too;
`now` has a clock for each node, which stamps its heartbeats. No clock goes
back, and the puts of one node are stored in their order. *NatsNode.* The
third-party server is external: it starts, becomes ready or not, dies. *KvApi.*
One key; the bucket is external.

*GlobWalk.* A node of a tree is its location, a sequence of names, so that what is
above and below it are its beginnings and continuations. `stack` has the frames of
`walkDirectoryRecursive`, innermost last, with the rules collected so far; a rule
file says of some nodes whether they are ignored; a regular expression is the set
of names it matches. `walk` is the tree with its options: trees do not change
while they are walked. *LogTail.* The pipe of a collector has no buffer: handing a
line over and taking it are one step, with the read lock held, and a tail takes no
further line while its client has not read the last one (`busy`). In the merging
writer of the same module a line is two halves: what a write delivers may end
within a line, and what is then incomplete is dropped.

## Runs

Twelve questions, nine that hold and three that show a disagreement. A property
of a run is a theorem's property or a conjunction of named parts of one module;
the parts are in parentheses and have a comment each. Every property has a mutant
in `PROJECT.json`: a plausible bug of the code it is about, under which TLC finds
it violated.

* `scale`: four instances, cluster 2..3, streak 2: `RunningBound`,
  `ReplacementIsAlone`. Four identities allow one more than the bound, so the
  bound could be exceeded.
* `terminate`: `TerminationSound` (`DeadlineOnlyShrinks`, `GracefulSignal`),
  `StopEndsProcess`. One request, time to 7 polls, callers start by 2, a stop
  timeout of 3: a caller can start late enough for its deadline to be clamped and
  early enough to expire.
* `balance`: two upstreams, two requests of which one is a GET, one retry each,
  sticky, least-conn: `BalanceCorrect` (`RetriesBounded`, `LoadExact`,
  `PickIsBest`), `RequestEnds`. Two upstreams are enough for "another than the
  one that failed"; one retry is enough for a nested call.
* `deploy`: two names of which one is a proxy, two states that are reused once
  they ended, two manifest generations: `SessionSound` (`NoOrphans`, `HotSwap`).
  One start at a time, three archives (the one that runs, the one that is made, a
  leftover), two checksums: `BuildSound` (`StartIsSound`, `NoLeftovers`),
  `RunDirKept`. Both: `DeployEnds` (`SessionSettles`, which is `ReloadReturns` and
  `ShutdownEndsAll`; `StartEnds`).
* `process`: one instance. A monitor with two checks, thresholds 2 and the default
  3 (configured as 0): `ReportsSound` (`StreakIsReported`, `OutcomeSound`,
  `ReportJustified`). A slow-started cluster 1..2 of three instances. Of these
  three: `ProcessSettles` (`InstanceSettles`, which is `DeadIsRemoved` and
  `UnhealthyIsResolved`; `ServerSettles`, which is `ServiceComesBack` and
  `StopLeavesNothing`; `FailureIsReported`). A tree three levels deep with rule
  files at two of them, one with names that differ in case only, six sets of
  options and unreadable nodes, a channel of two: `WalkCorrect` (`WalkExact`,
  `HashDetermined`). Two loggers, one tail, three lines: `TailCorrect`
  (`TailExact`, `QuotaExact`). Two hosts, five lines, one of them late:
  `MergeExact` (`LinesIntact`, `NamesRight`, `BatchSorted`). `ProcessSettles` has
  the liveness of the last three as well (`ReadersEnd`, `WalkersEnd`,
  `LoggersGoOn`, `TailsEnd`).
* `tasks`: one task, two workers, one retry, two faults: `TasksCorrect`
  (`SettledIsRecorded`, `DeliveriesBounded`, `NoLateProgress`). Two nodes, an
  interval of three, every reading of a clock off by at most one: `ScheduleKept`
  (`RunsSpaced`, by the interval less two such differences). A gate of two
  per three units, and four requests at a limit of two with a burst of two over
  three periods: `RatesKept` (`StartsBounded`; `RateKept`, `WaitersBounded`,
  `QueueExact`, `OnlyLateSetsBack`). All of them: `TasksEnd` (`TasksSettle`,
  `RunsGoOn`, `GateReopens`, `EnforceReturns`). Two requests fill the window, the
  others meet the queue's limit.
* `rpc`: two calls with two sequence numbers: `CallsAnswered` (`ReplyMatches`,
  `NoneLeftPending`). Two users, one slot: `PoolCorrect` (`OpenIsTracked`,
  `ClosedPoolIsEmpty`). Two dialers, two keys, two tickers: `CacheCorrect`
  (`CleanerAlive`, `ItemsExact`, `OpenIsCached`). One dial: `DialCorrect`
  (`FailedDialIsClosed`, `CodesAgree`, `URLStable`). Two streams, two requests:
  `ServeCorrect` (`LostOnlyWhenCut`, `OneWriter`, `ClosedInOrder`). Two askers for
  a host and the root, four certificates over restarts: `CertsCorrect`
  (`SameCertificate`, `GivenIsSaved`). Three processes, two sessions each, and
  three addresses that come round, two takers: `HomeIsOwned` (`HolderIsNamed`,
  `LockExact`; `AddressesExact`). All of them: `RpcEnds` (`CallsReturn`,
  `AcquireReturns`, `UnusedExpires`, `DialEnds`, `CutCloses`, `ObtainsReturn`).
* `http`: nested hosts, portals, internal and failing handlers, one reload of
  the table: `AnswersCorrect` (`OneAnswer`, `SentIsHttp`, `InternalIsEarned`,
  `PortalOnce`, `HostRestored`). One address, two requests, blocks as long as a
  session is kept and longer, sweeps in between:
  `BlocksCorrect` (`ClientsExact`, `BlockIsKept`, `BlockGrows`). Two lines of the
  user and two hosts, two updates: `FileKept` (`LinesKept`, `MappingsKept`). Two
  callers, four versions: `LoadCorrect` (`OneLoads`, `AnsweredWithOne`,
  `ValuesGrow`) and `LoadsReturn`. Three process numbers, five starts:
  `CleanupCorrect` (`OrphansEnd`, `SparesStrangers`, `TrackerIsOwn`). Small trees,
  both modes: `FilesCorrect` (`FilesAreServed`, `PatternKept`,
  `EncodedWhenAsked`, `PageIsMarked`). Every kind of app, one edit of the directory:
  `KindsCorrect` (`AdvisedIsPrepared`, `EntryExists`, `EscapedIsThere`).
* `edge`: two sublisteners for one protocol, two connections, a backlog of one:
  `MuxCorrect` (`QueuedIsHeld`, `BoundIsOpen`, `FailsOnlyClosing`). Two machines
  with the same host name, clocks of two units with a timeout of one, one
  failure: `PeersCorrect` (`NamesFreshest`, `ClosedIsGone`, `ClosedFades`). Two
  units are enough for a closed node to be listed and to fade. A topology with
  and without other clusters: `NodeCorrect` (`LinksOnce`, `OpenIsUsable`,
  `ClosedHasNoConn`). Two callers, two values, one lost message, one further
  turn of the loop: `CasIsAtomic`. The first three: `EdgeSettles`
  (`CloseCompletes`, `PeersConverge`, `ProbeSettles`, `DownEndsAll`).

The type invariants are parts of these properties, or, for `AppServer` and
`AppProcess`, theorems of their own.

`CasIsAtomic` is a refinement: `KvApi` implements `KvRegister`, a value that is
read, written and swapped in one step each, under the mapping `AsOp` (a call
whose update was made but not yet answered counts as swapped). The abstract
register allows what the code cannot avoid, a swap made again after a lost reply,
and nothing else. The turns of the loop are limited by `MaxStep`, for 16.

Runs that end in a violation show where the code and what is said of it differ
(`findings` in `PROJECT.json` quote both):

* `sticky`: the sticky choice is never stored.
* `proxy_empty`: restarting a proxy empties its load balancer.
* `two_builds`: of two concurrent starts of an app one may delete the archive the
  other has just linked.

### Limits of the code seen while modelling

The models have these behaviours, because the code does; no property claims
otherwise.

* `AppServer.Stop` may return while an instance runs that a tick spawned after
  Stop took its list; it dies when the context is cancelled (`StopLeavesNothing`).
* Nothing but Stop enforces the termination deadline: an instance that ignores
  its signals after the unhealthy timer or the memory limit terminated it lives
  on, and if it was the last one its replacement waits for it.
* An instance that never opens its port is never reported by the monitor, so its
  unhealthy timeout never starts.
* An instance that dies between its ready check and `AddUpstream` is added after
  the watcher removed it and stays in the load balancer, as healthy if nothing
  reports it (`DeadIsRemoved` has this as its one exception, `RemovedTooEarly`).
* `RestartService` takes no lock: a service that a reload removes can be
  published after the reload's `Range` passed its name.
* The `svc.*` listeners of a reload keep the state they were made for when the
  service is restarted.

* With `cluster_min` = `cluster` a tick may fill the cluster and then scale up
  from the list it took before: one instance too many (`svc_app.go:750`;
  `ClusterBound` needs `Headroom`).
* Tasks: a panic in a task leaves a nil error, so the task is acknowledged
  (`runner.go:136`). A second worker of a redelivered task may overwrite the
  result of the first. A node that dies between claim and publication of a
  scheduled run loses that run.
* Rate limiter: the other window is read with the tick of the current one, so
  nothing is ever carried over (`window.go:84`); a request held up for two periods
  sets a window back, whose limit is then exceeded (`RateKept` excepts it and
  `OnlyLateSetsBack` says that nothing else does).
* Duplex: a call whose reply lost its body after the header was read is never
  signalled (`jrpc_code.go:203`); `CallsReturn` excepts it.
* Pool: an idle connection can be given as unique to two users
  (`pool_mux.go:245`), and an Acquire that overlaps Close dials into the closed
  pool.
* Dials and calls have no deadline of their own (`conn.go:341`, `conn.go:371`): a
  peer that accepts and is silent holds its caller, and a dial `connsMu` with all
  who want a connection (`AcquireReturns`, `DialEnds`).
* A yamux dial that fails at its first stream, and a pool that is closed, leave the
  connection open until `StreamCloseTimeout`, five minutes (`yamux.go:35`).
* Shared clients: the loser of a race for a key leaves its connection open; the
  goroutine of a stopped ticker waits for ever; `Close` closes for all users and
  releases the entry once, so an entry that several users had never expires
  (`Stuck`); a `Connect` that finds an entry in the cache after its last `Close`
  panics (`conn.go:390`; the dialer is then at `"panic"`).
* A websocket client that asks for a code the server does not know is served
  another one (`CodesAgree` excepts it).
* Client sessions: a session that is used while the sweep deletes it loses its
  block, as does one whose block reaches more than 30 minutes past its last
  request (`block_for` may be anything); a late stamp may move the time of the last
  request back.
* Requests: the `Status` header of a message's responder and the code of a return
  directive are sent as they are, also where they are no status of HTTP
  (`hnd_service.go:128`, `hnd_directives.go:242`). The path-trim directive never
  parses: two parsers are given one verb. A portal whose url does not parse sends
  its error and then panics on the missing url; one that deletes `P-Portal` on its
  way may go round for ever (`PortalOnce` excepts it).
* Hosts file: a crash between truncation and writing loses the user's lines, as
  does an edit within the second in which the copy is trusted.
* Remote file: a caller whose context ends is given neither value nor error. A web
  server that does not answer keeps the semaphore for ever, since
  `http.DefaultClient` has no timeout (`remote_file.go:51`); who has a value is
  answered with it (`LoadsReturn`).
* Peers: a heartbeat in flight when `Close` purges puts the node back, and so stays
  a node whose purge failed; both fade by the timeout (`ClosedFades`). Stamps of two
  clocks are compared, so a machine whose clock is behind loses a shared host name.
* NATS node: with a server that accepts connections and a JetStream that is not
  ready, nothing looks at the deadline (`server.go:356`). A server that dies
  closes the ready channel, and Open goes on with it.
* TLS: the user and the mux closing one sublistener at the same moment panic. A
  connection that comes for the lock after `Close` has shut the queue may be sent
  to it, which panics with nobody but the user closing; `Accept` of a closed
  listener may return neither connection nor error (`listener.go:31`). Either
  needs a shut queue, no more is claimed (`FailsOnlyClosing`). A handshake has no
  deadline: a silent client stays when the listener closes.
* Walk: a reader that stops early leaves the walker before a full channel;
  locations that differ only in case share a digest (`hash.go:48`).
* Merged logs: `lnbuf` is a "Buffer for incomplete lines" (`tail_ooo.go:29`) and
  keeps none of them: a line that comes in two writes loses its first half
  (`tail_ooo.go:73`; `LinesIntact` is about lines that came in one).
* Logs: a tail that stalls holds up every log call until its client is cut off;
  lines on their way while a tail begins may be lost or come twice.
* File service: with files in memory the index of a directory is not served, and
  the pattern sees a request with a leading slash but a file without one. A name
  that ends in `@br` gives the compressed file to anybody (`svc_file.go:95`); a
  range or a condition on a missing file gives the not-found page with the status
  of `http.ServeContent`, 206 for example (`svc_file.go:251`).
* App kinds: `Py` is advised where there is no `app.py` and runs `app.py`. A
  `package.json` that does not parse or has no start script is advised and cannot
  be prepared. `tsc` becomes `node` with the package's own main path, which is
  looked for in the service's directory (`resolve.go:228`).
* Orphans: a command started just before a crash is not in the tracker yet; a
  process that gets the number of one in the tree before its turn is killed; what a
  command starts between the listing and its kill is not in the tree.
* Gateway: a `Close` between the connecting and the look at the connection passes
  none to JetStream (`gateway.go:81`); the model has the two as one step.
* Allocator: an address on which listening failed stays taken.

`CHECK_DEADLOCK FALSE` is set where the system may stop: a process that is gone,
a request that is answered, a session that has ended.

## Fairness

* Goroutines that can run do run (weak fairness of the ticker, the spawner, the
  drainer, the observer, the load balancer's own steps, the session's steps):
  the Go scheduler is preemptive.
* The clock advances and timers fire; SIGKILL works and `cmd.Wait` returns.
* A spawn that is retried for ever succeeds at some point and passes its ready
  check (strong fairness in `AppServer`, used by `ServiceComesBack` only).
* An upstream answers or fails in the end (`RequestEnds` only). This is the one
  outside party whose answer a property needs.
* Nothing makes an application honour a signal, finish a request, open its port
  or return from Stop. A terminating instance is therefore not assumed to exit;
  `ServiceComesBack` starts from the point where all instances are dead.
* The context of a service is cancelled after its Stop or after a failed start,
  as `ServiceState.Shutdown` and `StartService` do.
* The steps of a start are taken (`AppBuild`); nobody has to call Start and no
  crash is forced or excluded.
* Goroutines of the components added to these suites: weak fairness of every
  loop of pmesh's own; strong fairness where a goroutine waits for a lock or a
  semaphore that others take again and again (`TaskRunner.Lock`,
  `CertCache`, `RemoteFile`; Go's mutexes and channels are first come, first
  served under contention) and for the delivery of a task to some worker that is
  free now and then.
* Of the outside only what the code relies on: the acknowledgement wait of the
  server runs out for a task that no worker reports on; clocks tick; a broken
  connection is reported to its reader; a server told to stop stops; connecting,
  the opening of a yamux stream and requests to the peers' bucket return or time
  out; methods that pmesh serves return. No client, peer or web server has to
  answer or to read, and no user has to call or to close: where the code waits
  for them without a deadline, the property says so (`DialEnds`,
  `AcquireReturns`, `CallsReturn`, `UnusedExpires`, `LoadsReturn`,
  `LoggersGoOn`, `TailsEnd`, `CloseCompletes`).
* Faults are bounded (`MaxFaults`, `MaxErrors`, `MaxFailures`, `MaxLost`), so
  liveness is claimed for behaviours in which faults cease.

## Proofs

`tlapm` checks the theorems for all values of the constants. An invariant of a
run is seldom inductive as it stands; each theorem rests on one that is, which
says what every goroutine knows at each of its steps. The suites of `MC*` modules
are handled by two lemmas (`PartsStart`, `PartsStep`): a step of a suite is a step
of each component or leaves it alone.

* `App_proofs`, cluster control: `ServerTyped`; `Replacement`, from the
  invariant that the live instances are those in `list` or in `boot` while the
  ticker decides; `ClusterBound`, under `Headroom` (auto-scaling leaves room
  above the minimum; without it the bound fails, see Limits). Its inductive
  invariant says what the ticker knows at each program point: the running
  instances are in its list, or it has itself filled the cluster, and only it
  launches. `RunningBound` alone is not inductive, since the list is a snapshot.
* `App_proofs`, termination: `ProcessTyped`, `TerminatesSoundly`.
  The invariant relates each caller's local copies to the shared deadline: a caller
  about to swap holds a value that is earlier than the one it read.
* `Deploy_proofs`, the session: `SessionTyped`, `SessionIsSound`.
  The invariant adds to `NoOrphans` that the map holds states of its own name, and
  that a state still being launched is in no entry and asked by nobody. The app
  builder: `BuildTyped` for any number of starts; `StartsSoundly` and `KeepsRunDir`
  for one start at a time (`SingleStart`; `two_builds` shows that the second fails
  without it). The invariant adds that a build id always names what its archive
  holds, and what the start knows of the files at each step.
* `Deploy_proofs`, the walk of the sources: `WalksExactly`, for every tree, all
  options and any capacity of the channel. `Chain`: the frames of the stack are the
  directories on the way to the innermost one, each with the rules of exactly that
  way, opened and readable, and done with its files but for the last. `Pending` says
  what a frame has yet to come to: all below a directory before it is opened, then
  its files and what is below its directories. `SentOk`: a file is sent and not to
  come, or wanted and to come, never both; opening a directory changes nothing of
  that, leaving out what is ignored loses nothing wanted (`NotWanted`), and
  `WantedIff` says that a frame's decision about a file, made from its own list of
  rules, is that of the declarative `Wanted1`. No induction over the depth of a tree
  is needed, since a location names all directories above it. `EndOf` and `Taken`
  relate the channel to all that was sent, and `SumOk` the two lists of the checksum
  to what the readers took.
* `LoadBalancer_proofs`: `BalancesCorrectly`. `LbIInv` adds that no upstream is
  listed twice and that the depth of a request's stack follows its consumed
  retries (`DepthFits`), including the frame about to be pushed. `LoadExact` counts
  frames with a cardinality over requests and depths, so one lemma each says what
  a push and a pop do to it. That the walk along the list and the search for the
  least load end at a healthy upstream rests on a least element of a finite set of
  positions.
* `App_proofs`, health monitor: `ReportsHold`. The streak is a number, the rounds a
  window of history: `Rising` and `Falling` say that the number is the length of
  the run of equal outcomes at the end of the window, `Fresh` what holds before
  the first round, `Told` that the observer was told what the streak says, and
  `Counted` that the counter is the number of checks not passed.
* `App_proofs`, logs: `TailsGetLines` (`TailInv`: what the parsers of a tail have
  still to read is the beginning of each file, backwards, and what is behind it was
  taken once unless the quota ended; a line on its way to the collectors, `Coming`,
  has not reached those that are left; `CountInv` bounds the lines below the number
  that stands for no limit). `MergesExactly` (`MuxInv`: halves are taken in order
  while writes succeed, a line is in the heap or written and not twice, and what a
  flush takes from the heap is no older than what it wrote before). The length of a
  list of lines, and the place where two lists differ first, are least elements of
  sets of numbers where one would otherwise use induction.
* `Tasks_proofs`: `TasksAreSafe` (`DeliveriesCounted`: every delivery is the
  first, follows an attempt that is over, or was caused by a fault; `OneHolder`:
  a delivery has one worker). `RunsAreSpaced` (`SchedInv`: a node that has seen
  the current revision and is about to claim does so after the run is due by its
  own clock; only the node that claimed rolls back). `RatesAreKept` (`GateInv`:
  the starts within the current period and within the last period's length are
  bounded by what is left of the quota; `TalliesRight`: a window counts what was
  let in for its period unless it was set back; `QueueExact` with the requests
  that joined and have not returned).
* `Rpc_proofs`: `HomeHasOneOwner` (who has the file counts sessions or is on its
  way to the first or from the last; a lost address stays taken). `RepliesMatch`
  (`NumbersInv`: the calls that have a number have the first ones, each its own,
  which needs no more calls than numbers at a time; `MessagesInv`: every message
  carries the number of its call; `Known`: who waits is pending, rejected or being
  answered). `PoolTracksAll` (`DialInv`: who dials has the lock since it looked, and
  replaces nothing open). `ServesInOrder` (an unanswered request is on an open
  stream, a writer has its lock). `CertificatesStay` (who makes a certificate has
  its lock since it found none; the call for the root is nested in that of a host).
  `CacheIsSwept` (`ItemsExact` with the items that are deleted and not yet
  uncounted, one cleaner each; `AliveInv`: the insert that makes one item starts a
  cleaner). `DialsAgree` (`SetUpInv`: what the server answered follows from what the
  client sent, and the client goes on only with that answer).
* `Http_proofs`: `AnswersAreRight` (`StageInv`: nothing is written before a
  handler is done; `Shape` and `ServersInv`: the calls in progress nest as the
  code makes them, with the server in it twice at most). `BlocksHold`, for
  blocks of any length (`KnownOk`: a block that is not over is on the session
  that the map has for its address, or was forgotten in one of the ways named).
  `HostsFileKept` (the copy has the lines of the file whenever it is written
  without another look). `CleansUp` (processes with a parent have it alive; what
  the tracker names is a command; what must not survive is still in the tree).
  `LoadsSoundly` (`VersionInv`: unless a write failed, what a load read is what
  is on the disk, and that is no older than the value; `LoadInv`: a load that
  ends without an error has made sure of a value). `FilesAreRight`,
  `KindsAreRight`.
* `Edge_proofs`: `SwapIsAtomic`, the refinement of `KvRegister` by `KvApi`, step
  by step (`KvRefines`); its invariant says that while the entry has the
  revision a call read, it has the value the call compared. `MuxHolds`
  (`SubSound`: until the mux closes a sublistener its user is alone to close it,
  once; `BoundListens`; `PanicIsShut`: who panicked was sending to a shut
  queue). `NodeHolds` (`MarksSound`: a channel is closed once, with its mark;
  `ConnSound`: an open connection is one that Close will find, has in hand or
  missed). `PeersHold`, for any number of machines, host names and clocks: the
  last of a sequence sorted by heartbeats that names a host has its freshest one
  (`Greatest`); while a node stays, what was read of it is no newer than its
  record (`Seen`), and an update reads anew all that the list before it had
  (`Covers`); a node that cancelled sends nothing more (`KeyOk`, `Opens`).

Assumptions on constants are those of the component modules (`...Assumption`):
sets of actors are finite where they are counted, limits are positive where the
code gives defaults that are, names for "none" are none of the others. Each run
evaluates them for its instance. Updates of several fields of one element are
written `![c] = [@ EXCEPT !.a = ..., !.b = ...]`, and alternatives that overlap as
`IF`, so that the prover and TLC read the same function.

Only model-checked is liveness, since the prover has no fairness: `RequestEnds`,
`StopEndsProcess`, `DeployEnds`, `ProcessSettles`, `TasksEnd`, `LoadsReturn`,
`RpcEnds` and `EdgeSettles`. Every other property of the runs that hold is the
statement of a theorem.

## Plan

Not yet composed: load balancer, instance and termination (a request picked just
before a termination, a health report decided before it); the walk and the app
builder, whose checksum is a value here.

## Not modelled

* The manifest language (`lyml`, `luae`, `variant`) and the configuration file:
  parsers without concurrency or state that survives a call; the models start
  from what they produce.
* Command line, client and terminal UI: calls of the API and presentation.
* Cryptography, IP databases, geography, CPU sampling, MIME types, compression,
  log formatting and rotation: opaque values or outcomes of the models.
* Core-NATS messages of a runner, the TLS dialer, the table of shared listeners,
  metrics, git revisions.
* Third-party code: NATS, yamux, net/http, the operating system. What the models
  use of them are external definitions.

`components` in `PROJECT.json` has each with its reason.
