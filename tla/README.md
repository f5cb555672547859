# A verification development of bonnie

bonnie is the per-host GPU agent: one Go daemon that stages models on disk, runs
containers and paired benchmark runs through Docker, detects GPUs and serves all of it
over HTTP. This directory holds TLA+ models of its stateful parts, the TLC
configurations that check them and TLAPS proofs about them. `PROJECT.json` maps every
definition to the lines it models.

## Inventory

| part (source) | state | operations | what is hard | what makes it correct |
|---|---|---|---|---|
| model store (`internal/storage`, `handlers/models.go`) | index map under an RWMutex, singleflight group, `index.json`, artifact trees | Fetch, Delete, MarkUsed, List, Get, NewStore | Fetch takes and drops the lock several times; Delete removes files and entry in two steps; saves and removals fail; restarts | memory = disk index; one download per model; listed files exist, unless models share a destination; every call returns |
| paired run (`container/paired_run.go`, `handlers/benchmark.go`) | run context, bounded events channel, container IDs, Docker resources | PairedRun, cleanupRun, streamLogs, the SSE handler | five goroutines, one channel, two ways to be cancelled, terminal events that block, clean-up on every path | nothing left behind; the client learns the outcome; every run ends |
| container manager (`container/manager.go`, `logs.go`, `runtime.go`, `handlers/container.go`) | GPU vendor fixed at start-up | Create, Start, Stop, Restart, Remove, List, logs | the vendor may be stale; an operator acts on the containers of a run | containers get the GPU that is there |
| GPU polling (`internal/gpu`) | latest snapshot, subscribers | Start, Detect, Latest, Subscribe, publish | GPUs and tools that come and go during a detection, slow subscribers, shutdown during a detection | a working GPU is reported; nobody sees an older snapshot after a newer one |
| lifecycle (`cmd/bonnie`) | process, HTTP server, signal context | run, Shutdown | requests in flight at shutdown, runs whose handler has returned, a failed listen, two runs of one ID | orderly stop, nothing left behind |
| health registry (`flagcommons/health`, `handlers/health.go`) | list of checkers | Register, RunAll, Ready | concurrent checks, one that hangs | a report is true of every check |
| secrets (`flagcommons/secrets`) | TTL cache | Get, GetOrDefault | expiry, rotation, callers the mutex allows at once | no value older than its TTL and one request |
| configuration (`internal/config`) | none | Load | a provider that fails between two settings | documented precedence |
| router, middleware (`api`), exec and system handlers | the response's status | Recovery, Logging, Auth, the handlers | streams that fail after they began, panics | the log tells what was sent |
| logging, version | none | formatting | - | - |

The HTTP handlers call the store and the manager; the manager and the paired run call
Docker; the poller runs beside them from start-up to shutdown. The store and the paired
run share nothing but the model directory, which a run mounts read-only. What outlives the
process is the model directory with its index, and Docker.

## Plan

1. `ModelStore`, its abstract specification `ModelCache`, and proofs. *Done.*
2. `PairedRun`: one run in detail, its abstract specification `RunLife`, and proofs. *Done.*
3. `Daemon`: several runs over one Docker, operator and process. *Done.*
4. `GpuPoller` with `Manager.Create`; `SecretsCache`; `Config` and `Requests`. *Done.*
5. Proofs of every safety and refinement property the passing runs check. *Done.*
6. The detailed run shown to be a run of `Daemon`, so that both models of paired_run.go agree
   step by step. *Done.*
7. Left: the hazards without a property that are about interleavings: the entry a follower
   gets after its deletion, and the leader's failure handed to callers of other clients.

## Modules

| module | what it is |
|---|---|
| `ModelStore` | Store.Fetch, Delete, MarkUsed and NewStore, for any set of concurrent callers |
| `ModelCache` | what the store promises: a durable set of staged models, one load at a time |
| `MCModelStore`, `MCDaemon` | constants and symmetry sets of the TLC instances |
| `ModelStore_proofs` | the TLAPS proofs about `ModelStore` |
| `PairedRun` | one benchmark run: orchestrator, log streamers, channel, handler, client, Docker |
| `RunLife` | what a run promises its host: takes in setup, gives back in order, ends with nothing |
| `PairedRun_proofs` | the TLAPS proofs about `PairedRun` |
| `Daemon`, `Daemon_proofs` | the process from start to exit and the next start, the runs in it, the operator, Docker |
| `GpuPoller`, `GpuPoller_proofs` | detection, snapshots, subscribers, and the vendor of new containers |
| `SecretsCache`, `SecretsCache_proofs` | the cached OpenBao provider, for any callers, under rotation |
| `Config` | config.Load over a provider that fails and recovers; part of `Requests` |
| `Requests`, `Requests_proofs` | a request from the router to the log record, and the health checks |

### ModelStore

`entries` is the in-memory index (the maps `entries` and `byKey` are always changed
together, so they are one map from a model to the path of its entry), `index` what
`index.json` holds, `fs[p][m]` the state of model `m`'s files in directory `p` (none, a
part, all of them, or mixed: some were removed, or overwritten by another model's), `flight` the singleflight group, `lock` the write lock while Delete
holds it across several steps. `pc[c]` walks a caller through the code:

    lookup -> mark -> reread                     fast path (store.go:218-227)
    lookup -> enter -> wait                      follower of a flight (230)
    lookup -> enter -> check -> mark -> reread   leader that finds an entry (232-240)
    check -> mkdir -> download -> measure -> commit -> land     doFetch (252-311)
    rm -> unindex                                Delete (338-362)

A critical section that changes at most one durable thing is one action, so that the
interleavings are those of the lock; RemoveAll of a Delete is several steps (`RemoveSome`,
then `RemoveTree` or `RemoveFails`), because a failure or a crash in the middle leaves a
torn tree, and in the root perhaps no index file. Explicit destinations may be shared: while
a fetch writes, `Overwrite` spoils what another model, listed or still being fetched, has in
the same directory, as copyFile does by truncating (fetchers.go:125) and huggingface-cli by
`--local-dir` (fetchers.go:32); a fetch that succeeds does not repair what it lost meanwhile,
and one that fails leaves the damage. Not modelled: a model with a file named `index.json`
fetched into the root, and explicit destinations that lie within each other. Every fallible call (MkdirAll, the fetcher, measureTree, each save, RemoveAll)
may fail. `Crash` may happen at any point; `NewStore` reloads the index. A model is a
(source, model_id) pair and the name of its directory; sizes, file lists and timestamps
are left out, so a failed save of `last_used_at` shows only as a failed reply. An fsync
is not modelled: a crash is one of the process, not of the machine. The set `torn` is
history: models whose files a Delete has begun to remove and whose entry is still there.

### PairedRun

`opc` names the Docker request the orchestrator is about to make, in the order of
PairedRun; an action is the request's outcome and the status event that follows. A request
succeeds, fails, or (with `LostReplies`) takes effect although the caller sees an error,
which is what a context that ends during the request, or a broken connection, does.
`exit`, `error` and `result` are the blocking events: `EmitFinal` waits for room,
`GiveUpFinal` is the 10 s timer. `todo` is what cleanupRun still has to remove; `known`
are the IDs in runState. `hpc` is the handler: in its loop, waiting for the run after the
client left (`drain`) or after the channel was closed (`await`), and returned (`left`,
`ended`). `client` is `noticed` once the server has cancelled the request context, and
the run context with it. Status and progress events are all `news`, `received` keeps the outcomes only; `lost`, `fault`,
`dropped` and `received` are history. Docker's refusal to remove a network
with running containers, or a volume in use, is modelled as external.

`Host` is this run as `Daemon` sees it: `HostPc` forgets the positions at which only events,
logs or results are handled, `HostTodo` is the whole clean-up while the outcome is on its way,
and a container is the run's own while its ID is in runState. A fault or a lost reply makes
the run ID `marred` there, and a handler that has returned because it could not write makes the
run one of the `stray` ones (`HostStray`).

### Daemon

`pc[r]` and `todo[r]` are client r's run, one position per Docker request as in
`PairedRun`, without events: here runs meet each other, not their clients. `box`, `nets`, `vols` are Docker's containers, networks and volumes by run ID;
`by[n][k]` is the run whose runState holds that container's ID. Setup requests fail on
names that are taken (a network, a container) or take what is there (a volume); clean-up
removes containers by ID, but network and volume by name, whoever created them. Any setup
request may also take effect and yet be seen to fail; a container created that way is nobody's.
`OperatorStarts/Stops/Restarts/Removes` are Manager.Start, Stop, Restart and Remove on a
run's container. `proc` goes `off -> booting -> serving -> stopping -> off`; `told` is the
signal context, `failed` an error in `errCh`, `exit` the status. `ShutdownTimeout` is the
10 s of main.go:131, `Die` a panic or SIGKILL, `Launch` a start, which may follow any exit.
A handler that cannot write an event returns at once (benchmark.go:108-119): `StreamBreaks`
makes its run `stray`, which cancels it, so that no further setup request succeeds (`GoOn`),
and takes it from what Shutdown waits for (`Drained`); a process may then exit with status 0
in the middle of that run's clean-up (`Forsaken`).
`marred` (Docker refused a removal or the reply with a container's ID was lost, the operator
acted, or the process was killed) and `late`
(Shutdown gave up on a run or did not wait for it) are history: they name the run IDs the promises exclude.

### GpuPoller

`pos` is the polling goroutine: the vendor tool it runs next, then setLatest, publish and
the select. The first detection belongs to `Start`; the manager is made after it
(`NewManager`), from the snapshot that is the latest by then: the goroutine runs already and
may have ticked. A tool's output is parsed whole or not at all, so
a probe has two outcomes. `sub[u]` is a channel of one slot that a publish leaves alone
when it is full. `Create` injects the manager's `vendor`. `steady`, `missed`, `calm`,
`made`, `got` and `seen` are history.

### SecretsCache

A call parses its key, looks into the cache under the mutex, asks OpenBao without it, and
stores the answer under it again, so answers can be stored in another order than they were
given. This is what the provider promises any callers; in bonnie its only caller is
config.Load, on one goroutine and once for each key (main.go:40-45), so that neither the cache
nor its races come into play there. Time is discrete and bounded; `Pass` does not let a request outlive the HTTP
client's timeout; decoding the body and storing the value, which wait for nothing but a
short mutex, are counted to the request. An answer is a version of the secret, `replaced` when each version went.

### Config and Requests

`Config` is Load as the sequence of questions it asks; the provider may fail and recover
between any two (`Outage`), and `missed` records what was there and could not be read. The five settings that are only
read with a default (config.go:78-84) are one question.
`Requests` begins with it and goes on with the requests the configured daemon serves.
A request bears no token, another one, an empty one or the configured text; Auth compares
strings, so an empty configured token, which Load accepts, is matched by an empty one.
A request walks through `auth`, its handler (`handle`, then `checks` or `stream`), `log`,
`done`; `Panic` takes it past Logging to Recovery. `status` holds the status net/http
sent, the one Logging's writer noted, and the one it logged. `slot` is RunAll's result
array. When the daemon begins to serve, the configuration that is no longer read is
forgotten (`Serve`), which keeps the state space small and takes nothing from a property.

## Runs

| run | asks | bounds | result |
|---|---|---|---|
| `store_safety` | index, memory and files stay consistent; the inductive invariant | 2 callers, 2 models, 1 destination outside the root that both may use | holds |
| `store_followers` | one fetch at a time, never over an entry; refinement of `ModelCache`; every call returns | 3 callers, 1 model | holds, the last under `FairSpec` |
| `store_root` | what is left when requests name the storage root: the core of the invariant, no deleted model comes back, an entry keeps its path | 2 callers, 2 models, the root as destination | holds |
| `store_reread` | a successful Fetch answers with an entry | 2 callers, 1 model | violated: zero entry (store.go:224) |
| `store_torn` | a fetched model is on disk | 2 callers, 1 model | violated: entry outlives its files |
| `run_safety` | nothing left behind; outcome reported; the inductive invariant; refinement of `RunLife`; it is a run of `Daemon`; the run ends and frees its handler | channel of 2, lost replies | holds, the last two under `FairRunSpec` |
| `run_closed_channel` | no send on the closed channel | channel of 2 | violated: the process dies |
| `daemon_safety` | an unused run ID is clean; one run of an ID at a time; a signal ends the process | 2 clients with the same run ID | holds, the last under `FairSpec` |
| `daemon_stop` | a stop leaves nothing behind | 1 client | violated: Shutdown gives up on the run |
| `gpu_polling` | working GPUs are reported, readers and subscribers never go back, containers get the reported vendor, cancellation ends polling | 3 vendors, 3 detections, 1 user | holds, the last under `FairSpec` |
| `secrets_cache` | a returned value is at most TTL + timeout old | 2 callers, 2 keys, 2 rotations, TTL 1, timeout 1, time 0..4 | holds |
| `requests` | Load is faithful; logged = sent; health reports are true; only the bearer of the configured token is served; a request without client ends | every configuration, 1 request, 2 services | holds, the last under `FairSpec` |

Two callers and two models show every race between two operations on the same or on
different models; a third caller is needed for a follower that waits while others act, and
adds nothing with a second model that the safety run has not. A channel of one or two
slots is full as often as one of 64, and two slots are needed to order an event before
another. Two runs of one ID show every collision of names; runs of different IDs share no
resource. Three detections (`MaxPolls`) are the first, one that fills a subscriber's
channel and one that finds it full; users do not interact. Time up to 4 (`MaxTime`) with
two rotations (`MaxVersion`) lets an entry be filled, rotated away, expire and be filled
by a late answer. Requests share only the services' health, so one of them meets every
interleaving with its own checks. `requests` stops when its request is over and the
configuration may refuse to load, hence no check for deadlock there.

`IndexedFilesPresent` and `FilesGoByDeleteOrSharer` say what the code really keeps apart. In
its default directory a listed model is touched by nobody but its own Delete. In an explicit
destination another fetch may overwrite its files at any time while it writes; the store
neither refuses nor notices it. Both hold because the explicit destination of their instance
lies outside the root. With one under the root, or the root itself, which `underRoot` accepts,
a Delete takes the files of other models with it. With the root itself it also takes
`index.json`, and memory then lists models the index file has lost, so neither
`MemoryMatchesDisk` nor `ImplementsCache` holds there; what still does is what `store_root`
checks.

`NoLeak` and `KeepsPromise` excuse a run that lost a reply: a container whose ID was lost is
not removed. `IdleNameIsClean` excuses run IDs that are `marred` or `late`; in particular exit
status 0 does not mean that nothing is left, since a run whose handler could not write may be
cut off. A listener that fails also ends in status 0 (main.go:124-140), after which
`Restart=on-failure` of the unit does nothing; no run is about that, because no document
promises otherwise.

## Fairness

The store's `FairSpec` assumes that the scheduler runs every goroutine, that `sync.RWMutex`
starves no waiter (hence strong fairness: the lock is free again and again, not
continuously) and that a fetcher returns, with a result or an error. `FairRunSpec` assumes that a Docker request ends (its context
is bounded by the run timeout, or by 30 s in clean-up), that timers fire, and that the
handler goes on when it is not writing. Nothing is assumed of the client, of its
connection, of log streams or of containers: a run ends even if the benchmark does not and
nobody reads. `Daemon!FairSpec` assumes that main.run goes on and its timer fires; of runs
and of the service manager nothing. `GpuPoller!FairSpec` assumes that
a vendor's tool returns once the context is done, which kills it (before, it may hang), that
it has started no process that keeps its output open, for which os/exec would wait, and strong
fairness of `Stop`: Go's select chooses at random among what is ready.
`Requests!FairSpec` assumes that what a handler waits for returns once the client is gone,
because it has the request's context; not so a command of exec, since os/exec waits for
every process that inherited its output.

## Proofs

`ModelStore_proofs` proves for any sets of clients and models, from `StoreAssumption` (paths
of different kinds are different). What a theorem needs of the requests is stated with it:

| of the destinations in requests | proved |
|---|---|
| nothing | `CoreInv`, the type invariant, `NoEntryDuringFetch`, `OneDownload`, `NothingComesBack`, `OutsideIsLeftAlone`, `PathIsStable` |
| none is the storage root (`RootApart`) | `IndexInv`, `MemoryMatchesDisk`, the store implements `ModelCache` |
| all lie outside the root (`DestsOutside`) | `IInv`, `IndexedFilesPresent`, `FilesGoByDeleteOrSharer`, also when models share one |

The inductive invariant has the same three layers. `CoreInv` says who leads a flight
(`FlightIsLed`, `LeaderFlies`: a caller in doFetch leads the one flight of its model), who
holds the lock (`LockIsHeld`),
and that the index file lists nothing memory has forgotten (`NothingComesBack`: saves come
before a Delete returns, and a lost index file lists nothing). `IndexInv` adds that the
directory of the index stays (`DirStays`), so that a save fails only as a save, and equality
of memory and index. `IInv` adds where entries point (`PathIsOwn`), that a default
directory holds its own model only (`DefaultIsOwn`), and that a leader's tree is as far as the
leader has come or was spoilt by a model that lies in the same explicit destination
(`TreeIsMine`, `Overlaid`): then a commit lists a tree that is complete or overlaid, a failed
save can only roll back to "not listed", and a Delete under way can only hit the directory of
its own model. What is overlaid stays so, because nothing is ever removed from a destination
outside the root. `CoreStep`, `IndexStep` and `FilesStep` each assume the layers below in both states
and have one step per action; for the files, `WriterKeeps` covers the actions that write a
fetch's own tree, `RemoverKeeps` those that remove a model's own directory, and `TreesFollow`
the overwriting of another model. For the refinement, `LoadingFacts` shows that the models being
loaded are those of the callers in doFetch, one caller each; `LoadingStep` turns a caller's
move into a change of that set; `StepRefines` maps each step to a step of the cache or a
stutter.

`PairedRun_proofs` proves for every channel capacity, from `RunAssumption` alone: the type
invariant, `NoLeak`, `OutcomeReported`, that a run implements `RunLife`
(`KeepsPromise`) and that it is a run of `Daemon` (`RunsAsInDaemon`). `RunInv` is what makes them inductive. For
`NoLeak` it says that a container that exists is in runState or lost (`Recorded`), that
only known containers are started (`StartsKnown`), and which resources are gone at each
position of the clean-up (`CleanedSoFar`): containers go before the network and the volume
they would keep, so each removal finds its resource removable (`RemovesHead`). For
`OutcomeReported` it follows the outcome on its way: in the channel or with the client once
the run is in its clean-up (`OutcomeQueued`), with the client once the handler has seen the
closed channel empty (`OutcomeSeen`); `ClosedLast` ties the closing to the run's end.
For `KeepsPromise`, `SetupLives` maps a setup request to Acquire, Decline or a stutter, and
`CleanupLives` a removal to Release or, if Docker refused it or an ID was lost, to Refused.

For `RunsAsInDaemon` the guards of `Daemon`'s requests have to hold, which look at Docker and
not at the run. `RunInv` therefore also says what exists at each position of the setup
(`SetupSoFar`), that a container in runState exists throughout the setup
(`KnownExist`), that only an admitted request gets past validation (`Admitted`), and that the
clean-up list is empty outside the clean-up (`ListEmpty`). `SetupOnHost` maps a setup request
to the request of the same name, with its refusal and its lost reply; `CleanupOnHost` a
removal to RemoveHead or its refusal; `CloseOnHost` the end of the run to the end of the run
there. A handler that cannot write is StreamBreaks there (`Unwritten`, `LeftEnds`: it has had
an event to write, and its run does not get any further in its setup). Events, logs and what
else handler and client do are stutters.

`Daemon_proofs` proves `IdleNameIsClean` and `OneRunPerName` for any clients and run IDs
(`DaemonAssumption`). `DaemonInv` says who owes the removal of what: a container is owed by
the run that holds its ID, a network or volume by any run of its name that will still come to
it (`AllIsOwed`, `HoldersRun`). A container whose ID is lost with the reply is owed by nobody,
and its run ID is `marred` in the same step (`LostBoxInv`). A removal by name may take a resource of another run
early, and a refused removal (a network with a running container) is owed by the run whose
container keeps it; so when the last run of an ID is over, nobody owes anything and nothing
is there. `EngagedHoldEngine` gives `OneRunPerName`: two runs cannot hold one engine. A run whose handler
has returned owes what it owed before; that such runs are in flight (`StraysRun`) makes an exit
with status 0 add exactly the IDs that it cuts off to `late`.

`GpuPoller_proofs` proves `SteadyIsReported`, `NewsIsNew`, `CalmInjectsReported` and the
action property `NeverAhead` for any users and number of detections. `PollerInv` follows a
detection: the vendors already asked are not steady any more (`ProbedSofar`), the number of
the latest snapshot is that of the detection or one less, and nobody has what is not yet
published (`UpToDate`).

`SecretsCache_proofs` proves `BoundedStaleness` for any callers, keys, TTL, timeout and
bounds: an answer is as fresh as its request, whose age the timeout bounds
(`AnswersFresh`), and an entry as its expiry says (`EntriesFresh`), in whatever order
answers are stored.

`Requests_proofs` proves `LoadIsFaithful`, `LoggedIsSent`, `HealthIsTruthful` and
`OnlyBearerServed` for any requests and checkers. `LoadInv` says what Load can have taken when it has come to a
setting; `RequestsInv` adds that sent and noted status agree from the first byte to the log
(`ResponseSoFar`) and that a check's result is backed by the history of its service
(`SeenSoFar`). For `OnlyBearerServed`, `BearerInv` adds that no request has come in before the
daemon serves (`NoneBefore`): only then is the token fixed, and a stranger's request goes from
Auth to the log with a 401, past every handler and every panic (`Within`, `BearerStep`).

Liveness under fairness, ENABLED, and what recursive definitions compute for every input
are beyond the prover and stay with TLC: `EveryCallReturns`, `RunFinishes`,
`DisconnectFreesHandler`, `SignalEndsProcess`, `CancelStopsPoller` and
`GoneIsOver` are only model-checked, and so is everything the violation runs show.

## Not modelled

Logging and version only format. The contents of messages, logs, results and files are
abstracted everywhere, and so is what parsers compute: a tool's output, a system file
or a setting is well-formed or not. With that go the edges of pure arithmetic and order
listed under the hazards without a property (unsigned memory differences, card order, a
health check without port), which no interleaving reaches and
a unit test can. An fsync is not modelled. Several requests at once meet in the store and in
Docker, and are modelled there; `Requests` itself has nothing they share but the services'
health. Nor is the restart by a service manager: the daemon may be started again at any time.
