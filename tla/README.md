# Korion in TLA+

A verification development for Korion, the Kubernetes controller that discovers
the tools and workloads of a platform and shows them as a topology graph.
It models what the program does, checks it with TLC on small instances and
proves the main safety properties with TLAPS for instances of any size.

Paths below are relative to the repository root.

## The system

| Component | State it keeps | Operations | Talks to |
|---|---|---|---|
| PlatformMap types (`api/v1alpha1/platformmap_types.go`) | the custom resource: spec, generation, status (topology, conditions, lastDiscoveryTime) | created, edited and deleted by users; status written by the controller | API server |
| PlatformMap controller (`internal/controller/platformmap_controller.go`) | nothing of its own; the informer cache and the work queue of controller-runtime, and the locals of the Reconcile call under way | `Reconcile`, `runDiscoverers`, `discoveryCondition`, `SetupWithManager` | cache, engines, API server |
| Manager process (`cmd/manager/main.go`) | the registered engines, the signal context | kill-switch flags, start, graceful stop | controller, read API, probes |
| Discovery engines (`internal/discovery`) | none; each `Discover` reads the cluster, GitHub or Prometheus | K8s, ArgoCD, Istio, Kyverno, GitHub, Prometheus; the shared presence check `GroupVersionAvailable`; the secret resolver | API server, external HTTP services |
| Topology graph (`internal/graph`) | none | `Merge`, `joinNodes`, `dedupeEdges`, `BrandColorFor` | called by Reconcile |
| Read API server (`internal/api/server.go`) | an HTTP listener | `Start` with graceful shutdown, `getPlatformMap`, CORS | the manager's cache |
| Dashboard data path (`ui/src/api`, `hooks`, `state`, `App.tsx`) | the last fetched view, its error, the selected node, the active filter | polling every 30 s, select, filter | read API |
| Canvas layout (`ui/src/components/TopologyCanvas`) | none | `layoutGraph`, visibility by filter | data path |
| Dashboard panels (`ui/src/components/*`) | none | rendering | data path |
| PlatformAgent type (`api/v1alpha1/platformagent_types.go`) | a type no controller reads | none | none |
| Generated code, CRDs, Helm chart, e2e, CI | none | none | none |

A pass of the controller goes as follows.  An event, a timer or a retry queues
the name of a PlatformMap.  The one worker takes it and reads the map from the
informer cache.  A map that is gone or has `autoDiscover` unset ends the pass.
Otherwise every registered engine runs concurrently, each under
`discoveryTimeout`; `g.Wait` collects the results; a condition per engine is
upserted and the graph is rebuilt from all the parts and encoded; one status
update writes both.  Success asks for another pass after `refreshInterval`, an
error for a retry with backoff.  The watch event of the update comes back to
the same controller.  The read API answers from the same cache, and the
dashboard polls it and lays out the graph it gets.

What is hard about it:

- a read from a lagging cache, seconds of discovery, and then a write of the
  same copy, during which the map may be edited, disabled, deleted or created again;
- two managers during a rolling update, because no leader is elected;
- status updates that fail, conflict, or arrive after their sender is gone;
- shutdown, which cancels the engines under way and makes them report failures
  that say nothing about the tools, and which waits for readers;
- a refresh loop that nothing keeps alive but its own requeues, retries and events;
- one source's result that prevents the status of all the others;
- engines that read a cluster one list after the other while it changes, fail
  half way and keep what they had, and share nodes with other engines;
- a view that is several steps behind, with its own errors and retries;
- a layout whose loop is bounded by a number.

What makes each part correct:

- controller: a status is written only for the spec and incarnation it was
  discovered for; data never goes back; a wakeup is never lost; every spec that
  stays is eventually reflected; the loop of a deleted map ends;
- manager process: a stop or a kill at any moment leaves nothing wrong behind;
- engines: one failing, hanging or absent tool affects its own condition only;
  what is reported as detected is shown whole;
- graph: one node per identifier, nothing a source said is lost but by a later
  source, no duplicate edge, enrichment joins the node it is about;
- read API and dashboard: what is shown is something that was stored, missing
  and failed are told apart, and the view catches up;
- layout: a place of its own for every node, and termination, also on a cyclic graph.

`PROJECT.json` lists, under "hazards", each place in the code where one of these
can go wrong and the property that watches it.

## The modules

How they depend on one another:

    PlatformMapObjects <- StatusRegister       <- PlatformMapController <- PlatformMapControllerProofs
                                                                        <- PlatformMapRefinementProofs
                                               <- ReadPath              <- ReadPathProofs
    Topology           <- TopologyMerge        <- MCTopologyMerge, TopologyMergeProofs
                       <- DiscoveryPass        <- DiscoveryEngines
                       <- DiscoveryNodes       <- DiscoveryEngines <- MCDiscoveryEngines
                                               <- DiscoveryNodesProofs  <- DiscoveryEnginesProofs
    ManagerLifecycle   <- ManagerLifecycleProofs
    CanvasLayout       <- MCCanvasLayout, CanvasLayoutProofs

Each part is modelled on what the next promises: the controller sees of an engine
that it answers or fails, once and for good, which `DiscoveryEngines` opens up
and is shown to keep (`DiscoveryPass`); `DiscoveryEngines`
merges with the definition that `TopologyMerge` shows the loop to compute; the
read path starts from the register that the controller is shown to implement.

### The controller

**`PlatformMapObjects`** defines the stored object and the status one pass
computes.  A PlatformMap is a record of uid, resourceVersion (`rv`), generation
(`gen`), `auto` (spec.autoDiscover) and status.  The other spec fields only
select what the engines look at; a change of them is a new generation.  The
topology is kept per source: `part[s]` is the version of that source's data the
nodes were built from, 0 if the source contributed no node.  A condition is
unset, ok or failed, with the generation observed; `canceled` is a False
condition too, kept apart so that a property can speak of it.  The status also
remembers the uid and generation its pass had read.  That memory is of the
model: the code stores the generation in the conditions and lets the rest be
deduced.  `ReconciledStatus` is lines 86-99 of `Reconcile` with
`discoveryCondition`.

**`PlatformMapController`** is the system.

| Variable | Stands for |
|---|---|
| `store`, `births` | the API server's object of each name, and the uids given out |
| `cluster` | the version of what each source would report now |
| `late` | status updates whose sender gave up and that may still arrive |
| `phase`, `engines` | each manager process: down, running, or stopping with its context cancelled; the engines its flags enabled |
| `cache`, `watch`, `queue` | its informer cache, the watch events on their way, and where each name is in the work queue |
| `pass` | the Reconcile call of its worker: before `r.Get`, in `runDiscoverers`, or in `r.Status().Update`, with the map read and the results so far |
| `disruptions` | how much of the budget of failures is used |

| Actions | Code |
|---|---|
| `Create`, `EditSpec`, `Delete`, `ClusterChanges` | users and the cluster |
| `Start`, `Stop`, `Exit`, `Crash` | `main` |
| `Deliver`, `Relist`, `TimerFires`, `Dequeue` | informer and work queue; which events count is `SetupWithManager` |
| `GetFails`, `GetNotFound`, `GetDisabled`, `StartDiscovery` | lines 72-84 and the start of `runDiscoverers` |
| `Discovered`, `DiscoveryFails`, `DiscoveryCanceled` | the return of one engine, in any order with the others |
| `MarshalFails`, `SendUpdate`, `SendFails` | lines 86-103 up to the request: after `g.Wait`, everything is local |
| `UpdateCommitted`, `UpdateUnchanged`, `UpdateRejected`, `UpdateInterrupted` | the outcomes of the status update and what `Reconcile` returns for each |
| `LateUpdate` | an abandoned update reaches the API server |

The API server, client-go and controller-runtime are not in the repository.
They are modelled by what the controller needs of them, and the map calls those
definitions external:

- a write gives the object a resourceVersion that no copy in use has, and a status update
  needs the stored one.  The versions are tokens that are reused once nobody holds
  them, which keeps refresh loops finite; since they are compared for equality
  only, this is indistinguishable from new ones;
- the status subresource keeps spec and metadata, and a spec update increments the generation;
- a watch delivers in order, with a lag; a lost watch lists again;
- a name is queued once, is not worked on twice at a time, and an event during its pass queues it again.
  A delayed entry is dropped when an event queues the name earlier, where the real queue would
  keep it and cause one more pass; the model grants fewer wakeups than the system has.

**`StatusRegister`** is the abstract specification: users change objects, and in
single steps *publications* change their status.  A publication is for the spec
stored at that moment, comes from one discovery by a set of engines that
contains the core one, and shows of each source nothing or data that is no older
than before and not from the future.  It knows no manager, cache, queue, version
or retry.  `PlatformMapController!Register` maps `store` to it by forgetting the
resource versions.

### Graph and engines

**`Topology`** has nodes, edges, `JoinNodes`, the colour table, and a definition
of the merge without a loop: for each id one node, whose every text and every
metadata key is the last one given (`MergedNodes`), and the edges without
repetitions (`IsDistinct`).  `United` is the merge of a *set* of reports, with any
text and any value that was given: it knows neither order nor parts, and is the
same for reports that agree.  A node is an id, three texts and metadata; "" in a
text is Go's zero value and means "not said here".

**`TopologyMerge`** is `graph.Merge` step by step: `TakeNew` and `TakeKnown` are the two
branches of the loop over the nodes, with `order` and `byID` as in the code;
`dedupeEdges` and the stamping of the colours follow.  The parts are one
sequence, since the loops do not look where a part ends.

**`DiscoveryNodes`** is what each engine makes of what it read: `K8sNodes` with
`K8sEdges` (a service and the deployments its selector matches), `ArgoCDNodes`,
`IstioNodes` (canary weights and subsets are summed up per host), `KyvernoNodes`
(`accumulateViolations` and its tally at the deployment concerned), `GitHubNodes`,
`PrometheusNodes`, and the identifiers they agree on.  It has no state.
Metadata that is only copied from an object is left out.

**`DiscoveryPass`** is the abstract specification of a pass, what
`runDiscoverers` promises to `Reconcile`: `Answer(e)`, an engine returns nodes,
edges and whether it succeeded, once, and nobody changes that any more; `Publish`,
when all have answered, what they said agrees, and the status is their union.  It
knows no call, error, timeout or order.

**`DiscoveryEngines`** is one discovery pass.  An engine is a list of calls
(`Calls`); `at` is its program counter, `read` what the answered calls returned.

| Actions | Code |
|---|---|
| `Skip`, `Refuse`, `NoToken` | `spec.tools` not naming the tool; repository, token or address of Prometheus not usable |
| `Present`, `NotPresent` | `GroupVersionAvailable`: the group is served, is not, or the call failed |
| `Answered` | a list or a query returns what is there at that moment; GitHub sends one page |
| `CallBreaks`, `CallTimesOut` | a call fails: the engine returns with what it has, Prometheus goes on to its next query |
| `LatestRun` | `latestRun`, whose errors are dropped |
| `Expire` | `discoveryTimeout` or shutdown ends the engine's context |
| `Finish` | `g.Wait`, the conditions and the merge |
| `WorldChanges` | an object of the platform comes, changes or goes between two calls |

`world` is the platform, `stable` the part of it that did not change during the pass, and
`troubled` records, for the properties, which engines met with a fault of their own.
The nodes of an engine are a set, and `Listed` puts them into one order: the
properties that speak of the topology hold for every order, and
`EnginesDoNotConflict` says why order decides nothing.  `PassInv` says what a
pass is at any moment: what is read is whole, an engine that returned early
without an error was switched off, and what is published is `Result`, made of
the final answers of all engines.  `DiscoveryResults` is what the engines that ended
have returned, the slice of `runDiscoverers`; with it as `answers` the pass
implements `DiscoveryPass` (`ImplementsPass`).

### Process, read path, layout

**`ManagerLifecycle`** is one process: `main`, the read API's `Start` with its goroutine
(`listener`) and its select (`start`), the controller's worker, open requests, a
first and a second signal, a runnable that failed, and the grace period.
`Manager.Start` ends on a signal or on a runnable's error, on either if both
are there (`StopOnSignal`, `RunnableFailed`), and `code` is what it will return.  A
`Shutdown` that came before the goroutine ran makes it end without serving.  The branch
of the goroutine that ignores `ErrServerClosed` is part of `Listening`: the
select is over by then, so nobody reads what it sends.

**`ReadPath`** composes `StatusRegister` (as `Store`) with what a reader sees of
it.  `log` is the history of the polled map, `pos[m]` how far manager m's cache is
in it (0: it does not serve), `calls` the fetch under way, `ui` the version the
dashboard has, the error it shows and the failures in a row.  `getPlatformMap` is the
handler: missing is 404, any other error 500.  `Poll`, `Succeed`, `Retry` and
`GiveUp` are the query library as `usePlatformMap.ts` configures it: the last data stays when a
fetch fails.  `Rendered` is what `App.tsx` shows of it.

**`CanvasLayout`** is `layoutGraph`: `Dequeue` is one iteration of the loop, with
the adjacency list in edge order, `Place` one node of the last loop.  A graph may
have cycles, self-loops, repeated ways and edges whose end is no node.

Some definitions in the modules are mutants (`SendUpdateDetached`, `JoinNodesErasing`,
`DeeperOnce`, ...).  They are not part of a specification; each is a plausible
bug in the definition below it, and each property was seen to fail with one of
them substituted.

## The runs

| Run | Instance | What it shows |
|---|---|---|
| `TwoManagers` | 2 managers, 1 map, 1 source, 2 generations, 2 data versions, no failures, fairness | two managers race on one map that is edited, disabled and deleted: the inductive invariant holds, no status is written for another spec or takes data back, the two implement `StatusRegister`, and a spec that stays is observed |
| `Restarts` | 1 manager, 2 sources (one switched on and off, with samples JSON cannot express), 2 incarnations, 2 generations, 1 disruption | stops, kills, late updates: types and the inductive invariant; a version identifies an object; no wakeup is lost; a shutdown is never published as a source's failure; `StatusRegister` is implemented with partial results too |
| `Refresh` | 1 manager, 2 sources, one not installed, fairness, 1 disruption | a spec that stays is eventually observed; the topology catches up; a deleted map's loop ends |
| `Merge` | all inputs of up to 3 nodes, all lists of up to 3 edges | the loops compute the merge; nothing a source said is erased |
| `ClusterPass` | K8s, Istio, Kyverno; 2 changes of the cluster, 1 fault, timeouts | the inductive invariant of a pass; True means complete; violations are shown only if both lists were read, and none that lasted is left out; edges follow the selectors between all that lasted, and none lacks an end; the engines do not disagree; an enrichment joins its node; the pass implements `DiscoveryPass` |
| `ToolPass` | K8s, ArgoCD, GitHub, Prometheus; 5 specs (one with an unusable url), token present or not, 1 fault, timeouts, fairness | True means complete; a failure is a source's own; an engine out of time returns; `DiscoveryPass` is implemented by the engines that drop or collect errors too |
| `Lifecycle` | 1 process, 2 clients, fairness | accepted requests are answered before a graceful end; a process whose listener failed ends; one that nobody told to end ends with an error |
| `Polling` | 1 manager, 1 dashboard, 2 incarnations, 6 versions of the map, 2 faults, 3 retries, fairness | "not found" is true of some recent moment; the view never goes back; it catches up |
| `Layout` | every graph of up to 4 nodes and 4 edges | the loop ends within its bound; no two nodes share a place; a node is one column right of the last that leads to it; columns are longest paths on acyclic graphs |
| `NanSample`, `OwnWrites`, `KilledEngine` | the smallest instance each | a statement of the documentation that the code does not keep, see below |

**Bounds of the controller.**  The runs have one map: maps meet only in the worker, and that a
wakeup is kept while another map is worked on is proved for any number of them
(`WakeupsAreKept`).  How long a map waits while the worker is busy with others is
decided by the order of the library's queue, so the liveness properties claim nothing
of several maps.  Two managers are what a rolling update has; more only add
rivals of the same kind, and the proofs cover any number.  Two generations and
two data versions are enough to tell old from new; two incarnations to confuse
one with the next.  One source shows every interleaving of answer and write; the
second is there where partial results, other engines after a restart, or a tool
that is not installed matter.  `MaxLag` = 1 lets one event per name be on its
way, so a cache can be one write behind, which together with the copy in the
worker and the late updates gives three ages of the same object.
`MaxDisruptions` counts failed calls, lost watches, stops and crashes; one of
them, at every possible moment, followed by whatever it makes possible, is the
case a test would look for, and steps that follow from a stop (cancelled
engines, an interrupted update) cost nothing.  Two managers *and* a disruption
are left to the proofs.  `ResourceVersions` has more tokens than an instance
can hold at a time, so no write is held up for lack of one.  A delayed watch
does hold up further writes to the same name (`MaxLag`); every other bound only
limits the environment.

**Bounds of the others.**  `ClusterPass` has one object that every engine of the cluster
describes, one that no other describes, one in another namespace, and two versions of
a deployment; two changes let an object move between two lists of one engine and
between those of two.  `ToolPass` keeps the world still and varies the
configuration instead.  `PageSize` is 2 and there are no more than two
workflows (the real page is 30): past the page `TrueMeansComplete` is not
claimed, see below.  `Merge` has two ids whose nodes agree and disagree on
each kind of field; three nodes give "first, later, later still".  `MaxLog`
= 6 fits a creation, a publication, a deletion and the same again.  `Layout`'s four
nodes have every small cycle, diamond and shortcut.

**Deadlock** is not checked where the system may stop: the last map is deleted and
the environment's budget is used up, the pass has been published, the process
has exited.  `Polling` and `Layout` do check it.

**Fairness.**  `PlatformMapController!FairSpec` assumes of every manager: a Deployment
starts a process that is down and a stopping one exits; watch events arrive;
timers fire; the worker takes a ready name; and a call that is under way
returns.  The last is what `discoveryTimeout` is for, and `DiscoverIsBounded` of
`ToolPass` shows how far it carries: an engine whose context is done returns
although no service ever answers, except out of the presence check of
`internal/discovery/detect.go:39`, which gets no context; that it returns is the
default of the client's transport, not of this code.  `DiscoveryEngines!FairSpec`
therefore assumes only that timeouts fire and that a call given an expired context returns.
`ManagerLifecycle!FairSpec` assumes that goroutines run and the grace period
ends, and nothing of clients or signals.  `ReadPath!FairSpec` assumes that watch events
arrive, a pod is restarted, a request is answered or fails, and the library's
timers fire.  Nothing is assumed of users, of the cluster, or of failures.
The controller's liveness is stated as "infinitely often", because an adversary
may make the observed spec obsolete at any time, but only as often as the
bounds allow.

### Where code and documentation differ

- **`NanSample`**: an error rate of a service without traffic is 0/0, Prometheus
  answers NaN, `queryByService` (`internal/discovery/prometheus.go:138`) copies it
  into the node, and `json.Marshal` refuses the whole graph.  No status is
  written while the sample lasts, although "one source erroring ... must never
  prevent the rest of the graph from building"
  (`internal/controller/platformmap_controller.go:116-118`).
- **`OwnWrites`**: no event is filtered, so the controller's own status update
  queues its map again at once, although "RefreshInterval controls how often the
  controller re-runs discovery" (`api/v1alpha1/platformmap_types.go:101`).  Because
  `lastDiscoveryTime` has a resolution of a second, a pass that changes nothing
  within the same second is answered without a write and without an event
  (`UpdateUnchanged`); otherwise the loop goes on.
- **`KilledEngine`**: conditions are upserted and the topology is rebuilt, so an
  engine that is disabled by a restart leaves `<Source>Detected=True` next to a
  topology without its nodes, although "Conditions report discovery health per
  source" (`api/v1alpha1/platformmap_types.go:119`).

Met while modelling; each is one line of code next to one line of text, so no run is
spent on it.  The models follow the code.

| Code | Text |
|---|---|
| `internal/discovery/prometheus.go:110` appends a node for every sample, also of a service no engine reported, and `graph.Merge` keeps it as a node without type | `prometheus.go:45-46`: enrichment, no standalone nodes.  The same happens to a VirtualService that names its host in full (`istio.go:83`) |
| `argocd.go:58`, `istio.go:65`, `kyverno.go:73` do not look at `spec.tools` | `api/v1alpha1/platformmap_types.go:54-56`: an omitted tool is treated as disabled |
| `detect.go:41` takes any error of the API server for "not installed" | `detect.go:25-27` |
| `detect.go:40` gives the presence check no context | `platformmap_controller.go:40-42`: the timeout bounds each Discoverer call |
| `k8s.go:162` takes a label that is present and empty | `k8s.go:153-154` |
| `github.go:83` reads the first page only | `test/e2e/ACCEPTANCE.md:47-49`: a node per workflow |
| `layout.ts:63` moves a node right whenever a longer way is found | `layout.ts:28`: BFS depth |
| `layout.ts:58` stops after four iterations per node | `layout.ts:29-30`: see below |

The bound of `layout.ts:58` is not only for cycles.  An acyclic graph with many
shortcuts needs more iterations than four per node: the smallest known has ten
nodes, each with edges to the next five, so it is far from the instances of `Layout`.
There some edges may not lead to the right.  That is the only reason why one may
not: unless the loop was cut short a node is exactly one column right of the last
of those that lead to it, which is proved for every graph (`ColumnsRight`), and
on an acyclic graph with whole edges the column of each node is the length of
the longest path to it, of any size (`ColumnsAreLongest`).

## The proofs

| Module | Theorem | States |
|---|---|---|
| `PlatformMapControllerProofs` | `TypeCorrect` | `TypeOK` |
| | `InvariantHolds` | `IInv` |
| | `OptimisticLock` | `VersionIdentifiesObject` |
| | `ShutdownIsSilent` | `ShutdownNotPublished` |
| | `PublicationIsCurrent` | `PublishOnlyForCurrentSpec` |
| | `TopologyGoesForward` | `TopologyNeverRegresses` |
| | `WakeupsAreKept` | `NoLostWakeup` |
| `PlatformMapRefinementProofs` | `ControllerImplementsRegister` | `ImplementsStatusRegister` |
| `TopologyMergeProofs` | `LoopInvariant` | `LoopInv`, which holds the types |
| | `MergeCorrect` | `ResultIsMerge` |
| | `NothingErased` | `DetailsKept` |
| `DiscoveryEnginesProofs` | `FailuresStayLocal` | `FailureStaysLocal` |
| | `PassesInOrder` | `PassInv`, which holds the types |
| | `DetectedIsComplete` | `TrueMeansComplete` |
| | `TalliesAreComplete` | `TalliesAreWhole` |
| | `EdgesAreTheSelected` | `EdgesFollowSelectors` |
| | `EnginesNeverConflict` | `EnginesDoNotConflict` |
| | `EnrichmentsArriveAtTheirNodes` | `EnrichmentsJoin` |
| | `EnginesImplementPass` | `ImplementsPass` |
| `ManagerLifecycleProofs` | `Graceful` | `ShutdownIsGraceful` |
| | `FailureIsTold`, `ProcessTypes` | `ExitTellsFailure`, `TypeOK` |
| `ReadPathProofs` | `PathTypes` | `TypeOK`, with any number of managers |
| | `MissingIsMissing` | `NotFoundIsHonest`, with one manager |
| | `ViewGoesForward` | `ViewNeverGoesBack`, with one manager |
| `CanvasLayoutProofs` | `TypeCorrect` | `TypeOK` |
| | `NoOverlap` | `PlacedApart` |
| | `ColumnsRight` | `ColumnsFollowEdges` |
| | `ColumnsAreLongest` | `ColumnsAreLongestPaths`, whenever the queue is empty |

They hold for any values of the constants that satisfy the named assumptions of the
modules (the core engine exists and is always available, bounds are natural
numbers, 0 is not a resource version, there is a map; the inputs of a merge and
a layout are sequences of nodes and edges; the engines are those of the
repository, the objects a cluster may have are finitely many, deployments and
services have a name, and no cluster has an object twice).  `DiscoveryNodesProofs`
has the lemmas about the merge and the engines' nodes that the proofs of the
engines rest on.

**Controller.**  The argument turns on `VersionIdentifiesObject`.  It is inductive
almost by itself: a write takes a version nobody holds (`FreshVersionIsFresh`,
`StampedWrite`), so copies and updates of before cannot carry it, and the copies
the write makes are the new object.  It says nothing of what an accepted update
contains, and the other parts of `IInv` add that: an update is for the incarnation and
generation its pass had read (`UpdatesAreForOneSpec`); a copy never shows data
the source did not have yet (`NoFutureData`), so what a pass discovers is no older than
what the copy it read shows (`DiscoveryGoesForward`); if the update is then
accepted, that copy *was* the stored object, and so the stored data does not go
back.  `StoredIsVersioned` rules out an update of an object that was never
stored.  `CanceledStaysPrivate` ties cancelled results to a manager that is
stopping, which is the one that cannot send an update any more.
The proofs go action by action: `StoreStep` says what a step can do to the
store, `UpdatesStep`, `CopiesStep` and `PassStepIs` what it can do to updates,
copies and workers; one lemma per conjunct of `IInv` follows from these, and
`StatusStep` and `PublishStep` give the two action properties.
`NoLostWakeup` needs no more than the types: every return path leaves the name
queued or due, or the map is disabled or gone in the same cache.

**Refinement.**  What is left to show of `StatusRegister` is that an accepted update
is one of its publications.  `UpdatesAreDiscoveries`, a conjunct of `IInv`, says of
every update under way, also an abandoned one, that some set of engines with the
core one made it: their conditions are for the generation that was read, and a source
without an engine is not shown and keeps the condition of the stored map, should
the update be accepted.  With `DiscoveryGoesForward` and `NoFutureData`, which
bound the data from below and above, that is a publication
(`StatusIsPublication`).  Each action then maps to a step of the register or to a
stutter: `Create`, `EditSpec`, `Delete` and `ClusterChanges` to the steps of the same
purpose, `UpdateCommitted` and `LateUpdate` to a publication, and everything
else leaves what the register sees alone (`SilentSteps`).  The register promises
safety only; that something is published is checked by TLC.

**Merge.**  `LoopInv` says that after i nodes `byID` is the merge of the first i nodes,
`order` their ids as first seen, and `kept` the distinct edges so far.  One step of the
loop extends the merge of a prefix by one node, which comes down to the last
index that gives a text or a key (`LastText`, `LastMeta`) being the new one or
the one before.  The result and `DetailsKept` follow at the end of the loop.

**Engines.**  The invariant ties each kind of error to its cause: "failed" to a
fault or timeout of the same engine (`troubled`), which an expired context
implies; "CRD not installed" to a group that is not served or a fault of the
check.  Finishing derives the conditions from the errors.  That is enough for
`FailureStaysLocal`; the other properties follow from `PassInv`, whose `ReadSoFar`
says that an engine without an error has every answer up to its current call, and
each has what was there all along.

The step from what was read to what is shown goes in three parts.  The nodes of
an engine are a finite set, because the objects are finitely many, and
`SetToSeq` lists every one of them (`ListOfSet`); what is merged is one list
after the other (`ReportedLists`).  A merged node has the id of every node it was
made of, a type if one of them has one, and of each detail the last that was
given, which is theirs if they agree (`MergedShows`, `MergedIsSaid`).
They agree because each engine gives an id at most one node, and two engines that share an id give
different keys; this needs `NoTwins`, that no list has an object twice, and is
`EnginesNeverConflict`.  With that, an object that was read is shown with
its details, whatever the order: `DetectedIsComplete` for what
one engine read itself, `EnrichmentsArriveAtTheirNodes` for what one adds to
another's, `EdgesAreTheSelected` for the edges: what lasted is in both lists, and
an edge with the ids of two lasting objects is made of these and not of a
namesake, again by `NoTwins`.  For the tallies a sum that is shown must tell that both
lists were read.  That is `ReadInOrder`, the part of `PassInv` that places an
answer behind the current call of its engine, and a failed engine at the call
that failed: an answer to Kyverno's last call means that none failed
(`TalliedIsDetected`).  The lasting reports are then among those counted, and
to count more reports makes no count smaller (`TallyGrows`).

**The pass.**  That the order of the engines decides nothing is made a statement of
its own: the merge of a list whose nodes agree is `United` of the set of those nodes
(`MergeIsUnion`), because the last text or value given of a detail is then any
one given (`LastIsAny`, `LastMetaIsAny`).  With `NodesAgree`, which is behind
`EnginesNeverConflict`, and `ReportedLists` that is what `Publish` says of the
topology (`FinishPublishes`).  The other steps are answers or stutters, since no step
touches the result of an engine that does not take it, nor of one that has
ended (`OthersStand`, `LatestRunStands`): an engine's nodes are a function of
the answers to its own calls (`K8sReads` to `PrometheusReads`), and no two engines
have a call in common (`InputsApart`).  The abstract pass promises safety only;
that the engines return is `DiscoverIsBounded`.

**Process.**  Shutdown returns only when no request is open, and none is accepted once
the listener is closed; so when the runtime has seen every runnable return
there is nothing left to drop, unless the listener had failed.  A process that is
stopping without a signal carries the error it is going to end with (`EndHasReason`).

**Read path.**  The versions form a line: what is shown, what the answer under way was
read from, what the cache has, what the store has.  The cache of a manager
that is down counts as the store, because it lists before it serves again;
otherwise a restart would break the line.  An answer "not found" was true of the version it
was read from, and stays so because the log only grows.

**Layout.**  `depth` is bounded by the number of iterations, which is bounded by the
loop; and the rows used of a column exceed every row given out there, so a new
place differs from all before it.  A node that has a target no further right than itself
is in the queue (`Waiting`): a node that moves is queued, and no other node
gets ahead of its targets, since nothing moves left.  With the queue empty
there is none, so every edge leads right; and some edge asked for each column
(`Earned`), so it is one past the column that edge comes from.
For the longest paths the graph has to be acyclic with whole edges.  Then every
node is reached, because the roots are (`RootsReached`) and the others, if they
were not, would each have an unreached node before them, for a path of any length;
and a node is at the end of a path of k edges exactly if its depth is at least k
(`DepthIsPath`): in one direction an edge leads one column to the right at
least, in the other one some edge leads there from one column before.  These inductions
over the length of a path, and the one that gives the recursive function `PathEnds` its
values (`PathEndsIs`), are made over sets of numbers (`CountUp`), by the first
one that is missing, as the induction theorems of the library cannot be used.

Only model-checked are:

- everything under fairness (`SpecEventuallyObserved`, `TopologyCatchesUp`,
  `QuietAfterDelete`, `DiscoverIsBounded`, `NeverWithoutReadAPI`, `ViewCatchesUp`):
  liveness and ENABLED are out of the prover's reach;
- that four passes per node are enough for the graphs of `Layout`: `ColumnsAreLongestPaths`
  is proved of any graph on which the loop ended with an empty queue, and the run adds
  that at its sizes it always does.

## Limits of the models

- An engine's lists are read one after the other, so a topology may join objects that
  never existed together; no property claims a snapshot, and `TrueMeansComplete` speaks of
  what was there throughout.
- With the caches of two managers behind the Service a view may go back and "not found"
  may be told of a map that is there; the properties of the view are claimed for one manager.
- After a deletion the dashboard shows "not found" above the last topology, because the query
  library keeps the data (`Rendered` may be both).
- `refreshInterval` is only that a timer fires; of the `url` of Prometheus the models
  keep whether a client can be made of it.
- Two things the code leaves open are left out of the properties by name: the presence
  check is not bounded by any timeout (`DiscoverIsBounded`), and workflows past the first
  page are not shown (`ListedWhole` in `TrueMeansComplete`).
- `ClusterPass` has no Prometheus; that a metric arrives at its Service's node is
  proved (`EnrichmentsArriveAtTheirNodes`).

## Not modelled

- The panels and the drawing of the canvas: rendering of state that is modelled elsewhere.
- `useUIStore`: the selected node and the filter are two independent assignments.
- The table of categories for the filter, the CORS headers and the probes: constants.
- The PlatformAgent type: no code reads or writes it.
- Generated code, CRDs, the Helm chart, e2e scripts and CI: no state of their own.
