------------------------ MODULE PlatformMapController ------------------------
(***************************************************************************)
(* The PlatformMap controller: every running manager process watches the   *)
(* PlatformMaps, reconciles one at a time on its single worker by running  *)
(* every registered discovery engine concurrently, and writes the merged   *)
(* topology and one condition per engine to status                         *)
(* (internal/controller/platformmap_controller.go, cmd/manager/main.go).   *)
(*                                                                         *)
(* The managers run without leader election, so two of them overlap during *)
(* a rolling update of the Deployment.  The API server, the informer cache *)
(* and the work queue are not part of the repository; they are modelled by *)
(* what the controller relies on:                                          *)
(*   - a write to an object gives it a new resourceVersion, and a status   *)
(*     update whose resourceVersion is not the stored one is refused;      *)
(*   - reads are served from an informer cache fed by a watch, in order    *)
(*     but with a lag, and every event enqueues the object's name;         *)
(*   - a name is queued once, and is not handed out while it is processed. *)
(***************************************************************************)
EXTENDS PlatformMapObjects, Sequences

CONSTANTS
    Managers,        \* manager processes
    Missing,         \* engines whose tool the cluster does not have
    Toggled,         \* engines that honour the toggle in spec.tools
    FloatSources,    \* engines that may return a sample JSON cannot express
    MaxDisruptions,  \* bound: failed calls, lost watches, shutdowns, crashes
    MaxLag           \* bound: undelivered watch events of one name

ASSUME MissingAssumption == Missing \subseteq Sources \ Core
ASSUME ToggledAssumption == Toggled \subseteq Sources \ Core
ASSUME FloatSourcesAssumption == FloatSources \subseteq Sources
ASSUME BudgetAssumption == MaxDisruptions \in Nat /\ MaxLag \in Nat \ {0}
ASSUME MapsAssumption == Maps # {}

VARIABLES
    store,        \* API server: the object of each name, or Absent
    births,       \* API server: objects created so far; the last uid given
    cluster,      \* the version of each source's data in the cluster
    disruptions,  \* how much of MaxDisruptions is used up
    late,         \* status updates whose sender gave up but still in flight
    phase,        \* manager: "down", "running" or "stopping" (ctx cancelled)
    engines,      \* manager: the Discoverers registered in main
    cache,        \* manager: the informer cache
    watch,        \* manager: watch events not yet applied to the cache
    queue,        \* manager: the state of each name in the work queue
    pass          \* manager: the Reconcile call of its one worker

apiVars     == <<store, births, cluster, late>>
managerVars == <<phase, engines, cache, watch, queue, pass>>
vars        == <<store, births, cluster, disruptions, late,
                 phase, engines, cache, watch, queue, pass>>

(* A name is not queued, queued after RequeueAfter, queued after an error  *)
(* with backoff, or ready to be handed to the worker.                      *)
QueueStates == {"absent", "waiting", "backoff", "ready"}

(* Where a Reconcile call stands: before r.Get, in runDiscoverers, or in   *)
(* r.Status().Update, when pm carries the status to be written.            *)
Passes == [pc      : {"idle", "get", "discover", "update"},
           key     : Maps,
           pm      : Objects,
           results : [Sources -> Results]]

NoResults == [s \in Sources |-> [health |-> "none", ver |-> 0]]

Idle == [pc      |-> "idle",
         key     |-> CHOOSE k \in Maps : TRUE,
         pm      |-> Absent,
         results |-> NoResults]

Init ==
    /\ store = [k \in Maps |-> Absent]
    /\ births = 0
    /\ cluster = [s \in Sources |-> 1]
    /\ disruptions = 0
    /\ late = [k \in Maps |-> {}]
    /\ phase = [m \in Managers |-> "down"]
    /\ engines = [m \in Managers |-> {}]
    /\ cache = [m \in Managers |-> [k \in Maps |-> Absent]]
    /\ watch = [m \in Managers |-> [k \in Maps |-> <<>>]]
    /\ queue = [m \in Managers |-> [k \in Maps |-> "absent"]]
    /\ pass = [m \in Managers |-> Idle]

Disrupt ==
    /\ disruptions < MaxDisruptions
    /\ disruptions' = disruptions + 1

-----------------------------------------------------------------------------
(* The API server.  A resourceVersion is only ever compared for equality   *)
(* with that of a copy someone holds, so a version nobody holds is as good *)
(* as one that was never given out.                                        *)
Held(k) == {store[k].rv}
           \cup {cache[m][k].rv : m \in Managers}
           \cup (UNION {{watch[m][k][i].rv : i \in 1..Len(watch[m][k])} : m \in Managers})
           \cup {pass[m].pm.rv : m \in Managers}
           \cup {obj.rv : obj \in late[k]}

FreshVersion(k) == CHOOSE rv \in ResourceVersions : rv \notin Held(k)

(* The two bounds on writes: a version is left to give out, and no watch   *)
(* lags by more than MaxLag events.                                        *)
CanWrite(k) ==
    /\ ResourceVersions \ Held(k) # {}
    /\ \A m \in Managers : phase[m] # "down" => Len(watch[m][k]) < MaxLag

Stamped(k, obj) == [obj EXCEPT !.rv = FreshVersion(k)]

(* Store an object (or its absence) and send the event to every watcher.   *)
Write(k, obj) ==
    /\ store' = [store EXCEPT ![k] = obj]
    /\ watch' = [m \in Managers |->
                    IF phase[m] = "down" THEN watch[m]
                    ELSE [watch[m] EXCEPT ![k] = Append(@, obj)]]

(* Users: kubectl apply of a new map, of a changed spec, and delete.       *)
Create(k) ==
    /\ ~Exists(store[k])
    /\ births < MaxBirths
    /\ CanWrite(k)
    /\ births' = births + 1
    /\ \E auto \in BOOLEAN :
          Write(k, Stamped(k, [Absent EXCEPT !.uid = births + 1, !.gen = 1, !.auto = auto]))
    /\ UNCHANGED <<cluster, disruptions, late, phase, engines, cache, queue, pass>>

EditSpec(k) ==
    /\ Exists(store[k])
    /\ store[k].gen < MaxGen
    /\ CanWrite(k)
    /\ \E auto \in BOOLEAN :
          Write(k, Stamped(k, [store[k] EXCEPT !.gen = @ + 1, !.auto = auto]))
    /\ UNCHANGED <<births, cluster, disruptions, late, phase, engines, cache, queue, pass>>

Delete(k) ==
    /\ Exists(store[k])
    /\ CanWrite(k)
    /\ Write(k, Absent)
    /\ UNCHANGED <<births, cluster, disruptions, late, phase, engines, cache, queue, pass>>

(* Something a discovery source reports changes.                           *)
ClusterChanges(s) ==
    /\ s \notin Missing
    /\ cluster[s] < MaxVersion
    /\ cluster' = [cluster EXCEPT ![s] = @ + 1]
    /\ UNCHANGED <<store, births, disruptions, late, managerVars>>

-----------------------------------------------------------------------------
(* The manager process.  main registers the core engine and the subset of  *)
(* the others its flags leave enabled; starting lists every PlatformMap    *)
(* into the cache and enqueues it.                                         *)
Start(m, enabled) ==
    /\ phase[m] = "down"
    /\ Core \subseteq enabled
    /\ phase' = [phase EXCEPT ![m] = "running"]
    /\ engines' = [engines EXCEPT ![m] = enabled]
    /\ cache' = [cache EXCEPT ![m] = store]
    /\ queue' = [queue EXCEPT ![m] =
                    [k \in Maps |-> IF Exists(store[k]) THEN "ready" ELSE "absent"]]
    /\ UNCHANGED <<apiVars, disruptions, watch, pass>>

(* SIGTERM cancels the context every Reconcile call runs under.            *)
Stop(m) ==
    /\ phase[m] = "running"
    /\ Disrupt
    /\ phase' = [phase EXCEPT ![m] = "stopping"]
    /\ UNCHANGED <<apiVars, engines, cache, watch, queue, pass>>

(* A process that ends loses its cache, watches, queue and worker.         *)
Vanish(m) ==
    /\ phase' = [phase EXCEPT ![m] = "down"]
    /\ engines' = [engines EXCEPT ![m] = {}]
    /\ cache' = [cache EXCEPT ![m] = [k \in Maps |-> Absent]]
    /\ watch' = [watch EXCEPT ![m] = [k \in Maps |-> <<>>]]
    /\ queue' = [queue EXCEPT ![m] = [k \in Maps |-> "absent"]]
    /\ pass' = [pass EXCEPT ![m] = Idle]

(* mgr.Start returns once the worker is done.                              *)
Exit(m) ==
    /\ phase[m] = "stopping"
    /\ pass[m].pc = "idle"
    /\ Vanish(m)
    /\ UNCHANGED <<apiVars, disruptions>>

(* A status update whose sender gives up is lost, or reaches the API       *)
(* server later.                                                           *)
Abandon(m) ==
    \/ UNCHANGED late
    \/ /\ pass[m].pc = "update"
       /\ late' = [late EXCEPT ![pass[m].key] = @ \cup {pass[m].pm}]

Crash(m) ==
    /\ phase[m] # "down"
    /\ Disrupt
    /\ Abandon(m)
    /\ Vanish(m)
    /\ UNCHANGED <<store, births, cluster>>

-----------------------------------------------------------------------------
(* Mutant: a predicate that lets only events of a new incarnation through. *)
DeliverCreationsOnly(m, k) ==
    /\ phase[m] # "down"
    /\ watch[m][k] # <<>>
    /\ cache' = [cache EXCEPT ![m][k] = Head(watch[m][k])]
    /\ watch' = [watch EXCEPT ![m][k] = Tail(@)]
    /\ queue' = [queue EXCEPT ![m][k] =
                    IF cache[m][k].uid # Head(watch[m][k]).uid THEN "ready" ELSE @]
    /\ UNCHANGED <<apiVars, disruptions, phase, engines, pass>>

(* The informer and the work queue.  SetupWithManager filters no event, so *)
(* every one enqueues its name, the controller's own status writes         *)
(* included.                                                               *)
Deliver(m, k) ==
    /\ phase[m] # "down"
    /\ watch[m][k] # <<>>
    /\ cache' = [cache EXCEPT ![m][k] = Head(watch[m][k])]
    /\ watch' = [watch EXCEPT ![m][k] = Tail(@)]
    /\ queue' = [queue EXCEPT ![m][k] = "ready"]
    /\ UNCHANGED <<apiVars, disruptions, phase, engines, pass>>

(* The watch connection is lost and the informer lists again.              *)
Relist(m) ==
    /\ phase[m] # "down"
    /\ Disrupt
    /\ cache' = [cache EXCEPT ![m] = store]
    /\ watch' = [watch EXCEPT ![m] = [k \in Maps |-> <<>>]]
    /\ queue' = [queue EXCEPT ![m] =
                    [k \in Maps |-> IF Exists(store[k]) \/ Exists(cache[m][k])
                                    THEN "ready" ELSE queue[m][k]]]
    /\ UNCHANGED <<apiVars, phase, engines, pass>>

(* The RequeueAfter interval or the error backoff of a name runs out.      *)
TimerFires(m, k) ==
    /\ phase[m] = "running"
    /\ queue[m][k] \in {"waiting", "backoff"}
    /\ queue' = [queue EXCEPT ![m][k] = "ready"]
    /\ UNCHANGED <<apiVars, disruptions, phase, engines, cache, watch, pass>>

Dequeue(m, k) ==
    /\ phase[m] = "running"
    /\ pass[m].pc = "idle"
    /\ queue[m][k] = "ready"
    /\ queue' = [queue EXCEPT ![m][k] = "absent"]
    /\ pass' = [pass EXCEPT ![m] = [Idle EXCEPT !.pc = "get", !.key = k]]
    /\ UNCHANGED <<apiVars, disruptions, phase, engines, cache, watch>>

(* Reconcile returns; requeue is what its result asks for.  A name that an *)
(* event made ready meanwhile stays ready.                                 *)
Return(m, requeue) ==
    /\ queue' = [queue EXCEPT ![m][pass[m].key] = IF @ = "ready" THEN @ ELSE requeue]
    /\ pass' = [pass EXCEPT ![m] = Idle]

-----------------------------------------------------------------------------
(* Mutants: every error of r.Get, and none of them, taken for NotFound.    *)
GetFailsSwallowed(m) ==
    /\ pass[m].pc = "get"
    /\ Disrupt
    /\ Return(m, "absent")
    /\ UNCHANGED <<apiVars, phase, engines, cache, watch>>

GetNotFoundAsError(m) ==
    /\ pass[m].pc = "get"
    /\ ~Exists(cache[m][pass[m].key])
    /\ Return(m, "backoff")
    /\ UNCHANGED <<apiVars, disruptions, phase, engines, cache, watch>>

(* Reconcile: r.Get and the early returns.                                 *)
GetFails(m) ==
    /\ pass[m].pc = "get"
    /\ Disrupt
    /\ Return(m, "backoff")
    /\ UNCHANGED <<apiVars, phase, engines, cache, watch>>

GetNotFound(m) ==
    /\ pass[m].pc = "get"
    /\ ~Exists(cache[m][pass[m].key])
    /\ Return(m, "absent")
    /\ UNCHANGED <<apiVars, disruptions, phase, engines, cache, watch>>

GetDisabled(m) ==
    /\ pass[m].pc = "get"
    /\ Exists(cache[m][pass[m].key])
    /\ ~cache[m][pass[m].key].auto
    /\ Return(m, "absent")
    /\ UNCHANGED <<apiVars, disruptions, phase, engines, cache, watch>>

(* runDiscoverers starts one call per registered engine.                   *)
StartDiscovery(m) ==
    LET pm == cache[m][pass[m].key] IN
    /\ pass[m].pc = "get"
    /\ Exists(pm)
    /\ pm.auto
    /\ pass' = [pass EXCEPT ![m] =
                   [@ EXCEPT !.pc = "discover",
                             !.pm = pm,
                             !.results = [s \in Sources |->
                                 [health |-> IF s \in engines[m] THEN "pending" ELSE "none",
                                  ver    |-> 0]]]]
    /\ UNCHANGED <<apiVars, disruptions, phase, engines, cache, watch, queue>>

(* The call of engine s returns res into results[i].                       *)
Answer(m, s, res) ==
    /\ pass[m].pc = "discover"
    /\ pass[m].results[s].health = "pending"
    /\ pass' = [pass EXCEPT ![m] = [@ EXCEPT !.results[s] = res]]
    /\ UNCHANGED <<apiVars, phase, engines, cache, watch, queue>>

(* What a call returns when nothing goes wrong: the source's data as it is *)
(* now, the error that the tool is not installed, or nothing at all and no *)
(* error when the spec does not enable the tool.                           *)
Discovered(m, s) ==
    /\ \/ /\ s \in Missing
          /\ Answer(m, s, [health |-> "failed", ver |-> 0])
       \/ /\ s \in Toggled
          /\ Answer(m, s, [health |-> "ok", ver |-> 0])
       \/ /\ s \notin Missing
          /\ Answer(m, s, [health |-> "ok", ver |-> cluster[s]])
       \/ /\ s \in FloatSources \ Missing
          /\ Answer(m, s, [health |-> "unencodable", ver |-> cluster[s]])
    /\ UNCHANGED disruptions

(* An engine fails or runs into discoveryTimeout, with or without nodes in *)
(* its result.                                                             *)
DiscoveryFails(m, s) ==
    /\ s \notin Missing
    /\ \E ver \in {0, cluster[s]} : Answer(m, s, [health |-> "failed", ver |-> ver])
    /\ Disrupt

(* A call under way at shutdown returns the context's error.               *)
DiscoveryCanceled(m, s) ==
    /\ phase[m] = "stopping"
    /\ Answer(m, s, [health |-> "canceled", ver |-> 0])
    /\ UNCHANGED disruptions

(* g.Wait has returned.                                                    *)
AllAnswered(m) ==
    /\ pass[m].pc = "discover"
    /\ \A s \in Sources : pass[m].results[s].health # "pending"

Encodable(m) == \A s \in Sources : pass[m].results[s].health # "unencodable"

(* json.Marshal refuses the merged graph: Reconcile returns the error.     *)
MarshalFails(m) ==
    /\ AllAnswered(m)
    /\ ~Encodable(m)
    /\ Return(m, "backoff")
    /\ UNCHANGED <<apiVars, disruptions, phase, engines, cache, watch>>

(* Mutants: the update sent under a context of its own, and the status set *)
(* on the cached object itself instead of a copy.                          *)
SendUpdateDetached(m) ==
    /\ AllAnswered(m)
    /\ Encodable(m)
    /\ pass' = [pass EXCEPT ![m] =
                   [@ EXCEPT !.pc = "update",
                             !.pm.status = ReconciledStatus(pass[m].pm, pass[m].results),
                             !.results = NoResults]]
    /\ UNCHANGED <<apiVars, disruptions, phase, engines, cache, watch, queue>>

SendUpdateSharingCache(m) ==
    LET status == ReconciledStatus(pass[m].pm, pass[m].results) IN
    /\ AllAnswered(m)
    /\ Encodable(m)
    /\ phase[m] = "running"
    /\ pass' = [pass EXCEPT ![m] =
                   [@ EXCEPT !.pc = "update", !.pm.status = status, !.results = NoResults]]
    /\ cache' = [cache EXCEPT ![m][pass[m].key].status = status]
    /\ UNCHANGED <<apiVars, disruptions, phase, engines, watch, queue>>

(* r.Status().Update with a live context sends pm with its new status.     *)
SendUpdate(m) ==
    /\ AllAnswered(m)
    /\ Encodable(m)
    /\ phase[m] = "running"
    /\ pass' = [pass EXCEPT ![m] =
                   [@ EXCEPT !.pc = "update",
                             !.pm.status = ReconciledStatus(pass[m].pm, pass[m].results),
                             !.results = NoResults]]
    /\ UNCHANGED <<apiVars, disruptions, phase, engines, cache, watch, queue>>

(* With a cancelled context it fails before anything is sent.              *)
SendFails(m) ==
    /\ AllAnswered(m)
    /\ Encodable(m)
    /\ phase[m] = "stopping"
    /\ Return(m, "backoff")
    /\ UNCHANGED <<apiVars, disruptions, phase, engines, cache, watch>>

(* Mutant: a status update without resourceVersion.                        *)
AcceptsAnyVersion(k, pm) == Exists(store[k])

(* The optimistic lock of a status update, and what the update stores.     *)
Accepts(k, pm) == Exists(store[k]) /\ store[k].rv = pm.rv

WithStatus(k, pm) == Stamped(k, [store[k] EXCEPT !.status = pm.status])

UpdateCommitted(m) ==
    LET k == pass[m].key IN
    /\ pass[m].pc = "update"
    /\ Accepts(k, pass[m].pm)
    /\ CanWrite(k)
    /\ Write(k, WithStatus(k, pass[m].pm))
    /\ Return(m, "waiting")
    /\ UNCHANGED <<births, cluster, disruptions, late, phase, engines, cache>>

(* Mutants: no RequeueAfter after an update that changed nothing; a        *)
(* conflict retried with the results at hand against the object as it is   *)
(* now; a failed update not reported to the work queue.                    *)
UpdateUnchangedForgotten(m) ==
    /\ pass[m].pc = "update"
    /\ Accepts(pass[m].key, pass[m].pm)
    /\ store[pass[m].key].status = pass[m].pm.status
    /\ Return(m, "absent")
    /\ UNCHANGED <<apiVars, disruptions, phase, engines, cache, watch>>

UpdateRejectedRetried(m) ==
    /\ pass[m].pc = "update"
    /\ ~Accepts(pass[m].key, pass[m].pm)
    /\ Exists(store[pass[m].key])
    /\ pass' = [pass EXCEPT ![m].pm.rv = store[pass[m].key].rv]
    /\ UNCHANGED <<apiVars, disruptions, phase, engines, cache, watch, queue>>

UpdateInterruptedSwallowed(m) ==
    /\ pass[m].pc = "update"
    /\ \/ phase[m] = "stopping" /\ UNCHANGED disruptions
       \/ Disrupt
    /\ Abandon(m)
    /\ Return(m, "absent")
    /\ UNCHANGED <<store, births, cluster, phase, engines, cache, watch>>

(* An update that changes nothing, within the second lastDiscoveryTime is  *)
(* rounded to, is answered without a write.                                *)
UpdateUnchanged(m) ==
    LET k == pass[m].key IN
    /\ pass[m].pc = "update"
    /\ Accepts(k, pass[m].pm)
    /\ store[k].status = pass[m].pm.status
    /\ Return(m, "waiting")
    /\ UNCHANGED <<apiVars, disruptions, phase, engines, cache, watch>>

UpdateRejected(m) ==
    /\ pass[m].pc = "update"
    /\ ~Accepts(pass[m].key, pass[m].pm)
    /\ Return(m, "backoff")
    /\ UNCHANGED <<apiVars, disruptions, phase, engines, cache, watch>>

(* The call fails without an answer, its context cancelled or the          *)
(* connection broken.                                                      *)
UpdateInterrupted(m) ==
    /\ pass[m].pc = "update"
    /\ \/ phase[m] = "stopping" /\ UNCHANGED disruptions
       \/ Disrupt
    /\ Abandon(m)
    /\ Return(m, "backoff")
    /\ UNCHANGED <<store, births, cluster, phase, engines, cache, watch>>

(* An abandoned update reaches the API server after all.                   *)
LateUpdate(k, pm) ==
    /\ pm \in late[k]
    /\ late' = [late EXCEPT ![k] = @ \ {pm}]
    /\ \/ /\ Accepts(k, pm)
          /\ CanWrite(k)
          /\ Write(k, WithStatus(k, pm))
       \/ /\ ~Accepts(k, pm)
          /\ UNCHANGED <<store, watch>>
    /\ UNCHANGED <<births, cluster, disruptions, phase, engines, cache, queue, pass>>

-----------------------------------------------------------------------------
Environment ==
    \/ \E k \in Maps : \/ Create(k) \/ EditSpec(k) \/ Delete(k)
                       \/ \E pm \in late[k] : LateUpdate(k, pm)
    \/ \E s \in Sources : ClusterChanges(s)

Lifecycle(m) ==
    \/ \E enabled \in SUBSET Sources : Start(m, enabled)
    \/ Stop(m) \/ Exit(m) \/ Crash(m)

Informer(m) ==
    \/ Relist(m)
    \/ \E k \in Maps : Deliver(m, k) \/ TimerFires(m, k) \/ Dequeue(m, k)

(* The steps of a Reconcile call that need no disruption.                  *)
PassStep(m) ==
    \/ GetNotFound(m) \/ GetDisabled(m) \/ StartDiscovery(m)
    \/ \E s \in Sources : Discovered(m, s) \/ DiscoveryCanceled(m, s)
    \/ MarshalFails(m) \/ SendUpdate(m) \/ SendFails(m)
    \/ UpdateCommitted(m) \/ UpdateUnchanged(m) \/ UpdateRejected(m)

PassFails(m) ==
    \/ GetFails(m)
    \/ \E s \in Sources : DiscoveryFails(m, s)
    \/ UpdateInterrupted(m)

Next ==
    \/ Environment
    \/ \E m \in Managers : Lifecycle(m) \/ Informer(m) \/ PassStep(m) \/ PassFails(m)

Spec == Init /\ [][Next]_vars

(* What the platform promises: the Deployment restarts a manager and a     *)
(* stopping one exits, watch events arrive, timers fire, the worker takes  *)
(* a ready name, and every call of a pass returns (each engine's calls are *)
(* under discoveryTimeout).                                                *)
Fairness ==
    \A m \in Managers :
        /\ WF_vars(\E enabled \in SUBSET Sources : Start(m, enabled))
        /\ WF_vars(Exit(m))
        /\ WF_vars(PassStep(m))
        /\ \A k \in Maps : /\ WF_vars(Deliver(m, k))
                           /\ WF_vars(TimerFires(m, k))
                           /\ WF_vars(Dequeue(m, k))

FairSpec == Spec /\ Fairness
-----------------------------------------------------------------------------
(* Every variable has its type; a manager that is down holds nothing, and  *)
(* the worker's slot is empty exactly when no Reconcile call is under way. *)
TypeOK ==
    /\ store \in [Maps -> Objects]
    /\ births \in 0..MaxBirths
    /\ cluster \in [Sources -> 1..MaxVersion]
    /\ disruptions \in 0..MaxDisruptions
    /\ late \in [Maps -> SUBSET Objects]
    /\ phase \in [Managers -> {"down", "running", "stopping"}]
    /\ engines \in [Managers -> SUBSET Sources]
    /\ cache \in [Managers -> [Maps -> Objects]]
    /\ watch \in [Managers -> [Maps -> Seq(Objects)]]
    /\ queue \in [Managers -> [Maps -> QueueStates]]
    /\ pass \in [Managers -> Passes]

(* The copies of an object as the API server served them: cached, on their *)
(* way to a cache, or read by a Reconcile call that is still discovering.  *)
Copies(k) ==
    {cache[m][k] : m \in Managers}
    \cup (UNION {{watch[m][k][i] : i \in 1..Len(watch[m][k])} : m \in Managers})
    \cup {pass[m].pm : m \in {n \in Managers : pass[n].pc = "discover" /\ pass[n].key = k}}

(* The status updates on their way to the API server.                      *)
Updates(k) ==
    late[k] \cup {pass[m].pm : m \in {n \in Managers : pass[n].pc = "update" /\ pass[n].key = k}}

(* A copy that carries the stored resourceVersion is the stored object,    *)
(* and an update that carries it differs from it in status only.  This is  *)
(* what makes the optimistic lock of r.Status().Update enough, whatever    *)
(* the cache lagged behind, however long discovery took and whoever wrote  *)
(* in between.                                                             *)
VersionIdentifiesObject ==
    \A k \in Maps : Exists(store[k]) =>
        /\ \A obj \in Copies(k) : obj.rv = store[k].rv => obj = store[k]
        /\ \A obj \in Updates(k) : obj.rv = store[k].rv =>
              [obj EXCEPT !.status = store[k].status] = store[k]

(* A running manager never forgets a map it should keep fresh: a map its   *)
(* cache has with autoDiscover set is queued, due after an interval, or    *)
(* being reconciled.  Only errors, RequeueAfter and events keep this loop  *)
(* alive; nothing else ever rescans the maps.                              *)
NoLostWakeup ==
    \A m \in Managers, k \in Maps :
        phase[m] = "running" /\ Exists(cache[m][k]) /\ cache[m][k].auto =>
            \/ queue[m][k] # "absent"
            \/ pass[m].pc # "idle" /\ pass[m].key = k

(* The failures a shutdown causes in the engines under way (cancelled      *)
(* context) are never reported as the sources' health.                     *)
ShutdownNotPublished ==
    \A k \in Maps, s \in Sources : store[k].status.cond[s].health # "canceled"

(* The parts of the inductive invariant IInv follow.  A name has either no *)
(* object or one that was written with a resourceVersion, so an update of  *)
(* a copy that was never stored is refused.                                *)
StoredIsVersioned ==
    \A k \in Maps : IF Exists(store[k]) THEN store[k].rv # 0 ELSE store[k] = Absent

(* A pass discovers, and a status update is sent, for one incarnation and  *)
(* generation of a map with autoDiscover set: the one the pass had read.   *)
UpdatesAreForOneSpec ==
    /\ \A m \in Managers : pass[m].pc = "discover" => Exists(pass[m].pm) /\ pass[m].pm.auto
    /\ \A k \in Maps : \A obj \in Updates(k) :
          Exists(obj) /\ obj.auto /\ obj.status.uid = obj.uid /\ obj.status.gen = obj.gen

(* No object, update or result shows data its source did not have yet.     *)
NoFutureData ==
    /\ \A k \in Maps : \A obj \in Copies(k) \cup Updates(k) \cup {store[k]} :
          \A s \in Sources : obj.status.part[s] <= cluster[s]
    /\ \A m \in Managers, s \in Sources : pass[m].results[s].ver <= cluster[s]

(* A pass discovers nothing older than what the object it read shows, and  *)
(* an update the API server would accept nothing older than what is stored. *)
DiscoveryGoesForward ==
    /\ \A m \in Managers, s \in Sources :
          pass[m].pc = "discover" /\ pass[m].results[s].ver # 0 =>
              pass[m].results[s].ver >= pass[m].pm.status.part[s]
    /\ \A k \in Maps : \A obj \in Updates(k) :
          Exists(store[k]) /\ obj.rv = store[k].rv =>
              \A s \in Sources : \/ obj.status.part[s] = 0
                                 \/ obj.status.part[s] >= store[k].status.part[s]

(* Only a manager that is stopping has results of cancelled calls, and no  *)
(* object or update carries a condition derived from one.                  *)
CanceledStaysPrivate ==
    /\ \A m \in Managers : phase[m] = "down" => pass[m] = Idle
    /\ \A m \in Managers, s \in Sources :
          pass[m].results[s].health = "canceled" => phase[m] = "stopping"
    /\ \A k \in Maps : \A obj \in Copies(k) \cup Updates(k) \cup {store[k]} :
          \A s \in Sources : obj.status.cond[s].health # "canceled"

(* An update is what one discovery by some set of engines, the core ones   *)
(* among them, makes of a map: every engine's condition is for the         *)
(* generation read, and a source without an engine is not shown and keeps  *)
(* the condition it has in old, should the update be stored there.         *)
IsDiscovery(obj, old) ==
    \E enabled \in SUBSET Sources :
        /\ Core \subseteq enabled
        /\ \A s \in enabled : /\ obj.status.cond[s].health \in {"ok", "failed"}
                              /\ obj.status.cond[s].gen = obj.gen
        /\ \A s \in Sources \ enabled :
              /\ obj.status.part[s] = 0
              /\ Exists(old) /\ obj.rv = old.rv => obj.status.cond[s] = old.status.cond[s]

(* Every update is what one discovery makes of the stored map: a manager   *)
(* never runs without its core engines, and a pass has a result of each.   *)
UpdatesAreDiscoveries ==
    /\ \A m \in Managers : phase[m] # "down" => Core \subseteq engines[m]
    /\ \A m \in Managers : pass[m].pc = "discover" =>
          /\ \A s \in Core : pass[m].results[s].health # "none"
          /\ \A s \in Sources : pass[m].results[s].health = "none" =>
                                  pass[m].results[s].ver = 0
    /\ \A k \in Maps : \A obj \in Updates(k) : IsDiscovery(obj, store[k])

(* The inductive invariant: together with TypeOK it is kept by every step. *)
IInv ==
    /\ VersionIdentifiesObject
    /\ StoredIsVersioned
    /\ UpdatesAreForOneSpec
    /\ NoFutureData
    /\ DiscoveryGoesForward
    /\ CanceledStaysPrivate
    /\ UpdatesAreDiscoveries

(* A status write only ever reaches a map that exists, has autoDiscover    *)
(* set, and whose incarnation and generation are the ones the pass had     *)
(* read: never one disabled, edited or deleted and created again during    *)
(* the seconds of discovery.                                               *)
PublishOnlyForCurrentSpec ==
    [][\A k \in Maps :
          /\ store'[k].uid = store[k].uid
          /\ store'[k].status # store[k].status
          => /\ Exists(store[k])
             /\ store[k].auto
             /\ store'[k].gen = store[k].gen
             /\ store'[k].status.uid = store[k].uid
             /\ store'[k].status.gen = store[k].gen]_vars

(* What a source contributes to the topology of a map is never replaced by *)
(* older data of that source, though two managers and abandoned updates    *)
(* race to write it.                                                       *)
TopologyNeverRegresses ==
    [][\A k \in Maps, s \in Sources :
          /\ store'[k].uid = store[k].uid
          /\ store[k].status.part[s] # 0
          /\ store'[k].status.part[s] # 0
          => store'[k].status.part[s] >= store[k].status.part[s]]_vars

(* Seen through its resource versions, the store is a StatusRegister:      *)
(* every write of the managers, the racing and the late ones included, is  *)
(* a publication or leaves no trace.                                       *)
Register == INSTANCE StatusRegister WITH
                shown   <- [k \in Maps |-> [store[k] EXCEPT !.rv = 0]],
                created <- births,
                world   <- cluster

ImplementsStatusRegister == Register!Spec

-----------------------------------------------------------------------------
Wanted(k) == Exists(store[k]) /\ store[k].auto

Observed(k) == /\ store[k].status.uid = store[k].uid
               /\ store[k].status.gen = store[k].gen

(* Every spec that stays is eventually the one the status was discovered   *)
(* for, through failed reads and updates, lost watches and restarts.       *)
SpecEventuallyObserved ==
    \A k \in Maps : []<>(Wanted(k) => Observed(k))

(* The refresh loop catches up with every source that a running manager    *)
(* has an engine for: the staleness of the topology is bounded.            *)
TopologyCatchesUp ==
    \A k \in Maps, s \in Sources \ (Missing \cup Toggled) :
        []<>(Wanted(k) /\ (\A m \in Managers : s \in engines[m])
             => store[k].status.part[s] = cluster[s])

(* The loop of a map that is gone ends: no manager keeps retrying it.      *)
QuietAfterDelete ==
    \A k \in Maps, m \in Managers :
        []<>(\/ Exists(store[k])
             \/ queue[m][k] = "absent" /\ (pass[m].pc = "idle" \/ pass[m].key # k))

-----------------------------------------------------------------------------
(* spec.refreshInterval "controls how often the controller re-runs         *)
(* discovery" (platformmap_types.go:101): between two passes only a change *)
(* of the spec cuts the wait short.                                        *)
OnlySpecChangesPreemptRefresh ==
    [][\A m \in Managers, k \in Maps :
          /\ queue[m][k] = "waiting"
          /\ queue'[m][k] = "ready"
          /\ cache'[m][k] # cache[m][k]
          => \/ cache'[m][k].uid # cache[m][k].uid
             \/ cache'[m][k].gen # cache[m][k].gen]_vars

(* One source "must never prevent the rest of the graph from building"     *)
(* (platformmap_controller.go:116-118): what a core engine discovers is    *)
(* eventually shown.                                                       *)
CoreEventuallyShown ==
    \A k \in Maps, s \in Core :
        []<>(Wanted(k) => store[k].status.part[s] # 0)

(* "Conditions report discovery health per source"                         *)
(* (platformmap_types.go:119): a source reported as detected is one the    *)
(* discovery that wrote the status did detect.                             *)
DetectedMeansDiscovered ==
    \A k \in Maps, s \in Sources :
        store[k].status.cond[s].health = "ok" => store[k].status.part[s] # 0
=============================================================================
