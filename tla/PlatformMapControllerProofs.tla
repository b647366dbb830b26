-------------------- MODULE PlatformMapControllerProofs --------------------
(***************************************************************************)
(* Theorems about PlatformMapController for any number of managers, maps   *)
(* and sources and any bounds.                                             *)
(***************************************************************************)
EXTENDS PlatformMapController, TLAPS

USE CoreAssumption, BoundsAssumption, ResourceVersionsAssumption,
    MissingAssumption, FloatSourcesAssumption, BudgetAssumption, MapsAssumption

-----------------------------------------------------------------------------
(* The constants of the model have their types.                            *)
LEMMA ConstantTypes ==
    /\ Unset \in Conditions
    /\ Blank \in Statuses
    /\ Absent \in Objects
    /\ ~Exists(Absent)
    /\ NoResults \in [Sources -> Results]
    /\ Idle \in Passes
<1>1. Unset \in Conditions
  BY DEF Unset, Conditions
<1>2. Blank \in Statuses
  BY <1>1 DEF Blank, Statuses
<1>3. Absent \in Objects /\ ~Exists(Absent)
  BY <1>2 DEF Absent, Objects, Exists
<1>4. NoResults \in [Sources -> Results]
  BY DEF NoResults, Results
<1>5. (CHOOSE k \in Maps : TRUE) \in Maps
  OBVIOUS
<1>6. Idle \in Passes
  BY <1>3, <1>4, <1>5 DEF Idle, Passes
<1>7. QED
  BY <1>1, <1>2, <1>3, <1>4, <1>6

(* A condition derived from a result, and the status a pass computes, have *)
(* their types.                                                            *)
LEMMA ReconciledStatusType ==
    ASSUME NEW obj \in Objects, NEW results \in [Sources -> Results]
    PROVE  ReconciledStatus(obj, results) \in Statuses
<1>1. obj.status \in Statuses /\ obj.uid \in 0..MaxBirths /\ obj.gen \in 0..MaxGen
  BY DEF Objects
<1>2. ASSUME NEW s \in Sources
      PROVE  /\ results[s].ver \in 0..MaxVersion
             /\ obj.status.cond[s] \in Conditions
             /\ DiscoveryCondition(results[s], obj.gen) \in Conditions
  BY <1>1 DEF Results, Statuses, Conditions, DiscoveryCondition
<1>3. QED
  BY <1>1, <1>2 DEF ReconciledStatus, Statuses

(* The version given to a write is one nobody holds.                       *)
LEMMA FreshVersionIsFresh ==
    ASSUME NEW k \in Maps, CanWrite(k)
    PROVE  FreshVersion(k) \in ResourceVersions /\ FreshVersion(k) \notin Held(k)
BY DEF CanWrite, FreshVersion

(* A stamped object is an object, and differs from the original in its     *)
(* version only.                                                           *)
LEMMA StampedType ==
    ASSUME NEW k \in Maps, CanWrite(k), NEW obj \in Objects
    PROVE  /\ Stamped(k, obj) \in Objects
           /\ Stamped(k, obj).rv = FreshVersion(k)
           /\ Stamped(k, obj).uid = obj.uid
           /\ Stamped(k, obj).gen = obj.gen
           /\ Stamped(k, obj).auto = obj.auto
           /\ Stamped(k, obj).status = obj.status
BY FreshVersionIsFresh DEF Stamped, Objects

(* What a write does to the types of the store and the watches.            *)
LEMMA WriteType ==
    ASSUME TypeOK, NEW k \in Maps, NEW obj \in Objects, Write(k, obj)
    PROVE  /\ store' \in [Maps -> Objects]
           /\ watch' \in [Managers -> [Maps -> Seq(Objects)]]
<1>1. store' \in [Maps -> Objects]
  BY DEF TypeOK, Write
<1>2. ASSUME NEW m \in Managers
      PROVE  [watch[m] EXCEPT ![k] = Append(@, obj)] \in [Maps -> Seq(Objects)]
  <2>1. watch[m] \in [Maps -> Seq(Objects)]
    BY DEF TypeOK
  <2>2. Append(watch[m][k], obj) \in Seq(Objects)
    BY <2>1
  <2>3. QED
    BY <2>1, <2>2
<1>3. watch' \in [Managers -> [Maps -> Seq(Objects)]]
  BY <1>2 DEF TypeOK, Write
<1>4. QED
  BY <1>1, <1>3

(* Reconcile's return leaves the queue and the worker well typed.          *)
LEMMA ReturnType ==
    ASSUME TypeOK, NEW m \in Managers, NEW requeue \in QueueStates, Return(m, requeue)
    PROVE  /\ queue' \in [Managers -> [Maps -> QueueStates]]
           /\ pass' \in [Managers -> Passes]
<1>1. pass[m].key \in Maps /\ queue[m] \in [Maps -> QueueStates]
  BY DEF TypeOK, Passes
<1>2. queue' \in [Managers -> [Maps -> QueueStates]]
  BY <1>1 DEF TypeOK, Return
<1>3. pass' \in [Managers -> Passes]
  BY ConstantTypes DEF TypeOK, Return
<1>4. QED
  BY <1>2, <1>3

-----------------------------------------------------------------------------
(* What a manager that ends leaves behind is well typed.                   *)
LEMMA VanishType ==
    ASSUME TypeOK, NEW m \in Managers, Vanish(m)
    PROVE  /\ phase' \in [Managers -> {"down", "running", "stopping"}]
           /\ engines' \in [Managers -> SUBSET Sources]
           /\ cache' \in [Managers -> [Maps -> Objects]]
           /\ watch' \in [Managers -> [Maps -> Seq(Objects)]]
           /\ queue' \in [Managers -> [Maps -> QueueStates]]
           /\ pass' \in [Managers -> Passes]
<1>1. /\ [k \in Maps |-> Absent] \in [Maps -> Objects]
      /\ [k \in Maps |-> <<>>] \in [Maps -> Seq(Objects)]
      /\ [k \in Maps |-> "absent"] \in [Maps -> QueueStates]
  BY ConstantTypes DEF QueueStates
<1>2. QED
  BY <1>1, ConstantTypes DEF TypeOK, Vanish

(* Giving up on an update, or using up the budget, keeps the types.        *)
LEMMA AbandonType ==
    ASSUME TypeOK, NEW m \in Managers, Abandon(m)
    PROVE  late' \in [Maps -> SUBSET Objects]
<1>1. pass[m].key \in Maps /\ pass[m].pm \in Objects
  BY DEF TypeOK, Passes
<1>2. late[pass[m].key] \cup {pass[m].pm} \in SUBSET Objects
  BY <1>1 DEF TypeOK
<1>3. CASE UNCHANGED late
  BY <1>3 DEF TypeOK
<1>4. CASE late' = [late EXCEPT ![pass[m].key] = @ \cup {pass[m].pm}]
  BY <1>1, <1>2, <1>4 DEF TypeOK
<1>5. QED
  BY <1>3, <1>4 DEF Abandon

(* The budget of disruptions is never overdrawn.                           *)
LEMMA DisruptType ==
    ASSUME TypeOK, Disrupt
    PROVE  disruptions' \in 0..MaxDisruptions
BY DEF TypeOK, Disrupt

(* An engine's answer keeps the types.                                     *)
LEMMA AnswerType ==
    ASSUME TypeOK, NEW m \in Managers, NEW s \in Sources, NEW res \in Results,
           Answer(m, s, res)
    PROVE  pass' \in [Managers -> Passes]
<1>1. pass[m] \in Passes
  BY DEF TypeOK
<1>2. [pass[m] EXCEPT !.results[s] = res] \in Passes
  BY <1>1 DEF Passes
<1>3. QED
  BY <1>2 DEF TypeOK, Answer

(* A pass whose results are all in carries objects and results.            *)
LEMMA PassTypes ==
    ASSUME TypeOK, NEW m \in Managers
    PROVE  /\ pass[m] \in Passes
           /\ pass[m].key \in Maps
           /\ pass[m].pm \in Objects
           /\ pass[m].results \in [Sources -> Results]
           /\ cache[m][pass[m].key] \in Objects
           /\ store[pass[m].key] \in Objects
BY DEF TypeOK, Passes

(* The users' requests keep the types.                                     *)
LEMMA EnvironmentType ==
    ASSUME TypeOK, Environment
    PROVE  TypeOK'
<1>1. ASSUME NEW k \in Maps, Create(k)
      PROVE  TypeOK'
  <2>1. PICK auto \in BOOLEAN :
           Write(k, Stamped(k, [Absent EXCEPT !.uid = births + 1, !.gen = 1, !.auto = auto]))
    BY <1>1 DEF Create
  <2>2. births + 1 \in 0..MaxBirths /\ 1 \in 0..MaxGen
    BY <1>1 DEF Create, TypeOK
  <2>3. [Absent EXCEPT !.uid = births + 1, !.gen = 1, !.auto = auto] \in Objects
    BY <2>2, ConstantTypes DEF Objects
  <2>4. CanWrite(k)
    BY <1>1 DEF Create
  <2>5. Stamped(k, [Absent EXCEPT !.uid = births + 1, !.gen = 1, !.auto = auto]) \in Objects
    BY <2>3, <2>4, StampedType
  <2>6. /\ store' \in [Maps -> Objects]
        /\ watch' \in [Managers -> [Maps -> Seq(Objects)]]
    BY <2>1, <2>5, WriteType
  <2>7. QED
    BY <1>1, <2>2, <2>6 DEF Create, TypeOK
<1>2. ASSUME NEW k \in Maps, EditSpec(k)
      PROVE  TypeOK'
  <2>1. PICK auto \in BOOLEAN :
           Write(k, Stamped(k, [store[k] EXCEPT !.gen = @ + 1, !.auto = auto]))
    BY <1>2 DEF EditSpec
  <2>2. store[k] \in Objects /\ store[k].gen + 1 \in 0..MaxGen
    BY <1>2 DEF EditSpec, TypeOK, Objects
  <2>3. [store[k] EXCEPT !.gen = @ + 1, !.auto = auto] \in Objects
    BY <2>2 DEF Objects
  <2>4. CanWrite(k)
    BY <1>2 DEF EditSpec
  <2>5. Stamped(k, [store[k] EXCEPT !.gen = @ + 1, !.auto = auto]) \in Objects
    BY <2>3, <2>4, StampedType
  <2>6. /\ store' \in [Maps -> Objects]
        /\ watch' \in [Managers -> [Maps -> Seq(Objects)]]
    BY <2>1, <2>5, WriteType
  <2>7. QED
    BY <1>2, <2>6 DEF EditSpec, TypeOK
<1>3. ASSUME NEW k \in Maps, Delete(k)
      PROVE  TypeOK'
  <2>1. /\ store' \in [Maps -> Objects]
        /\ watch' \in [Managers -> [Maps -> Seq(Objects)]]
    BY <1>3, ConstantTypes, WriteType DEF Delete
  <2>2. QED
    BY <1>3, <2>1 DEF Delete, TypeOK
<1>4. ASSUME NEW k \in Maps, NEW pm \in late[k], LateUpdate(k, pm)
      PROVE  TypeOK'
  <2>1. late' \in [Maps -> SUBSET Objects]
    BY <1>4 DEF LateUpdate, TypeOK
  <2>2. /\ store' \in [Maps -> Objects]
        /\ watch' \in [Managers -> [Maps -> Seq(Objects)]]
    <3>1. CASE CanWrite(k) /\ Write(k, WithStatus(k, pm))
      <4>1. [store[k] EXCEPT !.status = pm.status] \in Objects
        <5>1. pm \in Objects /\ store[k] \in Objects
          BY DEF TypeOK
        <5>2. QED
          BY <5>1 DEF Objects
      <4>2. WithStatus(k, pm) \in Objects
        BY <3>1, <4>1, StampedType DEF WithStatus
      <4>3. QED
        BY <3>1, <4>2, WriteType
    <3>2. CASE UNCHANGED <<store, watch>>
      BY <3>2 DEF TypeOK
    <3>3. QED
      BY <1>4, <3>1, <3>2 DEF LateUpdate
  <2>3. QED
    BY <1>4, <2>1, <2>2 DEF LateUpdate, TypeOK
<1>5. ASSUME NEW s \in Sources, ClusterChanges(s)
      PROVE  TypeOK'
  BY <1>5 DEF ClusterChanges, TypeOK, managerVars
<1>6. QED
  BY <1>1, <1>2, <1>3, <1>4, <1>5 DEF Environment

(* The life of a manager process keeps the types.                          *)
LEMMA LifecycleType ==
    ASSUME TypeOK, NEW m \in Managers, Lifecycle(m)
    PROVE  TypeOK'
<1>1. ASSUME NEW enabled \in SUBSET Sources, Start(m, enabled)
      PROVE  TypeOK'
  <2>1. [k \in Maps |-> IF Exists(store[k]) THEN "ready" ELSE "absent"]
           \in [Maps -> QueueStates]
    BY DEF QueueStates
  <2>2. QED
    BY <1>1, <2>1 DEF Start, TypeOK, apiVars
<1>2. CASE Stop(m)
  BY <1>2, DisruptType DEF Stop, TypeOK, apiVars
<1>3. CASE Exit(m)
  BY <1>3, VanishType DEF Exit, TypeOK, apiVars
<1>4. CASE Crash(m)
  BY <1>4, VanishType, AbandonType, DisruptType DEF Crash, TypeOK
<1>5. QED
  BY <1>1, <1>2, <1>3, <1>4 DEF Lifecycle

(* The informer and the work queue keep the types.                         *)
LEMMA InformerType ==
    ASSUME TypeOK, NEW m \in Managers, Informer(m)
    PROVE  TypeOK'
<1>1. CASE Relist(m)
  <2>1. [k \in Maps |-> <<>>] \in [Maps -> Seq(Objects)]
    OBVIOUS
  <2>2. [k \in Maps |-> IF Exists(store[k]) \/ Exists(cache[m][k])
                        THEN "ready" ELSE queue[m][k]] \in [Maps -> QueueStates]
    BY DEF TypeOK, QueueStates
  <2>3. QED
    BY <1>1, <2>1, <2>2, DisruptType DEF Relist, TypeOK, apiVars
<1>2. ASSUME NEW k \in Maps, Deliver(m, k)
      PROVE  TypeOK'
  <2>1. /\ Head(watch[m][k]) \in Objects
        /\ Tail(watch[m][k]) \in Seq(Objects)
    BY <1>2 DEF Deliver, TypeOK
  <2>2. /\ cache' \in [Managers -> [Maps -> Objects]]
        /\ watch' \in [Managers -> [Maps -> Seq(Objects)]]
    BY <1>2, <2>1 DEF Deliver, TypeOK
  <2>3. queue' \in [Managers -> [Maps -> QueueStates]]
    BY <1>2 DEF Deliver, TypeOK, QueueStates
  <2>4. QED
    BY <1>2, <2>2, <2>3 DEF Deliver, TypeOK, apiVars
<1>3. ASSUME NEW k \in Maps, TimerFires(m, k)
      PROVE  TypeOK'
  BY <1>3 DEF TimerFires, TypeOK, QueueStates, apiVars
<1>4. ASSUME NEW k \in Maps, Dequeue(m, k)
      PROVE  TypeOK'
  <2>1. [Idle EXCEPT !.pc = "get", !.key = k] \in Passes
    BY ConstantTypes DEF Passes
  <2>2. pass' \in [Managers -> Passes]
    BY <1>4, <2>1 DEF Dequeue, TypeOK
  <2>3. queue' \in [Managers -> [Maps -> QueueStates]]
    BY <1>4 DEF Dequeue, TypeOK, QueueStates
  <2>4. QED
    BY <1>4, <2>2, <2>3 DEF Dequeue, TypeOK, apiVars
<1>5. QED
  BY <1>1, <1>2, <1>3, <1>4 DEF Informer

(* The steps of a Reconcile call keep the types.                           *)
LEMMA PassStepType ==
    ASSUME TypeOK, NEW m \in Managers, PassStep(m) \/ PassFails(m)
    PROVE  TypeOK'
<1> USE DEF apiVars
<1>q. {"absent", "waiting", "backoff"} \subseteq QueueStates
  BY DEF QueueStates
<1>1. CASE GetFails(m)
  BY <1>1, <1>q, ReturnType, DisruptType DEF GetFails, TypeOK
<1>2. CASE GetNotFound(m) \/ GetDisabled(m)
  BY <1>2, <1>q, ReturnType DEF GetNotFound, GetDisabled, TypeOK
<1>3. CASE StartDiscovery(m)
  <2> DEFINE calls == [s \in Sources |->
                          [health |-> IF s \in engines[m] THEN "pending" ELSE "none",
                           ver    |-> 0]]
  <2>1. calls \in [Sources -> Results]
    BY DEF Results
  <2>2. pass' = [pass EXCEPT ![m] = [@ EXCEPT !.pc = "discover",
                                              !.pm = cache[m][pass[m].key],
                                              !.results = calls]]
    BY <1>3 DEF StartDiscovery
  <2> HIDE DEF calls
  <2>3. [pass[m] EXCEPT !.pc = "discover", !.pm = cache[m][pass[m].key], !.results = calls]
           \in Passes
    BY <2>1, PassTypes DEF Passes
  <2>4. pass' \in [Managers -> Passes]
    BY <2>2, <2>3 DEF TypeOK
  <2>5. QED
    BY <1>3, <2>4 DEF StartDiscovery, TypeOK
<1>4. ASSUME NEW s \in Sources,
             Discovered(m, s) \/ DiscoveryCanceled(m, s) \/ DiscoveryFails(m, s)
      PROVE  TypeOK'
  <2>1. cluster[s] \in 0..MaxVersion
    BY DEF TypeOK
  <2>2. PICK res \in Results : Answer(m, s, res)
    BY <1>4, <2>1 DEF Discovered, DiscoveryCanceled, DiscoveryFails, Results
  <2>3. pass' \in [Managers -> Passes]
    BY <2>2, AnswerType
  <2>4. disruptions' \in 0..MaxDisruptions
    BY <1>4, DisruptType DEF Discovered, DiscoveryCanceled, DiscoveryFails, TypeOK
  <2>5. QED
    BY <2>2, <2>3, <2>4 DEF Answer, TypeOK
<1>5. CASE MarshalFails(m) \/ SendFails(m)
  BY <1>5, <1>q, ReturnType DEF MarshalFails, SendFails, TypeOK
<1>6. CASE SendUpdate(m)
  <2>1. ReconciledStatus(pass[m].pm, pass[m].results) \in Statuses
    BY PassTypes, ReconciledStatusType
  <2>2. [pass[m] EXCEPT !.pc = "update",
                        !.pm.status = ReconciledStatus(pass[m].pm, pass[m].results),
                        !.results = NoResults] \in Passes
    <3>1. [pass[m].pm EXCEPT !.status = ReconciledStatus(pass[m].pm, pass[m].results)]
             \in Objects
      BY <2>1, PassTypes DEF Objects
    <3>2. QED
      BY <3>1, PassTypes, ConstantTypes DEF Passes
  <2>3. pass' \in [Managers -> Passes]
    BY <1>6, <2>2 DEF SendUpdate, TypeOK
  <2>4. QED
    BY <1>6, <2>3 DEF SendUpdate, TypeOK
<1>7. CASE UpdateCommitted(m)
  <2>1. [store[pass[m].key] EXCEPT !.status = pass[m].pm.status] \in Objects
    BY PassTypes DEF Objects
  <2>2. WithStatus(pass[m].key, pass[m].pm) \in Objects
    BY <1>7, <2>1, PassTypes, StampedType DEF UpdateCommitted, WithStatus
  <2>3. /\ store' \in [Maps -> Objects]
        /\ watch' \in [Managers -> [Maps -> Seq(Objects)]]
    BY <1>7, <2>2, PassTypes, WriteType DEF UpdateCommitted
  <2>4. QED
    BY <1>7, <1>q, <2>3, ReturnType DEF UpdateCommitted, TypeOK
<1>8. CASE UpdateUnchanged(m) \/ UpdateRejected(m)
  BY <1>8, <1>q, ReturnType DEF UpdateUnchanged, UpdateRejected, TypeOK
<1>9. CASE UpdateInterrupted(m)
  BY <1>9, <1>q, ReturnType, AbandonType, DisruptType DEF UpdateInterrupted, TypeOK
<1>10. QED
  BY <1>1, <1>2, <1>3, <1>4, <1>5, <1>6, <1>7, <1>8, <1>9 DEF PassStep, PassFails

(* Every step keeps the types.                                             *)
LEMMA TypeStep == TypeOK /\ [Next]_vars => TypeOK'
<1> SUFFICES ASSUME TypeOK, [Next]_vars PROVE TypeOK'
  OBVIOUS
<1>1. CASE Next
  BY <1>1, EnvironmentType, LifecycleType, InformerType, PassStepType DEF Next
<1>2. CASE UNCHANGED vars
  BY <1>2 DEF vars, TypeOK
<1>3. QED
  BY <1>1, <1>2

(* Every variable has its type in every reachable state.                   *)
THEOREM TypeCorrect == Spec => []TypeOK
<1>1. Init => TypeOK
  <2> SUFFICES ASSUME Init PROVE TypeOK
    OBVIOUS
  <2>1. /\ [k \in Maps |-> <<>>] \in [Maps -> Seq(Objects)]
        /\ [k \in Maps |-> "absent"] \in [Maps -> QueueStates]
        /\ [k \in Maps |-> Absent] \in [Maps -> Objects]
    BY ConstantTypes DEF QueueStates
  <2>2. /\ cluster \in [Sources -> 1..MaxVersion]
        /\ births \in 0..MaxBirths
        /\ disruptions \in 0..MaxDisruptions
    BY DEF Init
  <2>3. QED
    BY <2>1, <2>2, ConstantTypes DEF Init, TypeOK
<1>2. QED
  BY <1>1, TypeStep, PTL DEF Spec

-----------------------------------------------------------------------------
(* Copies, updates and held versions, one kind of holder at a time.        *)
LEMMA CopiesAre ==
    ASSUME NEW k \in Maps, NEW obj
    PROVE  obj \in Copies(k) <=>
              \/ \E m \in Managers : obj = cache[m][k]
              \/ \E m \in Managers : \E i \in 1..Len(watch[m][k]) : obj = watch[m][k][i]
              \/ \E m \in Managers : pass[m].pc = "discover" /\ pass[m].key = k
                                      /\ obj = pass[m].pm
BY DEF Copies

(* An update under way is a late one or the one a manager is sending.      *)
LEMMA UpdatesAre ==
    ASSUME NEW k \in Maps, NEW obj
    PROVE  obj \in Updates(k) <=>
              \/ obj \in late[k]
              \/ \E m \in Managers : pass[m].pc = "update" /\ pass[m].key = k
                                      /\ obj = pass[m].pm
BY DEF Updates

(* The version of every copy, of every update and of the stored object is  *)
(* held, so that no later write is given it again.                         *)
LEMMA HoldersHold ==
    ASSUME NEW k \in Maps
    PROVE  /\ store[k].rv \in Held(k)
           /\ \A obj \in Copies(k) \cup Updates(k) : obj.rv \in Held(k)
BY DEF Held, Copies, Updates

(* Copies and updates are objects.                                         *)
LEMMA HoldersType ==
    ASSUME TypeOK, NEW k \in Maps
    PROVE  /\ store[k] \in Objects
           /\ Copies(k) \subseteq Objects
           /\ Updates(k) \subseteq Objects
<1>1. store[k] \in Objects
  BY DEF TypeOK
<1>2. ASSUME NEW obj \in Copies(k)
      PROVE  obj \in Objects
  <2>1. ASSUME NEW m \in Managers, NEW i \in 1..Len(watch[m][k])
        PROVE  watch[m][k][i] \in Objects
    BY DEF TypeOK
  <2>2. ASSUME NEW m \in Managers
        PROVE  cache[m][k] \in Objects /\ pass[m].pm \in Objects
    BY DEF TypeOK, Passes
  <2>3. QED
    BY <1>2, <2>1, <2>2, CopiesAre
<1>3. ASSUME NEW obj \in Updates(k)
      PROVE  obj \in Objects
  BY <1>3, UpdatesAre DEF TypeOK, Passes
<1>4. QED
  BY <1>1, <1>2, <1>3

(* The steps that write to the store.                                      *)
LEMMA Writers ==
    ASSUME Next, store' # store
    PROVE  \/ \E k \in Maps : Create(k) \/ EditSpec(k) \/ Delete(k)
           \/ \E k \in Maps : \E pm \in late[k] :
                 LateUpdate(k, pm) /\ Accepts(k, pm) /\ CanWrite(k) /\ Write(k, WithStatus(k, pm))
           \/ \E m \in Managers : UpdateCommitted(m)
<1>1. CASE Environment
  BY <1>1 DEF Environment, LateUpdate, ClusterChanges
<1>2. ASSUME NEW m \in Managers, Lifecycle(m)
      PROVE  FALSE
  BY <1>2 DEF Lifecycle, Start, Stop, Exit, Crash, apiVars
<1>3. ASSUME NEW m \in Managers, Informer(m)
      PROVE  FALSE
  BY <1>3 DEF Informer, Relist, Deliver, TimerFires, Dequeue, apiVars
<1>4. ASSUME NEW m \in Managers, PassStep(m), ~UpdateCommitted(m)
      PROVE  FALSE
  BY <1>4 DEF PassStep, GetNotFound, GetDisabled, StartDiscovery, Discovered, Answer,
     DiscoveryCanceled, MarshalFails, SendUpdate, SendFails, UpdateUnchanged,
     UpdateRejected, apiVars
<1>5. ASSUME NEW m \in Managers, PassFails(m)
      PROVE  FALSE
  BY <1>5 DEF PassFails, GetFails, DiscoveryFails, Answer, UpdateInterrupted, apiVars
<1>6. QED
  BY <1>1, <1>2, <1>3, <1>4, <1>5 DEF Next

(* The one object a write changes, and what is stored.                     *)
LEMMA StampedWrite ==
    ASSUME TypeOK, NEW j \in Maps, NEW obj \in Objects, CanWrite(j), Write(j, Stamped(j, obj)),
           NEW k \in Maps, store'[k] # store[k]
    PROVE  /\ j = k
           /\ store'[k].rv \in ResourceVersions \ Held(k)
           /\ store'[k].uid = obj.uid
           /\ store'[k].gen = obj.gen
           /\ store'[k].auto = obj.auto
           /\ store'[k].status = obj.status
<1>1. j = k /\ store'[k] = Stamped(k, obj)
  BY DEF Write, TypeOK
<1>2. QED
  BY <1>1, StampedType, FreshVersionIsFresh

(* What a step can make of a stored object: nothing, a new incarnation, a  *)
(* new generation with the same status, or the same spec with the status   *)
(* of an update that was accepted.  All but the first have a version       *)
(* nobody held.                                                            *)
LEMMA StoreStep ==
    ASSUME TypeOK, Next, NEW k \in Maps, store'[k] # store[k]
    PROVE  \/ store'[k] = Absent
           \/ /\ store'[k].rv \in ResourceVersions \ Held(k)
              /\ Exists(store'[k])
              /\ UNCHANGED cluster
              /\ \/ /\ ~Exists(store[k])
                    /\ store'[k].status = Blank
                 \/ /\ Exists(store[k])
                    /\ store'[k].uid = store[k].uid
                    /\ store'[k].status = store[k].status
                 \/ \E pm \in Updates(k) :
                       /\ Accepts(k, pm)
                       /\ store'[k].uid = store[k].uid
                       /\ store'[k].gen = store[k].gen
                       /\ store'[k].auto = store[k].auto
                       /\ store'[k].status = pm.status
<1>1. ASSUME NEW j \in Maps, NEW obj, Write(j, obj)
      PROVE  j = k /\ store'[k] = obj
  BY <1>1 DEF Write, TypeOK
<1>2. ASSUME NEW j \in Maps, Create(j)
      PROVE  /\ j = k
             /\ store'[k].rv \in ResourceVersions \ Held(k)
             /\ Exists(store'[k])
             /\ UNCHANGED cluster
             /\ ~Exists(store[k])
             /\ store'[k].status = Blank
  <2>1. PICK auto \in BOOLEAN :
           Write(j, Stamped(j, [Absent EXCEPT !.uid = births + 1, !.gen = 1, !.auto = auto]))
    BY <1>2 DEF Create
  <2> DEFINE obj == [Absent EXCEPT !.uid = births + 1, !.gen = 1, !.auto = auto]
  <2>2. births \in Nat /\ births + 1 \in 0..MaxBirths /\ 1 \in 0..MaxGen
    BY <1>2 DEF Create, TypeOK
  <2>3. obj \in Objects
    BY <2>2, ConstantTypes DEF Objects
  <2>4. CanWrite(j)
    BY <1>2 DEF Create
  <2>5. obj.status = Blank /\ obj.uid = births + 1
    BY DEF Absent
  <2>6. Write(j, Stamped(j, obj))
    BY <2>1
  <2> HIDE DEF obj
  <2>7. QED
    <3>1. /\ j = k
          /\ store'[k].rv \in ResourceVersions \ Held(k)
          /\ store'[k].uid = births + 1
          /\ store'[k].status = Blank
      BY <2>3, <2>4, <2>5, <2>6, StampedWrite
    <3>2. QED
      BY <1>2, <2>2, <3>1 DEF Create, Exists
<1>3. ASSUME NEW j \in Maps, EditSpec(j)
      PROVE  /\ j = k
             /\ store'[k].rv \in ResourceVersions \ Held(k)
             /\ Exists(store'[k])
             /\ UNCHANGED cluster
             /\ Exists(store[k])
             /\ store'[k].uid = store[k].uid
             /\ store'[k].status = store[k].status
  <2>1. PICK auto \in BOOLEAN :
           Write(j, Stamped(j, [store[j] EXCEPT !.gen = @ + 1, !.auto = auto]))
    BY <1>3 DEF EditSpec
  <2> DEFINE obj == [store[j] EXCEPT !.gen = @ + 1, !.auto = auto]
  <2>2. store[j] \in Objects /\ store[j].gen + 1 \in 0..MaxGen
    BY <1>3 DEF EditSpec, TypeOK, Objects
  <2>3. obj \in Objects /\ obj.uid = store[j].uid /\ obj.status = store[j].status
    BY <2>2 DEF Objects
  <2>5. Write(j, Stamped(j, obj))
    BY <2>1
  <2> HIDE DEF obj
  <2>4. CanWrite(j)
    BY <1>3 DEF EditSpec
  <2>6. QED
    <3>1. /\ j = k
          /\ store'[k].rv \in ResourceVersions \ Held(k)
          /\ store'[k].uid = store[j].uid
          /\ store'[k].status = store[j].status
      BY <2>3, <2>4, <2>5, StampedWrite
    <3>2. QED
      BY <1>3, <3>1 DEF EditSpec, Exists
<1>4. ASSUME NEW j \in Maps, Delete(j)
      PROVE  store'[k] = Absent
  BY <1>1, <1>4 DEF Delete
<1>5. ASSUME NEW j \in Maps, NEW pm \in Updates(j),
             Accepts(j, pm), CanWrite(j), Write(j, WithStatus(j, pm)), UNCHANGED cluster
      PROVE  /\ j = k
             /\ store'[k].rv \in ResourceVersions \ Held(k)
             /\ Exists(store'[k])
             /\ store'[k].uid = store[k].uid
             /\ store'[k].gen = store[k].gen
             /\ store'[k].auto = store[k].auto
             /\ store'[k].status = pm.status
  <2> DEFINE obj == [store[j] EXCEPT !.status = pm.status]
  <2>1. store[j] \in Objects /\ pm \in Objects
    BY HoldersType
  <2>2. /\ obj \in Objects
        /\ obj.uid = store[j].uid
        /\ obj.gen = store[j].gen
        /\ obj.auto = store[j].auto
        /\ obj.status = pm.status
    BY <2>1 DEF Objects
  <2>3. Write(j, Stamped(j, obj))
    BY <1>5 DEF WithStatus
  <2> HIDE DEF obj
  <2>4. QED
    <3>1. /\ j = k
          /\ store'[k].rv \in ResourceVersions \ Held(k)
          /\ store'[k].uid = store[j].uid
          /\ store'[k].gen = store[j].gen
          /\ store'[k].auto = store[j].auto
          /\ store'[k].status = pm.status
      BY <1>5, <2>2, <2>3, StampedWrite
    <3>2. QED
      BY <1>5, <3>1 DEF Accepts, Exists
<1>6. ASSUME NEW j \in Maps, NEW pm \in late[j], LateUpdate(j, pm)
      PROVE  pm \in Updates(j) /\ UNCHANGED cluster
  BY <1>6, UpdatesAre DEF LateUpdate
<1>7. ASSUME NEW m \in Managers, UpdateCommitted(m)
      PROVE  /\ pass[m].key \in Maps
             /\ pass[m].pm \in Updates(pass[m].key)
             /\ UNCHANGED cluster
             /\ Accepts(pass[m].key, pass[m].pm)
             /\ CanWrite(pass[m].key)
             /\ Write(pass[m].key, WithStatus(pass[m].key, pass[m].pm))
  BY <1>7, PassTypes, UpdatesAre DEF UpdateCommitted
<1>8. store' # store
  OBVIOUS
<1>9. CASE \E j \in Maps : Create(j) \/ EditSpec(j) \/ Delete(j)
  BY <1>2, <1>3, <1>4, <1>9
<1>10. CASE \E j \in Maps : \E pm \in late[j] :
               LateUpdate(j, pm) /\ Accepts(j, pm) /\ CanWrite(j) /\ Write(j, WithStatus(j, pm))
  BY <1>5, <1>6, <1>10
<1>11. CASE \E m \in Managers : UpdateCommitted(m)
  BY <1>5, <1>7, <1>11
<1>12. QED
  BY <1>8, <1>9, <1>10, <1>11, Writers

(* The data of a source never gets older, and the cluster stands still     *)
(* while anything else happens.                                            *)
LEMMA ClusterStep ==
    ASSUME TypeOK, Next
    PROVE  \/ UNCHANGED cluster
           \/ /\ UNCHANGED <<store, late, phase, engines, cache, watch, queue, pass>>
              /\ \A s \in Sources : cluster'[s] >= cluster[s]
<1>1. CASE Environment
  <2>1. ASSUME NEW s \in Sources, ClusterChanges(s)
        PROVE  \A r \in Sources : cluster'[r] >= cluster[r]
    BY <2>1 DEF ClusterChanges, TypeOK
  <2>2. QED
    BY <1>1, <2>1 DEF Environment, Create, EditSpec, Delete, LateUpdate, ClusterChanges,
       managerVars
<1>2. ASSUME NEW m \in Managers, Lifecycle(m)
      PROVE  UNCHANGED cluster
  BY <1>2 DEF Lifecycle, Start, Stop, Exit, Crash, apiVars
<1>3. ASSUME NEW m \in Managers, Informer(m)
      PROVE  UNCHANGED cluster
  BY <1>3 DEF Informer, Relist, Deliver, TimerFires, Dequeue, apiVars
<1>4. ASSUME NEW m \in Managers, PassStep(m)
      PROVE  UNCHANGED cluster
  BY <1>4 DEF PassStep, GetNotFound, GetDisabled, StartDiscovery, Discovered, Answer,
     DiscoveryCanceled, MarshalFails, SendUpdate, SendFails, UpdateCommitted, UpdateUnchanged,
     UpdateRejected, apiVars
<1>5. ASSUME NEW m \in Managers, PassFails(m)
      PROVE  UNCHANGED cluster
  BY <1>5 DEF PassFails, GetFails, DiscoveryFails, Answer, UpdateInterrupted, apiVars
<1>6. QED
  BY <1>1, <1>2, <1>3, <1>4, <1>5 DEF Next

(* What a step can make of a manager's Reconcile call.                     *)
PassChange(m) ==
    \/ UNCHANGED pass[m]
    \/ /\ pass'[m].pc \in {"idle", "get"}
       /\ pass'[m].pm = Absent
       /\ pass'[m].results = NoResults
       /\ phase[m] = "down" => pass'[m] = pass[m]
       /\ phase'[m] = "down" => pass'[m] = Idle
    \/ StartDiscovery(m)
    \/ /\ UNCHANGED <<cluster, phase>>
       /\ \E s \in Sources, res \in Results :
             /\ Answer(m, s, res)
             /\ res.ver \in {0, cluster[s]}
             /\ res.health # "none"
             /\ res.health = "canceled" => phase[m] = "stopping"
    \/ SendUpdate(m)

(* Every step of the controller changes a worker in one of these ways.     *)
LEMMA PassStepIs ==
    ASSUME TypeOK, Next, \A m \in Managers : phase[m] = "down" => pass[m] = Idle,
           NEW m \in Managers
    PROVE  PassChange(m)
<1> USE DEF apiVars, managerVars
<1>i. Idle.pc = "idle" /\ Idle.pm = Absent /\ Idle.results = NoResults
  BY DEF Idle
<1>a. pass \in [Managers -> Passes] /\ phase \in [Managers -> {"down", "running", "stopping"}]
  BY DEF TypeOK
<1>1. CASE Environment
  BY <1>1 DEF Environment, Create, EditSpec, Delete, LateUpdate, ClusterChanges, PassChange
<1>2. ASSUME NEW n \in Managers, Lifecycle(n)
      PROVE  PassChange(m)
  <2>1. CASE \/ \E enabled \in SUBSET Sources : Start(n, enabled)
             \/ Stop(n)
    BY <2>1 DEF Start, Stop, PassChange
  <2>2. CASE Vanish(n)
    BY <1>i, <1>a, <2>2 DEF Vanish, PassChange
  <2>3. QED
    BY <1>2, <2>1, <2>2 DEF Lifecycle, Exit, Crash
<1>3. ASSUME NEW n \in Managers, Informer(n)
      PROVE  PassChange(m)
  <2>1. ASSUME NEW k \in Maps, Dequeue(n, k)
        PROVE  PassChange(m)
    <3>1. /\ [Idle EXCEPT !.pc = "get", !.key = k].pc = "get"
          /\ [Idle EXCEPT !.pc = "get", !.key = k].pm = Absent
          /\ [Idle EXCEPT !.pc = "get", !.key = k].results = NoResults
      BY DEF Idle
    <3>2. phase'[n] = "running" /\ phase[n] = "running"
      BY <2>1 DEF Dequeue
    <3>3. CASE m = n
      BY <1>a, <2>1, <3>1, <3>2, <3>3 DEF Dequeue, PassChange
    <3>4. CASE m # n
      BY <1>a, <2>1, <3>4 DEF Dequeue, PassChange
    <3>5. QED
      BY <3>3, <3>4
  <2>2. CASE Relist(n) \/ \E k \in Maps : Deliver(n, k) \/ TimerFires(n, k)
    BY <2>2 DEF Relist, Deliver, TimerFires, PassChange
  <2>3. QED
    BY <1>3, <2>1, <2>2 DEF Informer
<1>4. ASSUME NEW n \in Managers, NEW requeue, Return(n, requeue), pass[n].pc # "idle"
      PROVE  PassChange(m)
  BY <1>i, <1>a, <1>4 DEF Return, PassChange
<1>5. ASSUME NEW n \in Managers, NEW s \in Sources,
             Discovered(n, s) \/ DiscoveryCanceled(n, s) \/ DiscoveryFails(n, s)
      PROVE  PassChange(m)
  <2>1. cluster[s] \in 0..MaxVersion
    BY DEF TypeOK
  <2>2. PICK res \in Results : /\ Answer(n, s, res)
                               /\ res.ver \in {0, cluster[s]}
                               /\ res.health # "none"
                               /\ res.health = "canceled" => phase[n] = "stopping"
    BY <1>5, <2>1 DEF Discovered, DiscoveryCanceled, DiscoveryFails, Results
  <2>3. UNCHANGED <<cluster, phase>>
    BY <2>2 DEF Answer
  <2>4. CASE m = n
    BY <2>2, <2>3, <2>4 DEF PassChange
  <2>5. CASE m # n
    BY <1>a, <2>2, <2>5 DEF Answer, PassChange
  <2>6. QED
    BY <2>4, <2>5
<1>6. ASSUME NEW n \in Managers, StartDiscovery(n) \/ SendUpdate(n)
      PROVE  PassChange(m)
  <2>1. CASE m = n
    BY <1>6, <2>1 DEF PassChange
  <2>2. CASE m # n
    BY <1>a, <1>6, <2>2 DEF StartDiscovery, SendUpdate, PassChange
  <2>3. QED
    BY <2>1, <2>2
<1>7. ASSUME NEW n \in Managers, PassStep(n)
      PROVE  PassChange(m)
  BY <1>4, <1>5, <1>6, <1>7 DEF PassStep, GetNotFound, GetDisabled, AllAnswered, MarshalFails,
     SendFails, UpdateCommitted, UpdateUnchanged, UpdateRejected
<1>8. ASSUME NEW n \in Managers, PassFails(n)
      PROVE  PassChange(m)
  BY <1>4, <1>5, <1>8 DEF PassFails, GetFails, UpdateInterrupted
<1>9. QED
  BY <1>1, <1>2, <1>3, <1>7, <1>8 DEF Next

(* Where the updates after a step come from.                               *)
LEMMA UpdatesStep ==
    ASSUME TypeOK, Next, \A m \in Managers : phase[m] = "down" => pass[m] = Idle,
           NEW k \in Maps, NEW obj \in Updates(k)'
    PROVE  \/ obj \in Updates(k)
           \/ \E m \in Managers : /\ SendUpdate(m)
                                  /\ pass[m].key = k
                                  /\ obj = pass'[m].pm
<1>1. CASE obj \in late'[k]
  <2>1. ASSUME NEW m \in Managers, Abandon(m)
        PROVE  obj \in Updates(k)
    <3>1. pass[m].key \in Maps
      BY PassTypes
    <3>2. QED
      BY <1>1, <2>1, <3>1, UpdatesAre DEF Abandon, TypeOK
  <2>2. ASSUME NEW j \in Maps, NEW pm \in late[j], LateUpdate(j, pm)
        PROVE  obj \in Updates(k)
    BY <1>1, <2>2, UpdatesAre DEF LateUpdate, TypeOK
  <2>3. CASE UNCHANGED late
    BY <1>1, <2>3, UpdatesAre
  <2>4. \/ UNCHANGED late
        \/ \E m \in Managers : Abandon(m)
        \/ \E j \in Maps : \E pm \in late[j] : LateUpdate(j, pm)
    <3> USE DEF apiVars, managerVars
    <3>1. ASSUME Environment, ~UNCHANGED late
          PROVE  \E j \in Maps : \E pm \in late[j] : LateUpdate(j, pm)
      BY <3>1 DEF Environment, Create, EditSpec, Delete, ClusterChanges
    <3>2. ASSUME NEW m \in Managers, Lifecycle(m) PROVE UNCHANGED late \/ Abandon(m)
      BY <3>2 DEF Lifecycle, Start, Stop, Exit, Crash
    <3>3. ASSUME NEW m \in Managers, Informer(m) PROVE UNCHANGED late
      BY <3>3 DEF Informer, Relist, Deliver, TimerFires, Dequeue
    <3>4. ASSUME NEW m \in Managers, PassStep(m) PROVE UNCHANGED late
      BY <3>4 DEF PassStep, GetNotFound, GetDisabled, StartDiscovery, Discovered, Answer,
         DiscoveryCanceled, MarshalFails, SendUpdate, SendFails, UpdateCommitted,
         UpdateUnchanged, UpdateRejected
    <3>5. ASSUME NEW m \in Managers, PassFails(m) PROVE UNCHANGED late \/ Abandon(m)
      BY <3>5 DEF PassFails, GetFails, DiscoveryFails, Answer, UpdateInterrupted
    <3>6. QED
      BY <3>1, <3>2, <3>3, <3>4, <3>5 DEF Next
  <2>5. QED
    BY <2>1, <2>2, <2>3, <2>4
<1>2. ASSUME NEW m \in Managers, pass'[m].pc = "update", pass'[m].key = k, obj = pass'[m].pm
      PROVE  \/ obj \in Updates(k)
             \/ SendUpdate(m) /\ pass[m].key = k
  <2>1. CASE UNCHANGED pass[m]
    BY <1>2, <2>1, UpdatesAre
  <2>2. CASE StartDiscovery(m)
    <3>1. pass'[m].pc = "discover"
      BY <2>2, PassTypes DEF StartDiscovery, TypeOK, Passes
    <3>2. QED
      BY <1>2, <3>1
  <2>3. ASSUME NEW s \in Sources, NEW res \in Results, Answer(m, s, res)
        PROVE  FALSE
    <3>1. pass'[m].pc = "discover"
      BY <2>3, PassTypes DEF Answer, TypeOK, Passes
    <3>2. QED
      BY <1>2, <3>1
  <2>4. CASE SendUpdate(m)
    <3>1. pass'[m].key = pass[m].key
      BY <2>4, PassTypes DEF SendUpdate, TypeOK, Passes
    <3>2. QED
      BY <1>2, <2>4, <3>1
  <2>5. QED
    BY <1>2, <2>1, <2>2, <2>3, <2>4, PassStepIs DEF PassChange
<1>3. QED
  BY <1>1, <1>2 DEF Updates

(* Where the copies after a step come from.                                *)
LEMMA CopiesStep ==
    ASSUME TypeOK, Next, \A m \in Managers : phase[m] = "down" => pass[m] = Idle,
           NEW k \in Maps, NEW copy \in Copies(k)'
    PROVE  copy \in Copies(k) \cup {store'[k], Absent}
<1> USE DEF apiVars, managerVars
<1>a. ASSUME NEW m \in Managers
      PROVE  /\ pass[m].pc = "discover" /\ pass[m].key = k => pass[m].pm \in Copies(k)
             /\ cache[m][k] \in Copies(k)
             /\ \A i \in 1..Len(watch[m][k]) : watch[m][k][i] \in Copies(k)
  BY CopiesAre
<1>1. CASE \E m \in Managers : pass'[m].pc = "discover" /\ pass'[m].key = k
                               /\ copy = pass'[m].pm
  <2>1. PICK m \in Managers : pass'[m].pc = "discover" /\ pass'[m].key = k
                             /\ copy = pass'[m].pm
    BY <1>1
  <2>2. CASE UNCHANGED pass[m]
    BY <1>a, <2>1, <2>2
  <2>3. CASE StartDiscovery(m)
    <3>1. pass'[m].pm = cache[m][pass[m].key] /\ pass'[m].key = pass[m].key
      BY <2>3, PassTypes DEF StartDiscovery, TypeOK, Passes
    <3>2. QED
      BY <1>a, <2>1, <3>1
  <2>4. ASSUME NEW s \in Sources, NEW res \in Results, Answer(m, s, res)
        PROVE  copy \in Copies(k)
    <3>1. /\ pass'[m].pm = pass[m].pm
          /\ pass'[m].key = pass[m].key
          /\ pass[m].pc = "discover"
      BY <2>4, PassTypes DEF Answer, TypeOK, Passes
    <3>2. QED
      BY <1>a, <2>1, <3>1
  <2>5. CASE SendUpdate(m)
    BY <2>1, <2>5, PassTypes DEF SendUpdate, TypeOK, Passes
  <2>6. QED
    BY <2>1, <2>2, <2>3, <2>4, <2>5, PassStepIs DEF PassChange
<1>2. CASE \E m \in Managers : copy = cache'[m][k]
  <2>1. PICK m \in Managers : copy = cache'[m][k]
    BY <1>2
  <2>2. CASE UNCHANGED cache
    BY <1>a, <2>1, <2>2
  <2>3. ASSUME NEW n \in Managers,
               UNCHANGED store /\ cache' = [cache EXCEPT ![n] = store]
        PROVE  copy \in Copies(k) \cup {store'[k]}
    BY <1>a, <2>1, <2>3 DEF TypeOK
  <2>4. ASSUME NEW n \in Managers, Vanish(n)
        PROVE  copy \in Copies(k) \cup {Absent}
    BY <1>a, <2>1, <2>4 DEF Vanish, TypeOK
  <2>5. ASSUME NEW n \in Managers, NEW j \in Maps, Deliver(n, j)
        PROVE  copy \in Copies(k)
    <3>1. CASE m = n /\ j = k
      <4>1. watch[m][k] \in Seq(Objects) /\ watch[m][k] # <<>>
        BY <2>5, <3>1 DEF Deliver, TypeOK
      <4>2. copy = watch[m][k][1] /\ 1 \in 1..Len(watch[m][k])
        BY <2>1, <2>5, <3>1, <4>1 DEF Deliver, TypeOK
      <4>3. QED
        BY <1>a, <4>2
    <3>2. CASE ~(m = n /\ j = k)
      BY <1>a, <2>1, <2>5, <3>2 DEF Deliver, TypeOK
    <3>3. QED
      BY <3>1, <3>2
  <2>6. \/ UNCHANGED cache
        \/ \E n \in Managers : UNCHANGED store /\ cache' = [cache EXCEPT ![n] = store]
        \/ \E n \in Managers : Vanish(n)
        \/ \E n \in Managers, j \in Maps : Deliver(n, j)
    <3>1. ASSUME Environment PROVE UNCHANGED cache
      BY <3>1 DEF Environment, Create, EditSpec, Delete, LateUpdate, ClusterChanges
    <3>2. ASSUME NEW n \in Managers, Lifecycle(n), ~Vanish(n), ~UNCHANGED cache
          PROVE  UNCHANGED store /\ cache' = [cache EXCEPT ![n] = store]
      BY <3>2 DEF Lifecycle, Start, Stop, Exit, Crash
    <3>3. ASSUME NEW n \in Managers, Informer(n), ~UNCHANGED cache
          PROVE  \/ UNCHANGED store /\ cache' = [cache EXCEPT ![n] = store]
                 \/ \E j \in Maps : Deliver(n, j)
      BY <3>3 DEF Informer, Relist, TimerFires, Dequeue
    <3>4. ASSUME NEW n \in Managers, PassStep(n) PROVE UNCHANGED cache
      BY <3>4 DEF PassStep, GetNotFound, GetDisabled, StartDiscovery, Discovered, Answer,
         DiscoveryCanceled, MarshalFails, SendUpdate, SendFails, UpdateCommitted,
         UpdateUnchanged, UpdateRejected
    <3>5. ASSUME NEW n \in Managers, PassFails(n) PROVE UNCHANGED cache
      BY <3>5 DEF PassFails, GetFails, DiscoveryFails, Answer, UpdateInterrupted
    <3>6. QED
      BY <3>1, <3>2, <3>3, <3>4, <3>5 DEF Next
  <2>7. QED
    BY <2>2, <2>3, <2>4, <2>5, <2>6
<1>3. ASSUME NEW m \in Managers, NEW i \in 1..Len(watch'[m][k]), copy = watch'[m][k][i]
      PROVE  copy \in Copies(k) \cup {store'[k]}
  <2>a. watch[m][k] \in Seq(Objects)
    BY DEF TypeOK
  <2>1. CASE UNCHANGED watch[m][k]
    BY <1>3, <1>a, <2>1
  <2>2. CASE watch'[m][k] = <<>>
    BY <1>3, <2>2
  <2>3. CASE watch[m][k] # <<>> /\ watch'[m][k] = Tail(watch[m][k])
    <3>1. i + 1 \in 1..Len(watch[m][k]) /\ copy = watch[m][k][i + 1]
      BY <1>3, <2>a, <2>3
    <3>2. QED
      BY <1>a, <3>1
  <2>4. CASE watch'[m][k] = Append(watch[m][k], store'[k])
    <3>1. \/ i \in 1..Len(watch[m][k]) /\ copy = watch[m][k][i]
          \/ copy = store'[k]
      <4>1. store'[k] \in Objects
        BY <2>4, TypeStep DEF TypeOK
      <4>2. QED
        BY <1>3, <2>a, <2>4, <4>1
    <3>2. QED
      BY <1>a, <3>1
  <2> DEFINE WatchChange ==
          \/ UNCHANGED watch[m][k]
          \/ watch'[m][k] = <<>>
          \/ watch[m][k] # <<>> /\ watch'[m][k] = Tail(watch[m][k])
          \/ watch'[m][k] = Append(watch[m][k], store'[k])
  <2>5. WatchChange
    <3>1. ASSUME NEW j \in Maps, NEW obj, Write(j, obj)
          PROVE  WatchChange
      BY <3>1 DEF Write, TypeOK
    <3>2. CASE Environment
      BY <3>1, <3>2 DEF Environment, Create, EditSpec, Delete, LateUpdate, ClusterChanges
    <3>3. ASSUME NEW n \in Managers, Lifecycle(n)
          PROVE  WatchChange
      <4>1. CASE Vanish(n)
        BY <4>1 DEF Vanish, TypeOK
      <4>2. CASE ~Vanish(n)
        BY <3>3, <4>2 DEF Lifecycle, Start, Stop, Exit, Crash
      <4>3. QED
        BY <4>1, <4>2
    <3>4. ASSUME NEW n \in Managers, Informer(n)
          PROVE  WatchChange
      <4>1. CASE Relist(n)
        BY <4>1 DEF Relist, TypeOK
      <4>2. ASSUME NEW j \in Maps, Deliver(n, j)
            PROVE  WatchChange
        BY <4>2 DEF Deliver, TypeOK
      <4>3. ASSUME NEW j \in Maps, TimerFires(n, j) \/ Dequeue(n, j)
            PROVE  WatchChange
        BY <4>3 DEF TimerFires, Dequeue
      <4>4. QED
        BY <3>4, <4>1, <4>2, <4>3 DEF Informer
    <3>5. ASSUME NEW n \in Managers, PassStep(n)
          PROVE  WatchChange
      BY <3>1, <3>5, PassTypes DEF PassStep, GetNotFound, GetDisabled, StartDiscovery, Discovered,
         Answer, DiscoveryCanceled, MarshalFails, SendUpdate, SendFails, UpdateCommitted,
         UpdateUnchanged, UpdateRejected
    <3>6. ASSUME NEW n \in Managers, PassFails(n)
          PROVE  WatchChange
      BY <3>6 DEF PassFails, GetFails, DiscoveryFails, Answer, UpdateInterrupted
    <3>7. QED
      BY <3>2, <3>3, <3>4, <3>5, <3>6 DEF Next
  <2>6. QED
    BY <2>1, <2>2, <2>3, <2>4, <2>5
<1>4. QED
  BY <1>1, <1>2, <1>3 DEF Copies

-----------------------------------------------------------------------------
(* The result of one pass over an object: same object but for the status,  *)
(* the parts of the results, and conditions that are neither cancelled nor *)
(* of another generation when the results are not.                         *)
LEMMA SentUpdate ==
    ASSUME TypeOK, NEW m \in Managers, SendUpdate(m)
    PROVE  LET sent == pass'[m].pm
               read == pass[m].pm
           IN  /\ read \in Copies(pass[m].key)
               /\ sent = [read EXCEPT !.status = ReconciledStatus(read, pass[m].results)]
               /\ UNCHANGED <<store, cluster, phase>>
               /\ phase[m] = "running"
               /\ pass[m].pc = "discover"
<1>1. pass[m].pc = "discover"
  BY DEF SendUpdate, AllAnswered
<1>2. pass'[m].pm = [pass[m].pm EXCEPT !.status = ReconciledStatus(pass[m].pm, pass[m].results)]
  BY PassTypes DEF SendUpdate, TypeOK, Passes
<1>3. pass[m].pm \in Copies(pass[m].key)
  BY <1>1, PassTypes, CopiesAre
<1>4. QED
  BY <1>1, <1>2, <1>3 DEF SendUpdate, apiVars

(* The update a pass sends is the object it read with another status,      *)
(* which is for the incarnation and generation that were read.             *)
LEMMA SentStatus ==
    ASSUME NEW read \in Objects, NEW results \in [Sources -> Results]
    PROVE  LET sent == [read EXCEPT !.status = ReconciledStatus(read, results)]
           IN  /\ sent.uid = read.uid /\ sent.rv = read.rv
               /\ sent.gen = read.gen /\ sent.auto = read.auto
               /\ sent.status.uid = read.uid /\ sent.status.gen = read.gen
               /\ \A s \in Sources :
                     /\ sent.status.part[s] = results[s].ver
                     /\ \/ sent.status.cond[s] = read.status.cond[s]
                        \/ sent.status.cond[s].health \in {"ok", results[s].health}
               /\ \A status \in Statuses :
                     [sent EXCEPT !.status = status] = [read EXCEPT !.status = status]
BY ReconciledStatusType DEF ReconciledStatus, DiscoveryCondition, Objects

(* The optimistic lock: a copy or an update with the stored version is of  *)
(* the stored object, before a step and after it.                          *)
LEMMA VersionStep ==
    ASSUME TypeOK, TypeOK', IInv, Next
    PROVE  VersionIdentifiesObject'
<1>d. \A m \in Managers : phase[m] = "down" => pass[m] = Idle
  BY DEF IInv, CanceledStaysPrivate
<1> SUFFICES ASSUME NEW k \in Maps, Exists(store'[k])
             PROVE  /\ \A obj \in Copies(k)' : obj.rv = store'[k].rv => obj = store'[k]
                    /\ \A obj \in Updates(k)' : obj.rv = store'[k].rv =>
                          [obj EXCEPT !.status = store'[k].status] = store'[k]
  BY DEF VersionIdentifiesObject, Exists
<1>1. CASE store'[k] = store[k]
  <2>1. store[k].rv # 0 /\ Absent.rv = 0
    BY <1>1 DEF IInv, StoredIsVersioned, Absent, Exists
  <2>2. ASSUME NEW obj \in Copies(k)', obj.rv = store[k].rv
        PROVE  obj = store[k]
    BY <1>1, <1>d, <2>1, <2>2, CopiesStep DEF IInv, VersionIdentifiesObject, Exists
  <2>3. ASSUME NEW obj \in Updates(k)', obj.rv = store[k].rv
        PROVE  [obj EXCEPT !.status = store[k].status] = store[k]
    <3>1. CASE obj \in Updates(k)
      BY <1>1, <2>3, <3>1 DEF IInv, VersionIdentifiesObject, Exists
    <3>2. ASSUME NEW m \in Managers, SendUpdate(m), pass[m].key = k, obj = pass'[m].pm
          PROVE  [obj EXCEPT !.status = store[k].status] = store[k]
      <4>1. /\ obj = [pass[m].pm EXCEPT !.status =
                         ReconciledStatus(pass[m].pm, pass[m].results)]
            /\ pass[m].pm \in Copies(k)
        BY <3>2, SentUpdate
      <4>2. store[k] \in Objects /\ store[k].status \in Statuses
        BY HoldersType DEF Objects
      <4>3. /\ obj.rv = pass[m].pm.rv
            /\ [obj EXCEPT !.status = store[k].status]
                  = [pass[m].pm EXCEPT !.status = store[k].status]
        BY <4>1, <4>2, PassTypes, SentStatus
      <4>4. pass[m].pm = store[k]
        BY <1>1, <2>3, <4>1, <4>3 DEF IInv, VersionIdentifiesObject, Exists
      <4>5. QED
        BY <4>2, <4>3, <4>4 DEF Objects
    <3>3. QED
      BY <1>d, <3>1, <3>2, UpdatesStep
  <2>4. QED
    BY <1>1, <2>2, <2>3
<1>2. CASE store'[k] # store[k]
  <2>1. store'[k].rv \in ResourceVersions \ Held(k)
    BY <1>2, StoreStep, ConstantTypes
  <2>2. store'[k].rv # Absent.rv
    BY <2>1 DEF Absent
  <2>3. ASSUME NEW obj \in Copies(k)', obj.rv = store'[k].rv
        PROVE  obj = store'[k]
    BY <1>d, <2>1, <2>2, <2>3, CopiesStep, HoldersHold
  <2>4. ASSUME NEW obj \in Updates(k)'
        PROVE  obj.rv # store'[k].rv
    <3>1. CASE obj \in Updates(k)
      BY <2>1, <3>1, HoldersHold
    <3>2. ASSUME NEW m \in Managers, SendUpdate(m)
          PROVE  FALSE
      BY <1>2, <3>2 DEF SendUpdate, apiVars
    <3>3. QED
      BY <1>d, <3>1, <3>2, UpdatesStep
  <2>5. QED
    BY <2>3, <2>4
<1>3. QED
  BY <1>1, <1>2

(* What is stored keeps having a version.                                  *)
LEMMA StoredStep ==
    ASSUME TypeOK, IInv, Next
    PROVE  StoredIsVersioned'
<1> SUFFICES ASSUME NEW k \in Maps
             PROVE  IF Exists(store'[k]) THEN store'[k].rv # 0 ELSE store'[k] = Absent
  BY DEF StoredIsVersioned, Exists
<1>1. CASE store'[k] = store[k]
  BY <1>1 DEF IInv, StoredIsVersioned, Exists
<1>2. CASE store'[k] # store[k]
  BY <1>2, StoreStep, ConstantTypes
<1>3. QED
  BY <1>1, <1>2

(* Updates keep being for one enabled spec.                                *)
LEMMA OneSpecStep ==
    ASSUME TypeOK, IInv, Next
    PROVE  UpdatesAreForOneSpec'
<1>d. \A m \in Managers : phase[m] = "down" => pass[m] = Idle
  BY DEF IInv, CanceledStaysPrivate
<1>1. ASSUME NEW m \in Managers, pass'[m].pc = "discover"
      PROVE  Exists(pass'[m].pm) /\ pass'[m].pm.auto
  <2>1. CASE UNCHANGED pass[m]
    BY <1>1, <2>1 DEF IInv, UpdatesAreForOneSpec
  <2>2. CASE StartDiscovery(m)
    BY <2>2, PassTypes DEF StartDiscovery, TypeOK, Passes
  <2>3. ASSUME NEW s \in Sources, NEW res \in Results, Answer(m, s, res)
        PROVE  Exists(pass'[m].pm) /\ pass'[m].pm.auto
    BY <2>3, PassTypes DEF Answer, TypeOK, Passes, IInv, UpdatesAreForOneSpec
  <2>4. CASE SendUpdate(m)
    BY <1>1, <2>4, PassTypes DEF SendUpdate, TypeOK, Passes
  <2>5. QED
    BY <1>1, <1>d, <2>1, <2>2, <2>3, <2>4, PassStepIs DEF PassChange
<1>2. ASSUME NEW k \in Maps, NEW obj \in Updates(k)'
      PROVE  Exists(obj) /\ obj.auto /\ obj.status.uid = obj.uid /\ obj.status.gen = obj.gen
  <2>1. CASE obj \in Updates(k)
    BY <2>1 DEF IInv, UpdatesAreForOneSpec
  <2>2. ASSUME NEW m \in Managers, SendUpdate(m), pass[m].key = k, obj = pass'[m].pm
        PROVE  Exists(obj) /\ obj.auto /\ obj.status.uid = obj.uid /\ obj.status.gen = obj.gen
    <3>1. /\ obj = [pass[m].pm EXCEPT !.status =
                       ReconciledStatus(pass[m].pm, pass[m].results)]
          /\ pass[m].pc = "discover"
      BY <2>2, SentUpdate
    <3>2. Exists(pass[m].pm) /\ pass[m].pm.auto
      BY <3>1 DEF IInv, UpdatesAreForOneSpec
    <3>3. /\ obj.uid = pass[m].pm.uid /\ obj.auto = pass[m].pm.auto
          /\ obj.status.uid = pass[m].pm.uid
          /\ obj.status.gen = pass[m].pm.gen /\ obj.gen = pass[m].pm.gen
      <4>1. pass[m].pm \in Objects
        BY PassTypes
      <4>2. /\ obj.uid = pass[m].pm.uid /\ obj.auto = pass[m].pm.auto
            /\ obj.gen = pass[m].pm.gen
            /\ obj.status = ReconciledStatus(pass[m].pm, pass[m].results)
        BY <3>1, <4>1 DEF Objects
      <4>3. QED
        BY <4>2 DEF ReconciledStatus
    <3>4. QED
      BY <3>2, <3>3 DEF Exists
  <2>3. QED
    BY <1>d, <2>1, <2>2, UpdatesStep
<1>3. QED
  BY <1>1, <1>2 DEF UpdatesAreForOneSpec, Exists

(* A new update shows what its pass discovered.                            *)
LEMMA SentParts ==
    ASSUME TypeOK, NEW m \in Managers, SendUpdate(m)
    PROVE  /\ pass'[m].pm.rv = pass[m].pm.rv
           /\ \A s \in Sources :
                 /\ pass'[m].pm.status.part[s] = pass[m].results[s].ver
                 /\ \/ pass'[m].pm.status.cond[s] = pass[m].pm.status.cond[s]
                    \/ pass'[m].pm.status.cond[s].health \in {"ok", pass[m].results[s].health}
<1> DEFINE read == pass[m].pm
           sent == [read EXCEPT !.status = ReconciledStatus(read, pass[m].results)]
<1>1. pass'[m].pm = sent
  BY SentUpdate
<1>2. read \in Objects /\ pass[m].results \in [Sources -> Results]
  BY PassTypes
<1>3. /\ sent.rv = read.rv
      /\ \A s \in Sources :
            /\ sent.status.part[s] = pass[m].results[s].ver
            /\ \/ sent.status.cond[s] = read.status.cond[s]
               \/ sent.status.cond[s].health \in {"ok", pass[m].results[s].health}
  BY <1>2, SentStatus
<1> HIDE DEF sent
<1>4. QED
  BY <1>1, <1>3

(* A pass that starts has no results yet.                                  *)
LEMMA StartedPass ==
    ASSUME TypeOK, NEW m \in Managers, StartDiscovery(m)
    PROVE  \A s \in Sources : /\ pass'[m].results[s].ver = 0
                              /\ pass'[m].results[s].health \in {"pending", "none"}
<1>1. pass'[m].results = [s \in Sources |->
                             [health |-> IF s \in engines[m] THEN "pending" ELSE "none",
                              ver    |-> 0]]
  BY PassTypes DEF StartDiscovery, TypeOK, Passes
<1>2. QED
  BY <1>1

(* The parts and the conditions of a stored object after a step are those  *)
(* of an object stored before, of an accepted update, or blank.            *)
LEMMA StatusStep ==
    ASSUME TypeOK, Next, NEW k \in Maps
    PROVE  \/ store'[k].status = Blank
           \/ \E obj \in Updates(k) \cup {store[k]} : store'[k].status = obj.status
<1>1. Absent.status = Blank
  BY DEF Absent
<1>2. QED
  BY <1>1, StoreStep

(* No status ever shows data that its source did not have yet.             *)
LEMMA NoFutureStep ==
    ASSUME TypeOK, TypeOK', IInv, Next
    PROVE  NoFutureData'
<1>d. \A m \in Managers : phase[m] = "down" => pass[m] = Idle
  BY DEF IInv, CanceledStaysPrivate
<1>c. /\ cluster \in [Sources -> Nat] /\ cluster' \in [Sources -> Nat]
      /\ \A s \in Sources : cluster'[s] >= cluster[s] /\ 0 <= cluster'[s]
  BY ClusterStep DEF TypeOK
<1>b. \A s \in Sources : Blank.part[s] = 0
  BY DEF Blank
<1>1. ASSUME NEW k \in Maps, NEW obj \in Copies(k) \cup Updates(k) \cup {store[k]},
             NEW s \in Sources
      PROVE  obj.status.part[s] <= cluster'[s]
  <2>1. obj.status.part[s] <= cluster[s]
    BY DEF IInv, NoFutureData
  <2>2. obj.status.part[s] \in Nat
    BY HoldersType DEF Objects, Statuses
  <2>3. QED
    BY <1>c, <2>1, <2>2
<1>2. ASSUME NEW k \in Maps, NEW s \in Sources
      PROVE  store'[k].status.part[s] <= cluster'[s]
  BY <1>1, <1>b, <1>c, StatusStep
<1>3. ASSUME NEW m \in Managers, NEW s \in Sources
      PROVE  pass'[m].results[s].ver <= cluster'[s]
  <2>0. pass[m].results[s].ver <= cluster'[s]
    <3>1. pass[m].results[s].ver <= cluster[s]
      BY DEF IInv, NoFutureData
    <3>2. pass[m].results[s].ver \in Nat
      BY PassTypes DEF Results
    <3>3. QED
      BY <1>c, <3>1, <3>2
  <2>1. CASE UNCHANGED pass[m]
    BY <2>0, <2>1
  <2>2. CASE pass'[m].results = NoResults
    BY <1>c, <2>2 DEF NoResults
  <2>3. CASE StartDiscovery(m)
    BY <1>c, <2>3, StartedPass
  <2>4. ASSUME UNCHANGED cluster, NEW r \in Sources, NEW res \in Results, Answer(m, r, res),
               res.ver \in {0, cluster[r]}
        PROVE  pass'[m].results[s].ver <= cluster'[s]
    <3>1. pass'[m].results = [pass[m].results EXCEPT ![r] = res]
      BY <2>4, PassTypes DEF Answer, TypeOK, Passes
    <3>2. QED
      BY <1>c, <2>0, <2>4, <3>1, PassTypes
  <2>5. CASE SendUpdate(m)
    <3>1. pass'[m].results = NoResults
      BY <2>5, PassTypes DEF SendUpdate, TypeOK, Passes
    <3>2. QED
      BY <2>2, <3>1
  <2>6. QED
    BY <1>d, <2>1, <2>2, <2>3, <2>4, <2>5, PassStepIs DEF PassChange
<1>4. ASSUME NEW k \in Maps, NEW obj \in Copies(k)', NEW s \in Sources
      PROVE  obj.status.part[s] <= cluster'[s]
  <2>1. Absent.status.part[s] = 0
    BY <1>b DEF Absent
  <2>2. QED
    BY <1>1, <1>2, <1>c, <1>d, <2>1, CopiesStep
<1>5. ASSUME NEW k \in Maps, NEW obj \in Updates(k)', NEW s \in Sources
      PROVE  obj.status.part[s] <= cluster'[s]
  <2>1. ASSUME NEW m \in Managers, SendUpdate(m), obj = pass'[m].pm
        PROVE  obj.status.part[s] <= cluster'[s]
    <3>1. obj.status.part[s] = pass[m].results[s].ver
      BY <2>1, SentParts
    <3>2. UNCHANGED cluster /\ pass[m].results[s].ver <= cluster[s]
      BY <2>1, SentUpdate DEF IInv, NoFutureData
    <3>3. QED
      BY <3>1, <3>2
  <2>2. QED
    BY <1>1, <1>d, <2>1, UpdatesStep
<1>6. QED
  BY <1>2, <1>3, <1>4, <1>5 DEF NoFutureData

(* A pass, and an update that can still be accepted, never show older data *)
(* than the object the pass read.                                          *)
LEMMA ForwardStep ==
    ASSUME TypeOK, TypeOK', IInv, Next
    PROVE  DiscoveryGoesForward'
<1>d. \A m \in Managers : phase[m] = "down" => pass[m] = Idle
  BY DEF IInv, CanceledStaysPrivate
<1>1. ASSUME NEW m \in Managers, NEW s \in Sources,
             pass'[m].pc = "discover", pass'[m].results[s].ver # 0
      PROVE  pass'[m].results[s].ver >= pass'[m].pm.status.part[s]
  <2>1. CASE UNCHANGED pass[m]
    BY <1>1, <2>1 DEF IInv, DiscoveryGoesForward
  <2>2. CASE StartDiscovery(m)
    BY <1>1, <2>2, StartedPass
  <2>3. ASSUME NEW r \in Sources, NEW res \in Results, Answer(m, r, res),
               res.ver \in {0, cluster[r]}
        PROVE  pass'[m].results[s].ver >= pass'[m].pm.status.part[s]
    <3>1. /\ pass'[m].results = [pass[m].results EXCEPT ![r] = res]
          /\ pass'[m].pm = pass[m].pm
          /\ pass[m].pc = "discover"
      BY <2>3, PassTypes DEF Answer, TypeOK, Passes
    <3>2. CASE s = r
      <4>1. pass'[m].results[s].ver = cluster[s]
        BY <1>1, <2>3, <3>1, <3>2, PassTypes
      <4>2. pass[m].pm \in Copies(pass[m].key)
        BY <3>1, PassTypes, CopiesAre
      <4>3. pass[m].pm.status.part[s] <= cluster[s]
        <5>1. \A k \in Maps : \A obj \in Copies(k) : obj.status.part[s] <= cluster[s]
          BY DEF IInv, NoFutureData
        <5>2. pass[m].key \in Maps
          BY PassTypes
        <5>3. QED
          BY <4>2, <5>1, <5>2
      <4>4. pass[m].pm.status.part[s] \in Nat /\ cluster[s] \in Nat
        <5>1. pass[m].pm.status \in Statuses
          BY PassTypes DEF Objects
        <5>2. pass[m].pm.status.part[s] \in 0..MaxVersion
          BY <5>1 DEF Statuses
        <5>3. cluster[s] \in 1..MaxVersion
          BY DEF TypeOK
        <5>4. QED
          BY <5>2, <5>3
      <4>5. QED
        BY <3>1, <4>1, <4>3, <4>4
    <3>3. CASE s # r
      BY <1>1, <3>1, <3>3, PassTypes DEF IInv, DiscoveryGoesForward
    <3>4. QED
      BY <3>2, <3>3
  <2>4. CASE SendUpdate(m)
    BY <1>1, <2>4, PassTypes DEF SendUpdate, TypeOK, Passes
  <2>5. QED
    BY <1>1, <1>d, <2>1, <2>2, <2>3, <2>4, PassStepIs DEF PassChange
<1>2. ASSUME NEW k \in Maps, NEW obj \in Updates(k)', Exists(store'[k]), obj.rv = store'[k].rv,
             NEW s \in Sources
      PROVE  obj.status.part[s] = 0 \/ obj.status.part[s] >= store'[k].status.part[s]
  <2>1. CASE store'[k] # store[k]
    <3>1. store'[k].rv \notin Held(k)
      BY <1>2, <2>1, StoreStep, ConstantTypes
    <3>2. obj \in Updates(k)
      <4>1. ASSUME NEW m \in Managers, SendUpdate(m)
            PROVE  FALSE
        BY <2>1, <4>1 DEF SendUpdate, apiVars
      <4>2. QED
        BY <1>d, <4>1, UpdatesStep
    <3>3. QED
      BY <1>2, <3>1, <3>2, HoldersHold
  <2>2. CASE store'[k] = store[k] /\ obj \in Updates(k)
    BY <1>2, <2>2 DEF IInv, DiscoveryGoesForward, Exists
  <2>3. ASSUME store'[k] = store[k], NEW m \in Managers, SendUpdate(m), pass[m].key = k,
               obj = pass'[m].pm
        PROVE  obj.status.part[s] = 0 \/ obj.status.part[s] >= store'[k].status.part[s]
    <3>1. /\ pass[m].pm \in Copies(k)
          /\ pass[m].pc = "discover"
      BY <2>3, SentUpdate
    <3>2. obj.rv = pass[m].pm.rv /\ obj.status.part[s] = pass[m].results[s].ver
      BY <2>3, SentParts
    <3>3. pass[m].pm = store[k]
      BY <1>2, <2>3, <3>1, <3>2 DEF IInv, VersionIdentifiesObject, Exists
    <3>4. QED
      BY <2>3, <3>1, <3>2, <3>3 DEF IInv, DiscoveryGoesForward
  <2>4. QED
    BY <1>d, <2>1, <2>2, <2>3, UpdatesStep
<1>3. QED
  BY <1>1, <1>2 DEF DiscoveryGoesForward, Exists

(* What a shutdown cancels stays with the manager that shuts down.         *)
LEMMA PrivateStep ==
    ASSUME TypeOK, TypeOK', IInv, Next
    PROVE  CanceledStaysPrivate'
<1>d. \A m \in Managers : phase[m] = "down" => pass[m] = Idle
  BY DEF IInv, CanceledStaysPrivate
<1>n. \A s \in Sources : NoResults[s].health # "canceled" /\ Idle.results[s] = NoResults[s]
  BY DEF NoResults, Idle
<1>b. \A s \in Sources : /\ Blank.cond[s].health # "canceled"
                         /\ Absent.status.cond[s].health # "canceled"
  BY DEF Blank, Unset, Absent
<1> DEFINE PhaseChange(m) ==
        \/ UNCHANGED phase[m]
        \/ phase[m] = "down" /\ phase'[m] = "running" /\ UNCHANGED pass[m]
        \/ phase'[m] = "stopping"
        \/ phase'[m] = "down" /\ pass'[m] = Idle
<1>p. ASSUME NEW m \in Managers
      PROVE  PhaseChange(m)
  <2> USE DEF apiVars, managerVars
  <2>1. ASSUME NEW n \in Managers, Lifecycle(n)
        PROVE  PhaseChange(m)
    <3>1. CASE Vanish(n)
      BY <3>1 DEF Vanish, TypeOK
    <3>2. ASSUME NEW enabled \in SUBSET Sources, Start(n, enabled)
          PROVE  PhaseChange(m)
      BY <3>2 DEF Start, TypeOK
    <3>3. CASE Stop(n)
      BY <3>3 DEF Stop, TypeOK
    <3>4. QED
      BY <2>1, <3>1, <3>2, <3>3 DEF Lifecycle, Exit, Crash
  <2>2. CASE Environment
    BY <2>2 DEF Environment, Create, EditSpec, Delete, LateUpdate, ClusterChanges
  <2>3. ASSUME NEW n \in Managers, Informer(n)
        PROVE  UNCHANGED phase
    BY <2>3 DEF Informer, Relist, Deliver, TimerFires, Dequeue
  <2>4. ASSUME NEW n \in Managers, PassStep(n)
        PROVE  UNCHANGED phase
    BY <2>4 DEF PassStep, GetNotFound, GetDisabled, StartDiscovery, Discovered, Answer,
       DiscoveryCanceled, MarshalFails, SendUpdate, SendFails, UpdateCommitted, UpdateUnchanged,
       UpdateRejected
  <2>5. ASSUME NEW n \in Managers, PassFails(n)
        PROVE  UNCHANGED phase
    BY <2>5 DEF PassFails, GetFails, DiscoveryFails, Answer, UpdateInterrupted
  <2>6. QED
    BY <2>1, <2>2, <2>3, <2>4, <2>5 DEF Next
<1>1. ASSUME NEW m \in Managers, phase'[m] = "down"
      PROVE  pass'[m] = Idle
  <2>1. CASE phase[m] = "down"
    <3>1. pass[m] = Idle /\ Idle.pc = "idle"
      BY <1>d, <2>1 DEF Idle
    <3>2. PassChange(m)
      BY <1>d, PassStepIs
    <3>3. QED
      BY <1>1, <2>1, <3>1, <3>2
         DEF PassChange, StartDiscovery, Answer, SendUpdate, AllAnswered
  <2>2. CASE phase[m] # "down"
    BY <1>1, <1>p, <2>2
  <2>3. QED
    BY <2>1, <2>2
<1>2. ASSUME NEW m \in Managers, NEW s \in Sources, pass'[m].results[s].health = "canceled"
      PROVE  phase'[m] = "stopping"
  <2>0. pass[m].results[s].health = "canceled" => phase[m] = "stopping" /\ pass[m] # Idle
    BY <1>n DEF IInv, CanceledStaysPrivate
  <2>1. CASE UNCHANGED pass[m]
    BY <1>2, <1>n, <1>p, <2>0, <2>1
  <2>2. CASE pass'[m].results = NoResults
    BY <1>2, <1>n, <2>2
  <2>3. CASE StartDiscovery(m)
    BY <1>2, <2>3, StartedPass
  <2>4. ASSUME UNCHANGED phase, NEW r \in Sources, NEW res \in Results, Answer(m, r, res),
               res.health = "canceled" => phase[m] = "stopping"
        PROVE  phase'[m] = "stopping"
    <3>1. pass'[m].results = [pass[m].results EXCEPT ![r] = res]
      BY <2>4, PassTypes DEF Answer, TypeOK, Passes
    <3>2. QED
      BY <1>2, <2>0, <2>4, <3>1, PassTypes
  <2>5. CASE SendUpdate(m)
    <3>1. pass'[m].results = NoResults
      BY <2>5, PassTypes DEF SendUpdate, TypeOK, Passes
    <3>2. QED
      BY <2>2, <3>1
  <2>6. QED
    BY <1>d, <2>1, <2>2, <2>3, <2>4, <2>5, PassStepIs DEF PassChange
<1>3. ASSUME NEW k \in Maps, NEW obj \in Copies(k) \cup Updates(k) \cup {store[k]},
             NEW s \in Sources
      PROVE  obj.status.cond[s].health # "canceled"
  BY DEF IInv, CanceledStaysPrivate
<1>4. ASSUME NEW k \in Maps, NEW s \in Sources
      PROVE  store'[k].status.cond[s].health # "canceled"
  BY <1>3, <1>b, StatusStep
<1>5. ASSUME NEW k \in Maps, NEW obj \in Copies(k)', NEW s \in Sources
      PROVE  obj.status.cond[s].health # "canceled"
  BY <1>3, <1>4, <1>b, <1>d, CopiesStep
<1>6. ASSUME NEW k \in Maps, NEW obj \in Updates(k)', NEW s \in Sources
      PROVE  obj.status.cond[s].health # "canceled"
  <2>1. ASSUME NEW m \in Managers, SendUpdate(m), pass[m].key = k, obj = pass'[m].pm
        PROVE  obj.status.cond[s].health # "canceled"
    <3>1. phase[m] = "running" /\ pass[m].pm \in Copies(k)
      BY <2>1, SentUpdate
    <3>2. pass[m].results[s].health # "canceled"
      BY <3>1 DEF IInv, CanceledStaysPrivate
    <3>3. pass[m].pm.status.cond[s].health # "canceled"
      BY <1>3, <3>1
    <3>4. QED
      BY <2>1, <3>2, <3>3, SentParts
  <2>2. QED
    BY <1>3, <1>d, <2>1, UpdatesStep
<1>7. QED
  BY <1>1, <1>2, <1>4, <1>5, <1>6 DEF CanceledStaysPrivate

(* The condition a pass sends for a source is derived from its result, or  *)
(* the one it had read when the source has no engine.                      *)
LEMMA SentConditions ==
    ASSUME TypeOK, NEW m \in Managers, SendUpdate(m), NEW s \in Sources
    PROVE  pass'[m].pm.status.cond[s] =
              IF pass[m].results[s].health = "none"
              THEN pass[m].pm.status.cond[s]
              ELSE DiscoveryCondition(pass[m].results[s], pass[m].pm.gen)
<1>1. pass'[m].pm = [pass[m].pm EXCEPT !.status = ReconciledStatus(pass[m].pm, pass[m].results)]
  BY SentUpdate
<1>2. pass'[m].pm.status = ReconciledStatus(pass[m].pm, pass[m].results)
  BY <1>1, PassTypes DEF Objects
<1>3. QED
  BY <1>2 DEF ReconciledStatus

(* A manager that runs has the core engines.                               *)
LEMMA CoreStep ==
    ASSUME TypeOK, Next, NEW m \in Managers, phase[m] # "down" => Core \subseteq engines[m],
           phase'[m] # "down"
    PROVE  Core \subseteq engines'[m]
<1> USE DEF apiVars, managerVars
<1>1. ASSUME NEW n \in Managers, Lifecycle(n)
      PROVE  Core \subseteq engines'[m]
  <2>1. CASE Vanish(n)
    BY <2>1 DEF Vanish, TypeOK
  <2>2. ASSUME NEW enabled \in SUBSET Sources, Start(n, enabled)
        PROVE  Core \subseteq engines'[m]
    BY <2>2 DEF Start, TypeOK
  <2>3. CASE Stop(n)
    BY <2>3 DEF Stop, TypeOK
  <2>4. QED
    BY <1>1, <2>1, <2>2, <2>3 DEF Lifecycle, Exit, Crash
<1>2. CASE UNCHANGED <<phase, engines>>
  BY <1>2
<1>3. ASSUME Environment PROVE UNCHANGED <<phase, engines>>
  BY <1>3 DEF Environment, Create, EditSpec, Delete, LateUpdate, ClusterChanges
<1>4. ASSUME NEW n \in Managers, Informer(n) PROVE UNCHANGED <<phase, engines>>
  BY <1>4 DEF Informer, Relist, Deliver, TimerFires, Dequeue
<1>5. ASSUME NEW n \in Managers, PassStep(n) PROVE UNCHANGED <<phase, engines>>
  BY <1>5 DEF PassStep, GetNotFound, GetDisabled, StartDiscovery, Discovered, Answer,
     DiscoveryCanceled, MarshalFails, SendUpdate, SendFails, UpdateCommitted, UpdateUnchanged,
     UpdateRejected
<1>6. ASSUME NEW n \in Managers, PassFails(n) PROVE UNCHANGED <<phase, engines>>
  BY <1>6 DEF PassFails, GetFails, DiscoveryFails, Answer, UpdateInterrupted
<1>7. QED
  BY <1>1, <1>2, <1>3, <1>4, <1>5, <1>6 DEF Next

(* A discovery stays one when the object it would be stored in changes:    *)
(* it is then refused.                                                     *)
LEMMA DiscoveryOfOld ==
    ASSUME NEW obj, NEW old, NEW new, IsDiscovery(obj, old), new = old \/ obj.rv # new.rv
    PROVE  IsDiscovery(obj, new)
BY DEF IsDiscovery

(* The update a pass sends is what its discovery makes of the object read. *)
LEMMA SentDiscovery ==
    ASSUME TypeOK, IInv, NEW m \in Managers, SendUpdate(m)
    PROVE  IsDiscovery(pass'[m].pm, store[pass[m].key])
<1> DEFINE results == pass[m].results
           sent    == pass'[m].pm
           enabled == {s \in Sources : results[s].health # "none"}
<1>1. /\ pass[m].pc = "discover"
      /\ phase[m] = "running"
      /\ pass[m].pm \in Copies(pass[m].key)
      /\ pass[m].key \in Maps
  BY SentUpdate, PassTypes
<1>2. /\ \A s \in Core : results[s].health # "none"
      /\ \A s \in Sources : results[s].health = "none" => results[s].ver = 0
  BY <1>1 DEF IInv, UpdatesAreDiscoveries
<1>3. sent.gen = pass[m].pm.gen /\ sent.rv = pass[m].pm.rv
  <2>1. sent = [pass[m].pm EXCEPT !.status = ReconciledStatus(pass[m].pm, results)]
    BY SentUpdate
  <2>2. QED
    BY <2>1, PassTypes DEF Objects
<1>4. ASSUME NEW s \in enabled
      PROVE  /\ sent.status.cond[s].health \in {"ok", "failed"}
             /\ sent.status.cond[s].gen = sent.gen
  <2>1. results[s].health # "canceled"
    BY <1>1 DEF IInv, CanceledStaysPrivate
  <2>2. sent.status.cond[s] = DiscoveryCondition(results[s], pass[m].pm.gen)
    BY SentConditions
  <2>3. QED
    BY <1>3, <2>1, <2>2 DEF DiscoveryCondition
<1>5. ASSUME NEW s \in Sources \ enabled
      PROVE  /\ sent.status.part[s] = 0
             /\ sent.status.cond[s] = pass[m].pm.status.cond[s]
  <2>1. results[s].health = "none"
    OBVIOUS
  <2>2. sent.status.part[s] = results[s].ver
    BY SentParts
  <2>3. sent.status.cond[s] = pass[m].pm.status.cond[s]
    BY <2>1, SentConditions
  <2>4. QED
    BY <1>2, <2>1, <2>2, <2>3
<1>6. Exists(store[pass[m].key]) /\ sent.rv = store[pass[m].key].rv
         => pass[m].pm = store[pass[m].key]
  BY <1>1, <1>3 DEF IInv, VersionIdentifiesObject
<1>7. Core \subseteq enabled /\ enabled \in SUBSET Sources
  BY <1>2
<1> HIDE DEF enabled, sent, results
<1>8. QED
  BY <1>4, <1>5, <1>6, <1>7 DEF IsDiscovery, sent

(* Updates keep being discoveries.                                         *)
LEMMA DiscoveriesStep ==
    ASSUME TypeOK, TypeOK', IInv, Next
    PROVE  UpdatesAreDiscoveries'
<1>d. \A m \in Managers : phase[m] = "down" => pass[m] = Idle
  BY DEF IInv, CanceledStaysPrivate
<1>1. ASSUME NEW m \in Managers, phase'[m] # "down"
      PROVE  Core \subseteq engines'[m]
  BY <1>1, CoreStep DEF IInv, UpdatesAreDiscoveries
<1>2. ASSUME NEW m \in Managers, pass'[m].pc = "discover"
      PROVE  /\ \A s \in Core : pass'[m].results[s].health # "none"
             /\ \A s \in Sources : pass'[m].results[s].health = "none" =>
                                     pass'[m].results[s].ver = 0
  <2>1. CASE UNCHANGED pass[m]
    BY <1>2, <2>1 DEF IInv, UpdatesAreDiscoveries
  <2>2. CASE StartDiscovery(m)
    <3>1. Core \subseteq engines[m]
      <4>1. Idle.pc # "get" /\ pass[m].pc = "get"
        BY <2>2 DEF Idle, StartDiscovery
      <4>2. QED
        BY <1>d, <4>1 DEF IInv, UpdatesAreDiscoveries
    <3>2. pass'[m].results = [s \in Sources |->
                                 [health |-> IF s \in engines[m] THEN "pending" ELSE "none",
                                  ver    |-> 0]]
      <4>1. pass[m] \in Passes /\ pass \in [Managers -> Passes]
        BY DEF TypeOK
      <4>2. QED
        BY <2>2, <4>1 DEF StartDiscovery, Passes
    <3>3. QED
      BY <3>1, <3>2
  <2>3. ASSUME NEW r \in Sources, NEW res \in Results, Answer(m, r, res), res.health # "none"
        PROVE  /\ \A s \in Core : pass'[m].results[s].health # "none"
               /\ \A s \in Sources : pass'[m].results[s].health = "none" =>
                                       pass'[m].results[s].ver = 0
    <3>1. /\ pass'[m].results = [pass[m].results EXCEPT ![r] = res]
          /\ pass[m].pc = "discover"
      BY <2>3, PassTypes DEF Answer, TypeOK, Passes
    <3>2. QED
      BY <2>3, <3>1, PassTypes DEF IInv, UpdatesAreDiscoveries
  <2>4. CASE SendUpdate(m)
    BY <1>2, <2>4, PassTypes DEF SendUpdate, TypeOK, Passes
  <2>5. QED
    BY <1>2, <1>d, <2>1, <2>2, <2>3, <2>4, PassStepIs DEF PassChange
<1>3. ASSUME NEW k \in Maps, NEW obj \in Updates(k)'
      PROVE  IsDiscovery(obj, store'[k])
  <2>1. CASE obj \in Updates(k)
    <3>1. IsDiscovery(obj, store[k])
      BY <2>1 DEF IInv, UpdatesAreDiscoveries
    <3>2. CASE store'[k] = store[k]
      BY <3>1, <3>2
    <3>3. CASE store'[k] = Absent
      BY <3>1, <3>3, ConstantTypes DEF IsDiscovery
    <3>4. CASE store'[k] # store[k] /\ store'[k] # Absent
      <4>1. store'[k].rv \notin Held(k) /\ obj.rv \in Held(k)
        BY <2>1, <3>4, StoreStep, HoldersHold
      <4>2. QED
        BY <3>1, <4>1, DiscoveryOfOld
    <3>5. QED
      BY <3>2, <3>3, <3>4
  <2>2. ASSUME NEW m \in Managers, SendUpdate(m), pass[m].key = k, obj = pass'[m].pm
        PROVE  IsDiscovery(obj, store'[k])
    <3>1. store' = store
      BY <2>2, SentUpdate
    <3>2. QED
      BY <2>2, <3>1, SentDiscovery
  <2>3. QED
    BY <1>d, <2>1, <2>2, UpdatesStep
<1>4. QED
  BY <1>1, <1>2, <1>3 DEF UpdatesAreDiscoveries

-----------------------------------------------------------------------------
(* The inductive invariant.                                                *)
THEOREM InvariantHolds == Spec => []IInv
<1>1. Init => IInv
  <2> SUFFICES ASSUME Init PROVE IInv
    OBVIOUS
  <2>1. \A m \in Managers : /\ pass[m] = Idle /\ phase[m] = "down"
                            /\ \A k \in Maps : cache[m][k] = Absent /\ watch[m][k] = <<>>
    BY DEF Init
  <2>2. \A k \in Maps : store[k] = Absent /\ late[k] = {}
    BY DEF Init
  <2>3. ASSUME NEW k \in Maps
        PROVE  /\ Updates(k) = {}
               /\ \A obj \in Copies(k) : obj = Absent
    <3>1. \A m \in Managers : pass[m].pc = "idle"
      <4>1. Idle.pc = "idle"
        BY DEF Idle
      <4>2. QED
        BY <2>1, <4>1
    <3>2. \A obj : obj \notin Updates(k)
      BY <2>2, <3>1, UpdatesAre
    <3>3. \A m \in Managers : 1..Len(watch[m][k]) = {}
      BY <2>1
    <3>4. \A obj \in Copies(k) : obj = Absent
      BY <2>1, <3>1, <3>3, CopiesAre
    <3>5. QED
      BY <3>2, <3>4
  <2>4. \A s \in Sources : /\ Absent.status.part[s] = 0
                           /\ Absent.status.cond[s].health = "unset"
                           /\ Idle.results[s].ver = 0
                           /\ Idle.results[s].health = "none"
                           /\ cluster[s] = 1
    BY DEF Absent, Blank, Unset, Idle, NoResults, Init
  <2>5. Idle.pc = "idle" /\ ~Exists(Absent)
    BY ConstantTypes DEF Idle
  <2>6. VersionIdentifiesObject /\ StoredIsVersioned
    BY <2>2, <2>5 DEF VersionIdentifiesObject, StoredIsVersioned
  <2>7. UpdatesAreForOneSpec /\ DiscoveryGoesForward
    BY <2>1, <2>2, <2>3, <2>5 DEF UpdatesAreForOneSpec, DiscoveryGoesForward
  <2>8. NoFutureData
    BY <2>1, <2>2, <2>3, <2>4 DEF NoFutureData
  <2>9. CanceledStaysPrivate
    BY <2>1, <2>2, <2>3, <2>4 DEF CanceledStaysPrivate
  <2>10. UpdatesAreDiscoveries
    BY <2>1, <2>3, <2>5 DEF UpdatesAreDiscoveries
  <2>11. QED
    BY <2>6, <2>7, <2>8, <2>9, <2>10 DEF IInv
<1>2. TypeOK /\ TypeOK' /\ IInv /\ [Next]_vars => IInv'
  <2> SUFFICES ASSUME TypeOK, TypeOK', IInv, [Next]_vars PROVE IInv'
    OBVIOUS
  <2>1. CASE Next
    BY <2>1, VersionStep, StoredStep, OneSpecStep, NoFutureStep, ForwardStep, PrivateStep,
       DiscoveriesStep DEF IInv
  <2>2. CASE UNCHANGED vars
    <3>1. \A k \in Maps : Copies(k)' = Copies(k) /\ Updates(k)' = Updates(k)
      BY <2>2 DEF vars, Copies, Updates
    <3>2. VersionIdentifiesObject' /\ StoredIsVersioned'
      BY <2>2, <3>1 DEF vars, IInv, VersionIdentifiesObject, StoredIsVersioned
    <3>3. UpdatesAreForOneSpec' /\ CanceledStaysPrivate'
      BY <2>2, <3>1 DEF vars, IInv, UpdatesAreForOneSpec, CanceledStaysPrivate
    <3>4. NoFutureData' /\ DiscoveryGoesForward'
      BY <2>2, <3>1 DEF vars, IInv, NoFutureData, DiscoveryGoesForward
    <3>5. UpdatesAreDiscoveries'
      <4>1. UNCHANGED <<store, phase, engines, pass>> /\ UpdatesAreDiscoveries
        BY <2>2 DEF vars, IInv
      <4>2. \A k \in Maps : \A obj \in Updates(k)' : IsDiscovery(obj, store'[k])
        BY <3>1, <4>1 DEF UpdatesAreDiscoveries
      <4>3. QED
        BY <4>1, <4>2 DEF UpdatesAreDiscoveries
    <3>6. QED
      BY <3>2, <3>3, <3>4, <3>5 DEF IInv
  <2>3. QED
    BY <2>1, <2>2
<1>3. QED
  BY <1>1, <1>2, TypeCorrect, PTL DEF Spec

(* The optimistic lock is enough: whatever lags, waits or races, a copy    *)
(* with the stored resourceVersion is the stored object.                   *)
THEOREM OptimisticLock == Spec => []VersionIdentifiesObject
<1>1. IInv => VersionIdentifiesObject
  BY DEF IInv
<1>2. QED
  BY <1>1, InvariantHolds, PTL

(* No reader ever sees a source reported as failed because a manager was   *)
(* shutting down.                                                          *)
THEOREM ShutdownIsSilent == Spec => []ShutdownNotPublished
<1>1. IInv => ShutdownNotPublished
  BY DEF IInv, CanceledStaysPrivate, ShutdownNotPublished
<1>2. QED
  BY <1>1, InvariantHolds, PTL

(* A change of status is an update that was accepted, for the spec stored. *)
LEMMA PublishStep ==
    ASSUME TypeOK, IInv, Next, NEW k \in Maps,
           store'[k].uid = store[k].uid, store'[k].status # store[k].status
    PROVE  /\ Exists(store[k])
           /\ store[k].auto
           /\ store'[k].gen = store[k].gen
           /\ store'[k].status.uid = store[k].uid
           /\ store'[k].status.gen = store[k].gen
           /\ \E obj \in Updates(k) : Accepts(k, obj) /\ store'[k].status = obj.status
<1>1. store'[k] # store[k] /\ ~Exists(Absent)
  BY ConstantTypes
<1>2. PICK obj \in Updates(k) :
         /\ Accepts(k, obj)
         /\ store'[k].gen = store[k].gen
         /\ store'[k].status = obj.status
  <2>1. CASE ~Exists(store[k])
    <3>1. store[k] = Absent
      BY <2>1 DEF IInv, StoredIsVersioned
    <3>2. ~Exists(store'[k])
      BY <3>1, <1>1 DEF Exists
    <3>3. QED
      BY <1>1, <3>1, <3>2, StoreStep
  <2>2. CASE Exists(store[k])
    <3>1. store'[k] # Absent
      BY <1>1, <2>2 DEF Exists
    <3>2. QED
      BY <1>1, <2>2, <3>1, StoreStep
  <2>3. QED
    BY <2>1, <2>2
<1>3. Exists(store[k]) /\ obj.rv = store[k].rv
  BY <1>2 DEF Accepts
<1>4. store[k] \in Objects /\ obj \in Objects /\ store[k].status \in Statuses
  BY HoldersType DEF Objects
<1>5. [obj EXCEPT !.status = store[k].status] = store[k]
  BY <1>3 DEF IInv, VersionIdentifiesObject
<1>6. obj.uid = store[k].uid /\ obj.gen = store[k].gen /\ obj.auto = store[k].auto
  <2>1. /\ [obj EXCEPT !.status = store[k].status].uid = obj.uid
        /\ [obj EXCEPT !.status = store[k].status].gen = obj.gen
        /\ [obj EXCEPT !.status = store[k].status].auto = obj.auto
    BY <1>4 DEF Objects
  <2>2. QED
    BY <1>5, <2>1
<1>7. obj.auto /\ obj.status.uid = obj.uid /\ obj.status.gen = obj.gen
  BY DEF IInv, UpdatesAreForOneSpec
<1>8. QED
  BY <1>2, <1>3, <1>6, <1>7

(* A status is only ever written for the incarnation and the generation    *)
(* that the discovery behind it had read.                                  *)
THEOREM PublicationIsCurrent == Spec => PublishOnlyForCurrentSpec
<1> DEFINE Current == \A k \in Maps :
              /\ store'[k].uid = store[k].uid
              /\ store'[k].status # store[k].status
              => /\ Exists(store[k])
                 /\ store[k].auto
                 /\ store'[k].gen = store[k].gen
                 /\ store'[k].status.uid = store[k].uid
                 /\ store'[k].status.gen = store[k].gen
<1>1. TypeOK /\ IInv /\ [Next]_vars => [Current]_vars
  BY PublishStep
<1>2. QED
  BY <1>1, TypeCorrect, InvariantHolds, PTL DEF Spec, PublishOnlyForCurrentSpec

(* What a source contributes to a topology is never replaced by older      *)
(* data.                                                                   *)
THEOREM TopologyGoesForward == Spec => TopologyNeverRegresses
<1> DEFINE Forward == \A k \in Maps, s \in Sources :
              /\ store'[k].uid = store[k].uid
              /\ store[k].status.part[s] # 0
              /\ store'[k].status.part[s] # 0
              => store'[k].status.part[s] >= store[k].status.part[s]
<1>1. ASSUME TypeOK, IInv, Next, NEW k \in Maps, NEW s \in Sources,
             store'[k].uid = store[k].uid, store'[k].status.part[s] # 0
      PROVE  store'[k].status.part[s] >= store[k].status.part[s]
  <2>1. CASE store'[k].status = store[k].status
    <3>1. store[k].status.part[s] \in 0..MaxVersion
      <4>1. store[k].status \in Statuses
        BY <1>1, HoldersType DEF Objects
      <4>2. QED
        BY <4>1 DEF Statuses
    <3>2. QED
      BY <2>1, <3>1
  <2>2. CASE store'[k].status # store[k].status
    <3>1. PICK obj \in Updates(k) : Accepts(k, obj) /\ store'[k].status = obj.status
      BY <1>1, <2>2, PublishStep
    <3>2. \/ obj.status.part[s] = 0
          \/ obj.status.part[s] >= store[k].status.part[s]
      <4>1. Exists(store[k]) /\ obj.rv = store[k].rv
        BY <3>1 DEF Accepts
      <4>2. \A pm \in Updates(k) : Exists(store[k]) /\ pm.rv = store[k].rv =>
               pm.status.part[s] = 0 \/ pm.status.part[s] >= store[k].status.part[s]
        BY <1>1 DEF IInv, DiscoveryGoesForward
      <4>3. QED
        BY <4>1, <4>2
    <3>3. QED
      BY <1>1, <3>1, <3>2
  <2>3. QED
    BY <2>1, <2>2
<1>2. TypeOK /\ IInv /\ [Next]_vars => [Forward]_vars
  BY <1>1
<1>3. QED
  BY <1>2, TypeCorrect, InvariantHolds, PTL DEF Spec, TopologyNeverRegresses

-----------------------------------------------------------------------------
(* NoLostWakeup for one manager and one map.                               *)
Tracked(m, k) ==
    phase[m] = "running" /\ Exists(cache[m][k]) /\ cache[m][k].auto =>
        \/ queue[m][k] # "absent"
        \/ pass[m].pc # "idle" /\ pass[m].key = k

(* Steps of the users, of the API server and of a manager process.         *)
LEMMA TrackedByLifecycle ==
    ASSUME TypeOK, NEW m \in Managers, NEW k \in Maps, Tracked(m, k),
           Environment \/ \E n \in Managers : Lifecycle(n)
    PROVE  Tracked(m, k)'
<1> USE DEF apiVars, managerVars
<1>1. CASE Environment
  <2>1. UNCHANGED <<phase, cache, queue, pass>>
    BY <1>1 DEF Environment, Create, EditSpec, Delete, LateUpdate, ClusterChanges
  <2>2. QED
    BY <2>1 DEF Tracked, Exists
<1>2. ASSUME NEW n \in Managers, NEW enabled \in SUBSET Sources, Start(n, enabled)
      PROVE  Tracked(m, k)'
  <2>1. CASE m = n
    BY <1>2, <2>1 DEF Start, Tracked, TypeOK, Exists
  <2>2. CASE m # n
    BY <1>2, <2>2 DEF Start, Tracked, TypeOK, Exists
  <2>3. QED
    BY <2>1, <2>2
<1>3. ASSUME NEW n \in Managers, Stop(n)
      PROVE  Tracked(m, k)'
  BY <1>3 DEF Stop, Tracked, TypeOK, Exists
<1>4. ASSUME NEW n \in Managers, Vanish(n)
      PROVE  Tracked(m, k)'
  BY <1>4 DEF Vanish, Tracked, TypeOK, Exists
<1>5. QED
  BY <1>1, <1>2, <1>3, <1>4 DEF Lifecycle, Exit, Crash

(* Steps of the informer and the work queue.                               *)
LEMMA TrackedByInformer ==
    ASSUME TypeOK, NEW m \in Managers, NEW k \in Maps, Tracked(m, k),
           NEW n \in Managers, Informer(n)
    PROVE  Tracked(m, k)'
<1>1. CASE Relist(n)
  <2>1. CASE m = n
    BY <1>1, <2>1 DEF Relist, Tracked, TypeOK, Exists
  <2>2. CASE m # n
    BY <1>1, <2>2 DEF Relist, Tracked, TypeOK, Exists
  <2>3. QED
    BY <2>1, <2>2
<1>2. ASSUME NEW j \in Maps, Deliver(n, j)
      PROVE  Tracked(m, k)'
  <2>1. CASE m = n /\ j = k
    BY <1>2, <2>1 DEF Deliver, Tracked, TypeOK
  <2>2. CASE ~(m = n /\ j = k)
    BY <1>2, <2>2 DEF Deliver, Tracked, TypeOK, Exists
  <2>3. QED
    BY <2>1, <2>2
<1>3. ASSUME NEW j \in Maps, TimerFires(n, j)
      PROVE  Tracked(m, k)'
  BY <1>3 DEF TimerFires, Tracked, TypeOK, Exists
<1>4. ASSUME NEW j \in Maps, Dequeue(n, j)
      PROVE  Tracked(m, k)'
  <2>1. /\ [Idle EXCEPT !.pc = "get", !.key = j].pc = "get"
        /\ [Idle EXCEPT !.pc = "get", !.key = j].key = j
    BY DEF Idle
  <2>2. CASE m = n
    BY <1>4, <2>1, <2>2 DEF Dequeue, Tracked, TypeOK, Exists
  <2>3. CASE m # n
    BY <1>4, <2>3 DEF Dequeue, Tracked, TypeOK, Exists
  <2>4. QED
    BY <2>2, <2>3
<1>5. QED
  BY <1>1, <1>2, <1>3, <1>4 DEF Informer

(* Steps of a Reconcile call: it returns with a requeue, it returns        *)
(* without one because the map is gone or disabled, or it goes on.         *)
LEMMA TrackedByPass ==
    ASSUME TypeOK, NEW m \in Managers, NEW k \in Maps, Tracked(m, k),
           NEW n \in Managers, PassStep(n) \/ PassFails(n)
    PROVE  Tracked(m, k)'
<1> USE DEF apiVars
<1>1. ASSUME NEW requeue \in {"waiting", "backoff"}, Return(n, requeue), UNCHANGED <<phase, cache>>
      PROVE  Tracked(m, k)'
  <2>1. CASE m = n /\ k = pass[n].key
    <3>1. queue'[m][k] # "absent"
      BY <1>1, <2>1 DEF Return, TypeOK
    <3>2. QED
      BY <3>1 DEF Tracked
  <2>2. CASE ~(m = n /\ k = pass[n].key)
    <3>1. queue'[m][k] = queue[m][k] /\ (m # n => pass'[m] = pass[m])
      BY <1>1, <2>2 DEF Return, TypeOK
    <3>2. QED
      BY <1>1, <2>2, <3>1 DEF Tracked, Exists
  <2>3. QED
    BY <2>1, <2>2
<1>2. CASE GetNotFound(n) \/ GetDisabled(n)
  <2>1. CASE m = n /\ k = pass[n].key
    BY <1>2, <2>1 DEF GetNotFound, GetDisabled, Tracked, Exists
  <2>2. CASE ~(m = n /\ k = pass[n].key)
    <3>1. queue'[m][k] = queue[m][k] /\ (m # n => pass'[m] = pass[m])
      BY <1>2, <2>2 DEF GetNotFound, GetDisabled, Return, TypeOK
    <3>2. QED
      BY <1>2, <2>2, <3>1 DEF GetNotFound, GetDisabled, Tracked, Exists
  <2>3. QED
    BY <2>1, <2>2
<1>3. ASSUME UNCHANGED <<phase, cache, queue>>,
             pass'[m] = pass[m] \/ (pass'[m].pc # "idle" /\ pass'[m].key = pass[m].key)
      PROVE  Tracked(m, k)'
  BY <1>3 DEF Tracked, Exists
<1>4. CASE StartDiscovery(n)
  <2>1. m = n => pass'[m].pc = "discover" /\ pass'[m].key = pass[m].key
    BY <1>4, PassTypes DEF StartDiscovery, TypeOK, Passes
  <2>2. QED
    BY <1>3, <1>4, <2>1 DEF StartDiscovery, TypeOK
<1>5. ASSUME NEW s \in Sources, NEW res, Answer(n, s, res)
      PROVE  Tracked(m, k)'
  <2>1. m = n => pass'[m].pc = "discover" /\ pass'[m].key = pass[m].key
    BY <1>5, PassTypes DEF Answer, TypeOK, Passes
  <2>2. QED
    BY <1>3, <1>5, <2>1 DEF Answer, TypeOK
<1>6. CASE SendUpdate(n)
  <2>1. m = n => pass'[m].pc = "update" /\ pass'[m].key = pass[m].key
    BY <1>6, PassTypes DEF SendUpdate, TypeOK, Passes
  <2>2. QED
    BY <1>3, <1>6, <2>1 DEF SendUpdate, TypeOK
<1>7. ASSUME \/ MarshalFails(n) \/ SendFails(n) \/ UpdateCommitted(n) \/ UpdateUnchanged(n)
             \/ UpdateRejected(n) \/ GetFails(n) \/ UpdateInterrupted(n)
      PROVE  Tracked(m, k)'
  BY <1>1, <1>7 DEF MarshalFails, SendFails, UpdateCommitted, UpdateUnchanged, UpdateRejected,
     GetFails, UpdateInterrupted
<1>8. QED
  BY <1>2, <1>4, <1>5, <1>6, <1>7
     DEF PassStep, PassFails, Discovered, DiscoveryCanceled, DiscoveryFails

(* A running manager keeps every enabled map it knows queued, waiting for  *)
(* its interval or in work.                                                *)
THEOREM WakeupsAreKept == Spec => []NoLostWakeup
<1>1. NoLostWakeup <=> \A m \in Managers, k \in Maps : Tracked(m, k)
  BY DEF NoLostWakeup, Tracked
<1>2. Init => NoLostWakeup
  BY DEF Init, NoLostWakeup
<1>3. TypeOK /\ NoLostWakeup /\ [Next]_vars => NoLostWakeup'
  <2> SUFFICES ASSUME TypeOK, NoLostWakeup, [Next]_vars,
                      NEW m \in Managers, NEW k \in Maps
               PROVE  Tracked(m, k)'
    BY DEF NoLostWakeup, Tracked, Exists
  <2>1. Tracked(m, k)
    BY <1>1
  <2>2. CASE Next
    BY <2>1, <2>2, TrackedByLifecycle, TrackedByInformer, TrackedByPass DEF Next
  <2>3. CASE UNCHANGED vars
    BY <2>1, <2>3 DEF vars, Tracked, Exists
  <2>4. QED
    BY <2>2, <2>3
<1>4. QED
  BY <1>2, <1>3, TypeCorrect, PTL DEF Spec
=============================================================================
