--------------------- MODULE PlatformMapRefinementProofs ---------------------
(***************************************************************************)
(* PlatformMapController implements StatusRegister: for any number of      *)
(* managers, maps and sources, what a reader sees of the maps changes only *)
(* by the users' requests and by publications, each the outcome of one     *)
(* discovery for the spec stored at that moment.                           *)
(***************************************************************************)
EXTENDS PlatformMapControllerProofs

USE CoreAssumption, BoundsAssumption, ResourceVersionsAssumption

(* The refinement mapping: an object without its resourceVersion.          *)
Shown == [k \in Maps |-> [store[k] EXCEPT !.rv = 0]]

(* The mapping forgets the version and nothing else.                       *)
LEMMA ShownObject ==
    ASSUME NEW obj \in Objects
    PROVE  LET shown == [obj EXCEPT !.rv = 0]
           IN  /\ shown \in Objects
               /\ shown.uid = obj.uid
               /\ shown.gen = obj.gen
               /\ shown.auto = obj.auto
               /\ shown.status = obj.status
               /\ shown.rv = 0
BY DEF Objects

(* Shown is the first component of the mapping in PlatformMapController.   *)
LEMMA ShownAt ==
    ASSUME TypeOK, NEW k \in Maps
    PROVE  /\ store[k] \in Objects
           /\ Shown[k] = [store[k] EXCEPT !.rv = 0]
           /\ Shown[k] \in Objects
           /\ Shown[k].uid = store[k].uid
           /\ Shown[k].gen = store[k].gen
           /\ Shown[k].auto = store[k].auto
           /\ Shown[k].status = store[k].status
<1>1. store[k] \in Objects
  BY DEF TypeOK
<1>2. Shown[k] = [store[k] EXCEPT !.rv = 0]
  BY DEF Shown
<1>3. QED
  BY <1>1, <1>2, ShownObject

(* A write shows the object written, whatever version it is stamped with.  *)
LEMMA WriteShows ==
    ASSUME TypeOK, NEW k \in Maps, NEW obj \in Objects, CanWrite(k), Write(k, Stamped(k, obj))
    PROVE  Shown' = [Shown EXCEPT ![k] = [obj EXCEPT !.rv = 0]]
<1>1. store' = [store EXCEPT ![k] = Stamped(k, obj)] /\ store \in [Maps -> Objects]
  BY DEF Write, TypeOK
<1>2. [Stamped(k, obj) EXCEPT !.rv = 0] = [obj EXCEPT !.rv = 0]
  BY DEF Stamped, Objects
<1>3. ASSUME NEW j \in Maps
      PROVE  [store'[j] EXCEPT !.rv = 0] =
                IF j = k THEN [obj EXCEPT !.rv = 0] ELSE [store[j] EXCEPT !.rv = 0]
  BY <1>1, <1>2
<1>4. QED
  BY <1>3 DEF Shown

(* kubectl apply of a new map.                                             *)
LEMMA CreateShows ==
    ASSUME TypeOK, NEW k \in Maps, Create(k)
    PROVE  Register!Create(k)
<1>1. PICK auto \in BOOLEAN :
         Write(k, Stamped(k, [Absent EXCEPT !.uid = births + 1, !.gen = 1, !.auto = auto]))
  BY DEF Create
<1> DEFINE obj == [Absent EXCEPT !.uid = births + 1, !.gen = 1, !.auto = auto]
<1>2. births + 1 \in 0..MaxBirths /\ 1 \in 0..MaxGen
  BY DEF Create, TypeOK
<1>3. obj \in Objects
  BY <1>2, ConstantTypes DEF Objects
<1>4. obj.rv = 0
  BY DEF Absent
<1>5. [obj EXCEPT !.rv = 0] = obj
  BY <1>3, <1>4 DEF Objects
<1>6. Shown' = [Shown EXCEPT ![k] = obj]
  <2>1. CanWrite(k) /\ Write(k, Stamped(k, obj))
    BY <1>1 DEF Create
  <2> HIDE DEF obj
  <2>2. QED
    BY <1>3, <1>5, <2>1, WriteShows
<1>7. ~Exists(Shown[k])
  BY ShownAt DEF Create, Exists
<1>8. QED
  BY <1>6, <1>7 
     DEF Register!Create, Shown, Create, Register!Exists, Exists,
         Register!Absent, Absent, Register!Blank, Blank, Register!Unset, Unset

(* kubectl apply of a changed spec.                                        *)
LEMMA EditSpecShows ==
    ASSUME TypeOK, NEW k \in Maps, EditSpec(k)
    PROVE  Register!EditSpec(k)
<1>1. PICK auto \in BOOLEAN :
         Write(k, Stamped(k, [store[k] EXCEPT !.gen = @ + 1, !.auto = auto]))
  BY DEF EditSpec
<1> DEFINE obj == [store[k] EXCEPT !.gen = @ + 1, !.auto = auto]
<1>2. store[k] \in Objects /\ store[k].gen + 1 \in 0..MaxGen
  BY DEF EditSpec, TypeOK, Objects
<1>3. obj \in Objects
  BY <1>2 DEF Objects
<1>4. [obj EXCEPT !.rv = 0] =
         [Shown[k] EXCEPT !.gen = Shown[k].gen + 1, !.auto = auto]
  <2>1. /\ Shown[k].gen = store[k].gen
        /\ Shown[k] = [store[k] EXCEPT !.rv = 0]
        /\ store[k] \in Objects
    BY ShownAt
  <2>2. QED
    BY <1>2, <2>1 DEF Objects
<1>5. Shown' = [Shown EXCEPT ![k] = [Shown[k] EXCEPT !.gen = Shown[k].gen + 1,
                                                    !.auto = auto]]
  <2>1. CanWrite(k) /\ Write(k, Stamped(k, obj))
    BY <1>1 DEF EditSpec
  <2>2. Shown' = [Shown EXCEPT ![k] = [obj EXCEPT !.rv = 0]]
    <3> HIDE DEF obj
    <3>1. QED
      BY <1>3, <2>1, WriteShows
  <2>3. QED
    BY <1>4, <2>2 DEF Shown
<1>6. Exists(Shown[k]) /\ Shown[k].gen < MaxGen
  BY ShownAt DEF EditSpec, Exists
<1>7. QED
  BY <1>5, <1>6 DEF Register!EditSpec, Shown, EditSpec, Register!Exists, Exists

(* kubectl delete.                                                         *)
LEMMA DeleteShows ==
    ASSUME TypeOK, NEW k \in Maps, Delete(k)
    PROVE  Register!Delete(k)
<1>0. Absent \in Objects /\ Absent.rv = 0
  BY ConstantTypes DEF Absent
<1>1. store' = [store EXCEPT ![k] = Absent] /\ store \in [Maps -> Objects]
  BY DEF Delete, Write, TypeOK
<1>2. [Absent EXCEPT !.rv = 0] = Absent
  BY <1>0 DEF Objects
<1>3. ASSUME NEW j \in Maps
      PROVE  [store'[j] EXCEPT !.rv = 0] =
                IF j = k THEN Absent ELSE [store[j] EXCEPT !.rv = 0]
  BY <1>1, <1>2
<1>4. Shown' = [Shown EXCEPT ![k] = Absent]
  BY <1>3 DEF Shown
<1>5. Exists(Shown[k])
  BY ShownAt DEF Delete, Exists
<1>6. QED
  BY <1>4, <1>5
     DEF Register!Delete, Shown, Delete, Register!Exists, Exists, Register!Absent, Absent,
         Register!Blank, Blank, Register!Unset, Unset

-----------------------------------------------------------------------------
(* The discovery that an accepted update reports: its engines, and what    *)
(* each of them says.                                                      *)
ReportOf(pm, enabled) ==
    [s \in enabled |-> [health |-> pm.status.cond[s].health, ver |-> pm.status.part[s]]]

(* Every report is one the register allows: the source failed or not, and  *)
(* shows nothing or data that is not older than what the map shows and     *)
(* that the source had.                                                    *)
LEMMA ReportsAreAllowed ==
    ASSUME TypeOK, IInv, NEW k \in Maps, NEW pm \in Updates(k), Accepts(k, pm),
           NEW s \in Sources, pm.status.cond[s].health \in {"ok", "failed"}
    PROVE  [health |-> pm.status.cond[s].health, ver |-> pm.status.part[s]]
              \in Register!Reports(Shown[k].status, s)
<1>1. Exists(store[k]) /\ pm.rv = store[k].rv
  BY DEF Accepts
<1>2. pm.status.part[s] <= cluster[s]
  BY DEF IInv, NoFutureData
<1>3. pm.status.part[s] = 0 \/ pm.status.part[s] >= store[k].status.part[s]
  BY <1>1 DEF IInv, DiscoveryGoesForward
<1>4. pm.status.part[s] \in Nat /\ cluster[s] \in Nat
  <2>1. pm.status \in Statuses
    BY HoldersType DEF Objects
  <2>2. QED
    BY <2>1 DEF Statuses, TypeOK
<1>5. Shown[k].status.part[s] = store[k].status.part[s]
  BY ShownAt
<1>6. pm.status.part[s] \in {0} \cup {v \in 1..cluster[s] : v >= Shown[k].status.part[s]}
  BY <1>2, <1>3, <1>4, <1>5
<1>7. QED
  BY <1>6 DEF Register!Reports

(* The status of an accepted update is the publication of its report.      *)
LEMMA StatusIsPublication ==
    ASSUME TypeOK, IInv, NEW k \in Maps, NEW pm \in Updates(k), Accepts(k, pm),
           NEW enabled \in SUBSET Sources,
           \A s \in enabled : pm.status.cond[s].gen = pm.gen,
           \A s \in Sources \ enabled : /\ pm.status.part[s] = 0
                                        /\ pm.status.cond[s] = store[k].status.cond[s]
    PROVE  pm.status = Register!Publication(Shown[k], enabled, ReportOf(pm, enabled))
<1>1. Exists(store[k]) /\ pm.rv = store[k].rv
  BY DEF Accepts
<1>2. store[k] \in Objects /\ pm \in Objects /\ pm.status \in Statuses
  BY HoldersType DEF Objects
<1>3. [pm EXCEPT !.status = store[k].status] = store[k]
  BY <1>1 DEF IInv, VersionIdentifiesObject
<1>4. pm.uid = Shown[k].uid /\ pm.gen = Shown[k].gen
  <2>1. /\ [pm EXCEPT !.status = store[k].status].uid = pm.uid
        /\ [pm EXCEPT !.status = store[k].status].gen = pm.gen
    BY <1>2 DEF Objects
  <2>2. QED
    BY <1>3, <2>1, ShownAt
<1>5. pm.status.uid = pm.uid /\ pm.status.gen = pm.gen
  BY DEF IInv, UpdatesAreForOneSpec
<1>6. ASSUME NEW s \in Sources
      PROVE  pm.status.part[s] = IF s \in enabled THEN ReportOf(pm, enabled)[s].ver ELSE 0
  BY DEF ReportOf
<1>7. ASSUME NEW s \in Sources
      PROVE  pm.status.cond[s] = IF s \in enabled
                                 THEN [health |-> ReportOf(pm, enabled)[s].health,
                                       gen    |-> Shown[k].gen]
                                 ELSE Shown[k].status.cond[s]
  <2>1. pm.status.cond[s] \in Conditions
    BY <1>2 DEF Statuses
  <2>2. CASE s \in enabled
    <3>1. /\ pm.status.cond[s].gen = Shown[k].gen
          /\ pm.status.cond[s].health = ReportOf(pm, enabled)[s].health
      BY <1>4, <2>2 DEF ReportOf
    <3>2. QED
      BY <2>1, <2>2, <3>1 DEF Conditions
  <2>3. CASE s \notin enabled
    BY <2>3, ShownAt
  <2>4. QED
    BY <2>2, <2>3
<1>8. /\ pm.status.part \in [Sources -> 0..MaxVersion]
      /\ pm.status.cond \in [Sources -> Conditions]
      /\ pm.status = [uid  |-> pm.status.uid,  gen  |-> pm.status.gen,
                      part |-> pm.status.part, cond |-> pm.status.cond]
  BY <1>2 DEF Statuses
<1>9. pm.status.part = [s \in Sources |-> IF s \in enabled
                                          THEN ReportOf(pm, enabled)[s].ver ELSE 0]
  BY <1>6, <1>8
<1>10. pm.status.cond = [s \in Sources |->
                            IF s \in enabled
                            THEN [health |-> ReportOf(pm, enabled)[s].health,
                                  gen    |-> Shown[k].gen]
                            ELSE Shown[k].status.cond[s]]
  BY <1>7, <1>8
<1>11. QED
  BY <1>4, <1>5, <1>8, <1>9, <1>10 DEF Register!Publication

(* An accepted status update, timely or late, is a publication.            *)
LEMMA UpdateShows ==
    ASSUME TypeOK, IInv, NEW k \in Maps, NEW pm \in Updates(k),
           Accepts(k, pm), CanWrite(k), Write(k, WithStatus(k, pm)), UNCHANGED <<births, cluster>>
    PROVE  Register!Publish(k)
<1>1. /\ store[k] \in Objects /\ pm \in Objects /\ pm.status \in Statuses
      /\ Exists(store[k]) /\ pm.rv = store[k].rv
  BY HoldersType DEF Objects, Accepts
<1>2. PICK enabled \in SUBSET Sources :
         /\ Core \subseteq enabled
         /\ \A s \in enabled : /\ pm.status.cond[s].health \in {"ok", "failed"}
                               /\ pm.status.cond[s].gen = pm.gen
         /\ \A s \in Sources \ enabled : /\ pm.status.part[s] = 0
                                         /\ pm.status.cond[s] = store[k].status.cond[s]
  <2>1. IsDiscovery(pm, store[k])
    BY DEF IInv, UpdatesAreDiscoveries
  <2>2. QED
    BY <1>1, <2>1 DEF IsDiscovery
<1> DEFINE report == ReportOf(pm, enabled)
           old    == Shown[k].status
<1>3. \A s \in enabled : report[s] \in Register!Reports(old, s)
  <2>1. ASSUME NEW s \in enabled
        PROVE  report[s] \in Register!Reports(old, s)
    <3>1. report[s] = [health |-> pm.status.cond[s].health, ver |-> pm.status.part[s]]
      BY DEF ReportOf
    <3>2. QED
      BY <1>2, <3>1, ReportsAreAllowed
  <2>2. QED
    BY <2>1
<1>4. report \in [enabled -> UNION {Register!Reports(old, s) : s \in enabled}]
  BY <1>3 DEF ReportOf
<1>5. Shown' = [Shown EXCEPT ![k].status = Register!Publication(Shown[k], enabled, report)]
  <2> DEFINE obj == [store[k] EXCEPT !.status = pm.status]
  <2>1. obj \in Objects
    BY <1>1 DEF Objects
  <2>2. Write(k, Stamped(k, obj))
    BY DEF WithStatus
  <2>3. [obj EXCEPT !.rv = 0] = [Shown[k] EXCEPT !.status = pm.status]
    <3>1. Shown[k] = [store[k] EXCEPT !.rv = 0]
      BY ShownAt
    <3>2. QED
      BY <1>1, <3>1 DEF Objects
  <2>4. Shown' = [Shown EXCEPT ![k] = [obj EXCEPT !.rv = 0]]
    <3> HIDE DEF obj
    <3>1. QED
      BY <2>1, <2>2, WriteShows
  <2>5. pm.status = Register!Publication(Shown[k], enabled, report)
    BY <1>2, StatusIsPublication
  <2> HIDE DEF obj, report
  <2>6. QED
    BY <2>3, <2>4, <2>5
<1>6. Exists(Shown[k]) /\ Shown[k].auto
  <2>1. [pm EXCEPT !.status = store[k].status] = store[k]
    BY <1>1 DEF IInv, VersionIdentifiesObject
  <2>2. pm.auto
    BY DEF IInv, UpdatesAreForOneSpec
  <2>3. store[k].auto = pm.auto
    <3>1. [pm EXCEPT !.status = store[k].status].auto = pm.auto
      BY <1>1 DEF Objects
    <3>2. QED
      BY <2>1, <3>1
  <2>4. QED
    BY <1>1, <2>2, <2>3, ShownAt DEF Exists
<1> HIDE DEF report
<1>7. \E reported \in [enabled -> UNION {Register!Reports(Shown[k].status, s) : s \in enabled}] :
         /\ \A s \in enabled : reported[s] \in Register!Reports(Shown[k].status, s)
         /\ Shown' = [Shown EXCEPT ![k].status =
                         Register!Publication(Shown[k], enabled, reported)]
  BY <1>3, <1>4, <1>5
<1>8. QED
  BY <1>2, <1>6, <1>7, Zenon DEF Register!Publish, Shown, Register!Exists, Exists

-----------------------------------------------------------------------------
(* A step that writes nothing, and is no change of the cluster, is not     *)
(* seen.                                                                   *)
LEMMA SilentSteps ==
    ASSUME Next, UNCHANGED store,
           ~\E s \in Sources : ClusterChanges(s)
    PROVE  UNCHANGED <<births, cluster>> \/ \E k \in Maps : Create(k)
<1> USE DEF apiVars, managerVars
<1>1. CASE Environment
  BY <1>1 DEF Environment, EditSpec, Delete, LateUpdate
<1>2. ASSUME NEW m \in Managers, Lifecycle(m)
      PROVE  UNCHANGED <<births, cluster>>
  BY <1>2 DEF Lifecycle, Start, Stop, Exit, Crash
<1>3. ASSUME NEW m \in Managers, Informer(m)
      PROVE  UNCHANGED <<births, cluster>>
  BY <1>3 DEF Informer, Relist, Deliver, TimerFires, Dequeue
<1>4. ASSUME NEW m \in Managers, PassStep(m)
      PROVE  UNCHANGED <<births, cluster>>
  BY <1>4 DEF PassStep, GetNotFound, GetDisabled, StartDiscovery, Discovered, Answer,
     DiscoveryCanceled, MarshalFails, SendUpdate, SendFails, UpdateCommitted, UpdateUnchanged,
     UpdateRejected
<1>5. ASSUME NEW m \in Managers, PassFails(m)
      PROVE  UNCHANGED <<births, cluster>>
  BY <1>5 DEF PassFails, GetFails, DiscoveryFails, Answer, UpdateInterrupted
<1>6. QED
  BY <1>1, <1>2, <1>3, <1>4, <1>5 DEF Next

(* Every step of the controller is a step of the register or is not seen.  *)
LEMMA RefinementStep ==
    ASSUME TypeOK, IInv, Next
    PROVE  Register!Next \/ UNCHANGED Register!registerVars
<1>1. ASSUME NEW k \in Maps, Create(k) \/ EditSpec(k) \/ Delete(k)
      PROVE  Register!Next
  BY <1>1, CreateShows, EditSpecShows, DeleteShows DEF Register!Next
<1>2. ASSUME NEW s \in Sources, ClusterChanges(s)
      PROVE  Register!Next
  BY <1>2 DEF ClusterChanges, Register!WorldChanges, Register!Next
<1>3. ASSUME NEW k \in Maps, NEW pm \in late[k], LateUpdate(k, pm),
             Accepts(k, pm), CanWrite(k), Write(k, WithStatus(k, pm))
      PROVE  Register!Next
  <2>1. pm \in Updates(k) /\ UNCHANGED <<births, cluster>>
    BY <1>3, UpdatesAre DEF LateUpdate
  <2>2. QED
    BY <1>3, <2>1, UpdateShows DEF Register!Next
<1>4. ASSUME NEW m \in Managers, UpdateCommitted(m)
      PROVE  Register!Next
  <2>1. /\ pass[m].key \in Maps
        /\ pass[m].pm \in Updates(pass[m].key)
        /\ UNCHANGED <<births, cluster>>
    BY <1>4, PassTypes, UpdatesAre DEF UpdateCommitted
  <2>2. QED
    BY <1>4, <2>1, UpdateShows DEF UpdateCommitted, Register!Next
<1>5. CASE store' # store
  BY <1>1, <1>3, <1>4, <1>5, Writers
<1>6. CASE UNCHANGED store
  <2>1. UNCHANGED <<births, cluster>> => UNCHANGED Register!registerVars
    BY <1>6 DEF Register!registerVars
  <2>2. QED
    BY <1>1, <1>2, <1>6, <2>1, SilentSteps
<1>7. QED
  BY <1>5, <1>6

(* The whole controller, its racing managers, stale caches, abandoned      *)
(* updates and restarts included, implements the status register.          *)
THEOREM ControllerImplementsRegister == Spec => ImplementsStatusRegister
<1>1. Init => Register!Init
  <2> SUFFICES ASSUME Init PROVE Register!Init
    OBVIOUS
  <2>1. [Absent EXCEPT !.rv = 0] = Absent
    <3>1. Absent \in Objects /\ Absent.rv = 0
      BY ConstantTypes DEF Absent
    <3>2. QED
      BY <3>1 DEF Objects
  <2>2. [k \in Maps |-> [store[k] EXCEPT !.rv = 0]] = [k \in Maps |-> Absent]
    BY <2>1 DEF Init
  <2>3. QED
    BY <2>2 DEF Init, Register!Init, Register!Absent, Absent, Register!Blank, Blank,
       Register!Unset, Unset
<1>2. TypeOK /\ IInv /\ [Next]_vars => [Register!Next]_Register!registerVars
  <2> SUFFICES ASSUME TypeOK, IInv, [Next]_vars
               PROVE  Register!Next \/ UNCHANGED Register!registerVars
    OBVIOUS
  <2>1. CASE Next
    BY <2>1, RefinementStep
  <2>2. CASE UNCHANGED vars
    BY <2>2 DEF vars, Register!registerVars
  <2>3. QED
    BY <2>1, <2>2
<1>3. QED
  BY <1>1, <1>2, TypeCorrect, InvariantHolds, PTL
     DEF Spec, ImplementsStatusRegister, Register!Spec
=============================================================================
