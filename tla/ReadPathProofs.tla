---------------------------- MODULE ReadPathProofs ----------------------------
(***************************************************************************)
(* Safety of ReadPath with one manager, for any maps, histories, retries   *)
(* and faults: the view never goes back, and "not found" is told of a map  *)
(* that was not there.  The types hold with any number of managers.        *)
(*                                                                         *)
(* The versions form a line: what is shown, what the answer under way was  *)
(* read from, what the cache has, what the store has.  The cache of a      *)
(* manager that is down counts as the store, which it lists before it      *)
(* serves again.                                                           *)
(***************************************************************************)
EXTENDS ReadPath, SequenceTheorems, TLAPS

(* The oldest version a manager can still answer with.                     *)
Reach(m) == IF pos[m] = 0 THEN Len(log) ELSE pos[m]

Calls == [kind : {"idle", "asked", "ok", "notFound", "failed"}, at : Nat]
Views == [at : Nat, error : {"", "notFound", "failed"}, failures : Nat]

Types(m) ==
    /\ \E S : log \in Seq(S)
    /\ pos \in [Managers -> Nat]
    /\ Reach(m) <= Len(log)
    /\ calls \in [Slots -> Calls]
    /\ calls[2] = Idle
    /\ ui \in Views
    /\ ui.at <= Reach(m)

AnswerIsBetween(m) ==
    calls[1].kind \in {"ok", "notFound"} =>
        ui.at <= calls[1].at /\ calls[1].at \in 1..Reach(m)

AnswerIsTrue ==
    calls[1].kind = "notFound" => ~Exists(log[calls[1].at])

PathInv(m) == Types(m) /\ AnswerIsBetween(m) /\ AnswerIsTrue /\ NotFoundIsHonest
-----------------------------------------------------------------------------
(* The log only grows, and keeps what it has.                              *)
Grows ==
    /\ \E S : log' \in Seq(S)
    /\ Len(log) <= Len(log')
    /\ \A v \in 1..Len(log) : log'[v] = log[v]

(* In the beginning the manager serves the only version, and nothing is    *)
(* asked.                                                                  *)
LEMMA InitPathInv ==
    ASSUME NEW m, Managers = {m}, Init
    PROVE  PathInv(m)
<1>1. /\ log \in Seq({shown[Polled]})
      /\ Len(log) = 1
  <2> DEFINE v == shown[Polled]
  <2>1. log = <<v>>
    BY DEF Init
  <2>2. v \in {v}
    OBVIOUS
  <2> HIDE DEF v
  <2>3. <<v>> \in Seq({v}) /\ Len(<<v>>) = 1
    BY <2>2
  <2> QED
    BY <2>1, <2>3 DEF v
<1>2. pos[m] = 1 /\ pos \in [Managers -> Nat]
  BY DEF Init
<1>3. \A n \in Slots : calls[n] = Idle
  BY DEF Init
<1>4. calls \in [Slots -> Calls]
  BY DEF Init, Idle, Calls
<1>5. ui = [at |-> 0, error |-> "", failures |-> 0]
  BY DEF Init
<1>6. Types(m)
  <2>1. Reach(m) = 1
    BY <1>2 DEF Reach
  <2>2. ui \in Views
    BY <1>5, Zenon DEF Views
  <2>3. ui.at = 0
    BY <1>5, Zenon
  <2>4. calls[2] = Idle
    BY <1>3 DEF Slots
  <2> QED
    BY <1>1, <1>2, <1>4, <2>1, <2>2, <2>3, <2>4 DEF Types
<1>7. calls[1].kind = "idle"
  BY <1>3 DEF Slots, Idle
<1> QED
  BY <1>5, <1>6, <1>7 DEF PathInv, AnswerIsBetween, AnswerIsTrue, NotFoundIsHonest

(* A step of the store appends to the log; no other step touches it.       *)
LEMMA LogGrows ==
    ASSUME NEW m, Types(m), [Next]_vars
    PROVE  Grows
<1>1. PICK S : log \in Seq(S)
  BY DEF Types
<1>2. CASE log' = log
  <2>1. \E T : log' \in Seq(T)
    BY <1>1, <1>2
  <2>2. Len(log) \in Nat
    BY <1>1, LenProperties
  <2> QED
    BY <1>2, <2>1, <2>2 DEF Grows
<1>3. CASE log' = Append(log, shown'[Polled])
  <2> DEFINE T == S \cup {shown'[Polled]}
  <2>1. log \in Seq(T)
    BY <1>1, SeqDef
  <2>2. shown'[Polled] \in T
    OBVIOUS
  <2> HIDE DEF T
  <2>3. /\ log' \in Seq(T)
        /\ Len(log') = Len(log) + 1
        /\ \A v \in 1..Len(log) : log'[v] = log[v]
    BY <1>3, <2>1, <2>2, AppendProperties
  <2>4. Len(log) \in Nat
    BY <2>1, LenProperties
  <2> QED
    BY <2>3, <2>4 DEF Grows
<1>4. log' = log \/ log' = Append(log, shown'[Polled])
  <2>1. CASE StoreStep
    BY <2>1 DEF StoreStep
  <2>2. CASE UNCHANGED vars
    BY <2>2 DEF vars
  <2>3. CASE \E k \in Managers : Manager(k)
    BY <2>3 DEF Manager, CatchUp, GoDown, ComeUp, getPlatformMap
  <2>4. CASE \E n \in Slots : Unreachable(n)
    BY <2>4 DEF Unreachable
  <2>5. CASE Dashboard
    BY <2>5 DEF Dashboard, Poll, Succeed, Retry, GiveUp
  <2> QED
    BY <2>1, <2>2, <2>3, <2>4, <2>5 DEF Next
<1> QED
  BY <1>2, <1>3, <1>4

(* A step of the store or of the cache: what is shown and asked stays.     *)
LEMMA HistoryStep ==
    ASSUME NEW m, Managers = {m}, PathInv(m), Grows,
           UNCHANGED <<calls, ui>>,
           pos' \in [Managers -> Nat], Reach(m) <= Reach(m)', Reach(m)' <= Len(log')
    PROVE  PathInv(m)'
<1>1. Len(log) \in Nat /\ Len(log') \in Nat
  BY LenProperties DEF PathInv, Types, Grows
<1>2. Reach(m) \in Nat /\ Reach(m)' \in Nat
  BY <1>1 DEF PathInv, Types, Reach
<1>3. ui.at \in Nat /\ calls[1].at \in Nat
  BY DEF PathInv, Types, Calls, Slots, Views
<1>4. Types(m)'
  BY <1>1, <1>2, <1>3 DEF PathInv, Types, Grows
<1>5. AnswerIsBetween(m)'
  BY <1>2, <1>3 DEF PathInv, AnswerIsBetween
<1>6. AnswerIsTrue'
  <2> SUFFICES ASSUME calls[1].kind = "notFound" PROVE ~Exists(log'[calls[1].at])
    BY DEF AnswerIsTrue
  <2>1. calls[1].at \in 1..Len(log)
    BY <1>1, <1>2, <1>3 DEF PathInv, AnswerIsBetween, Types
  <2> QED
    BY <2>1 DEF PathInv, AnswerIsTrue, Grows
<1>7. NotFoundIsHonest'
  <2> SUFFICES ASSUME ui.error = "notFound"
               PROVE  \E v \in 1..Len(log') : v >= ui.at /\ ~Exists(log'[v])
    BY DEF NotFoundIsHonest
  <2>1. PICK v \in 1..Len(log) : v >= ui.at /\ ~Exists(log[v])
    BY DEF PathInv, NotFoundIsHonest
  <2>2. v \in 1..Len(log') /\ log'[v] = log[v]
    BY <1>1, <2>1 DEF Grows
  <2> QED
    BY <2>1, <2>2
<1> QED
  BY <1>4, <1>5, <1>6, <1>7 DEF PathInv

(* A step of a fetch that leaves the history and what is shown.            *)
LEMMA FetchStep ==
    ASSUME NEW m, PathInv(m), UNCHANGED <<log, pos>>,
           calls' \in [Slots -> Calls], calls'[2] = Idle,
           ui' \in Views,
           ui'.at = ui.at, ui'.error = "notFound" => ui.error = "notFound",
           calls'[1].kind \notin {"ok", "notFound"}
    PROVE  PathInv(m)'
<1>1. Types(m)'
  BY DEF PathInv, Types, Reach
<1>2. AnswerIsBetween(m)' /\ AnswerIsTrue'
  BY DEF AnswerIsBetween, AnswerIsTrue
<1>3. NotFoundIsHonest'
  BY DEF PathInv, NotFoundIsHonest
<1> QED
  BY <1>1, <1>2, <1>3 DEF PathInv

(* Every step, by who takes it: of the store and the caches (8 to 12), of  *)
(* the read API and the network (13, 14), of the dashboard (15 to 18).     *)
LEMMA NextPathInv ==
    ASSUME NEW m, Managers = {m}, PathInv(m), [Next]_vars
    PROVE  PathInv(m)' /\ ui'.at >= ui.at
<1> USE DEF PathInv
<1>1. Grows
  BY LogGrows
<1>2. Len(log) \in Nat /\ Len(log') \in Nat /\ Len(log) <= Len(log')
  BY <1>1, LenProperties DEF Types, Grows
<1>3. /\ pos[m] \in Nat /\ Reach(m) \in Nat
      /\ ui.at \in Nat /\ calls[1] \in Calls /\ calls[1].at \in Nat
  BY <1>2 DEF Types, Reach, Calls, Slots, Views
<1>4. \A n \in Slots : calls[n] # Idle => n = 1
  BY DEF Types, Slots
<1>5. /\ Idle.kind = "idle" /\ Asked # Idle
  BY DEF Idle, Asked
<1>6. ASSUME UNCHANGED <<calls, ui>>,
             pos' \in [Managers -> Nat],
             Reach(m) <= Reach(m)', Reach(m)' <= Len(log')
      PROVE  PathInv(m)' /\ ui'.at >= ui.at
  BY <1>1, <1>3, <1>6, HistoryStep
<1>7. ASSUME UNCHANGED <<log, pos>>, calls' \in [Slots -> Calls], calls'[2] = Idle,
             ui' \in Views,
             ui'.at = ui.at, ui'.error = "notFound" => ui.error = "notFound",
             calls'[1].kind \notin {"ok", "notFound"}
      PROVE  PathInv(m)' /\ ui'.at >= ui.at
  BY <1>3, <1>7, FetchStep
<1>8. CASE StoreStep
  BY <1>2, <1>3, <1>6, <1>8 DEF StoreStep, Reach, Types
<1>9. CASE UNCHANGED vars
  BY <1>2, <1>3, <1>6, <1>9 DEF vars, Reach, Types
<1>10. CASE \E k \in Managers : CatchUp(k)
  BY <1>2, <1>3, <1>6, <1>10 DEF CatchUp, Reach, Types
<1>11. CASE \E k \in Managers : GoDown(k)
  BY <1>2, <1>3, <1>6, <1>11 DEF GoDown, Reach, Types
<1>12. CASE \E k \in Managers : ComeUp(k)
  BY <1>2, <1>3, <1>6, <1>12 DEF ComeUp, Reach, Types
<1>13. CASE \E k \in Managers, n \in Slots : getPlatformMap(k, n)
  <2>1. getPlatformMap(m, 1) /\ calls[1] = Asked
    BY <1>13, <1>4, <1>5 DEF getPlatformMap
  <2>2. UNCHANGED <<log, pos, ui>> /\ pos[m] # 0 /\ Reach(m) = pos[m]
    BY <2>1 DEF getPlatformMap, Reach
  <2> DEFINE answer == [kind |-> clientKind(readStatus(log[pos[m]])), at |-> pos[m]]
             error == [kind |-> clientKind(errorStatus(FALSE)), at |-> 0]
  <2>3. CASE calls' = [calls EXCEPT ![1] = answer]
    <3>1. clientKind(readStatus(log[pos[m]])) \in {"ok", "notFound"}
      BY DEF clientKind, readStatus, errorStatus
    <3>2. answer \in Calls /\ answer.at = pos[m]
      BY <1>3, <3>1 DEF Calls
    <3>3. answer.kind = "notFound" => ~Exists(log[pos[m]])
      BY DEF clientKind, readStatus, errorStatus
    <3> HIDE DEF answer
    <3>4. calls' \in [Slots -> Calls] /\ calls'[1] = answer /\ calls'[2] = calls[2]
      BY <2>3, <3>2 DEF Types, Slots
    <3>5. Types(m)'
      BY <2>2, <3>4 DEF Types, Reach
    <3>6. AnswerIsBetween(m)'
      BY <1>2, <1>3, <2>2, <3>2, <3>4 DEF AnswerIsBetween, Reach, Types
    <3>7. AnswerIsTrue'
      BY <2>2, <3>2, <3>3, <3>4 DEF AnswerIsTrue
    <3>8. NotFoundIsHonest'
      BY <2>2 DEF NotFoundIsHonest
    <3> QED
      BY <1>3, <2>2, <3>5, <3>6, <3>7, <3>8
  <2>4. CASE calls' = [calls EXCEPT ![1] = error]
    <3>1. error \in Calls /\ error.kind = "failed"
      BY DEF clientKind, errorStatus, Calls
    <3> HIDE DEF error
    <3>2. calls' \in [Slots -> Calls] /\ calls'[1] = error /\ calls'[2] = calls[2]
      BY <2>4, <3>1 DEF Types, Slots
    <3> QED
      BY <1>7, <2>2, <3>1, <3>2 DEF Types
  <2> QED
    BY <2>1, <2>3, <2>4 DEF getPlatformMap
<1>14. CASE \E n \in Slots : Unreachable(n)
  <2>1. UNCHANGED <<log, pos, ui>> /\ calls' = [calls EXCEPT ![1] = Failed]
    BY <1>14 DEF Unreachable, Types, Slots
  <2>2. Failed \in Calls /\ Failed.kind = "failed"
    BY DEF Failed, Calls
  <2>3. calls' \in [Slots -> Calls] /\ calls'[1] = Failed /\ calls'[2] = calls[2]
    BY <2>1, <2>2 DEF Types, Slots
  <2> QED
    BY <1>7, <2>1, <2>2, <2>3 DEF Types
<1>15. CASE Poll
  <2>1. UNCHANGED <<log, pos>> /\ calls' = [calls EXCEPT ![1] = Asked]
    BY <1>15 DEF Poll
  <2>2. Asked \in Calls /\ Asked.kind = "asked"
    BY DEF Asked, Calls
  <2>3. calls' \in [Slots -> Calls] /\ calls'[1] = Asked /\ calls'[2] = calls[2]
    BY <2>1, <2>2 DEF Types, Slots
  <2>4. /\ ui' \in Views
        /\ ui'.at = ui.at
        /\ ui'.error = "notFound" => ui.error = "notFound"
    BY <1>15 DEF Poll, Types, Views
  <2> QED
    BY <1>7, <2>1, <2>2, <2>3, <2>4 DEF Types
<1>16. CASE \E n \in Slots : Retry(n)
  <2>1. UNCHANGED <<log, pos>> /\ calls' = [calls EXCEPT ![1] = Asked]
    <3>1. PICK n \in Slots : Retry(n)
      BY <1>16
    <3>2. n = 1
      BY <1>4, <1>5, <3>1 DEF Retry
    <3> QED
      BY <3>1, <3>2 DEF Retry
  <2>2. Asked \in Calls /\ Asked.kind = "asked"
    BY DEF Asked, Calls
  <2>3. calls' \in [Slots -> Calls] /\ calls'[1] = Asked /\ calls'[2] = calls[2]
    BY <2>1, <2>2 DEF Types, Slots
  <2>4. /\ ui' \in Views
        /\ ui'.at = ui.at
        /\ ui'.error = "notFound" => ui.error = "notFound"
    <3>1. ui \in [at : Nat, error : {"", "notFound", "failed"}, failures : Nat]
      BY DEF Types, Views
    <3>2. PICK k \in Nat : ui' = [ui EXCEPT !.failures = k]
      <4>1. ui.failures \in Nat
        BY <3>1, Zenon
      <4>2. ui.failures + 1 \in Nat
        BY <4>1
      <4>3. ui' = [ui EXCEPT !.failures = ui.failures + 1]
        BY <1>16 DEF Retry
      <4> QED
        BY <4>2, <4>3
    <3> QED
      BY <3>1, <3>2 DEF Views
  <2> QED
    BY <1>7, <2>1, <2>2, <2>3, <2>4 DEF Types
<1>17. CASE \E n \in Slots : Succeed(n)
  <2>1. /\ Succeed(1) /\ calls[1].kind = "ok"
        /\ UNCHANGED <<log, pos>> /\ calls' = [calls EXCEPT ![1] = Idle]
        /\ ui' = [at |-> calls[1].at, error |-> "", failures |-> 0]
    <3>1. PICK n \in Slots : Succeed(n)
      BY <1>17
    <3>2. n = 1
      BY <1>4, <1>5, <3>1 DEF Succeed
    <3> QED
      BY <3>1, <3>2 DEF Succeed
  <2>2. Idle \in Calls /\ Idle.kind = "idle"
    BY DEF Idle, Calls
  <2>3. calls' \in [Slots -> Calls] /\ calls'[1] = Idle /\ calls'[2] = calls[2]
    BY <2>1, <2>2 DEF Types, Slots
  <2>4. ui.at <= calls[1].at /\ calls[1].at <= Reach(m)
    <3>1. ui.at <= calls[1].at /\ calls[1].at \in 1..Reach(m)
      BY <2>1 DEF AnswerIsBetween
    <3> QED
      BY <1>3, <3>1
  <2>5. ui' \in Views /\ ui'.at = calls[1].at /\ ui'.error = ""
    BY <1>3, <2>1 DEF Views
  <2>6. Types(m)'
    BY <2>1, <2>3, <2>4, <2>5 DEF Types, Reach
  <2>7. AnswerIsBetween(m)' /\ AnswerIsTrue' /\ NotFoundIsHonest'
    BY <2>2, <2>3, <2>5 DEF AnswerIsBetween, AnswerIsTrue, NotFoundIsHonest
  <2> QED
    BY <1>3, <2>4, <2>5, <2>6, <2>7
<1>18. CASE \E n \in Slots : GiveUp(n)
  <2>1. /\ calls[1].kind \in {"notFound", "failed"}
        /\ UNCHANGED <<log, pos>> /\ calls' = [calls EXCEPT ![1] = Idle]
        /\ ui' = [ui EXCEPT !.error = calls[1].kind, !.failures = 0]
    <3>1. PICK n \in Slots : GiveUp(n)
      BY <1>18
    <3>2. n = 1
      BY <1>4, <1>5, <3>1 DEF GiveUp
    <3> QED
      BY <3>1, <3>2 DEF GiveUp
  <2>2. Idle \in Calls /\ Idle.kind = "idle"
    BY DEF Idle, Calls
  <2>3. calls' \in [Slots -> Calls] /\ calls'[1] = Idle /\ calls'[2] = calls[2]
    BY <2>1, <2>2 DEF Types, Slots
  <2>4. /\ ui' \in Views
        /\ ui'.at = ui.at
        /\ ui'.error = calls[1].kind
    BY <2>1 DEF Types, Views
  <2>5. Types(m)'
    BY <2>1, <2>3, <2>4 DEF Types, Reach
  <2>6. AnswerIsBetween(m)' /\ AnswerIsTrue'
    BY <2>2, <2>3 DEF AnswerIsBetween, AnswerIsTrue
  <2>7. NotFoundIsHonest'
    <3> SUFFICES ASSUME calls[1].kind = "notFound"
                 PROVE  \E v \in 1..Len(log) : v >= ui.at /\ ~Exists(log[v])
      BY <2>1, <2>4 DEF NotFoundIsHonest
    <3>1. calls[1].at \in 1..Len(log) /\ calls[1].at >= ui.at
      BY <1>2, <1>3 DEF AnswerIsBetween, Types
    <3> QED
      BY <3>1 DEF AnswerIsTrue
  <2> QED
    BY <1>3, <2>4, <2>5, <2>6, <2>7
<1> QED
  BY <1>8, <1>9, <1>10, <1>11, <1>12, <1>13, <1>14, <1>15, <1>16, <1>17, <1>18
     DEF Next, Manager, Dashboard
-----------------------------------------------------------------------------
(* No error but a missing map is told as one, and only of a moment no      *)
(* earlier than what is shown (client.ts:27-32).                           *)
THEOREM MissingIsMissing ==
    ASSUME NEW CONSTANT m, Managers = {m}
    PROVE  Spec => []NotFoundIsHonest
<1>1. Init => PathInv(m)
  BY InitPathInv
<1>2. PathInv(m) /\ [Next]_vars => PathInv(m)'
  BY NextPathInv
<1>3. PathInv(m) => NotFoundIsHonest
  BY DEF PathInv
<1> QED
  BY <1>1, <1>2, <1>3, PTL DEF Spec

(* What the dashboard shows never gets older (usePlatformMap.ts:25-30).    *)
THEOREM ViewGoesForward ==
    ASSUME NEW CONSTANT m, Managers = {m}
    PROVE  Spec => ViewNeverGoesBack
<1>1. Init => PathInv(m)
  BY InitPathInv
<1>2. PathInv(m) /\ [Next]_vars => PathInv(m)'
  BY NextPathInv
<1>3. PathInv(m) /\ [Next]_vars => [ui'.at >= ui.at]_vars
  BY NextPathInv
<1> QED
  BY <1>1, <1>2, <1>3, PTL DEF Spec, ViewNeverGoesBack
-----------------------------------------------------------------------------
(* The types, with any number of managers.                                 *)

(* An answer that found the map names the version it was read from.        *)
AnswersAreVersions ==
    /\ \E S : log \in Seq(S)
    /\ pos \in [Managers -> Nat]
    /\ calls \in [Slots -> Calls]
    /\ ui \in Views
    /\ \A n \in Slots : calls[n].kind = "ok" => calls[n].at \in 1..Len(log)

TypeInv == TypeOK /\ AnswersAreVersions

LEMMA InitTypeInv == Init => TypeInv
<1> SUFFICES ASSUME Init PROVE TypeInv
  OBVIOUS
<1>1. log = <<shown[Polled]>> /\ Len(log) = 1 /\ log[1] = shown[Polled] /\ log \in Seq({shown[Polled]})
  <2> DEFINE v == shown[Polled]
  <2>1. log = <<v>>
    BY DEF Init
  <2> HIDE DEF v
  <2>2. Len(log) = 1 /\ log[1] = v /\ log \in Seq({v})
    BY <2>1
  <2> QED
    BY <2>1, <2>2 DEF v
<1>2. pos \in [Managers -> Nat] /\ \A m \in Managers : pos[m] = 1
  BY DEF Init
<1>3. calls \in [Slots -> Calls] /\ \A n \in Slots : calls[n].kind = "idle"
  BY DEF Init, Idle, Calls
<1>4. ui \in Views
  BY DEF Init, Views
<1>5. ui.at = 0 /\ ui.error = "" /\ ui.failures = 0
  <2>1. ui = [at |-> 0, error |-> "", failures |-> 0]
    BY DEF Init
  <2> QED
    BY <2>1, Zenon
<1>6. TypeOK
  <2>1. Len(log) \in 1..MaxLog
    BY <1>1, LogAssumption
  <2>2. \A m \in Managers : pos[m] \in 0..Len(log)
    BY <1>1, <1>2
  <2>3. 0 \in 0..Len(log) /\ 0 \in 0..MaxRetries
    BY <1>1, RetriesAssumption
  <2>4. ui.at \in 0..Len(log) /\ ui.failures \in 0..MaxRetries
    BY <1>5, <2>3, Zenon
  <2>5. \A n \in Slots : /\ calls[n].kind \in {"idle", "asked", "ok", "notFound", "failed"}
                         /\ calls[n].kind # "ok"
    BY <1>3
  <2>6. log[Len(log)] = shown[Polled]
    BY <1>1
  <2> QED
    BY <1>5, <2>1, <2>2, <2>4, <2>5, <2>6, Zenon DEF TypeOK
<1> QED
  BY <1>1, <1>2, <1>3, <1>4, <1>6 DEF TypeInv, AnswersAreVersions

(* A step of the store: the log keeps the versions the others refer to.    *)
LEMMA StoreStepTypes ==
    ASSUME TypeInv, StoreStep
    PROVE  TypeInv'
<1>1. PICK S : log \in Seq(S)
  BY DEF TypeInv, AnswersAreVersions
<1>2. UNCHANGED <<pos, calls, ui>> /\ Len(log) < MaxLog
  BY DEF StoreStep
<1>3. Len(log) \in Nat /\ Len(log) >= 1 /\ log[Len(log)] = shown[Polled]
  <2>1. Len(log) \in 1..MaxLog /\ log[Len(log)] = shown[Polled]
    BY DEF TypeInv, TypeOK
  <2>2. Len(log) \in Nat
    BY <1>1, LenProperties
  <2> QED
    BY <2>1, <2>2, LogAssumption
<1>4. /\ \E T : log' \in Seq(T)
      /\ Len(log') \in Len(log)..(Len(log) + 1)
      /\ \A v \in 1..Len(log) : log'[v] = log[v]
      /\ log'[Len(log')] = shown'[Polled]
  <2>1. CASE shown'[Polled] = shown[Polled]
    <3>1. log' = log
      BY <2>1 DEF StoreStep
    <3> QED
      BY <1>1, <1>3, <2>1, <3>1
  <2>2. CASE shown'[Polled] # shown[Polled]
    <3> DEFINE v == shown'[Polled]
               T == S \cup {v}
    <3>1. log' = Append(log, v)
      BY <2>2 DEF StoreStep
    <3>2. log \in Seq(T) /\ v \in T
      BY <1>1, SeqDef
    <3> HIDE DEF v, T
    <3>3. /\ log' \in Seq(T)
          /\ Len(log') = Len(log) + 1
          /\ \A k \in 1..Len(log) : log'[k] = log[k]
          /\ log'[Len(log) + 1] = v
      BY <3>1, <3>2, AppendProperties
    <3> QED
      BY <1>3, <3>3 DEF v
  <2> QED
    BY <2>1, <2>2
<1>5. Len(log') \in Nat /\ Len(log) <= Len(log') /\ Len(log') <= MaxLog
  BY <1>2, <1>3, <1>4, LogAssumption
<1>6. \A m \in Managers : pos'[m] \in 0..Len(log')
  <2>1. \A m \in Managers : pos[m] \in 0..Len(log)
    BY DEF TypeInv, TypeOK
  <2> QED
    BY <1>2, <1>3, <1>5, <2>1
<1>7. \A n \in Slots : calls'[n].kind = "ok" => calls'[n].at \in 1..Len(log')
                                                /\ Exists(log'[calls'[n].at])
  <2> SUFFICES ASSUME NEW n \in Slots, calls[n].kind = "ok"
               PROVE  calls[n].at \in 1..Len(log') /\ Exists(log'[calls[n].at])
    BY <1>2
  <2>1. calls[n].at \in 1..Len(log) /\ Exists(log[calls[n].at])
    BY DEF TypeInv, TypeOK, AnswersAreVersions
  <2>2. log'[calls[n].at] = log[calls[n].at]
    BY <1>4, <2>1
  <2> QED
    BY <1>3, <1>5, <2>1, <2>2
<1>8. ui'.at \in 0..Len(log')
  <2>1. ui.at \in 0..Len(log)
    BY DEF TypeInv, TypeOK
  <2> QED
    BY <1>2, <1>3, <1>5, <2>1
<1>9. Len(log') \in 1..MaxLog
  BY <1>3, <1>5, LogAssumption
<1>10. TypeOK'
  BY <1>2, <1>4, <1>6, <1>7, <1>8, <1>9 DEF TypeInv, TypeOK
<1>11. AnswersAreVersions'
  BY <1>2, <1>4, <1>7 DEF TypeInv, AnswersAreVersions
<1> QED
  BY <1>10, <1>11 DEF TypeInv

(* A step that leaves the store: the cache, a fetch, or the query moves.   *)
LEMMA PathStepTypes ==
    ASSUME TypeInv, UNCHANGED <<shown, log>>,
           pos' \in [Managers -> Nat], \A m \in Managers : pos'[m] <= Len(log),
           calls' \in [Slots -> Calls],
           \A n \in Slots : calls'[n].kind = "ok" => /\ calls'[n].at \in 1..Len(log)
                                                     /\ Exists(log[calls'[n].at]),
           ui' \in Views, ui'.at <= Len(log), ui'.failures <= MaxRetries
    PROVE  TypeInv'
<1>1. Len(log) \in Nat
  BY LenProperties DEF TypeInv, AnswersAreVersions
<1>2. ui'.at \in Nat /\ ui'.failures \in Nat /\ ui'.error \in {"", "notFound", "failed"}
  BY Zenon DEF Views
<1>3. ui'.at \in 0..Len(log) /\ ui'.failures \in 0..MaxRetries
  <2>1. \A n, k \in Nat : n <= k => n \in 0..k
    OBVIOUS
  <2> QED
    BY <1>1, <1>2, <2>1, RetriesAssumption, Zenon
<1>4. \A m \in Managers : pos'[m] \in 0..Len(log)
  BY <1>1
<1>5. \A n \in Slots : calls'[n].kind \in {"idle", "asked", "ok", "notFound", "failed"}
  BY DEF Calls
<1>6. TypeOK'
  BY <1>2, <1>3, <1>4, <1>5 DEF TypeInv, TypeOK
<1>7. AnswersAreVersions'
  BY DEF TypeInv, AnswersAreVersions
<1> QED
  BY <1>6, <1>7 DEF TypeInv

LEMMA NextTypeInv == TypeInv /\ [Next]_vars => TypeInv'
<1> SUFFICES ASSUME TypeInv, [Next]_vars PROVE TypeInv'
  OBVIOUS
<1>1. /\ Len(log) \in Nat
      /\ pos \in [Managers -> Nat] /\ calls \in [Slots -> Calls] /\ ui \in Views
      /\ \A n \in Slots : calls[n].kind = "ok" => calls[n].at \in 1..Len(log)
  BY LenProperties DEF TypeInv, AnswersAreVersions
<1>2. /\ Len(log) \in 1..MaxLog
      /\ \A m \in Managers : pos[m] \in 0..Len(log)
      /\ ui.at \in 0..Len(log) /\ ui.failures \in 0..MaxRetries
      /\ \A n \in Slots : calls[n].kind = "ok" => Exists(log[calls[n].at])
  BY DEF TypeInv, TypeOK
<1>3. \A m \in Managers : pos[m] <= Len(log)
  BY <1>1, <1>2
<1>4. ui.at <= Len(log) /\ ui.failures <= MaxRetries
  <2>1. \A k \in Nat : \A n \in 0..k : n <= k
    OBVIOUS
  <2> QED
    BY <1>1, <1>2, <2>1, RetriesAssumption, Zenon
<1>5. ASSUME UNCHANGED <<shown, log, calls, ui>>,
             pos' \in [Managers -> Nat], \A m \in Managers : pos'[m] <= Len(log)
      PROVE  TypeInv'
  BY <1>1, <1>2, <1>4, <1>5, PathStepTypes
<1>6. ASSUME UNCHANGED <<shown, log, pos>>, NEW n \in Slots, NEW call \in Calls,
             calls' = [calls EXCEPT ![n] = call],
             call.kind = "ok" => call.at \in 1..Len(log) /\ Exists(log[call.at]),
             ui' \in Views, ui'.at <= Len(log), ui'.failures <= MaxRetries
      PROVE  TypeInv'
  <2>1. calls' \in [Slots -> Calls]
    BY <1>1, <1>6
  <2>2. \A x \in Slots : calls'[x].kind = "ok" => /\ calls'[x].at \in 1..Len(log)
                                                  /\ Exists(log[calls'[x].at])
    <3>1. \A x \in Slots : calls'[x] = IF x = n THEN call ELSE calls[x]
      BY <1>1, <1>6
    <3> QED
      BY <1>1, <1>2, <1>6, <3>1
  <2> QED
    BY <1>1, <1>3, <1>6, <2>1, <2>2, PathStepTypes
<1>7. /\ Idle \in Calls /\ Asked \in Calls /\ Failed \in Calls
      /\ Idle.kind # "ok" /\ Asked.kind # "ok" /\ Failed.kind # "ok"
  BY DEF Idle, Asked, Failed, Calls
<1>8. CASE StoreStep
  BY <1>8, StoreStepTypes
<1>9. CASE UNCHANGED vars
  BY <1>1, <1>3, <1>5, <1>9 DEF vars, storeVars
<1>10. ASSUME NEW m \in Managers, CatchUp(m) \/ GoDown(m) \/ ComeUp(m) PROVE TypeInv'
  <2>1. UNCHANGED <<shown, log, calls, ui>>
    BY <1>10 DEF CatchUp, GoDown, ComeUp, storeVars
  <2>2. PICK k \in Nat : k <= Len(log) /\ pos' = [pos EXCEPT ![m] = k]
    <3>1. CASE CatchUp(m)
      <4>1. pos[m] \in 1..(Len(log) - 1) /\ pos' = [pos EXCEPT ![m] = pos[m] + 1]
        BY <3>1 DEF CatchUp
      <4>2. pos[m] + 1 \in Nat /\ pos[m] + 1 <= Len(log)
        BY <1>1, <4>1
      <4> QED
        BY <4>1, <4>2
    <3>2. CASE GoDown(m)
      <4>1. 0 \in Nat /\ 0 <= Len(log)
        BY <1>1
      <4>2. pos' = [pos EXCEPT ![m] = 0]
        BY <3>2 DEF GoDown
      <4> QED
        BY <4>1, <4>2, Zenon
    <3>3. CASE ComeUp(m)
      <4>1. Len(log) \in Nat /\ Len(log) <= Len(log)
        BY <1>1
      <4>2. pos' = [pos EXCEPT ![m] = Len(log)]
        BY <3>3 DEF ComeUp
      <4> QED
        BY <4>1, <4>2, Zenon
    <3> QED
      BY <1>10, <3>1, <3>2, <3>3
  <2>3. pos' \in [Managers -> Nat] /\ \A x \in Managers : pos'[x] <= Len(log)
    BY <1>1, <1>3, <2>2
  <2> QED
    BY <1>5, <2>1, <2>3
<1>11. ASSUME NEW m \in Managers, NEW n \in Slots, getPlatformMap(m, n) PROVE TypeInv'
  <2> DEFINE answer == [kind |-> clientKind(readStatus(log[pos[m]])), at |-> pos[m]]
             error == [kind |-> clientKind(errorStatus(FALSE)), at |-> 0]
  <2>1. UNCHANGED <<shown, log, pos, ui>> /\ pos[m] # 0
    BY <1>11 DEF getPlatformMap, storeVars
  <2>2. answer \in Calls /\ answer.at = pos[m] /\ (answer.kind = "ok" => Exists(log[pos[m]]))
    <3>1. clientKind(readStatus(log[pos[m]])) \in {"ok", "notFound"}
      BY DEF clientKind, readStatus, errorStatus
    <3>2. clientKind(readStatus(log[pos[m]])) = "ok" => Exists(log[pos[m]])
      BY DEF clientKind, readStatus, errorStatus
    <3> QED
      BY <1>1, <3>1, <3>2 DEF Calls
  <2>3. error \in Calls /\ error.kind # "ok"
    BY DEF clientKind, errorStatus, Calls
  <2>4. pos[m] \in 1..Len(log)
    BY <1>1, <1>3, <2>1
  <2>5. \/ calls' = [calls EXCEPT ![n] = answer]
        \/ calls' = [calls EXCEPT ![n] = error]
    BY <1>11 DEF getPlatformMap
  <2> HIDE DEF answer, error
  <2> QED
    BY <1>1, <1>4, <1>6, <2>1, <2>2, <2>3, <2>4, <2>5
<1>12. ASSUME NEW n \in Slots, Unreachable(n) PROVE TypeInv'
  BY <1>1, <1>4, <1>6, <1>7, <1>12 DEF Unreachable, storeVars
<1>13. CASE Poll
  <2>1. UNCHANGED <<shown, log, pos>> /\ calls' = [calls EXCEPT ![1] = Asked] /\ 1 \in Slots
    BY <1>13 DEF Poll, storeVars, Slots
  <2>2. ui' \in Views /\ ui'.at = ui.at /\ ui'.failures = ui.failures
    BY <1>1, <1>13 DEF Poll, Views
  <2> QED
    BY <1>4, <1>6, <1>7, <2>1, <2>2
<1>14. ASSUME NEW n \in Slots, Succeed(n) PROVE TypeInv'
  <2>1. UNCHANGED <<shown, log, pos>> /\ calls' = [calls EXCEPT ![n] = Idle]
    BY <1>14 DEF Succeed, storeVars
  <2>2. ui' = [at |-> calls[n].at, error |-> "", failures |-> 0] /\ calls[n].kind = "ok"
    BY <1>14 DEF Succeed
  <2>3. calls[n].at \in Nat /\ calls[n].at <= Len(log)
    <3>1. calls[n].at \in 1..Len(log)
      BY <1>1, <2>2
    <3>2. \A k \in 1..Len(log) : k \in Nat /\ k <= Len(log)
      BY <1>1
    <3> QED
      BY <3>1, <3>2, Zenon
  <2>4. ui' \in Views /\ ui'.at = calls[n].at /\ ui'.failures = 0
    BY <2>2, <2>3 DEF Views
  <2>5. 0 <= MaxRetries
    BY RetriesAssumption
  <2>6. ui'.at <= Len(log) /\ ui'.failures <= MaxRetries
    BY <2>3, <2>4, <2>5, Zenon
  <2> QED
    BY <1>6, <1>7, <2>1, <2>4, <2>6, Zenon
<1>15. ASSUME NEW n \in Slots, Retry(n) PROVE TypeInv'
  <2>1. /\ UNCHANGED <<shown, log, pos>> /\ calls' = [calls EXCEPT ![n] = Asked]
        /\ ui' = [ui EXCEPT !.failures = ui.failures + 1] /\ ui.failures < MaxRetries
    BY <1>15 DEF Retry, storeVars
  <2>2. ui.failures \in Nat
    BY <1>1, Zenon DEF Views
  <2>3. ui.failures + 1 \in Nat /\ ui.failures + 1 <= MaxRetries
    BY <2>1, <2>2, RetriesAssumption
  <2>4. ui' \in Views /\ ui'.at = ui.at /\ ui'.failures = ui.failures + 1
    BY <1>1, <2>1, <2>3 DEF Views
  <2> QED
    BY <1>4, <1>6, <1>7, <2>1, <2>3, <2>4
<1>16. ASSUME NEW n \in Slots, GiveUp(n) PROVE TypeInv'
  <2>1. /\ UNCHANGED <<shown, log, pos>> /\ calls' = [calls EXCEPT ![n] = Idle]
        /\ ui' = [ui EXCEPT !.error = calls[n].kind, !.failures = 0]
        /\ calls[n].kind \in {"notFound", "failed"}
    BY <1>16 DEF GiveUp, storeVars
  <2>2. ui' \in Views /\ ui'.at = ui.at /\ ui'.failures = 0
    BY <1>1, <2>1 DEF Views
  <2>3. 0 <= MaxRetries
    BY RetriesAssumption
  <2>4. ui'.at <= Len(log) /\ ui'.failures <= MaxRetries
    BY <1>4, <2>2, <2>3, Zenon
  <2> QED
    BY <1>6, <1>7, <2>1, <2>2, <2>4, Zenon
<1> QED
  BY <1>8, <1>9, <1>10, <1>11, <1>12, <1>13, <1>14, <1>15, <1>16 DEF Next, Manager, Dashboard

(* The types of the composition's state, with any number of managers: what *)
(* is shown and what a manager has are versions the store had, and an      *)
(* answer that found the map was read from one that has it.                *)
THEOREM PathTypes == Spec => []TypeOK
<1>1. TypeInv => TypeOK
  BY DEF TypeInv
<1> QED
  BY <1>1, InitTypeInv, NextTypeInv, PTL DEF Spec
=============================================================================
