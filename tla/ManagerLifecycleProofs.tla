----------------------- MODULE ManagerLifecycleProofs -----------------------
(***************************************************************************)
(* Proofs, for any number of clients, that the shutdown is graceful, that  *)
(* the state has its types, and that the exit code tells a failure.        *)
(***************************************************************************)
EXTENDS ManagerLifecycle, TLAPS

(* When Shutdown has returned no connection is open and none can be        *)
(* opened, and Start fails only with its listener.                         *)
GraceInv ==
    /\ DOMAIN request = Clients
    /\ proc = "starting" => \A c \in Clients : request[c] = "none"
    /\ start \in {"shutdown", "returned"} => listener # "serving"
    /\ start = "returned" => \A c \in Clients : request[c] # "open"
    /\ start = "failed" => listener = "failed"
    /\ ShutdownIsGraceful

LEMMA InitGraceInv == Init => GraceInv
BY DEF Init, GraceInv, ShutdownIsGraceful

(* An exit that either is a cut or finds no connection open.               *)
LEMMA ExitKeeps ==
    ASSUME GraceInv, NEW exitCode, Exits(exitCode), UNCHANGED <<start, listener>>,
           cut => cut',
           cut' \/ listener = "failed" \/ \A c \in Clients : request[c] # "open"
    PROVE  GraceInv'
<1>1. proc' = "exited"
  BY DEF Exits
<1>2. request' = [c \in Clients |-> IF request[c] = "open" THEN "dropped" ELSE request[c]]
  BY DEF Exits
<1>3. DOMAIN request' = Clients /\ \A c \in Clients : request'[c] # "open"
  BY <1>2
<1>4. ShutdownIsGraceful'
  <2> SUFFICES ASSUME NEW c \in Clients, request'[c] = "dropped"
               PROVE  cut' \/ listener' = "failed"
    BY DEF ShutdownIsGraceful
  <2>1. request[c] = "open" \/ request[c] = "dropped"
    BY <1>2
  <2> QED
    BY <2>1 DEF GraceInv, ShutdownIsGraceful
<1> QED
  BY <1>1, <1>3, <1>4 DEF GraceInv

LEMMA NextGraceInv == GraceInv /\ [Next]_vars => GraceInv'
<1> SUFFICES ASSUME GraceInv, [Next]_vars PROVE GraceInv'
  OBVIOUS
<1> USE DEF Alive
<1>1. CASE StartUpFails
  <2>1. Exits(1) /\ UNCHANGED <<cut, start, listener>> /\ proc = "starting"
    BY <1>1 DEF StartUpFails
  <2> QED
    BY <2>1, ExitKeeps DEF GraceInv
<1>2. CASE StartManager
  BY <1>2 DEF StartManager, GraceInv, ShutdownIsGraceful
<1>3. CASE Signal
  <2>1. CASE signalled
    <3>1. Exits(1) /\ cut' = TRUE /\ UNCHANGED <<start, listener>>
      BY <1>3, <2>1 DEF Signal
    <3> QED
      BY <3>1, ExitKeeps
  <2>2. CASE ~signalled
    BY <1>3, <2>2 DEF Signal, GraceInv, ShutdownIsGraceful
  <2> QED
    BY <2>1, <2>2
<1>4. CASE ListenerFails
  BY <1>4 DEF ListenerFails, GraceInv, ShutdownIsGraceful
<1>5. CASE Server
  <2>1. CASE Listening
    BY <2>1 DEF Listening, GraceInv, ShutdownIsGraceful
  <2>2. CASE SelectDone
    BY <2>2 DEF SelectDone, GraceInv, ShutdownIsGraceful
  <2>3. CASE SelectErr
    BY <2>3 DEF SelectErr, GraceInv, ShutdownIsGraceful
  <2>4. CASE ShutdownReturns
    BY <2>4 DEF ShutdownReturns, GraceInv, ShutdownIsGraceful
  <2> QED
    BY <1>5, <2>1, <2>2, <2>3, <2>4 DEF Server
<1>6. CASE Runtime
  <2>1. CASE StopOnSignal \/ RunnableFailed
    BY <2>1 DEF StopOnSignal, RunnableFailed, GraceInv, ShutdownIsGraceful
  <2>2. CASE AllStopped
    <3>1. PICK exitCode : Exits(exitCode)
      BY <2>2 DEF AllStopped
    <3>2. UNCHANGED <<cut, start, listener>> /\ start \in {"returned", "failed"}
      BY <2>2 DEF AllStopped
    <3> QED
      BY <3>1, <3>2, ExitKeeps DEF GraceInv
  <2>3. CASE GraceEnds
    <3>1. Exits(1) /\ cut' = TRUE /\ UNCHANGED <<start, listener>>
      BY <2>3 DEF GraceEnds
    <3> QED
      BY <3>1, ExitKeeps
  <2> QED
    BY <1>6, <2>1, <2>2, <2>3 DEF Runtime
<1>7. CASE Work
  BY <1>7 DEF Work, GraceInv, ShutdownIsGraceful
<1>8. ASSUME NEW c \in Clients, Arrive(c) \/ Answer(c) PROVE GraceInv'
  <2>1. CASE Arrive(c)
    BY <2>1 DEF Arrive, GraceInv, ShutdownIsGraceful
  <2>2. CASE Answer(c)
    BY <2>2 DEF Answer, GraceInv, ShutdownIsGraceful
  <2> QED
    BY <1>8, <2>1, <2>2
<1>9. CASE UNCHANGED vars
  BY <1>9 DEF vars, GraceInv, ShutdownIsGraceful
<1> QED
  BY <1>1, <1>2, <1>3, <1>4, <1>5, <1>6, <1>7, <1>8, <1>9 DEF Next

(* No accepted request is dropped by the end of a process, whatever the    *)
(* order of signal, listener, requests and worker, unless it was cut short *)
(* or its listener had failed (server.go:47-67).                           *)
THEOREM Graceful == Spec => []ShutdownIsGraceful
<1>1. GraceInv => ShutdownIsGraceful
  BY DEF GraceInv
<1> QED
  BY <1>1, InitGraceInv, NextGraceInv, PTL DEF Spec
-----------------------------------------------------------------------------
(* What the process leaves behind.                                         *)

(* Manager.Start ends for a signal or with an error.                       *)
EndHasReason == proc \in {"stopping", "exited"} /\ ~signalled => code = 1

Outcomes == {"none", "open", "answered", "dropped", "refused"}

LEMMA ExitTypes ==
    ASSUME TypeOK, NEW exitCode \in {0, 1}, Exits(exitCode),
           UNCHANGED <<start, listener, worker>>, ~signalled' => exitCode = 1
    PROVE  TypeOK' /\ EndHasReason'
<1>1. proc' = "exited" /\ code' = exitCode
  BY DEF Exits
<1>2. request' \in [Clients -> Outcomes]
  BY DEF Exits, TypeOK, Outcomes
<1> QED
  BY <1>1, <1>2 DEF TypeOK, EndHasReason, Outcomes

(* A step that is not the end.                                             *)
LEMMA StepTypes ==
    ASSUME TypeOK, proc # "exited", EndHasReason,
           proc' \in {"starting", "running", "stopping"},
           \/ UNCHANGED <<proc, code>> /\ (signalled => signalled')
           \/ UNCHANGED code /\ proc = "starting" /\ proc' = "running"
           \/ UNCHANGED code /\ signalled' /\ proc = "running" /\ proc' = "stopping"
           \/ code' = 1 /\ proc' = "stopping",
           start' \in {"", "select", "shutdown", "returned", "failed"},
           listener' \in {"", "spawned", "serving", "ended", "failed"},
           worker' \in {"idle", "busy"},
           start' = "" <=> listener' = "",
           request' \in [Clients -> Outcomes]
    PROVE  TypeOK' /\ EndHasReason'
BY DEF TypeOK, EndHasReason, Outcomes

LEMMA NextTypes == TypeOK /\ EndHasReason /\ [Next]_vars => TypeOK' /\ EndHasReason'
<1> SUFFICES ASSUME TypeOK, EndHasReason, [Next]_vars PROVE TypeOK' /\ EndHasReason'
  OBVIOUS
<1> USE DEF Alive
<1>1. CASE StartUpFails
  BY <1>1, ExitTypes DEF StartUpFails
<1>2. CASE StartManager
  BY <1>2, StepTypes DEF StartManager, TypeOK, Outcomes
<1>3. CASE Signal
  <2>1. CASE signalled
    BY <1>3, <2>1, ExitTypes DEF Signal
  <2>2. CASE ~signalled
    BY <1>3, <2>2, StepTypes DEF Signal, TypeOK, Outcomes
  <2> QED
    BY <2>1, <2>2
<1>4. CASE ListenerFails
  BY <1>4, StepTypes DEF ListenerFails, TypeOK, Outcomes
<1>5. CASE Listening
  BY <1>5, StepTypes DEF Listening, TypeOK, Outcomes
<1>6. CASE SelectDone
  BY <1>6, StepTypes DEF SelectDone, TypeOK, Outcomes
<1>7. CASE SelectErr
  BY <1>7, StepTypes DEF SelectErr, TypeOK, Outcomes
<1>8. CASE ShutdownReturns
  BY <1>8, StepTypes DEF ShutdownReturns, TypeOK, Outcomes
<1>9. CASE RunnableFailed
  BY <1>9, StepTypes DEF RunnableFailed, TypeOK, Outcomes
<1>10. CASE AllStopped
  <2>1. Exits(code) /\ UNCHANGED <<signalled, start, listener, worker>> /\ proc = "stopping"
    BY <1>10 DEF AllStopped
  <2>2. code \in {0, 1} /\ (~signalled' => code = 1)
    BY <2>1 DEF TypeOK, EndHasReason
  <2> QED
    BY <2>1, <2>2, ExitTypes
<1>11. CASE GraceEnds
  BY <1>11, ExitTypes DEF GraceEnds
<1>12. CASE Work
  BY <1>12, StepTypes DEF Work, TypeOK, Outcomes
<1>13. ASSUME NEW c \in Clients, Arrive(c) \/ Answer(c) PROVE TypeOK' /\ EndHasReason'
  <2>1. request' \in [Clients -> Outcomes]
    BY <1>13 DEF Arrive, Answer, TypeOK, Outcomes
  <2>2. UNCHANGED <<proc, code, signalled, start, listener, worker>>
    BY <1>13 DEF Arrive, Answer
  <2>3. proc \in {"running", "stopping"}
    BY <1>13 DEF Arrive, Answer
  <2>4. /\ start \in {"", "select", "shutdown", "returned", "failed"}
        /\ listener \in {"", "spawned", "serving", "ended", "failed"}
        /\ worker \in {"idle", "busy"}
        /\ start = "" <=> listener = ""
    BY DEF TypeOK
  <2> QED
    BY <2>1, <2>2, <2>3, <2>4, StepTypes
<1>14. CASE StopOnSignal
  BY <1>14, StepTypes DEF StopOnSignal, TypeOK, Outcomes
<1>15. CASE UNCHANGED vars
  BY <1>15 DEF vars, TypeOK, EndHasReason
<1> QED
  BY <1>1, <1>2, <1>3, <1>4, <1>5, <1>6, <1>7, <1>8, <1>9, <1>10, <1>11, <1>12, <1>13, <1>14, <1>15
     DEF Next, Server, Runtime

LEMMA InitTypes == Init => TypeOK /\ EndHasReason
<1> SUFFICES ASSUME Init PROVE TypeOK /\ EndHasReason
  OBVIOUS
<1>1. request \in [Clients -> Outcomes]
  BY DEF Init, Outcomes
<1>2. proc = "starting" /\ code = 0 /\ start = "" /\ listener = "" /\ worker = "idle"
  BY DEF Init
<1>3. code \in {0, 1} /\ code # 1
  <2>1. code = 0
    BY DEF Init
  <2> QED
    BY <2>1
<1> QED
  BY <1>1, <1>2, <1>3 DEF TypeOK, EndHasReason, Outcomes

(* Only a process that ends has an error, and Start waits for no           *)
(* goroutine that was not started (server.go:47-67).                       *)
THEOREM ProcessTypes == Spec => []TypeOK
BY InitTypes, NextTypes, PTL DEF Spec

(* A process that nobody told to end has the error that has it restarted   *)
(* (server.go:60-64, main.go:143-146).                                     *)
THEOREM FailureIsTold == Spec => []ExitTellsFailure
<1>1. EndHasReason => ExitTellsFailure
  BY DEF EndHasReason, ExitTellsFailure
<1> QED
  BY <1>1, InitTypes, NextTypes, PTL DEF Spec
=============================================================================
