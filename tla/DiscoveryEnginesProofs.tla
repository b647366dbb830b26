----------------------- MODULE DiscoveryEnginesProofs -----------------------
(***************************************************************************)
(* Proofs about a pass, for any set of engines, any cluster and any number *)
(* of changes and faults: a source is reported as failed only for a        *)
(* trouble of its own, one that is reported as detected is shown whole,    *)
(* and what is shown fits together.                                        *)
(***************************************************************************)
EXTENDS DiscoveryEngines, DiscoveryNodesProofs, TLAPS

(* The error of an engine has a cause at that engine.                      *)
Excused(e) ==
    \/ err[e] = ""
    \/ e \in troubled
    \/ err[e] = "misconfigured"
    \/ err[e] = "CRD not installed" /\ e \notin installed

(* A context is done only for its own timeout; a published pass is over,   *)
(* and its conditions are the engines' errors.                             *)
CauseInv ==
    /\ DOMAIN err = Engines
    /\ expired \subseteq troubled
    /\ \A e \in Engines : Excused(e)
    /\ status # Nothing =>
          \A e \in Engines : Ended(e) /\ status.detected[e] = (err[e] = "")

LEMMA InitCauseInv == Init => CauseInv
BY DEF Init, CauseInv, Excused

(* A step that ends or fails one engine, for a cause of that engine.       *)
LEMMA ReturnsExcused ==
    ASSUME CauseInv, NEW e \in Engines, status = Nothing, status' = status,
           DOMAIN err' = Engines,
           \A x \in Engines \ {e} : err'[x] = err[x],
           troubled \subseteq troubled', expired' \subseteq troubled',
           installed' = installed, Excused(e)'
    PROVE  CauseInv'
<1>1. ASSUME NEW x \in Engines PROVE Excused(x)'
  <2>1. CASE x = e
    BY <2>1
  <2>2. CASE x # e
    BY <2>2 DEF CauseInv, Excused
  <2> QED
    BY <2>1, <2>2
<1>2. status' = Nothing'
  BY DEF Nothing
<1> QED
  BY <1>1, <1>2 DEF CauseInv

LEMMA ReturnsOne ==
    ASSUME DOMAIN err = Engines, NEW e \in Engines, NEW why, Returns(e, why)
    PROVE  /\ DOMAIN err' = Engines
           /\ \A x \in Engines \ {e} : err'[x] = err[x]
           /\ err'[e] = IF err[e] = "" THEN why ELSE err[e]
           /\ expired' = expired
BY DEF Returns

LEMMA CallFailsOne ==
    ASSUME DOMAIN err = Engines, NEW e \in Engines, CallFails(e)
    PROVE  /\ DOMAIN err' = Engines
           /\ \A x \in Engines \ {e} : err'[x] = err[x]
           /\ expired' = expired
<1>1. CASE e = "Prometheus"
  BY <1>1 DEF CallFails
<1>2. CASE e # "Prometheus"
  BY <1>2, ReturnsOne DEF CallFails
<1> QED
  BY <1>1, <1>2

LEMMA EngineStepCause ==
    ASSUME CauseInv, NEW e \in Engines, EngineStep(e)
    PROVE  CauseInv'
<1>1. ~Ended(e)
  BY DEF EngineStep, Skip, Refuse, Present, NotPresent, NoToken, CallBreaks, CallTimesOut,
         CallFails, Expire, Answered, Calling
<1>2. status = Nothing
  BY <1>1 DEF CauseInv
<1>3. DOMAIN err = Engines /\ expired \subseteq troubled /\ Excused(e)
  BY DEF CauseInv
<1>4. CASE Skip(e)
  <2>1. Returns(e, "") /\ UNCHANGED <<installed, troubled, status>>
    BY <1>4 DEF Skip
  <2> QED
    BY <1>2, <1>3, <2>1, ReturnsOne, ReturnsExcused DEF Excused
<1>5. CASE Refuse(e) \/ NoToken(e)
  <2>1. Returns(e, "misconfigured") /\ UNCHANGED <<installed, troubled, status>>
    BY <1>5 DEF Refuse, NoToken
  <2> QED
    BY <1>2, <1>3, <2>1, ReturnsOne, ReturnsExcused DEF Excused
<1>6. CASE NotPresent(e)
  <2>1. /\ Returns(e, "CRD not installed") /\ UNCHANGED <<installed, status>>
        /\ troubled \subseteq troubled' /\ (e \notin installed \/ e \in troubled')
    BY <1>6 DEF NotPresent
  <2> QED
    BY <1>2, <1>3, <2>1, ReturnsOne, ReturnsExcused DEF Excused
<1>7. CASE CallBreaks(e) \/ CallTimesOut(e)
  <2>1. /\ CallFails(e) /\ UNCHANGED <<installed, status>>
        /\ troubled \subseteq troubled' /\ e \in troubled'
    BY <1>3, <1>7 DEF CallBreaks, CallTimesOut
  <2> QED
    BY <1>2, <1>3, <2>1, CallFailsOne, ReturnsExcused DEF Excused
<1>8. CASE Expire(e)
  <2>1. /\ UNCHANGED <<installed, err, status>>
        /\ expired' = expired \cup {e} /\ troubled' = troubled \cup {e}
    BY <1>8 DEF Expire
  <2> QED
    BY <1>2, <1>3, <2>1, ReturnsExcused DEF Excused
<1>9. CASE Present(e) \/ \E call \in Kinds : Answered(e, call)
  <2>1. UNCHANGED <<installed, err, status, expired, troubled>>
    BY <1>9 DEF Present, Answered
  <2> QED
    BY <1>2, <1>3, <2>1, ReturnsExcused DEF Excused
<1> QED
  BY <1>4, <1>5, <1>6, <1>7, <1>8, <1>9 DEF EngineStep

LEMMA NextCauseInv == CauseInv /\ [Next]_vars => CauseInv'
<1> SUFFICES ASSUME CauseInv, [Next]_vars PROVE CauseInv'
  OBVIOUS
<1>1. CASE \E e \in Engines : EngineStep(e)
  BY <1>1, EngineStepCause
<1>2. CASE \E wf \in {x.id : x \in Got(read, "workflows")} : LatestRun(wf)
  <2>1. /\ "GitHub" \in Engines /\ ~Ended("GitHub") /\ UNCHANGED <<installed, err, expired, status>>
        /\ troubled \subseteq troubled'
    BY <1>2 DEF LatestRun
  <2>2. status = Nothing
    BY <2>1 DEF CauseInv
  <2>3. DOMAIN err' = Engines /\ expired' \subseteq troubled' /\ Excused("GitHub")'
    BY <2>1 DEF CauseInv, Excused
  <2> QED
    BY <2>1, <2>2, <2>3, ReturnsExcused
<1>3. CASE WorldChanges
  <2>1. status = Nothing /\ status' = Nothing' /\ UNCHANGED <<installed, troubled, err, expired>>
    BY <1>3 DEF WorldChanges, engineVars, Nothing
  <2> QED
    BY <2>1 DEF CauseInv, Excused
<1>4. CASE Finish
  <2>1. /\ UNCHANGED <<installed, troubled, at, read, asked, err, stopped, expired>>
        /\ \A e \in Engines : Ended(e)
        /\ status'.detected = Conditions
    BY <1>4 DEF Finish, Result, engineVars
  <2>2. \A e \in Engines : status'.detected[e] = (err[e] = "")
    BY <2>1 DEF Conditions
  <2>3. \A e \in Engines : Ended(e)'
    BY <2>1 DEF Ended, Unasked, Got
  <2> QED
    BY <2>1, <2>2, <2>3 DEF CauseInv, Excused
<1>5. CASE UNCHANGED vars
  BY <1>5 DEF vars, CauseInv, Excused, Ended, Unasked, Got, Nothing
<1> QED
  BY <1>1, <1>2, <1>3, <1>4, <1>5 DEF Next

(* Whatever the engines, the cluster and the faults, an engine's failure   *)
(* never becomes another source's (platformmap_controller.go:114-134).     *)
THEOREM FailuresStayLocal == Spec => []FailureStaysLocal
<1>1. CauseInv => FailureStaysLocal
  <2> SUFFICES ASSUME CauseInv, status # Nothing, NEW e \in Engines, ~status.detected[e]
               PROVE  \/ e \in troubled
                      \/ err[e] = "misconfigured"
                      \/ err[e] = "CRD not installed" /\ e \notin installed
    BY DEF FailureStaysLocal
  <2>1. err[e] # ""
    BY DEF CauseInv
  <2> QED
    BY <2>1 DEF CauseInv, Excused
<1> QED
  BY <1>1, InitCauseInv, NextCauseInv, PTL DEF Spec
-----------------------------------------------------------------------------
(* The pass step by step: what was read is whole.                          *)

(* The calls of an engine are a list, and the latest runs are not in it.   *)
LEMMA CallsAre ==
    ASSUME NEW e \in Engines
    PROVE  /\ Len(Calls[e]) \in Nat
           /\ DOMAIN Calls[e] = 1..Len(Calls[e])
           /\ \A n \in DOMAIN Calls[e] : Calls[e][n] # "runs"
<1>1. e \in {"K8s", "ArgoCD", "Istio", "Kyverno", "GitHub", "Prometheus"}
  BY EnginesAssumption DEF Calls
<1>2. CASE e = "K8s"
  BY <1>2 DEF Calls
<1>3. CASE e = "ArgoCD"
  BY <1>3 DEF Calls
<1>4. CASE e = "Istio"
  BY <1>4 DEF Calls
<1>5. CASE e = "Kyverno"
  BY <1>5 DEF Calls
<1>6. CASE e = "GitHub"
  BY <1>6 DEF Calls
<1>7. CASE e = "Prometheus"
  BY <1>7 DEF Calls, Queries
<1> QED BY <1>1, <1>2, <1>3, <1>4, <1>5, <1>6, <1>7

(* A call is made by one engine, at one place.                             *)
Place(call) ==
    CASE call = "deployments"          -> <<"K8s", 1>>
      [] call = "services"             -> <<"K8s", 2>>
      [] call = "applications"         -> <<"ArgoCD", 2>>
      [] call = "virtualservices"      -> <<"Istio", 2>>
      [] call = "destinationrules"     -> <<"Istio", 3>>
      [] call = "policyreports"        -> <<"Kyverno", 2>>
      [] call = "clusterpolicyreports" -> <<"Kyverno", 3>>
      [] call = "secret"               -> <<"GitHub", 1>>
      [] call = "workflows"            -> <<"GitHub", 2>>
      [] call = "errorRatePct"         -> <<"Prometheus", 1>>
      [] call = "latencyP99Ms"         -> <<"Prometheus", 2>>
      [] call = "cpuUsageM"            -> <<"Prometheus", 3>>
      [] OTHER                         -> <<"Prometheus", 4>>

LEMMA CallsApart ==
    ASSUME NEW e \in Engines, NEW n \in DOMAIN Calls[e], NEW x \in Engines, NEW m \in DOMAIN Calls[x],
           Calls[e][n] # "presence", Calls[e][n] = Calls[x][m]
    PROVE  e = x /\ n = m
<1>1. ASSUME NEW y \in Engines, NEW k \in DOMAIN Calls[y], Calls[y][k] # "presence"
      PROVE  Place(Calls[y][k]) = <<y, k>>
  <2>1. y \in {"K8s", "ArgoCD", "Istio", "Kyverno", "GitHub", "Prometheus"}
    BY EnginesAssumption DEF Calls
  <2>2. CASE y = "K8s"
    BY <1>1, <2>2 DEF Calls, Place
  <2>3. CASE y = "ArgoCD"
    BY <1>1, <2>3 DEF Calls, Place
  <2>4. CASE y = "Istio"
    BY <1>1, <2>4 DEF Calls, Place
  <2>5. CASE y = "Kyverno"
    BY <1>1, <2>5 DEF Calls, Place
  <2>6. CASE y = "GitHub"
    BY <1>1, <2>6 DEF Calls, Place
  <2>7. CASE y = "Prometheus"
    BY <1>1, <2>7 DEF Calls, Queries, Place
  <2> QED BY <2>1, <2>2, <2>3, <2>4, <2>5, <2>6, <2>7
<1>2. <<e, n>> = <<x, m>>
  BY <1>1
<1> QED BY <1>2

(* The state that no step of an engine changes.                            *)
Surroundings == <<spec, installed, world, stable, changes, status>>

(* What a step of an engine changes.                                       *)
Ends(e, why) ==
    /\ Returns(e, why)
    /\ \/ why \in {"failed", "misconfigured", "CRD not installed"}
       \/ why = "" /\ SwitchedOff(e)
    /\ why # "" => ~Proceeds(e) \/ at[e] <= Len(Calls[e])
    /\ UNCHANGED <<at, read, asked>>

Advances(e) ==
    /\ at[e] <= Len(Calls[e])
    /\ at' = [at EXCEPT ![e] = @ + 1]
    /\ UNCHANGED <<asked, stopped, expired>>

GoesOn(e) ==
    /\ Advances(e)
    /\ UNCHANGED read
    /\ \/ err' = [err EXCEPT ![e] = "failed"] /\ e = "Prometheus"
       \/ UNCHANGED err /\ Calls[e][at[e]] = "presence"

GetsAnswer(e, call) ==
    /\ Advances(e)
    /\ Calls[e][at[e]] = call
    /\ \E answer \in Answers(call) :
          read' = [c \in DOMAIN read \cup {call} |-> IF c = call THEN answer ELSE read[c]]
    /\ UNCHANGED err

RunsOut(e) ==
    /\ expired' = expired \cup {e}
    /\ UNCHANGED <<at, read, asked, err, stopped>>

LEMMA EngineStepIs ==
    ASSUME NEW e \in Engines, EngineStep(e)
    PROVE  /\ ~Ended(e)
           /\ UNCHANGED Surroundings
           /\ troubled' \in {troubled, troubled \cup {e}}
           /\ \/ \E why : Ends(e, why)
              \/ GoesOn(e)
              \/ \E call \in Kinds : GetsAnswer(e, call)
              \/ RunsOut(e)
<1>1. CASE Skip(e)
  <2>1. Ends(e, "") /\ UNCHANGED <<Surroundings, troubled>> /\ ~Ended(e)
    BY <1>1 DEF Skip, Ends, Surroundings
  <2> QED BY <2>1 DEF Surroundings
<1>2. CASE Refuse(e) \/ NoToken(e)
  <2>1. Ends(e, "misconfigured") /\ UNCHANGED <<Surroundings, troubled>> /\ ~Ended(e)
    BY <1>2 DEF Refuse, NoToken, Calling, Ends, Surroundings, Proceeds
  <2> QED BY <2>1 DEF Surroundings
<1>3. CASE NotPresent(e)
  <2>1. Ends(e, "CRD not installed") /\ UNCHANGED Surroundings /\ ~Ended(e)
    BY <1>3 DEF NotPresent, Calling, Ends, Surroundings
  <2>2. troubled' \in {troubled, troubled \cup {e}}
    BY <1>3 DEF NotPresent
  <2> QED BY <2>1, <2>2
<1>4. CASE CallBreaks(e) \/ CallTimesOut(e)
  <2>1. CallFails(e) /\ UNCHANGED <<Surroundings, read, asked>>
        /\ troubled' \in {troubled, troubled \cup {e}}
    BY <1>4 DEF CallBreaks, CallTimesOut, Surroundings
  <2>2. CASE e = "Prometheus"
    <3>1. GoesOn(e) /\ ~Ended(e)
      BY <2>1, <2>2 DEF CallFails, GoesOn, Advances
    <3> QED BY <2>1, <3>1 DEF Surroundings
  <2>3. CASE e # "Prometheus"
    <3>1. Ends(e, "failed") /\ ~Ended(e)
      BY <2>1, <2>3 DEF CallFails, Ends
    <3> QED BY <2>1, <3>1 DEF Surroundings
  <2> QED BY <2>2, <2>3
<1>5. CASE Present(e)
  <2>1. GoesOn(e) /\ UNCHANGED <<Surroundings, troubled>> /\ ~Ended(e)
    BY <1>5 DEF Present, Calling, GoesOn, Advances, Surroundings
  <2> QED BY <2>1 DEF Surroundings
<1>6. ASSUME NEW call \in Kinds, Answered(e, call)
      PROVE  GetsAnswer(e, call) /\ UNCHANGED <<Surroundings, troubled>> /\ ~Ended(e)
  BY <1>6 DEF Answered, Calling, GetsAnswer, Advances, Surroundings
<1>7. CASE Expire(e)
  <2>1. RunsOut(e) /\ UNCHANGED Surroundings /\ troubled' = troubled \cup {e} /\ ~Ended(e)
    BY <1>7 DEF Expire, RunsOut, Surroundings
  <2> QED BY <2>1
<1> QED BY <1>1, <1>2, <1>3, <1>4, <1>5, <1>6, <1>7 DEF EngineStep, Surroundings

LEMMA EngineStepTypes ==
    ASSUME TypeOK, NEW e \in Engines, EngineStep(e)
    PROVE  TypeOK'
<1>1. /\ UNCHANGED <<spec, installed, world, stable, status>>
      /\ troubled' \subseteq Engines
  BY EngineStepIs DEF Surroundings, TypeOK
<1>2. CASE \E why : Ends(e, why)
  <2>1. PICK why : Ends(e, why)
    BY <1>2
  <2>2. /\ why \in {"", "failed", "misconfigured", "CRD not installed"}
        /\ err' = [err EXCEPT ![e] = IF err[e] = "" THEN why ELSE err[e]]
        /\ stopped' \subseteq Engines
        /\ UNCHANGED <<expired, at, read>>
    BY <2>1 DEF Ends, Returns, TypeOK
  <2>3. err' \in [Engines -> {"", "failed", "misconfigured", "CRD not installed"}]
    BY <2>2 DEF TypeOK
  <2> QED BY <1>1, <2>2, <2>3 DEF TypeOK
<1>3. ASSUME Advances(e)
      PROVE  DOMAIN at' = Engines /\ \A x \in Engines : at'[x] \in 1..(Len(Calls[x]) + 1)
  <2>1. at[e] \in 1..(Len(Calls[e]) + 1) /\ at[e] <= Len(Calls[e]) /\ Len(Calls[e]) \in Nat
    <3>1. Len(Calls[e]) \in Nat
      BY CallsAre
    <3> QED BY <1>3, <3>1 DEF Advances, TypeOK
  <2>2. at[e] + 1 \in 1..(Len(Calls[e]) + 1)
    BY <2>1
  <2>3. at' = [at EXCEPT ![e] = at[e] + 1]
    BY <1>3 DEF Advances
  <2> QED BY <2>2, <2>3 DEF TypeOK
<1>4. CASE GoesOn(e)
  BY <1>1, <1>3, <1>4 DEF GoesOn, Advances, TypeOK
<1>5. ASSUME NEW call \in Kinds, GetsAnswer(e, call) PROVE TypeOK'
  <2>1. PICK answer \in Answers(call) :
           read' = [c \in DOMAIN read \cup {call} |-> IF c = call THEN answer ELSE read[c]]
    BY <1>5 DEF GetsAnswer
  <2>2. answer \subseteq Things[call]
    BY DEF Answers, Visible, TypeOK
  <2>3. \A c \in DOMAIN read' : c \in Kinds /\ read'[c] \subseteq Things[c]
    BY <2>1, <2>2 DEF TypeOK
  <2> QED BY <1>1, <1>3, <1>5, <2>3 DEF GetsAnswer, Advances, TypeOK
<1>6. CASE RunsOut(e)
  BY <1>1, <1>6 DEF RunsOut, TypeOK
<1> QED BY <1>2, <1>4, <1>5, <1>6, EngineStepIs

(* The answer to the question for a workflow's latest run.                 *)
LEMMA LatestRunIs ==
    ASSUME NEW wf, LatestRun(wf)
    PROVE  /\ "GitHub" \in Engines /\ ~Ended("GitHub")
           /\ UNCHANGED <<Surroundings, at, err, stopped, expired>>
           /\ troubled' \in {troubled, troubled \cup {"GitHub"}}
           /\ \/ UNCHANGED read
              \/ read' = [c \in DOMAIN read \cup {"runs"} |->
                            IF c = "runs"
                            THEN Got(read, "runs") \cup {r \in world["runs"] : r.workflow = wf}
                            ELSE read[c]]
BY DEF LatestRun, Surroundings

LEMMA LatestRunTypes ==
    ASSUME TypeOK, NEW wf, LatestRun(wf)
    PROVE  TypeOK'
<1>1. /\ UNCHANGED <<spec, installed, world, stable, status, at, err, stopped, expired>>
      /\ troubled' \subseteq Engines
  BY LatestRunIs DEF Surroundings, TypeOK
<1>2. \A c \in DOMAIN read' : c \in Kinds /\ read'[c] \subseteq Things[c]
  <2>1. CASE UNCHANGED read
    BY <2>1 DEF TypeOK
  <2>2. CASE read' = [c \in DOMAIN read \cup {"runs"} |->
                        IF c = "runs"
                        THEN Got(read, "runs") \cup {r \in world["runs"] : r.workflow = wf}
                        ELSE read[c]]
    <3>1. "runs" \in Kinds
      BY LatestRunIs DEF Kinds
    <3>2. Got(read, "runs") \subseteq Things["runs"] /\ world["runs"] \subseteq Things["runs"]
      BY <3>1 DEF Got, TypeOK
    <3> QED BY <2>2, <3>1, <3>2 DEF TypeOK
  <2> QED BY <2>1, <2>2, LatestRunIs
<1> QED BY <1>1, <1>2 DEF TypeOK

LEMMA WorldChangesTypes ==
    ASSUME TypeOK, WorldChanges
    PROVE  TypeOK'
<1>0. PICK k \in Kinds : \E x \in Things[k] :
         world' = [world EXCEPT ![k] = IF x \in @ THEN @ \ {x}
                                       ELSE {y \in @ : ~SameObject(k, x, y)} \cup {x}]
  BY DEF WorldChanges
<1>1. PICK x \in Things[k] :
         world' = [world EXCEPT ![k] = IF x \in world[k] THEN world[k] \ {x}
                                       ELSE {y \in world[k] : ~SameObject(k, x, y)} \cup {x}]
  BY <1>0
<1>2. DOMAIN world' = Kinds /\ \A kind \in Kinds : world'[kind] \subseteq Things[kind]
  <2>1. world'[k] \subseteq Things[k]
    <3>1. world'[k] = IF x \in world[k] THEN world[k] \ {x}
                      ELSE {y \in world[k] : ~SameObject(k, x, y)} \cup {x}
      BY <1>1 DEF TypeOK
    <3> QED BY <3>1 DEF TypeOK
  <2>2. \A kind \in Kinds \ {k} : world'[kind] = world[kind]
    BY <1>1 DEF TypeOK
  <2>3. DOMAIN world' = Kinds
    BY <1>1 DEF TypeOK
  <2> QED BY <2>1, <2>2, <2>3 DEF TypeOK
<1>3. \A kind \in Kinds : stable'[kind] \subseteq world'[kind]
  BY DEF WorldChanges
<1>4. UNCHANGED <<spec, installed, troubled, at, read, err, stopped, expired, status>>
  BY DEF WorldChanges, engineVars
<1> QED BY <1>2, <1>3, <1>4 DEF TypeOK

(* Once a result is published nothing happens any more; before, only the   *)
(* last step publishes one.                                                *)
LEMMA StatusStep ==
    ASSUME PassInv, [Next]_vars
    PROVE  /\ status # Nothing => UNCHANGED vars
           /\ \/ UNCHANGED vars
              \/ Finish
              \/ status = Nothing /\ status' = Nothing
<1>1. ASSUME NEW e \in Engines, EngineStep(e) PROVE status = Nothing /\ status' = Nothing
  BY <1>1, EngineStepIs DEF Surroundings, PassInv
<1>2. ASSUME NEW wf, LatestRun(wf) PROVE status = Nothing /\ status' = Nothing
  BY <1>2, LatestRunIs DEF Surroundings, PassInv
<1>3. ASSUME WorldChanges PROVE status = Nothing /\ status' = Nothing
  BY <1>3 DEF WorldChanges
<1>4. ASSUME Finish PROVE status = Nothing
  BY <1>4 DEF Finish
<1> QED BY <1>1, <1>2, <1>3, <1>4 DEF Next

(* An answer is a part of what is there, and all of it if the list comes   *)
(* whole.                                                                  *)
LEMMA AnswersAre ==
    ASSUME TypeOK, NEW call \in Kinds, NEW answer \in Answers(call)
    PROVE  /\ answer \subseteq world[call]
           /\ ListedWhole(call) => answer = Visible(call)
<1>1. answer \subseteq Visible(call) /\ Visible(call) \subseteq world[call]
  BY DEF Answers, Visible
<1>2. ASSUME ListedWhole(call) PROVE answer = Visible(call)
  <2>1. CASE call = "workflows"
    <3>1. Visible(call) \subseteq Things[call] /\ IsFiniteSet(Things[call])
      BY <1>1, ThingsAssumption DEF TypeOK
    <3>2. IsFiniteSet(Visible(call)) /\ Cardinality(Visible(call)) <= Cardinality(Things[call])
      BY <3>1, FS_Subset
    <3>3. Cardinality(Visible(call)) \in Nat /\ Cardinality(Things[call]) \in Nat
      BY <3>1, <3>2, FS_CardinalityType
    <3>4. ~(Cardinality(Visible(call)) > PageSize)
      BY <1>2, <2>1, <3>2, <3>3, PageSizeAssumption DEF ListedWhole
    <3> QED BY <3>4 DEF Answers
  <2>2. CASE call # "workflows"
    BY <2>2 DEF Answers
  <2> QED BY <2>1, <2>2
<1> QED BY <1>1, <1>2

LEMMA EngineStepTwins ==
    ASSUME TypeOK, NoTwins, NEW e \in Engines, EngineStep(e)
    PROVE  NoTwins'
<1>1. UNCHANGED world
  BY EngineStepIs DEF Surroundings
<1>2. ASSUME UNCHANGED read PROVE NoTwins'
  BY <1>1, <1>2 DEF NoTwins, SameObject
<1>3. ASSUME NEW call \in Kinds, GetsAnswer(e, call) PROVE NoTwins'
  <2>1. PICK answer \in Answers(call) :
           read' = [c \in DOMAIN read \cup {call} |-> IF c = call THEN answer ELSE read[c]]
    BY <1>3 DEF GetsAnswer
  <2>2. answer \subseteq world[call]
    BY AnswersAre
  <2>3. \A x, y \in answer : SameObject(call, x, y) => x = y
    BY <2>2 DEF NoTwins
  <2>4. ASSUME NEW c \in DOMAIN read' \ {"runs"}, NEW x \in read'[c], NEW y \in read'[c],
               SameObject(c, x, y)
        PROVE  x = y
    <3>1. CASE c = call
      BY <2>1, <2>3, <2>4, <3>1
    <3>2. CASE c # call
      BY <2>1, <2>4, <3>2 DEF NoTwins
    <3> QED BY <3>1, <3>2
  <2>5. \A k, x, y : SameObject(k, x, y)' = SameObject(k, x, y)
    BY DEF SameObject
  <2> QED BY <1>1, <2>4, <2>5 DEF NoTwins
<1> QED BY <1>2, <1>3, EngineStepIs DEF Ends, GoesOn, RunsOut

LEMMA LatestRunTwins ==
    ASSUME NoTwins, NEW wf, LatestRun(wf)
    PROVE  NoTwins'
<1>1. UNCHANGED world
  BY LatestRunIs DEF Surroundings
<1>2. \A c \in DOMAIN read' \ {"runs"} : c \in DOMAIN read /\ read'[c] = read[c]
  BY LatestRunIs
<1> QED BY <1>1, <1>2 DEF NoTwins, SameObject

LEMMA WorldChangesTwins ==
    ASSUME TypeOK, NoTwins, WorldChanges
    PROVE  NoTwins'
<1>0. PICK k \in Kinds : \E x \in Things[k] :
         world' = [world EXCEPT ![k] = IF x \in @ THEN @ \ {x}
                                       ELSE {y \in @ : ~SameObject(k, x, y)} \cup {x}]
  BY DEF WorldChanges
<1>1. PICK z \in Things[k] :
         world' = [world EXCEPT ![k] = IF z \in world[k] THEN world[k] \ {z}
                                       ELSE {y \in world[k] : ~SameObject(k, z, y)} \cup {z}]
  BY <1>0
<1>2. \A x, y : SameObject(k, x, y) => SameObject(k, y, x)
  BY DEF SameObject
<1>3. \A x, y \in world'[k] : SameObject(k, x, y) => x = y
  <2>1. world'[k] = IF z \in world[k] THEN world[k] \ {z}
                    ELSE {y \in world[k] : ~SameObject(k, z, y)} \cup {z}
    BY <1>1 DEF TypeOK
  <2> QED BY <1>2, <2>1 DEF NoTwins
<1>4. \A kind \in Kinds \ {k} : world'[kind] = world[kind]
  BY <1>1 DEF TypeOK
<1>5. \A kind \in Kinds : \A x, y \in world'[kind] : SameObject(kind, x, y) => x = y
  BY <1>3, <1>4 DEF NoTwins
<1>6. UNCHANGED read
  BY DEF WorldChanges, engineVars
<1> QED BY <1>5, <1>6 DEF NoTwins, SameObject

(* What was read of kind k has all of it that was there.                   *)
Whole(k) ==
    /\ k \in DOMAIN read
    /\ ListedWhole(k) =>
          {x \in stable[k] : k \in Namespaced => x.ns = Namespace} \subseteq read[k]

(* Unless the answer is replaced, it stays whole while stable shrinks.     *)
LEMMA WholeStays ==
    ASSUME NEW k, Whole(k), k \in DOMAIN read', read'[k] = read[k], stable'[k] \subseteq stable[k]
    PROVE  Whole(k)'
BY DEF Whole, ListedWhole

LEMMA ReadSoFarIs ==
    ReadSoFar <=> \A e \in Engines : err[e] = "" =>
                     \A n \in 1..(at[e] - 1) : Calls[e][n] # "presence" => Whole(Calls[e][n])
BY DEF ReadSoFar, Whole

LEMMA EngineStepReads ==
    ASSUME TypeOK, ReadSoFar, NEW e \in Engines, EngineStep(e)
    PROVE  ReadSoFar'
<1>1. UNCHANGED <<world, stable>>
  BY EngineStepIs DEF Surroundings
<1>2. ASSUME NEW call \in Kinds, GetsAnswer(e, call) PROVE Whole(call)'
  <2>1. PICK answer \in Answers(call) :
           read' = [c \in DOMAIN read \cup {call} |-> IF c = call THEN answer ELSE read[c]]
    BY <1>2 DEF GetsAnswer
  <2>2. read'[call] = answer /\ call \in DOMAIN read'
    BY <2>1
  <2>3. ListedWhole(call) => answer = Visible(call)
    BY AnswersAre
  <2>4. ListedWhole(call) =>
           {x \in stable[call] : call \in Namespaced => x.ns = Namespace} \subseteq answer
    BY <2>3 DEF Visible, TypeOK
  <2> QED BY <1>1, <2>2, <2>4 DEF Whole, ListedWhole
<1>3. ASSUME NEW k, Whole(k) PROVE Whole(k)'
  <2>1. CASE UNCHANGED read
    BY <1>1, <1>3, <2>1, WholeStays DEF Whole
  <2>2. ASSUME NEW call \in Kinds, GetsAnswer(e, call) PROVE Whole(k)'
    <3>1. CASE k = call
      BY <1>2, <2>2, <3>1
    <3>2. CASE k # call
      <4>1. k \in DOMAIN read' /\ read'[k] = read[k]
        BY <1>3, <2>2, <3>2 DEF GetsAnswer, Whole
      <4> QED BY <1>1, <1>3, <4>1, WholeStays
    <3> QED BY <3>1, <3>2
  <2> QED BY <2>1, <2>2, EngineStepIs DEF Ends, GoesOn, RunsOut
<1>4. ASSUME NEW x \in Engines, err'[x] = "", NEW n \in 1..(at'[x] - 1), Calls[x][n] # "presence"
      PROVE  Whole(Calls[x][n])'
  <2>1. err[x] = ""
    <3>1. CASE \E why : Ends(e, why)
      BY <1>4, <3>1 DEF Ends, Returns, TypeOK
    <3>2. CASE GoesOn(e)
      BY <1>4, <3>2 DEF GoesOn, TypeOK
    <3>3. CASE RunsOut(e) \/ \E call \in Kinds : GetsAnswer(e, call)
      BY <1>4, <3>3 DEF RunsOut, GetsAnswer
    <3> QED BY <3>1, <3>2, <3>3, EngineStepIs
  <2>2. CASE n \in 1..(at[x] - 1)
    BY <1>3, <1>4, <2>1, <2>2, ReadSoFarIs
  <2>3. CASE n \notin 1..(at[x] - 1)
    <3>1. Advances(e)
      BY <1>4, <2>3, EngineStepIs DEF Ends, GoesOn, GetsAnswer, RunsOut
    <3>2. x = e /\ n = at[e]
      <4>1. at' = [at EXCEPT ![e] = at[e] + 1]
        BY <3>1 DEF Advances
      <4>2. x = e
        BY <1>4, <2>3, <4>1 DEF TypeOK
      <4>3. at'[e] = at[e] + 1 /\ at[e] \in Int
        <5>1. Len(Calls[e]) \in Nat
          BY CallsAre
        <5>2. at[e] \in 1..(Len(Calls[e]) + 1) /\ e \in DOMAIN at
          BY DEF TypeOK
        <5>3. at[e] \in Int
          BY <5>1, <5>2
        <5> QED BY <4>1, <5>2, <5>3
      <4>4. n \in 1..(at'[e] - 1) /\ n \notin 1..(at[e] - 1)
        BY <1>4, <2>3, <4>2
      <4>5. n \in 1..at[e]
        BY <4>3, <4>4
      <4> QED BY <4>2, <4>3, <4>4, <4>5
    <3>3. ~GoesOn(e)
      BY <1>4, <3>2 DEF GoesOn, TypeOK
    <3>4. \E call \in Kinds : GetsAnswer(e, call)
      <4>1. ASSUME NEW why, Ends(e, why) PROVE FALSE
        BY <1>4, <2>3, <4>1 DEF Ends
      <4>2. ~RunsOut(e)
        BY <1>4, <2>3 DEF RunsOut
      <4> QED BY <3>3, <4>1, <4>2, EngineStepIs
    <3> QED BY <1>2, <3>2, <3>4 DEF GetsAnswer
  <2> QED BY <2>2, <2>3
<1>5. ReadSoFar' <=> \A x \in Engines : err'[x] = "" =>
                       \A n \in 1..(at'[x] - 1) : Calls[x][n] # "presence" => Whole(Calls[x][n])'
  BY DEF ReadSoFar, Whole, Calls
<1> QED BY <1>4, <1>5

LEMMA LatestRunReads ==
    ASSUME ReadSoFar, TypeOK, NEW wf, LatestRun(wf)
    PROVE  ReadSoFar'
<1>1. UNCHANGED <<stable, at, err>>
  BY LatestRunIs DEF Surroundings
<1>2. ASSUME NEW k, k # "runs", Whole(k) PROVE Whole(k)'
  <2>1. k \in DOMAIN read' /\ read'[k] = read[k]
    BY <1>2, LatestRunIs DEF Whole
  <2> QED BY <1>1, <1>2, <2>1, WholeStays
<1>3. ASSUME NEW e \in Engines, err'[e] = "", NEW n \in 1..(at'[e] - 1), Calls[e][n] # "presence"
      PROVE  Whole(Calls[e][n])'
  <2>1. Whole(Calls[e][n])
    BY <1>1, <1>3, ReadSoFarIs
  <2>2. n \in DOMAIN Calls[e]
    <3>1. Len(Calls[e]) \in Nat /\ DOMAIN Calls[e] = 1..Len(Calls[e])
      BY CallsAre
    <3>2. at[e] \in 1..(Len(Calls[e]) + 1)
      BY DEF TypeOK
    <3>3. at[e] \in Int /\ at[e] <= Len(Calls[e]) + 1
      BY <3>1, <3>2
    <3>4. n \in 1..(at[e] - 1)
      BY <1>1, <1>3
    <3> QED BY <3>1, <3>3, <3>4
  <2> QED BY <1>2, <2>1, <2>2, CallsAre
<1>4. ReadSoFar' <=> \A x \in Engines : err'[x] = "" =>
                       \A n \in 1..(at'[x] - 1) : Calls[x][n] # "presence" => Whole(Calls[x][n])'
  BY DEF ReadSoFar, Whole, Calls
<1> QED BY <1>3, <1>4

LEMMA WorldChangesReads ==
    ASSUME TypeOK, ReadSoFar, WorldChanges
    PROVE  ReadSoFar'
<1>1. UNCHANGED <<at, read, err>>
  BY DEF WorldChanges, engineVars
<1>2. ASSUME NEW k \in Kinds, Whole(k) PROVE Whole(k)'
  <2>1. stable'[k] \subseteq stable[k]
    BY DEF WorldChanges
  <2> QED BY <1>1, <1>2, <2>1, WholeStays DEF Whole
<1>3. ASSUME NEW e \in Engines, err'[e] = "", NEW n \in 1..(at'[e] - 1), Calls[e][n] # "presence"
      PROVE  Whole(Calls[e][n])'
  <2>1. Whole(Calls[e][n])
    BY <1>1, <1>3, ReadSoFarIs
  <2>2. Calls[e][n] \in Kinds
    BY <2>1 DEF Whole, TypeOK
  <2> QED BY <1>2, <2>1, <2>2
<1>4. ReadSoFar' <=> \A x \in Engines : err'[x] = "" =>
                       \A n \in 1..(at'[x] - 1) : Calls[x][n] # "presence" => Whole(Calls[x][n])'
  BY DEF ReadSoFar, Whole, Calls
<1> QED BY <1>3, <1>4

(* An engine that returns early has its error, or is switched off.         *)
LEMMA EngineStepStops ==
    ASSUME TypeOK, \A e \in stopped : err[e] = "" => SwitchedOff(e),
           NEW e \in Engines, EngineStep(e)
    PROVE  (\A x \in stopped : err[x] = "" => SwitchedOff(x))'
<1>1. UNCHANGED spec
  BY EngineStepIs DEF Surroundings
<1>2. \A x : SwitchedOff(x)' <=> SwitchedOff(x)
  BY <1>1 DEF SwitchedOff
<1>3. ASSUME NEW why, Ends(e, why)
      PROVE  \A x \in stopped' : err'[x] = "" => SwitchedOff(x)
  <2>1. stopped' = stopped \cup {e} /\ err' = [err EXCEPT ![e] = IF err[e] = "" THEN why ELSE err[e]]
    BY <1>3 DEF Ends, Returns
  <2>2. why = "" => SwitchedOff(e)
    BY <1>3 DEF Ends
  <2> QED BY <2>1, <2>2 DEF TypeOK
<1>4. CASE GoesOn(e)
  <2>1. stopped' = stopped
    BY <1>4 DEF GoesOn, Advances
  <2>2. \A x \in stopped : err'[x] = "" => err[x] = ""
    BY <1>4 DEF GoesOn, TypeOK
  <2> QED BY <1>2, <2>1, <2>2
<1>5. CASE RunsOut(e) \/ \E call \in Kinds : GetsAnswer(e, call)
  BY <1>2, <1>5 DEF RunsOut, GetsAnswer, Advances
<1> QED BY <1>2, <1>3, <1>4, <1>5, EngineStepIs

(* A step of an engine adds the answer to its current call, and takes the  *)
(* engine past it, or ends the engine where it is.                         *)
LEMMA EngineStepOrder ==
    ASSUME TypeOK, ReadInOrder, NEW e \in Engines, EngineStep(e)
    PROVE  ReadInOrder'
<1>1. /\ ~Ended(e) /\ UNCHANGED spec
      /\ \A x : Proceeds(x)' <=> Proceeds(x)
  BY EngineStepIs DEF Surroundings, Proceeds, SwitchedOff, Misconfigured, NoClient
<1>2. /\ Len(Calls[e]) \in Nat /\ at[e] \in 1..(Len(Calls[e]) + 1)
      /\ \A x \in Engines : at[x] \in Int
  <2>1. \A x \in Engines : Len(Calls[x]) \in Nat /\ at[x] \in 1..(Len(Calls[x]) + 1)
    BY CallsAre DEF TypeOK
  <2> QED BY <2>1
<1>3. \A x \in Engines : x # e => at'[x] = at[x] /\ err'[x] = err[x] /\ (x \in stopped => x \in stopped')
  <2>1. CASE \E why : Ends(e, why)
    BY <2>1 DEF Ends, Returns, TypeOK
  <2>2. CASE GoesOn(e)
    BY <2>2 DEF GoesOn, Advances, TypeOK
  <2>3. CASE RunsOut(e) \/ \E call \in Kinds : GetsAnswer(e, call)
    BY <2>3 DEF GetsAnswer, Advances, RunsOut, TypeOK
  <2> QED BY <2>1, <2>2, <2>3, EngineStepIs
<1>4. at'[e] \in Int /\ at'[e] >= at[e] /\ (Advances(e) => at'[e] = at[e] + 1)
  <2>1. Advances(e) => at'[e] = at[e] + 1
    BY DEF Advances, TypeOK
  <2>2. CASE Advances(e)
    BY <1>2, <2>1, <2>2
  <2>3. CASE ~Advances(e)
    <3>1. at' = at
      BY <2>3, EngineStepIs DEF Ends, GoesOn, GetsAnswer, RunsOut
    <3> QED BY <1>2, <2>3, <3>1
  <2> QED BY <2>2, <2>3
<1>5. ASSUME NEW x \in Engines, NEW n \in DOMAIN Calls[x], Calls[x][n] \in DOMAIN read'
      PROVE  n < at'[x]
  <2>1. n \in Int
    BY CallsAre
  <2>2. CASE Calls[x][n] \in DOMAIN read
    <3>1. n < at[x]
      BY <2>2 DEF ReadInOrder
    <3>2. at'[x] \in Int /\ at'[x] >= at[x]
      BY <1>2, <1>3, <1>4
    <3> QED BY <1>2, <2>1, <3>1, <3>2
  <2>3. CASE Calls[x][n] \notin DOMAIN read
    <3>1. PICK call \in Kinds : GetsAnswer(e, call)
      BY <1>5, <2>3, EngineStepIs DEF Ends, GoesOn, RunsOut
    <3>2. Calls[x][n] = call /\ call # "presence"
      BY <1>5, <2>3, <3>1 DEF GetsAnswer, Kinds
    <3>3. at[e] \in DOMAIN Calls[e] /\ Calls[e][at[e]] = call
      BY <1>2, <3>1, CallsAre DEF GetsAnswer, Advances
    <3>4. x = e /\ n = at[e]
      BY <3>2, <3>3, CallsApart
    <3> QED BY <1>2, <1>4, <3>1, <3>4 DEF GetsAnswer
  <2> QED BY <2>2, <2>3
<1>6. ASSUME NEW x \in Engines, x # "Prometheus", Proceeds(x), err'[x] # ""
      PROVE  x \in stopped' /\ at'[x] <= Len(Calls[x])
  <2>1. CASE x # e
    BY <1>3, <1>6, <2>1 DEF ReadInOrder
  <2>2. CASE x = e
    <3>1. err[e] = ""
      BY <1>1, <1>6, <2>2 DEF ReadInOrder, Ended
    <3>2. PICK why : Ends(e, why)
      BY <1>6, <2>2, <3>1, EngineStepIs DEF GoesOn, GetsAnswer, RunsOut
    <3>3. why # ""
      BY <1>6, <2>2, <3>1, <3>2 DEF Ends, Returns, TypeOK
    <3> QED BY <1>6, <2>2, <3>2, <3>3 DEF Ends, Returns
  <2> QED BY <2>1, <2>2
<1>7. Calls' = Calls
  BY DEF Calls
<1> QED BY <1>1, <1>5, <1>6, <1>7 DEF ReadInOrder

LEMMA LatestRunOrder ==
    ASSUME ReadInOrder, NEW wf, LatestRun(wf)
    PROVE  ReadInOrder'
<1>1. UNCHANGED <<spec, at, err>> /\ stopped' = stopped
  BY LatestRunIs DEF Surroundings
<1>2. \A x \in Engines : \A n \in DOMAIN Calls[x] :
         Calls[x][n] \in DOMAIN read' => Calls[x][n] \in DOMAIN read
  BY LatestRunIs, CallsAre
<1> QED BY <1>1, <1>2 DEF ReadInOrder, Calls, Proceeds, SwitchedOff, Misconfigured, NoClient

(* What these parts of the invariant depend on.                            *)
LEMMA OrderKept ==
    ASSUME ReadInOrder, UNCHANGED <<spec, at, read, err, stopped>>
    PROVE  ReadInOrder'
BY DEF ReadInOrder, Calls, Proceeds, SwitchedOff, Misconfigured, NoClient

LEMMA PartsKept ==
    ASSUME NoTwins, ReadSoFar, UNCHANGED <<world, stable, at, read, err>>
    PROVE  NoTwins' /\ ReadSoFar'
<1>1. NoTwins'
  <2>1. \A k, x, y : SameObject(k, x, y)' = SameObject(k, x, y)
    BY DEF SameObject
  <2> QED BY <2>1 DEF NoTwins
<1>2. ReadSoFar'
  BY ReadSoFarIs DEF ReadSoFar, ListedWhole
<1> QED BY <1>1, <1>2

(* What a pass yields depends on the answers, the errors and the spec.     *)
LEMMA ResultKept ==
    ASSUME UNCHANGED <<read, err, spec>>
    PROVE  Result' = Result
<1>1. \A e : NodesOf(e)' = NodesOf(e)
  BY DEF NodesOf
<1>2. \A e : Listed(e)' = Listed(e)
  BY <1>1 DEF Listed
<1>3. Reported' = Reported
  BY <1>2 DEF Reported
<1>4. Conditions' = Conditions
  BY DEF Conditions
<1> QED BY <1>3, <1>4 DEF Result

LEMMA InitPass == Init => PassInv
<1> SUFFICES ASSUME Init PROVE PassInv
  OBVIOUS
<1>1. TypeOK
  <2>1. \A e \in Engines : at[e] \in 1..(Len(Calls[e]) + 1)
    <3>1. \A e \in Engines : Len(Calls[e]) \in Nat
      BY CallsAre
    <3>2. \A e \in Engines : at[e] = 1
      BY DEF Init
    <3> QED BY <3>1, <3>2
  <2>2. DOMAIN world = Kinds /\ \A k \in Kinds : stable[k] \subseteq world[k] /\ world[k] \subseteq Things[k]
    BY WorldsAssumption DEF Init
  <2> QED BY <2>1, <2>2 DEF Init, TypeOK
<1>2. NoTwins
  BY WorldsAssumption DEF Init, NoTwins
<1>3. ReadSoFar
  <2>1. \A e \in Engines : at[e] = 1
    BY DEF Init
  <2>2. \A e \in Engines : 1..(at[e] - 1) = {}
    BY <2>1
  <2> QED BY <2>2, ReadSoFarIs
<1>4. ReadInOrder
  BY DEF Init, ReadInOrder
<1> QED BY <1>1, <1>2, <1>3, <1>4 DEF Init, PassInv

LEMMA NextPass == PassInv /\ [Next]_vars => PassInv'
<1> SUFFICES ASSUME PassInv, [Next]_vars PROVE PassInv'
  OBVIOUS
<1>0. TypeOK /\ NoTwins /\ ReadSoFar /\ ReadInOrder /\ (\A e \in stopped : err[e] = "" => SwitchedOff(e))
  BY DEF PassInv
<1>1. CASE UNCHANGED vars
  <2>1. Result' = Result
    BY <1>1, ResultKept DEF vars
  <2>2. TypeOK' /\ NoTwins' /\ ReadSoFar' /\ ReadInOrder'
    BY <1>0, <1>1, PartsKept, OrderKept DEF vars, TypeOK, Nothing
  <2>3. (\A e \in Engines : Ended(e)) => \A e \in Engines : Ended(e)'
    BY <1>1 DEF vars, Ended, Unasked, Got
  <2> QED BY <1>1, <2>1, <2>2, <2>3 DEF PassInv, vars, SwitchedOff, Nothing
<1>2. CASE Finish
  <2>1. UNCHANGED <<spec, installed, world, stable, troubled, at, read, asked, err, stopped, expired>>
    BY <1>2 DEF Finish, engineVars
  <2>2. status' = Result /\ \A e \in Engines : Ended(e)
    BY <1>2 DEF Finish
  <2>3. Result' = Result
    BY <2>1, ResultKept
  <2>4. DOMAIN status'.detected = Engines
    BY <2>2 DEF Result, Conditions
  <2>5. TypeOK' /\ NoTwins' /\ ReadSoFar' /\ ReadInOrder'
    BY <1>0, <2>1, <2>4, PartsKept, OrderKept DEF TypeOK
  <2>6. \A e \in Engines : Ended(e)'
    BY <2>1, <2>2 DEF Ended, Unasked, Got
  <2> QED BY <1>0, <2>1, <2>2, <2>3, <2>5, <2>6 DEF PassInv, SwitchedOff
<1>3. CASE status = Nothing /\ status' = Nothing /\ ~(UNCHANGED vars) /\ ~Finish
  <2>1. ASSUME NEW e \in Engines, EngineStep(e)
        PROVE  /\ TypeOK' /\ NoTwins' /\ ReadSoFar' /\ ReadInOrder'
               /\ (\A x \in stopped : err[x] = "" => SwitchedOff(x))'
    BY <1>0, <2>1, EngineStepTypes, EngineStepTwins, EngineStepReads, EngineStepOrder, EngineStepStops
  <2>2. ASSUME NEW wf, LatestRun(wf)
        PROVE  /\ TypeOK' /\ NoTwins' /\ ReadSoFar' /\ ReadInOrder'
               /\ (\A x \in stopped : err[x] = "" => SwitchedOff(x))'
    <3>1. UNCHANGED <<spec, stopped, err>>
      BY <2>2, LatestRunIs DEF Surroundings
    <3> QED BY <1>0, <2>2, <3>1, LatestRunTypes, LatestRunTwins, LatestRunReads, LatestRunOrder DEF SwitchedOff
  <2>3. ASSUME WorldChanges
        PROVE  /\ TypeOK' /\ NoTwins' /\ ReadSoFar' /\ ReadInOrder'
               /\ (\A x \in stopped : err[x] = "" => SwitchedOff(x))'
    <3>1. UNCHANGED <<spec, at, read, err, stopped>>
      BY <2>3 DEF WorldChanges, engineVars
    <3> QED BY <1>0, <2>3, <3>1, WorldChangesTypes, WorldChangesTwins, WorldChangesReads, OrderKept
            DEF SwitchedOff
  <2>4. status' = Nothing'
    BY <1>3 DEF Nothing
  <2>5. /\ TypeOK' /\ NoTwins' /\ ReadSoFar' /\ ReadInOrder'
        /\ (\A x \in stopped : err[x] = "" => SwitchedOff(x))'
    BY <1>3, <2>1, <2>2, <2>3 DEF Next
  <2> QED BY <2>4, <2>5 DEF PassInv
<1> QED BY <1>1, <1>2, <1>3, StatusStep

(* At every moment of a pass, whatever the engines, the cluster and the    *)
(* faults: what is read is whole, and what is published is made of it      *)
(* (platformmap_controller.go:86-103, 119-153).                            *)
THEOREM PassesInOrder == Spec => []PassInv
BY InitPass, NextPass, PTL DEF Spec

-----------------------------------------------------------------------------
(* What is published.                                                      *)

AllNodes == UNION {NodesOf(e) : e \in Engines}

LEMMA NodesAre ==
    /\ NodesOf("K8s") = K8sNodes(read)
    /\ NodesOf("ArgoCD") = ArgoCDNodes(read, Namespace)
    /\ NodesOf("Istio") = IstioNodes(read, Namespace)
    /\ NodesOf("Kyverno") = KyvernoNodes(read)
    /\ NodesOf("GitHub") = GitHubNodes(read, spec.repo)
    /\ NodesOf("Prometheus") = PrometheusNodes(read, Namespace)
BY DEF NodesOf

LEMMA EnginesAre == Engines \subseteq Engine
BY EnginesAssumption DEF Calls, Engine

(* Lists are finite, so every engine reports finitely many nodes.          *)
LEMMA ReadingIsFinite ==
    ASSUME TypeOK
    PROVE  FiniteReading(read)
<1>1. \A c \in DOMAIN read : c \in Kinds /\ read[c] \subseteq Things[c]
  BY DEF TypeOK
<1>2. \A c \in DOMAIN read : IsFiniteSet(read[c])
  BY <1>1, ThingsAssumption, FS_Subset
<1>3. \A vs \in Got(read, "virtualservices") : IsFiniteSet(DOMAIN vs.routes)
  BY <1>1, ThingsAssumption DEF Got
<1>4. \A report \in Got(read, "policyreports") \cup Got(read, "clusterpolicyreports") :
         IsFiniteSet(DOMAIN report.results)
  BY <1>1, ThingsAssumption DEF Got
<1> QED BY <1>2, <1>3, <1>4 DEF FiniteReading

LEMMA NodesFinite ==
    ASSUME TypeOK, NEW e \in Engines
    PROVE  IsFiniteSet(NodesOf(e))
BY EnginesAre, ReadingIsFinite, NodesAre, K8sNodesFinite, ArgoCDNodesFinite, IstioNodesFinite,
   KyvernoNodesFinite, GitHubNodesFinite, PrometheusNodesFinite DEF Engine

(* What is merged is a list of all nodes of all engines.                   *)
LEMMA ReportedLists ==
    ASSUME TypeOK
    PROVE  Lists(Reported, AllNodes)
<1> DEFINE Part(e) == IF e \in Engines THEN NodesOf(e) ELSE {}
<1>1. ASSUME NEW e PROVE Lists(Listed(e), Part(e))
  <2>1. CASE e \in Engines
    BY <2>1, NodesFinite, ListOfSet DEF Listed
  <2>2. CASE e \notin Engines
    BY <2>2 DEF Listed, Lists
  <2> QED BY <2>1, <2>2
<1>2. AllNodes = Part("K8s") \cup Part("ArgoCD") \cup Part("Istio")
                    \cup Part("Kyverno") \cup Part("GitHub") \cup Part("Prometheus")
  <2>1. \A n : n \in AllNodes <=> \E e \in Engine : n \in Part(e)
    BY EnginesAre DEF AllNodes
  <2> HIDE DEF Part
  <2> QED BY <2>1 DEF Engine
<1> HIDE DEF Part
<1>3. Lists(Listed("K8s") \o Listed("ArgoCD"), Part("K8s") \cup Part("ArgoCD"))
  BY <1>1, ListsTogether
<1>4. Lists(Listed("K8s") \o Listed("ArgoCD") \o Listed("Istio"),
            Part("K8s") \cup Part("ArgoCD") \cup Part("Istio"))
  BY <1>1, <1>3, ListsTogether
<1>5. Lists(Listed("K8s") \o Listed("ArgoCD") \o Listed("Istio") \o Listed("Kyverno"),
            Part("K8s") \cup Part("ArgoCD") \cup Part("Istio") \cup Part("Kyverno"))
  BY <1>1, <1>4, ListsTogether
<1>6. Lists(Listed("K8s") \o Listed("ArgoCD") \o Listed("Istio") \o Listed("Kyverno")
               \o Listed("GitHub"),
            Part("K8s") \cup Part("ArgoCD") \cup Part("Istio") \cup Part("Kyverno")
               \cup Part("GitHub"))
  BY <1>1, <1>5, ListsTogether
<1>7. Lists(Reported, Part("K8s") \cup Part("ArgoCD") \cup Part("Istio") \cup Part("Kyverno")
                         \cup Part("GitHub") \cup Part("Prometheus"))
  BY <1>1, <1>6, ListsTogether DEF Reported
<1> QED BY <1>2, <1>7

LEMMA ResultIs ==
    ASSUME PassInv, status # Nothing
    PROVE  /\ \A e \in Engines : Ended(e)
           /\ status.topology = MergedNodes(Reported)
           /\ status.edges = IF "K8s" \in Engines THEN K8sEdges(read) ELSE {}
           /\ status.detected = Conditions
<1>1. (\A e \in Engines : Ended(e)) /\ status = Result
  BY DEF PassInv
<1> QED BY <1>1 DEF Result

(* Every node of an engine is found in what is published.                  *)
LEMMA NodesAreShown ==
    ASSUME PassInv, status # Nothing, NEW e \in Engines, NEW x \in NodesOf(e)
    PROVE  \E node \in status.topology : Shows(node, x, AllNodes)
<1>1. status.topology = MergedNodes(Reported)
  BY ResultIs
<1>2. x \in AllNodes
  BY DEF AllNodes
<1>3. Lists(Reported, AllNodes)
  BY ReportedLists DEF PassInv
<1>4. \E node \in MergedNodes(Reported) : Shows(node, x, AllNodes)
  BY <1>2, <1>3, MergedShows
<1> QED BY <1>1, <1>4

(* What is there all along, of a source reported as detected, was read.    *)
LEMMA DetectedIsRead ==
    ASSUME PassInv, status # Nothing, NEW e \in Engines, status.detected[e], ~SwitchedOff(e),
           NEW n \in DOMAIN Calls[e], Calls[e][n] # "presence"
    PROVE  /\ Calls[e][n] \in DOMAIN read
           /\ ListedWhole(Calls[e][n]) =>
                 \A x \in stable[Calls[e][n]] :
                     Concerns(Calls[e][n], x) => x \in read[Calls[e][n]]
<1>1. err[e] = ""
  BY ResultIs DEF Conditions
<1>2. e \notin stopped
  BY <1>1 DEF PassInv
<1>3. at[e] > Len(Calls[e])
  BY <1>2, ResultIs DEF Ended
<1>4. n \in 1..(at[e] - 1)
  <2>1. Len(Calls[e]) \in Nat /\ n \in 1..Len(Calls[e])
    BY CallsAre
  <2>2. at[e] \in 1..(Len(Calls[e]) + 1)
    BY DEF PassInv, TypeOK
  <2>3. at[e] = Len(Calls[e]) + 1
    BY <1>3, <2>1, <2>2
  <2> QED BY <2>1, <2>3
<1>5. Whole(Calls[e][n])
  BY <1>1, <1>4, ReadSoFarIs DEF PassInv
<1> QED BY <1>5 DEF Whole, Concerns

(* Everything an engine reads has a node among its nodes.                  *)
LEMMA ReadIsReported ==
    ASSUME NEW e \in Engines, NEW n \in DOMAIN Calls[e],
           Calls[e][n] \notin {"presence", "secret"},
           NEW x \in Got(read, Calls[e][n]), Concerns(Calls[e][n], x)
    PROVE  \E node \in NodesOf(e) :
              /\ node.id = IdOf(Calls[e][n], x)
              /\ e = "Prometheus" => Calls[e][n] \in DOMAIN node.meta
<1>0. e \in Engine
  BY EnginesAre
<1>1. CASE e = "K8s"
  <2>1. Calls[e][n] \in {"deployments", "services"}
    BY <1>1 DEF Calls
  <2>2. CASE Calls[e][n] = "deployments"
    <3>1. deploymentNode(x) \in NodesOf(e)
      BY <1>1, <2>2, NodesAre DEF K8sNodes
    <3>2. deploymentNode(x).id = IdOf("deployments", x)
      BY IdsAre DEF IdOf, deploymentNodeID
    <3> QED BY <1>1, <2>2, <3>1, <3>2
  <2>3. CASE Calls[e][n] = "services"
    <3>1. serviceNode(x) \in NodesOf(e)
      BY <1>1, <2>3, NodesAre DEF K8sNodes
    <3>2. serviceNode(x).id = IdOf("services", x)
      BY IdsAre DEF IdOf, serviceNodeID
    <3> QED BY <1>1, <2>3, <3>1, <3>2
  <2> QED BY <2>1, <2>2, <2>3
<1>2. CASE e = "ArgoCD"
  <2>1. Calls[e][n] = "applications"
    BY <1>2 DEF Calls
  <2>2. argoCDApplicationNode(x) \in NodesOf(e)
    BY <1>2, <2>1, NodesAre DEF ArgoCDNodes, Concerns
  <2>3. argoCDApplicationNode(x).id = IdOf("applications", x)
    BY IdsAre DEF IdOf
  <2> QED BY <1>2, <2>1, <2>2, <2>3
<1>3. CASE e = "Istio"
  <2>1. Calls[e][n] \in {"virtualservices", "destinationrules"}
    BY <1>3 DEF Calls
  <2>2. CASE Calls[e][n] = "virtualservices"
    <3>1. virtualServiceNode(x) \in NodesOf(e)
      BY <1>3, <2>2, NodesAre DEF IstioNodes
    <3>2. virtualServiceNode(x).id = IdOf("virtualservices", x)
      BY IdsAre DEF IdOf
    <3> QED BY <1>3, <2>2, <3>1, <3>2
  <2>3. CASE Calls[e][n] = "destinationrules"
    <3>1. destinationRuleNode(x) \in NodesOf(e)
      BY <1>3, <2>3, NodesAre DEF IstioNodes
    <3>2. destinationRuleNode(x).id = IdOf("destinationrules", x)
      BY IdsAre DEF IdOf
    <3> QED BY <1>3, <2>3, <3>1, <3>2
  <2> QED BY <2>1, <2>2, <2>3
<1>4. CASE e = "Kyverno"
  <2>1. Calls[e][n] \in {"policyreports", "clusterpolicyreports"}
    BY <1>4 DEF Calls
  <2>2. CASE Calls[e][n] = "policyreports"
    <3>1. policyReportNode(x, "kyverno-policyreport") \in NodesOf(e)
      BY <1>4, <2>2, NodesAre DEF KyvernoNodes
    <3>2. policyReportNode(x, "kyverno-policyreport").id = IdOf("policyreports", x)
      BY IdsAre DEF IdOf
    <3> QED BY <1>4, <2>2, <3>1, <3>2
  <2>3. CASE Calls[e][n] = "clusterpolicyreports"
    <3>1. policyReportNode(x, "kyverno-clusterpolicyreport") \in NodesOf(e)
      BY <1>4, <2>3, NodesAre DEF KyvernoNodes
    <3>2. policyReportNode(x, "kyverno-clusterpolicyreport").id = IdOf("clusterpolicyreports", x)
      BY IdsAre DEF IdOf
    <3> QED BY <1>4, <2>3, <3>1, <3>2
  <2> QED BY <2>1, <2>2, <2>3
<1>5. CASE e = "GitHub"
  <2>1. Calls[e][n] = "workflows"
    BY <1>5 DEF Calls
  <2> DEFINE node == githubWorkflowNode(spec.repo, x, {r \in Got(read, "runs") : r.workflow = x.id})
  <2>2. node \in NodesOf(e)
    BY <1>5, <2>1, NodesAre DEF GitHubNodes
  <2>3. node.id = IdOf("workflows", x)
    BY WorkflowIdIs DEF IdOf
  <2> QED BY <1>5, <2>1, <2>2, <2>3
<1>6. CASE e = "Prometheus"
  <2> DEFINE k == Calls[e][n]
  <2>1. k \in Metrics /\ k \in {"errorRatePct", "latencyP99Ms", "cpuUsageM", "memoryUsageMi"}
    BY <1>6 DEF Calls, Metrics, Queries
  <2> HIDE DEF k
  <2>2. x \in queryByService(read, k, x.service) /\ x.service # ""
    BY <2>1 DEF k, queryByService, Concerns
  <2>3. x.service \in Measured(read)
    BY <2>1, <2>2 DEF Measured, queryByService
  <2>4. k \in DOMAIN Measures(read, x.service)
    BY <2>1, <2>2 DEF Measures
  <2>5. Enrichment(serviceNodeID(Namespace, x.service), Measures(read, x.service)) \in NodesOf(e)
    BY <1>6, <2>3, NodesAre DEF PrometheusNodes
  <2>6. IdOf(k, x) = serviceNodeID(Namespace, x.service)
    BY <2>1 DEF IdOf
  <2> QED BY <2>4, <2>5, <2>6, EnrichmentIs DEF k
<1> QED BY <1>0, <1>1, <1>2, <1>3, <1>4, <1>5, <1>6 DEF Engine

(* Whatever the engines, the cluster and the faults: a source reported as  *)
(* detected is shown whole (platformmap_controller.go:136-150).            *)
THEOREM DetectedIsComplete == Spec => []TrueMeansComplete
<1>1. ASSUME PassInv PROVE TrueMeansComplete
  <2> SUFFICES ASSUME status # Nothing, NEW e \in Engines, status.detected[e], ~SwitchedOff(e),
                      NEW n \in DOMAIN Calls[e], ListedWhole(Calls[e][n]),
                      NEW x \in stable[Calls[e][n]], Concerns(Calls[e][n], x)
               PROVE  \E node \in status.topology :
                         /\ node.id = IdOf(Calls[e][n], x)
                         /\ e = "Prometheus" => Calls[e][n] \in DOMAIN node.meta
    BY DEF TrueMeansComplete
  <2>1. Calls[e][n] \notin {"presence", "secret"}
    BY DEF ListedWhole
  <2>2. x \in Got(read, Calls[e][n])
    BY <1>1, <2>1, DetectedIsRead DEF Got
  <2>3. PICK node \in NodesOf(e) : /\ node.id = IdOf(Calls[e][n], x)
                                   /\ e = "Prometheus" => Calls[e][n] \in DOMAIN node.meta
    BY <2>1, <2>2, ReadIsReported
  <2>4. PICK shown \in status.topology : Shows(shown, node, AllNodes)
    BY <1>1, NodesAreShown
  <2> QED BY <2>3, <2>4 DEF Shows
<1> QED BY <1>1, PassesInOrder, PTL
-----------------------------------------------------------------------------
(* What the engines say of one another's entities.                         *)

LEMMA NodeProfile ==
    ASSUME NEW e \in Engines, NEW n \in NodesOf(e)
    PROVE  Describes(e, n) \/ Enriches(e, n)
BY EnginesAre, NodesAre, K8sProfile, ArgoCDProfile, IstioProfile, KyvernoProfile,
   GitHubProfile, PrometheusProfile DEF Engine

(* Every object that was read has a name of its own.                       *)
LEMMA ReadIsNamed ==
    ASSUME NoTwins
    PROVE  /\ \A c \in {"deployments", "services", "applications", "virtualservices",
                        "destinationrules", "policyreports", "clusterpolicyreports"} :
                 Named(Got(read, c))
           /\ \A x, y \in Got(read, "workflows") : x.id = y.id => x = y
<1>0. Metrics = {"errorRatePct", "latencyP99Ms", "cpuUsageM", "memoryUsageMi"}
  BY DEF Metrics, Queries
<1>1. ASSUME NEW c \in {"deployments", "services", "applications", "virtualservices",
                        "destinationrules", "policyreports", "clusterpolicyreports"}
      PROVE  Named(Got(read, c))
  <2>1. Identity(c) = {"ns", "name"}
    BY <1>0, <1>1 DEF Identity
  <2>2. \A x, y : x.ns = y.ns /\ x.name = y.name => SameObject(c, x, y)
    BY <2>1 DEF SameObject
  <2>3. \A x, y \in Got(read, c) : SameObject(c, x, y) => x = y
    BY <1>1 DEF Got, NoTwins
  <2> QED BY <2>2, <2>3 DEF Named
<1>2. \A x, y \in Got(read, "workflows") : x.id = y.id => x = y
  <2>1. \A x, y : x.id = y.id => SameObject("workflows", x, y)
    <3>1. Identity("workflows") = {"id"}
      BY <1>0 DEF Identity
    <3> QED BY <3>1 DEF SameObject
  <2>2. \A x, y \in Got(read, "workflows") : SameObject("workflows", x, y) => x = y
    BY DEF Got, NoTwins
  <2> QED BY <2>1, <2>2
<1> QED BY <1>1, <1>2

(* An engine has one node for each id.                                     *)
LEMMA NodeOnce ==
    ASSUME NoTwins, NEW e \in Engines, NEW n \in NodesOf(e), NEW m \in NodesOf(e), n.id = m.id
    PROVE  n = m
<1>0. e \in Engine
  BY EnginesAre
<1>1. CASE e = "K8s"
  BY <1>1, NodesAre, ReadIsNamed, K8sUnique
<1>2. CASE e = "ArgoCD"
  BY <1>2, NodesAre, ReadIsNamed, ArgoCDUnique
<1>3. CASE e = "Istio"
  BY <1>3, NodesAre, ReadIsNamed, IstioUnique
<1>4. CASE e = "Kyverno"
  BY <1>4, NodesAre, ReadIsNamed, KyvernoUnique
<1>5. CASE e = "GitHub"
  BY <1>5, NodesAre, ReadIsNamed, GitHubUnique
<1>6. CASE e = "Prometheus"
  BY <1>6, NodesAre, PrometheusUnique
<1> QED BY <1>0, <1>1, <1>2, <1>3, <1>4, <1>5, <1>6 DEF Engine

LEMMA NodesAgree ==
    ASSUME PassInv, NEW x \in AllNodes, NEW y \in AllNodes, x.id = y.id
    PROVE  Agree(x, y)
<1>1. PICK e \in Engines : x \in NodesOf(e)
  BY DEF AllNodes
<1>2. PICK f \in Engines : y \in NodesOf(f)
  BY DEF AllNodes
<1>3. CASE e = f
  <2>1. x = y
    BY <1>1, <1>2, <1>3, NodeOnce DEF PassInv
  <2> QED BY <2>1 DEF Agree
<1>4. CASE e # f
  BY <1>1, <1>2, <1>4, EnginesAre, NodeProfile, EnginesAgree
<1> QED BY <1>3, <1>4

(* At every moment of a pass, the nodes the engines have agree, so that    *)
(* the order they are merged in decides nothing (builder.go:20-26).        *)
THEOREM EnginesNeverConflict == Spec => []EnginesDoNotConflict
<1>1. ASSUME PassInv PROVE EnginesDoNotConflict
  <2>1. Lists(Reported, AllNodes)
    BY <1>1, ReportedLists DEF PassInv
  <2> QED BY <1>1, <2>1, NodesAgree, ConsistentList DEF EnginesDoNotConflict
<1> QED BY <1>1, PassesInOrder, PTL

(* What an engine adds to the id of a Service or Deployment that is shown  *)
(* is found at its node.                                                   *)
LEMMA Joins ==
    ASSUME PassInv, status # Nothing, "K8s" \in Engines, NEW own \in K8sNodes(read),
           NEW e \in Engines, NEW added \in NodesOf(e), added.id = own.id,
           NEW key \in DOMAIN added.meta
    PROVE  ShownAt(own.id, own.type, key)
<1>1. own \in NodesOf("K8s")
  BY NodesAre
<1>2. own.id[1] \in Workloads /\ own.type # ""
  <2>1. own.id[1] \in {"deployment", "service"}
    BY K8sProfile DEF Describes, Own, Workloads
  <2> QED BY <2>1, K8sProfile DEF Workloads
<1>3. ASSUME NEW y \in AllNodes, y.id = own.id PROVE y.type \in {"", own.type}
  <2>1. PICK f \in Engines : y \in NodesOf(f)
    BY DEF AllNodes
  <2>2. CASE f = "K8s"
    BY <1>1, <1>3, <2>1, <2>2, NodeOnce DEF PassInv
  <2>3. CASE f # "K8s"
    <3>1. f \in Engine /\ (Describes(f, y) \/ Enriches(f, y))
      BY <2>1, EnginesAre, NodeProfile
    <3>2. ~Describes(f, y)
      <4>1. Own[f] \cap Workloads = {}
        BY <2>3, <3>1 DEF Own, Workloads, Engine
      <4>2. y.id[1] \in Workloads
        BY <1>2, <1>3
      <4> QED BY <4>1, <4>2 DEF Describes
    <3> QED BY <3>1, <3>2 DEF Enriches, Silent
  <2> QED BY <2>2, <2>3
<1>4. PICK a \in status.topology : Shows(a, own, AllNodes)
  BY <1>1, NodesAreShown
<1>5. PICK b \in status.topology : Shows(b, added, AllNodes)
  BY NodesAreShown
<1>6. a.id = own.id /\ b.id = own.id /\ key \in DOMAIN b.meta
  BY <1>4, <1>5 DEF Shows
<1>7. a = b
  BY <1>6, ResultIs, MergedOnce
<1>8. a.type = own.type
  BY <1>2, <1>3, <1>4 DEF Shows
<1> QED BY <1>6, <1>7, <1>8 DEF ShownAt

(* What was there all along of a detected source was read.                 *)
LEMMA ThereIsRead ==
    ASSUME PassInv, status # Nothing, NEW e, Detected(e), NEW n \in DOMAIN Calls[e],
           Calls[e][n] \notin {"presence", "secret", "workflows"},
           NEW x \in There(Calls[e][n])
    PROVE  /\ Calls[e][n] \in DOMAIN read
           /\ x \in Got(read, Calls[e][n])
           /\ x \in Things[Calls[e][n]]
           /\ Concerns(Calls[e][n], x)
<1>1. x \in stable[Calls[e][n]] /\ Concerns(Calls[e][n], x) /\ Calls[e][n] \in Kinds
  BY DEF There
<1>2. ListedWhole(Calls[e][n])
  BY DEF ListedWhole
<1>3. Calls[e][n] \in DOMAIN read /\ x \in read[Calls[e][n]]
  BY <1>1, <1>2, DetectedIsRead DEF Detected
<1> QED BY <1>1, <1>3 DEF Got, PassInv, TypeOK

(* Whatever an engine measures of a workload that was there all along is   *)
(* shown at the workload's node, which has the type of one                 *)
(* (prometheus.go:45-48, istio.go:83, kyverno.go:151-201).                 *)
THEOREM EnrichmentsArriveAtTheirNodes == Spec => []EnrichmentsJoin
<1>1. ASSUME PassInv PROVE EnrichmentsJoin
  <2> SUFFICES ASSUME status # Nothing, Detected("K8s")
               PROVE  EnrichmentsJoin
    BY DEF EnrichmentsJoin
  <2>1. "K8s" \in Engines
    BY DEF Detected
  <2>2. ASSUME NEW dep \in There("deployments")
        PROVE  /\ deploymentNode(dep) \in K8sNodes(read) /\ dep.name # ""
               /\ deploymentNode(dep).id = deploymentNodeID(dep.ns, dep.name)
               /\ deploymentNode(dep).type = "k8s-deployment"
    <3>1. 1 \in DOMAIN Calls["K8s"] /\ Calls["K8s"][1] = "deployments"
      BY DEF Calls
    <3>2. dep \in Got(read, "deployments") /\ dep \in Things["deployments"]
      BY <1>1, <2>2, <3>1, ThereIsRead
    <3>3. "deployments" \in Kinds
      BY <2>2 DEF There
    <3>4. dep.name # ""
      BY <3>2, <3>3, ThingsAssumption
    <3>5. deploymentNode(dep) \in K8sNodes(read)
      BY <3>2 DEF K8sNodes
    <3>6. deploymentNode(dep).id = deploymentNodeID(dep.ns, dep.name)
      BY IdsAre DEF deploymentNodeID
    <3>7. deploymentNode(dep).type = "k8s-deployment"
      BY DEF deploymentNode, Node
    <3> QED BY <3>4, <3>5, <3>6, <3>7
  <2>3. ASSUME NEW svc \in There("services")
        PROVE  /\ serviceNode(svc) \in K8sNodes(read) /\ svc.name # ""
               /\ serviceNode(svc).id = serviceNodeID(Namespace, svc.name)
               /\ serviceNode(svc).type = "k8s-service"
               /\ IdOf("services", svc) = serviceNodeID(Namespace, svc.name)
    <3>1. 2 \in DOMAIN Calls["K8s"] /\ Calls["K8s"][2] = "services"
      BY DEF Calls
    <3>2. svc \in Got(read, "services") /\ svc \in Things["services"] /\ Concerns("services", svc)
      BY <1>1, <2>3, <3>1, ThereIsRead
    <3>3. "services" \in Kinds
      BY <2>3 DEF There
    <3>4. svc.name # "" /\ svc.ns = Namespace
      BY <3>2, <3>3, ThingsAssumption DEF Concerns, Namespaced
    <3>5. serviceNode(svc) \in K8sNodes(read)
      BY <3>2 DEF K8sNodes
    <3>6. serviceNode(svc).id = serviceNodeID(Namespace, svc.name)
      BY <3>4, IdsAre DEF serviceNodeID
    <3>7. serviceNode(svc).type = "k8s-service"
      BY DEF serviceNode, Node
    <3>8. IdOf("services", svc) = serviceNodeID(Namespace, svc.name)
      BY <3>4 DEF IdOf
    <3> QED BY <3>4, <3>5, <3>6, <3>7, <3>8
  <2>4. ASSUME Detected("Kyverno"),
               NEW report \in There("policyreports") \cup There("clusterpolicyreports"),
               NEW dep \in There("deployments"), NEW n \in DOMAIN report.results,
               IsAbout(report.results[n], report, dep)
        PROVE  ShownAt(IdOf("deployments", dep), "k8s-deployment", "policyViolations")
    <3> DEFINE violations == accumulateViolations(Got(read, "policyreports")
                                                     \cup Got(read, "clusterpolicyreports"))
               id == deploymentNodeID(dep.ns, dep.name)
               tally == Enrichment(id, TallyMeta(violations, id))
    <3>1. /\ 2 \in DOMAIN Calls["Kyverno"] /\ Calls["Kyverno"][2] = "policyreports"
          /\ 3 \in DOMAIN Calls["Kyverno"] /\ Calls["Kyverno"][3] = "clusterpolicyreports"
      BY DEF Calls
    <3>2. report \in Got(read, "policyreports") \cup Got(read, "clusterpolicyreports")
      BY <1>1, <2>4, <3>1, ThereIsRead
    <3>3. "clusterpolicyreports" \in DOMAIN read
      BY <1>1, <2>4, <3>1, DetectedIsRead DEF Detected
    <3>4. <<report, n>> \in violations
      <4>1. <<report, n>> \in UNION {{<<x, m>> : m \in DOMAIN x.results} :
                                        x \in Got(read, "policyreports")
                                                 \cup Got(read, "clusterpolicyreports")}
        BY <2>4, <3>2
      <4>2. /\ report.results[n].outcome \in {"fail", "error", "warn"}
            /\ report.results[n].kind = "Deployment"
            /\ report.results[n].name # ""
        BY <2>2, <2>4 DEF IsAbout
      <4> QED BY <4>1, <4>2 DEF accumulateViolations
    <3>5. TargetOf(<<report, n>>) = id
      BY <2>4 DEF TargetOf, IsAbout
    <3>6. tally \in Tallies(read)
      BY <3>4, <3>5 DEF Tallies
    <3>7. tally \in NodesOf("Kyverno")
      BY <3>3, <3>6, NodesAre DEF KyvernoNodes
    <3>8. tally.id = id /\ "policyViolations" \in DOMAIN tally.meta
      BY EnrichmentIs, TallyKeys DEF Tallied
    <3>9. IdOf("deployments", dep) = id
      BY DEF IdOf
    <3> HIDE DEF tally, id, violations
    <3>10. deploymentNode(dep).id = id
      BY <2>2, <2>4 DEF id
    <3>11. "Kyverno" \in Engines
      BY <2>4 DEF Detected
    <3>12. ShownAt(deploymentNode(dep).id, deploymentNode(dep).type, "policyViolations")
      BY <1>1, <2>1, <2>2, <3>7, <3>8, <3>10, <3>11, Joins
    <3> QED BY <2>2, <3>9, <3>10, <3>12
  <2>5. ASSUME Detected("Istio"), NEW vs \in There("virtualservices"),
               NEW svc \in There("services"), NEW n \in DOMAIN vs.routes,
               vs.routes[n].host = svc.name, vs.routes[n].subset # ""
        PROVE  ShownAt(IdOf("services", svc), "k8s-service", "istioTrafficWeights")
    <3> DEFINE weights == collectTrafficWeights(read, svc.name)
               added == Enrichment(serviceNodeID(Namespace, svc.name),
                                   [istioTrafficWeights |-> weights])
    <3>1. 2 \in DOMAIN Calls["Istio"] /\ Calls["Istio"][2] = "virtualservices"
      BY DEF Calls
    <3>2. vs \in Got(read, "virtualservices")
      BY <1>1, <2>5, <3>1, ThereIsRead
    <3>3. svc.name # ""
      BY <2>3
    <3>4. <<vs, n>> \in Weighted(read)
      <4>1. <<vs, n>> \in UNION {{<<x, m>> : m \in DOMAIN x.routes} :
                                    x \in Got(read, "virtualservices")}
        BY <3>2
      <4> QED BY <2>5, <3>3, <4>1 DEF Weighted
    <3>5. svc.name \in {r[1].routes[r[2]].host : r \in Weighted(read)}
      <4>1. <<vs, n>>[1].routes[<<vs, n>>[2]].host = svc.name
        BY <2>5
      <4> QED BY <3>4, <4>1
    <3>6. added \in NodesOf("Istio")
      <4> HIDE DEF weights
      <4>1. added \in {Enrichment(serviceNodeID(Namespace, host),
                          [istioTrafficWeights |-> collectTrafficWeights(read, host)]) :
                             host \in {r[1].routes[r[2]].host : r \in Weighted(read)}}
        BY <3>5 DEF weights
      <4> QED BY <4>1, NodesAre DEF IstioNodes
    <3>7. added.id = serviceNodeID(Namespace, svc.name) /\ "istioTrafficWeights" \in DOMAIN added.meta
      BY EnrichmentIs
    <3> HIDE DEF added, weights
    <3>8. "Istio" \in Engines
      BY <2>5 DEF Detected
    <3>9. ShownAt(serviceNode(svc).id, serviceNode(svc).type, "istioTrafficWeights")
      BY <1>1, <2>1, <2>3, <3>6, <3>7, <3>8, Joins
    <3> QED BY <2>3, <3>9
  <2>6. ASSUME Detected("Prometheus"), NEW metric \in Metrics, NEW sample \in There(metric),
               NEW svc \in There("services"), sample.service = svc.name
        PROVE  ShownAt(IdOf("services", svc), "k8s-service", metric)
    <3>1. PICK n \in DOMAIN Calls["Prometheus"] : Calls["Prometheus"][n] = metric
      BY DEF Metrics, Calls
    <3>2. metric \notin {"presence", "secret", "workflows"}
      BY DEF Metrics, Queries
    <3>3. sample \in Got(read, metric) /\ Concerns(metric, sample)
      BY <1>1, <2>6, <3>1, <3>2, ThereIsRead
    <3>4. "Prometheus" \in Engines
      BY <2>6 DEF Detected
    <3>5. PICK added \in NodesOf("Prometheus") :
             added.id = IdOf(metric, sample) /\ metric \in DOMAIN added.meta
      BY <3>1, <3>2, <3>3, <3>4, ReadIsReported
    <3>6. IdOf(metric, sample) = serviceNodeID(Namespace, svc.name)
      BY <2>6 DEF IdOf, Metrics, Queries
    <3>7. ShownAt(serviceNode(svc).id, serviceNode(svc).type, metric)
      BY <1>1, <2>1, <2>3, <3>4, <3>5, <3>6, Joins
    <3> QED BY <2>3, <3>7
  <2> QED BY <2>4, <2>5, <2>6 DEF EnrichmentsJoin
<1> QED BY <1>1, PassesInOrder, PTL

(* An edge is an edge of a Service and a Deployment that were read.        *)
LEMMA EdgeIsOfPair ==
    ASSUME NEW edge \in K8sEdges(read)
    PROVE  \E svc \in Got(read, "services"), dep \in Got(read, "deployments") :
              /\ selectorMatchesLabels(svc.selector, dep.labels)
              /\ edge.from = serviceNodeID(svc.ns, svc.name)
              /\ edge.to = deploymentNodeID(dep.ns, dep.name)
<1>1. PICK pair \in Got(read, "services") \X Got(read, "deployments") :
         /\ selectorMatchesLabels(pair[1].selector, pair[2].labels)
         /\ edge = [from |-> serviceNodeID(pair[1].ns, pair[1].name),
                    to   |-> deploymentNodeID(pair[2].ns, pair[2].name),
                    type |-> "routes-to", label |-> ""]
  BY Zenon DEF K8sEdges
<1>2. /\ edge.from = serviceNodeID(pair[1].ns, pair[1].name)
      /\ edge.to = deploymentNodeID(pair[2].ns, pair[2].name)
      /\ pair[1] \in Got(read, "services") /\ pair[2] \in Got(read, "deployments")
  BY <1>1
<1> QED BY <1>1, <1>2

(* However the two lists were read: the edges of a published topology join *)
(* nodes of it, and join what was there all along exactly as the selectors *)
(* ask (k8s.go:77-95).                                                     *)
THEOREM EdgesAreTheSelected == Spec => []EdgesFollowSelectors
<1>1. ASSUME PassInv, NEW edge \in status.edges
      PROVE  edge.from \in ShownIds /\ edge.to \in ShownIds
  <2>1. status # Nothing
    BY DEF Nothing
  <2>2. "K8s" \in Engines /\ edge \in K8sEdges(read)
    BY <1>1, <2>1, ResultIs
  <2>3. PICK svc \in Got(read, "services"), dep \in Got(read, "deployments") :
           /\ edge.from = serviceNodeID(svc.ns, svc.name)
           /\ edge.to = deploymentNodeID(dep.ns, dep.name)
    BY <2>2, EdgeIsOfPair
  <2>4. serviceNode(svc) \in NodesOf("K8s") /\ deploymentNode(dep) \in NodesOf("K8s")
    BY NodesAre DEF K8sNodes
  <2>5. serviceNode(svc).id = edge.from /\ deploymentNode(dep).id = edge.to
    BY <2>3, IdsAre DEF serviceNodeID, deploymentNodeID
  <2>6. \E node \in status.topology : node.id = edge.from
    BY <1>1, <2>1, <2>2, <2>4, <2>5, NodesAreShown DEF Shows
  <2>7. \E node \in status.topology : node.id = edge.to
    BY <1>1, <2>1, <2>2, <2>4, <2>5, NodesAreShown DEF Shows
  <2> QED BY <2>6, <2>7 DEF ShownIds
<1>2. ASSUME PassInv, status # Nothing, Detected("K8s"),
             NEW svc \in There("services"), NEW dep \in There("deployments")
      PROVE  selectorMatchesLabels(svc.selector, dep.labels)
                <=> \E edge \in status.edges : /\ edge.from = IdOf("services", svc)
                                              /\ edge.to = IdOf("deployments", dep)
  <2>1. /\ 1 \in DOMAIN Calls["K8s"] /\ Calls["K8s"][1] = "deployments"
        /\ 2 \in DOMAIN Calls["K8s"] /\ Calls["K8s"][2] = "services"
    BY DEF Calls
  <2>2. svc \in Got(read, "services") /\ dep \in Got(read, "deployments")
    BY <1>2, <2>1, ThereIsRead
  <2>3. status.edges = K8sEdges(read)
    BY <1>2, ResultIs DEF Detected
  <2>4. /\ IdOf("services", svc) = serviceNodeID(svc.ns, svc.name)
        /\ IdOf("deployments", dep) = deploymentNodeID(dep.ns, dep.name)
    BY DEF IdOf
  <2>5. ASSUME selectorMatchesLabels(svc.selector, dep.labels)
        PROVE  \E edge \in status.edges : /\ edge.from = IdOf("services", svc)
                                          /\ edge.to = IdOf("deployments", dep)
    <3> DEFINE pair == <<svc, dep>>
               edge == [from |-> serviceNodeID(pair[1].ns, pair[1].name),
                        to   |-> deploymentNodeID(pair[2].ns, pair[2].name),
                        type |-> "routes-to", label |-> ""]
    <3>1. pair \in {p \in Got(read, "services") \X Got(read, "deployments") :
                       selectorMatchesLabels(p[1].selector, p[2].labels)}
      BY <2>2, <2>5
    <3>2. edge \in K8sEdges(read)
      BY <3>1, Zenon DEF K8sEdges
    <3>3. edge.from = IdOf("services", svc) /\ edge.to = IdOf("deployments", dep)
      BY <2>4
    <3> QED BY <2>3, <3>2, <3>3
  <2>6. ASSUME NEW edge \in status.edges,
               edge.from = IdOf("services", svc), edge.to = IdOf("deployments", dep)
        PROVE  selectorMatchesLabels(svc.selector, dep.labels)
    <3>1. PICK s \in Got(read, "services"), d \in Got(read, "deployments") :
             /\ selectorMatchesLabels(s.selector, d.labels)
             /\ edge.from = serviceNodeID(s.ns, s.name)
             /\ edge.to = deploymentNodeID(d.ns, d.name)
      BY <2>3, EdgeIsOfPair
    <3>2. s.ns = svc.ns /\ s.name = svc.name /\ d.ns = dep.ns /\ d.name = dep.name
      BY <2>4, <2>6, <3>1 DEF serviceNodeID, deploymentNodeID
    <3>3. s = svc /\ d = dep
      BY <1>2, <2>2, <3>2, ReadIsNamed DEF PassInv, Named
    <3> QED BY <3>1, <3>3
  <2> QED BY <2>5, <2>6
<1>3. PassInv => EdgesFollowSelectors
  BY <1>1, <1>2, Zenon DEF EdgesFollowSelectors
<1> QED BY <1>3, PassesInOrder, PTL

(* When the engines have ended, a second list of reports that was read is  *)
(* the sign of a whole pass of Kyverno: its last call did not fail.        *)
LEMMA TalliedIsDetected ==
    ASSUME PassInv, status # Nothing, "Kyverno" \in Engines,
           "clusterpolicyreports" \in DOMAIN read
    PROVE  Detected("Kyverno")
<1>1. Len(Calls["Kyverno"]) = 3 /\ 3 \in DOMAIN Calls["Kyverno"]
      /\ Calls["Kyverno"][3] = "clusterpolicyreports"
  BY DEF Calls
<1>2. 3 < at["Kyverno"]
  BY <1>1 DEF PassInv, ReadInOrder
<1>3. ~SwitchedOff("Kyverno") /\ Proceeds("Kyverno")
  BY DEF Proceeds, SwitchedOff, Misconfigured
<1>4. err["Kyverno"] = ""
  <2>1. at["Kyverno"] \in 1..(Len(Calls["Kyverno"]) + 1)
    BY DEF PassInv, TypeOK
  <2>2. ~(at["Kyverno"] <= Len(Calls["Kyverno"]))
    BY <1>1, <1>2, <2>1
  <2>3. ReadInOrder
    BY DEF PassInv
  <2> QED BY <1>3, <2>2, <2>3 DEF ReadInOrder
<1> QED BY <1>3, <1>4, ResultIs DEF Detected, Conditions

(* Whatever fails and whatever changes: the violations shown at a node     *)
(* come with the condition that Kyverno was read, and leave out no result  *)
(* of a report that was there all along (kyverno.go:82-110).               *)
THEOREM TalliesAreComplete == Spec => []TalliesAreWhole
<1>1. ASSUME PassInv PROVE TalliesAreWhole
  <2> DEFINE all == Got(read, "policyreports") \cup Got(read, "clusterpolicyreports")
             lasting == There("policyreports") \cup There("clusterpolicyreports")
             Tally(id) == TallyMeta(accumulateViolations(all), id)
  <2> SUFFICES ASSUME NEW node \in status.topology, "policyViolations" \in DOMAIN node.meta
               PROVE  /\ Detected("Kyverno")
                      /\ \A key \in DOMAIN TallyMeta(accumulateViolations(lasting), node.id) :
                            node.meta[key] >= TallyMeta(accumulateViolations(lasting), node.id)[key]
    BY Zenon DEF TalliesAreWhole
  <2>1. status # Nothing
    BY DEF Nothing
  <2>2. status.topology = MergedNodes(Reported) /\ Lists(Reported, AllNodes)
    BY <1>1, <2>1, ResultIs, ReportedLists DEF PassInv
  <2>3. ASSUME NEW y \in AllNodes, NEW k \in Tallied, k \in DOMAIN y.meta
        PROVE  /\ "Kyverno" \in Engines /\ y \in NodesOf("Kyverno") /\ y \in Tallies(read)
               /\ "clusterpolicyreports" \in DOMAIN read
    <3>1. PICK e \in Engines : y \in NodesOf(e)
      BY DEF AllNodes
    <3>2. Describes(e, y) \/ Enriches(e, y)
      BY <3>1, NodeProfile
    <3>3. k \notin Described /\ k # "istioTrafficWeights" /\ k \notin Metrics
      BY DEF Tallied, Described, Metrics, Queries
    <3>4. ~Describes(e, y)
      BY <2>3, <3>3 DEF Describes
    <3>5. e \in Engine /\ k \in Added[e]
      BY <2>3, <3>2, <3>4, EnginesAre DEF Enriches
    <3>6. e = "Kyverno"
      BY <3>3, <3>5 DEF Engine, Added
    <3> QED BY <3>1, <3>4, <3>6, NodesAre, KyvernoProfile
  <2>4. PICK y \in AllNodes : y.id = node.id /\ "policyViolations" \in DOMAIN y.meta
    BY <2>2, MergedIsSaid
  <2>5. /\ "Kyverno" \in Engines /\ "clusterpolicyreports" \in DOMAIN read
        /\ y \in NodesOf("Kyverno") /\ y \in Tallies(read)
    BY <2>3, <2>4 DEF Tallied
  <2>6. Detected("Kyverno")
    BY <1>1, <2>1, <2>5, TalliedIsDetected
  <2>7. ASSUME NEW z \in Tallies(read) PROVE z.meta = Tally(z.id)
    <3>1. PICK id : z = Enrichment(id, Tally(id))
      BY <2>7 DEF Tallies
    <3> HIDE DEF Tally
    <3> QED BY <3>1, EnrichmentIs
  <2>8. DOMAIN Tally(node.id) = Tallied
        /\ DOMAIN TallyMeta(accumulateViolations(lasting), node.id) = Tallied
    BY TallyKeys
  <2> HIDE DEF Tally
  <2>9. ASSUME NEW key \in Tallied PROVE node.meta[key] = Tally(node.id)[key]
    <3>1. key \in DOMAIN y.meta
      BY <2>4, <2>5, <2>7, <2>8
    <3>2. PICK other \in status.topology : Shows(other, y, AllNodes)
      BY <1>1, <2>1, <2>5, NodesAreShown
    <3>3. other = node
      <4>1. other.id = node.id
        BY <2>4, <3>2 DEF Shows
      <4> QED BY <2>2, <4>1, MergedOnce
    <3>4. key \in DOMAIN node.meta
      BY <3>1, <3>2, <3>3 DEF Shows
    <3>5. PICK z \in AllNodes : z.id = node.id /\ key \in DOMAIN z.meta
                                 /\ z.meta[key] = node.meta[key]
      BY <2>2, <3>4, MergedIsSaid
    <3>6. z \in Tallies(read)
      BY <2>3, <3>5
    <3> QED BY <2>7, <3>5, <3>6
  <2>10. lasting \subseteq all
    <3>1. /\ 2 \in DOMAIN Calls["Kyverno"] /\ Calls["Kyverno"][2] = "policyreports"
          /\ 3 \in DOMAIN Calls["Kyverno"] /\ Calls["Kyverno"][3] = "clusterpolicyreports"
      BY DEF Calls
    <3>2. /\ There("policyreports") \subseteq Got(read, "policyreports")
          /\ There("clusterpolicyreports") \subseteq Got(read, "clusterpolicyreports")
      BY <1>1, <2>1, <2>6, <3>1, ThereIsRead
    <3> QED BY <3>2
  <2>11. IsFiniteSet(accumulateViolations(all))
    <3>1. FiniteReading(read)
      BY <1>1, ReadingIsFinite DEF PassInv
    <3>2. IsFiniteSet(all)
      BY <3>1, GotIsFinite, FS_Union
    <3>3. \A r \in all : IsFiniteSet(DOMAIN r.results)
      BY <3>1 DEF FiniteReading
    <3> QED BY <3>2, <3>3, ViolationsFinite
  <2> HIDE DEF all, lasting
  <2>12. accumulateViolations(lasting) \subseteq accumulateViolations(all)
    BY <2>10, ViolationsGrow
  <2>13. ASSUME NEW key \in Tallied
         PROVE  TallyMeta(accumulateViolations(lasting), node.id)[key] <= Tally(node.id)[key]
    BY <2>11, <2>12, TallyGrows DEF Tally
  <2>14. \A key \in Tallied :
            node.meta[key] >= TallyMeta(accumulateViolations(lasting), node.id)[key]
    BY <2>9, <2>13
  <2> QED BY <2>6, <2>8, <2>14
<1> QED BY <1>1, PassesInOrder, PTL
-----------------------------------------------------------------------------
(* A pass keeps its promise.                                               *)

(* What an engine returned, or that it has not returned yet, stays so.     *)
Stands(x) ==
    /\ Ended(x)' <=> Ended(x)
    /\ NodesOf(x)' = NodesOf(x)
    /\ EdgesOf(x)' = EdgesOf(x)
    /\ err'[x] = err[x]

(* It depends on nothing but the engine's own part of the state.           *)
LEMMA OwnPartDecides ==
    ASSUME NEW x \in Engines, UNCHANGED spec, SameAnswers(read', read, Inputs[x]),
           x = "GitHub" => UNCHANGED asked,
           at'[x] = at[x], err'[x] = err[x], x \in stopped' <=> x \in stopped
    PROVE  Stands(x)
<1>1. x \in Engine
  BY EnginesAre
<1>2. Ended(x)' <=> Ended(x)
  <2>1. CASE x = "GitHub"
    <3>1. Got(read', "workflows") = Got(read, "workflows")
      BY <2>1 DEF SameAnswers, Inputs
    <3>2. Unasked' = Unasked
      BY <2>1, <3>1 DEF Unasked
    <3> QED BY <3>2 DEF Ended
  <2>2. CASE x # "GitHub"
    BY <2>2 DEF Ended
  <2> QED BY <2>1, <2>2
<1>3. NodesOf(x)' = NodesOf(x)
  BY <1>1, K8sReads, ArgoCDReads, IstioReads, KyvernoReads, GitHubReads, PrometheusReads
  DEF NodesOf, Engine
<1>4. EdgesOf(x)' = EdgesOf(x)
  BY K8sReads DEF EdgesOf
<1> QED BY <1>2, <1>3, <1>4 DEF Stands

(* The call of an engine is for an input of its own.                       *)
LEMMA CallsAreInputs ==
    ASSUME NEW e \in Engines, NEW n \in DOMAIN Calls[e], Calls[e][n] # "presence"
    PROVE  Calls[e][n] \in Inputs[e]
<1>0. e \in {"K8s", "ArgoCD", "Istio", "Kyverno", "GitHub", "Prometheus"}
  BY EnginesAre DEF Engine
<1>1. CASE e = "K8s"
  BY <1>1 DEF Calls, Inputs
<1>2. CASE e = "ArgoCD"
  BY <1>2 DEF Calls, Inputs
<1>3. CASE e = "Istio"
  BY <1>3 DEF Calls, Inputs
<1>4. CASE e = "Kyverno"
  BY <1>4 DEF Calls, Inputs
<1>5. CASE e = "GitHub"
  BY <1>5 DEF Calls, Inputs
<1>6. CASE e = "Prometheus"
  BY <1>6 DEF Calls, Inputs, Metrics, Queries
<1> QED BY <1>0, <1>1, <1>2, <1>3, <1>4, <1>5, <1>6

LEMMA PresenceReadsNothing == "presence" \notin Kinds
BY DEF Kinds

(* No engine writes to another one's result.                               *)
LEMMA OthersStand ==
    ASSUME TypeOK, NEW e \in Engines, EngineStep(e), NEW x \in Engines, x # e
    PROVE  Stands(x)
<1>1. UNCHANGED <<spec, asked>>
  BY EngineStepIs DEF Surroundings, Ends, GoesOn, GetsAnswer, Advances, RunsOut
<1>2. DOMAIN at = Engines /\ err \in [Engines -> {"", "failed", "misconfigured", "CRD not installed"}]
  BY DEF TypeOK
<1>3. at'[x] = at[x] /\ err'[x] = err[x] /\ (x \in stopped' <=> x \in stopped)
  <2>1. ASSUME NEW why, Ends(e, why)
        PROVE  at'[x] = at[x] /\ err'[x] = err[x] /\ (x \in stopped' <=> x \in stopped)
    BY <1>2, <2>1 DEF Ends, Returns
  <2>2. CASE GoesOn(e)
    BY <1>2, <2>2 DEF GoesOn, Advances
  <2>3. CASE RunsOut(e) \/ \E call \in Kinds : GetsAnswer(e, call)
    BY <1>2, <2>3 DEF RunsOut, GetsAnswer, Advances
  <2> QED BY <2>1, <2>2, <2>3, EngineStepIs
<1>4. SameAnswers(read', read, Inputs[x])
  <2>1. ASSUME NEW call \in Kinds, GetsAnswer(e, call)
        PROVE  SameAnswers(read', read, Inputs[x])
    <3>1. PICK answer : read' = [c \in DOMAIN read \cup {call} |-> IF c = call THEN answer ELSE read[c]]
      BY <2>1 DEF GetsAnswer
    <3>2. call \in Inputs[e]
      <4>1. at[e] \in DOMAIN Calls[e] /\ Calls[e][at[e]] = call
        <5>1. at[e] \in 1..(Len(Calls[e]) + 1) /\ at[e] <= Len(Calls[e]) /\ Calls[e][at[e]] = call
          BY <2>1 DEF GetsAnswer, Advances, TypeOK
        <5> QED BY <5>1, CallsAre
      <4>2. call # "presence"
        BY PresenceReadsNothing
      <4> QED BY <4>1, <4>2, CallsAreInputs
    <3>3. call \notin Inputs[x]
      BY <3>2, EnginesAre, InputsApart
    <3> QED BY <3>1, <3>3 DEF SameAnswers, Got
  <2>2. CASE UNCHANGED read
    BY <2>2 DEF SameAnswers
  <2> QED BY <2>1, <2>2, EngineStepIs DEF Ends, GoesOn, RunsOut
<1> QED BY <1>1, <1>3, <1>4, OwnPartDecides

LEMMA LatestRunStands ==
    ASSUME NEW wf, LatestRun(wf), NEW x \in Engines, x # "GitHub"
    PROVE  Stands(x)
<1>1. UNCHANGED <<spec, at, err, stopped>>
  BY LatestRunIs DEF Surroundings
<1>2. SameAnswers(read', read, Inputs[x])
  <2>1. "runs" \notin Inputs[x]
    <3>1. "runs" \in Inputs["GitHub"] /\ "GitHub" \in Engine
      BY DEF Inputs, Engine
    <3> QED BY <3>1, EnginesAre, InputsApart
  <2> QED BY <2>1, LatestRunIs DEF SameAnswers, Got
<1> QED BY <1>1, <1>2, OwnPartDecides

(* An engine that has not returned does, or nothing is to be seen.         *)
LEMMA AnswersOrWaits ==
    ASSUME NEW e \in Engines, ~Ended(e), \A x \in Engines \ {e} : Stands(x), UNCHANGED status
    PROVE  Pass!Answer(e) \/ UNCHANGED <<DiscoveryResults, status>>
<1> DEFINE R(x) == [nodes |-> NodesOf(x), edges |-> EdgesOf(x), ok |-> err[x] = ""]
           Final == {x \in Engines : Ended(x)}
<1>1. DiscoveryResults = [x \in Final |-> R(x)] /\ DiscoveryResults' = [x \in Final' |-> R(x)']
  BY DEF DiscoveryResults
<1>2. \A x \in Engines \ {e} : R(x)' = R(x)
  BY DEF Stands
<1>3. e \notin Final /\ Final' \in {Final, Final \cup {e}}
  BY DEF Stands
<1> HIDE DEF R, Final
<1> DEFINE D == DiscoveryResults
           D1 == DiscoveryResults'
<1>4. DOMAIN D = Final /\ DOMAIN D1 = Final' /\ \A x \in Final : x \in Engines \ {e}
  BY <1>1, <1>3 DEF Final
<1>5. CASE Final' = Final
  <2>1. D1 = D
    BY <1>1, <1>2, <1>4, <1>5
  <2> QED BY <2>1
<1>6. CASE Final' = Final \cup {e}
  <2>1. \A x \in Final : D1[x] = D[x]
    BY <1>1, <1>2, <1>4, <1>6
  <2>2. D1 = [x \in DOMAIN D \cup {e} |-> IF x = e THEN D1[e] ELSE D[x]]
    BY <1>1, <1>4, <1>6, <2>1
  <2>3. e \in DOMAIN D1 \ DOMAIN D
    BY <1>3, <1>4, <1>6
  <2> QED BY <2>2, <2>3 DEF Pass!Answer
<1> QED BY <1>3, <1>5, <1>6

(* What an unchanged pass has returned.                                    *)
LEMMA ResultsKept ==
    ASSUME UNCHANGED <<spec, at, read, asked, err, stopped>>
    PROVE  DiscoveryResults' = DiscoveryResults
<1>1. ASSUME NEW x \in Engines PROVE Stands(x)
  <2>1. SameAnswers(read', read, Inputs[x])
    BY DEF SameAnswers
  <2> QED BY <2>1, OwnPartDecides
<1> QED BY <1>1 DEF DiscoveryResults, Stands

(* The promise means by a union what the merge does.                       *)
LEMMA SameAgreement ==
    ASSUME NEW x, NEW y
    PROVE  Pass!Agree(x, y) <=> Agree(x, y)
BY DEF Pass!Agree, Agree, Pass!Texts, Texts

LEMMA SameUnion ==
    ASSUME NEW R
    PROVE  Pass!United(R) = United(R)
<1>1. ASSUME NEW id PROVE Pass!Of(R, id) = Of(R, id)
  BY DEF Pass!Of, Of
<1>2. ASSUME NEW id, NEW text PROVE Pass!AnyText(R, id, text) = AnyText(R, id, text)
  <2> DEFINE Given(S) == {x[text] : x \in S} \ {""}
             F(S) == IF Given(S) = {} THEN "" ELSE CHOOSE s \in Given(S) : TRUE
  <2>1. Pass!AnyText(R, id, text) = F(Pass!Of(R, id)) /\ AnyText(R, id, text) = F(Of(R, id))
    BY DEF Pass!AnyText, AnyText
  <2> HIDE DEF F
  <2> QED BY <1>1, <2>1
<1>3. ASSUME NEW id PROVE Pass!AnyMeta(R, id) = AnyMeta(R, id)
  <2> DEFINE F(S) == [k \in UNION {DOMAIN x.meta : x \in S} |->
                         (CHOOSE x \in S : k \in DOMAIN x.meta).meta[k]]
  <2>1. Pass!AnyMeta(R, id) = F(Pass!Of(R, id)) /\ AnyMeta(R, id) = F(Of(R, id))
    BY DEF Pass!AnyMeta, AnyMeta
  <2> HIDE DEF F
  <2> QED BY <1>1, <2>1
<1>4. ASSUME NEW id PROVE Pass!Unite(R, id) = Unite(R, id)
  BY <1>2, <1>3 DEF Pass!Unite, Unite
<1>5. ASSUME NEW node PROVE Pass!Stamped(node) = Stamped(node)
  BY DEF Pass!Stamped, Stamped, Pass!BrandColorFor, BrandColorFor
<1> QED BY <1>4, <1>5 DEF Pass!United, United

(* What is published is the union of what the engines returned.            *)
LEMMA FinishPublishes ==
    ASSUME PassInv, Finish
    PROVE  Pass!Publish
<1>1. status = Nothing /\ status' = Result /\ \A e \in Engines : Ended(e)
  BY DEF Finish
<1>2. UNCHANGED DiscoveryResults
  BY ResultsKept DEF Finish, engineVars
<1> DEFINE D == DiscoveryResults
<1>3. /\ DOMAIN D = Engines
      /\ \A e \in Engines : /\ D[e].nodes = NodesOf(e)
                            /\ D[e].edges = EdgesOf(e)
                            /\ D[e].ok = (err[e] = "")
  BY <1>1 DEF DiscoveryResults
<1> HIDE DEF D
<1>4. Pass!AllNodes = AllNodes
  <2>1. DOMAIN D = Engines /\ \A e \in Engines : D[e].nodes = NodesOf(e)
    BY <1>3
  <2>2. {D[e].nodes : e \in DOMAIN D} = {NodesOf(e) : e \in Engines}
    BY <2>1
  <2> QED BY <2>2 DEF Pass!AllNodes, AllNodes, D
<1>5. Result.topology = United(Pass!AllNodes)
  <2>1. Lists(Reported, AllNodes)
    BY ReportedLists DEF PassInv
  <2>2. MergedNodes(Reported) = United(AllNodes)
    BY <2>1, NodesAgree, MergeIsUnion
  <2> QED BY <1>4, <2>2 DEF Result
<1>6. Result.edges = UNION {D[e].edges : e \in DOMAIN D}
  <2>1. Result.edges = IF "K8s" \in Engines THEN K8sEdges(read) ELSE {}
    BY DEF Result
  <2>2. UNION {D[e].edges : e \in DOMAIN D} = UNION {EdgesOf(e) : e \in Engines}
    BY <1>3
  <2> QED BY <2>1, <2>2 DEF EdgesOf
<1>7. Result.detected = [e \in Engines |-> D[e].ok]
  BY <1>3 DEF Result, Conditions
<1>8. Result = [topology |-> Result.topology, edges |-> Result.edges, detected |-> Result.detected]
  BY DEF Result
<1>9. \A x, y \in Pass!AllNodes : x.id = y.id => Pass!Agree(x, y)
  BY <1>4, NodesAgree, SameAgreement
<1>10. Pass!United(Pass!AllNodes) = United(Pass!AllNodes)
  BY SameUnion
<1>11. status' = [topology |-> Pass!United(Pass!AllNodes),
                  edges    |-> UNION {D[e].edges : e \in DOMAIN D},
                  detected |-> [e \in Engines |-> D[e].ok]]
  BY <1>1, <1>5, <1>6, <1>7, <1>8, <1>10
<1> QED BY <1>1, <1>2, <1>3, <1>9, <1>11 DEF Pass!Publish, D

(* Every pass, whatever the engines, the cluster, the faults and the       *)
(* timeouts, is one answer of each engine, given for good, and one merge   *)
(* of them all, in which the order of the engines is not to be seen        *)
(* (platformmap_controller.go:86-103, 119-134).                            *)
THEOREM EnginesImplementPass == Spec => ImplementsPass
<1>1. Init => Pass!Init
  <2> SUFFICES ASSUME Init PROVE Pass!Init
    OBVIOUS
  <2>1. ASSUME NEW e \in Engines PROVE ~Ended(e)
    <3>1. at[e] = 1 /\ e \notin stopped
      BY DEF Init
    <3>2. Len(Calls[e]) \in Nat /\ Len(Calls[e]) >= 1
      BY EnginesAre, CallsAre DEF Calls, Queries, Engine
    <3> QED BY <3>1, <3>2 DEF Ended
  <2>2. DiscoveryResults = [e \in {} |-> {}]
    BY <2>1 DEF DiscoveryResults
  <2> QED BY <2>2 DEF Init, Pass!Init
<1>2. ASSUME PassInv, [Next]_vars PROVE [Pass!Next]_<<DiscoveryResults, status>>
  <2>0. TypeOK
    BY <1>2 DEF PassInv
  <2>1. ASSUME NEW e \in Engines, EngineStep(e)
        PROVE  Pass!Answer(e) \/ UNCHANGED <<DiscoveryResults, status>>
    <3>1. ~Ended(e) /\ UNCHANGED status
      BY <2>1, EngineStepIs DEF Surroundings
    <3>2. \A x \in Engines \ {e} : Stands(x)
      BY <2>0, <2>1, OthersStand
    <3> QED BY <3>1, <3>2, AnswersOrWaits
  <2>2. ASSUME NEW wf, LatestRun(wf)
        PROVE  /\ "GitHub" \in Engines
               /\ Pass!Answer("GitHub") \/ UNCHANGED <<DiscoveryResults, status>>
    <3>1. "GitHub" \in Engines /\ ~Ended("GitHub") /\ UNCHANGED status
      BY <2>2, LatestRunIs DEF Surroundings
    <3>2. \A x \in Engines \ {"GitHub"} : Stands(x)
      BY <2>2, LatestRunStands
    <3> QED BY <3>1, <3>2, AnswersOrWaits
  <2>3. CASE WorldChanges \/ UNCHANGED vars
    <3>1. UNCHANGED <<spec, at, read, asked, err, stopped, status>>
      BY <2>3 DEF WorldChanges, engineVars, vars
    <3> QED BY <3>1, ResultsKept
  <2>4. CASE Finish
    BY <1>2, <2>4, FinishPublishes DEF Pass!Next
  <2> QED BY <1>2, <2>1, <2>2, <2>3, <2>4 DEF Next, Pass!Next
<1> QED BY <1>1, <1>2, PassesInOrder, PTL DEF Spec, ImplementsPass, Pass!Spec
=============================================================================
