-------------------------- MODULE DiscoveryEngines --------------------------
(***************************************************************************)
(* One discovery pass in detail: what PlatformMapController abstracts as   *)
(* the answers of the sources (runDiscoverers and internal/discovery).     *)
(*                                                                         *)
(* The engines run at the same time, each under a timeout of its own.  An  *)
(* engine is a list of calls to a service; between any two calls of any    *)
(* engines the cluster may change, a call may fail, and a timeout may      *)
(* expire.  A failed call ends the engine, which keeps the nodes of the    *)
(* calls before it; only Prometheus goes on, and only a workflow's latest  *)
(* run may fail without the engine failing.  When the last engine has      *)
(* ended, the parts are merged and the conditions derived.                 *)
(***************************************************************************)
EXTENDS DiscoveryNodes, SequencesExt

CONSTANTS
    Engines,     \* the engines the manager was started with
    Namespace,   \* spec.namespace
    Specs,       \* possible specs: [tools, repo, tokenSecretRef, usableURL]
    Things,      \* by kind, the objects there may be
    Worlds,      \* by kind, the objects there are at the start: one is taken
    PageSize,    \* workflows in one answer of the GitHub API: 30
    MaxChanges,  \* bound: changes of the cluster during the pass
    MaxFaults    \* bound: calls that fail although their service has the answer

(* By engine, its calls.  Each call but presence is named for the kind of  *)
(* objects it returns; the calls for the latest runs come on top.          *)
Calls ==
    [K8s        |-> <<"deployments", "services">>,
     ArgoCD     |-> <<"presence", "applications">>,
     Istio      |-> <<"presence", "virtualservices", "destinationrules">>,
     Kyverno    |-> <<"presence", "policyreports", "clusterpolicyreports">>,
     GitHub     |-> <<"secret", "workflows">>,
     Prometheus |-> Queries]

Kinds == ((UNION {{Calls[e][n] : n \in DOMAIN Calls[e]} : e \in Engines}) \ {"presence"})
             \cup (IF "GitHub" \in Engines THEN {"runs"} ELSE {})

(* Listed in spec.namespace; the others are read across namespaces.        *)
Namespaced == {"deployments", "services", "virtualservices", "destinationrules", "policyreports"}

(* What tells one object of a kind from another.                           *)
Identity(k) ==
    CASE k = "workflows" -> {"id"}
      [] k = "runs"      -> {"workflow"}
      [] k \in Metrics   -> {"service"}
      [] OTHER           -> {"ns", "name"}

SameObject(k, x, y) == \A field \in Identity(k) : x[field] = y[field]

ASSUME EnginesAssumption == Engines \subseteq DOMAIN Calls

ASSUME PageSizeAssumption == PageSize \in Nat

(* Names and values have a bounded length, so that the objects there may   *)
(* be are finitely many; the API server lets none be without a name.       *)
ASSUME ThingsAssumption ==
    /\ \A k \in Kinds : IsFiniteSet(Things[k])
    /\ \A k \in Kinds \cap {"deployments", "services"} : \A x \in Things[k] : x.name # ""
    /\ \A k \in Kinds \cap {"virtualservices"} : \A x \in Things[k] : IsFiniteSet(DOMAIN x.routes)
    /\ \A k \in Kinds \cap {"policyreports", "clusterpolicyreports"} :
          \A x \in Things[k] : IsFiniteSet(DOMAIN x.results)

(* A cluster does not have an object twice.                                *)
ASSUME WorldsAssumption ==
    \A w \in Worlds :
        /\ DOMAIN w = Kinds
        /\ \A k \in Kinds : /\ w[k] \subseteq Things[k]
                            /\ \A x, y \in w[k] : SameObject(k, x, y) => x = y

VARIABLES
    spec,       \* what the map's spec says of tools
    installed,  \* engines whose API group the API server serves
    world,      \* by kind, the objects there are
    stable,     \* by kind, those that were there during the whole pass
    at,         \* by engine, the position of its current call
    read,       \* by answered call, the objects it returned
    asked,      \* workflows whose latest run was asked for
    err,        \* by engine, the error of its result
    stopped,    \* engines that returned early
    expired,    \* engines whose context is done
    troubled,   \* engines that were hit by a fault or a timeout of their own
    changes,    \* number of changes so far
    faults,     \* number of faults so far
    status      \* what the pass yields, or Nothing before

vars == <<spec, installed, world, stable, at, read, asked, err, stopped, expired,
          troubled, changes, faults, status>>

engineVars == <<at, read, asked, err, stopped, expired>>

Nothing == [topology |-> {}, edges |-> {}, detected |-> [e \in {} |-> FALSE]]

Init ==
    /\ spec \in Specs
    /\ installed \in SUBSET (Engines \cap {"ArgoCD", "Istio", "Kyverno"})
    /\ world \in Worlds
    /\ stable = world
    /\ at = [e \in Engines |-> 1]
    /\ read = [c \in {} |-> {}]
    /\ asked = {}
    /\ err = [e \in Engines |-> ""]
    /\ stopped = {}
    /\ expired = {}
    /\ troubled = {}
    /\ changes = 0
    /\ faults = 0
    /\ status = Nothing
-----------------------------------------------------------------------------
(* The engines.                                                            *)

Unasked == {wf.id : wf \in Got(read, "workflows")} \ asked

Ended(e) ==
    \/ e \in stopped
    \/ at[e] > Len(Calls[e]) /\ (e = "GitHub" => Unasked = {})

Calling(e, call) ==
    /\ ~Ended(e)
    /\ at[e] <= Len(Calls[e])
    /\ Calls[e][at[e]] = call

(* The toggles of spec.tools that an engine looks at.                      *)
SwitchedOff(e) == e \in {"GitHub", "Prometheus"} /\ e \notin spec.tools

(* The address of Prometheus is no URL, and no client is made.             *)
NoClient == ~spec.usableURL

Misconfigured(e) ==
    \/ e = "GitHub" /\ (spec.repo = "" \/ ~spec.tokenSecretRef)
    \/ e = "Prometheus" /\ NoClient

(* The group of engines is cancelled with the first one that fails.        *)
ReturnsCancelling(e, why) ==
    /\ stopped' = stopped \cup {e}
    /\ err' = [err EXCEPT ![e] = IF @ = "" THEN why ELSE @]
    /\ expired' = IF why = "" THEN expired ELSE Engines

(* The goroutines of the engines share one variable for the error.         *)
ReturnsSharing(e, why) ==
    /\ stopped' = stopped \cup {e}
    /\ err' = [x \in Engines |-> IF err[x] = "" THEN why ELSE err[x]]
    /\ expired' = expired

Returns(e, why) ==
    /\ stopped' = stopped \cup {e}
    /\ err' = [err EXCEPT ![e] = IF @ = "" THEN why ELSE @]
    /\ expired' = expired

Skip(e) ==
    /\ ~Ended(e)
    /\ SwitchedOff(e)
    /\ Returns(e, "")
    /\ UNCHANGED <<spec, installed, world, stable, at, read, asked, troubled, changes, faults, status>>

Refuse(e) ==
    /\ ~Ended(e)
    /\ ~SwitchedOff(e)
    /\ Misconfigured(e)
    /\ Returns(e, "misconfigured")
    /\ UNCHANGED <<spec, installed, world, stable, at, read, asked, troubled, changes, faults, status>>

Proceeds(e) == ~SwitchedOff(e) /\ ~Misconfigured(e)

Fault ==
    /\ faults < MaxFaults
    /\ faults' = faults + 1

(* GroupVersionAvailable.  It is given no context: a timeout leaves it be. *)
Present(e) ==
    /\ Calling(e, "presence")
    /\ e \in installed
    /\ at' = [at EXCEPT ![e] = @ + 1]
    /\ UNCHANGED <<spec, installed, world, stable, read, asked, err, stopped, expired,
                   troubled, changes, faults, status>>

NotPresent(e) ==
    /\ Calling(e, "presence")
    /\ \/ e \notin installed /\ UNCHANGED <<faults, troubled>>
       \/ e \in installed /\ Fault /\ troubled' = troubled \cup {e}
    /\ Returns(e, "CRD not installed")
    /\ UNCHANGED <<spec, installed, world, stable, at, read, asked, changes, status>>

Visible(call) ==
    {x \in world[call] : call \in Namespaced => x.ns = Namespace}

(* Every list comes whole but that of the workflows: of those GitHub sends *)
(* a page, and no second one is asked for.                                 *)
Answers(call) ==
    {page \in SUBSET Visible(call) :
        IF call = "workflows" /\ Cardinality(Visible(call)) > PageSize
        THEN Cardinality(page) = PageSize
        ELSE page = Visible(call)}

(* The secret must be there and have the key; a list may be empty.         *)
Usable(call) == call = "secret" => \E s \in world[call] : s.hasKey

Answered(e, call) ==
    /\ Calling(e, call)
    /\ call # "presence"
    /\ Proceeds(e)
    /\ e \notin expired
    /\ Usable(call)
    /\ \E answer \in Answers(call) :
          read' = [c \in DOMAIN read \cup {call} |-> IF c = call THEN answer ELSE read[c]]
    /\ at' = [at EXCEPT ![e] = @ + 1]
    /\ UNCHANGED <<spec, installed, world, stable, asked, err, stopped, expired,
                   troubled, changes, faults, status>>

NoToken(e) ==
    /\ Calling(e, "secret")
    /\ Proceeds(e)
    /\ e \notin expired
    /\ ~Usable("secret")
    /\ Returns(e, "misconfigured")
    /\ UNCHANGED <<spec, installed, world, stable, at, read, asked, troubled, changes, faults, status>>

(* A call that failed: Prometheus goes on to its next query, and its first *)
(* error is the result's; every other engine returns what it has.          *)
CallFailsRetrying(e) ==
    /\ ~Ended(e)
    /\ at[e] <= Len(Calls[e])
    /\ Calls[e][at[e]] # "presence"
    /\ Proceeds(e)
    /\ IF e = "Prometheus"
       THEN err' = [err EXCEPT ![e] = "failed"] /\ UNCHANGED <<at, stopped, expired>>
       ELSE Returns(e, "failed") /\ UNCHANGED at

CallFailsSwallowed(e) ==
    /\ ~Ended(e)
    /\ at[e] <= Len(Calls[e])
    /\ Calls[e][at[e]] # "presence"
    /\ Proceeds(e)
    /\ at' = [at EXCEPT ![e] = @ + 1]
    /\ UNCHANGED <<err, stopped, expired>>

CallFails(e) ==
    /\ ~Ended(e)
    /\ at[e] <= Len(Calls[e])
    /\ Calls[e][at[e]] # "presence"
    /\ Proceeds(e)
    /\ IF e = "Prometheus"
       THEN /\ at' = [at EXCEPT ![e] = @ + 1]
            /\ err' = [err EXCEPT ![e] = "failed"]
            /\ UNCHANGED <<stopped, expired>>
       ELSE Returns(e, "failed") /\ UNCHANGED at

CallBreaks(e) ==
    /\ CallFails(e)
    /\ e \notin expired
    /\ Fault
    /\ troubled' = troubled \cup {e}
    /\ UNCHANGED <<spec, installed, world, stable, read, asked, changes, status>>

CallTimesOut(e) ==
    /\ CallFails(e)
    /\ e \in expired
    /\ UNCHANGED <<spec, installed, world, stable, read, asked, troubled, changes, faults, status>>

(* latestRun, for the workflows one after the other; it may end without a  *)
(* run for any reason.                                                     *)
LatestRun(wf) ==
    /\ "GitHub" \in Engines
    /\ ~Ended("GitHub")
    /\ wf \in Unasked
    /\ asked' = asked \cup {wf}
    /\ \/ /\ "GitHub" \notin expired
          /\ read' = [c \in DOMAIN read \cup {"runs"} |->
                        IF c = "runs"
                        THEN Got(read, "runs") \cup {r \in world["runs"] : r.workflow = wf}
                        ELSE read[c]]
          /\ UNCHANGED <<faults, troubled>>
       \/ /\ "GitHub" \notin expired
          /\ Fault
          /\ troubled' = troubled \cup {"GitHub"}
          /\ UNCHANGED read
       \/ /\ "GitHub" \in expired
          /\ UNCHANGED <<read, faults, troubled>>
    /\ UNCHANGED <<spec, installed, world, stable, at, err, stopped, expired, changes, status>>

Expire(e) ==
    /\ ~Ended(e)
    /\ e \notin expired
    /\ expired' = expired \cup {e}
    /\ troubled' = troubled \cup {e}
    /\ UNCHANGED <<spec, installed, world, stable, at, read, asked, err, stopped, changes, faults, status>>
-----------------------------------------------------------------------------
(* The result.                                                             *)

NodesOf(e) ==
    CASE e = "K8s"        -> K8sNodes(read)
      [] e = "ArgoCD"     -> ArgoCDNodes(read, Namespace)
      [] e = "Istio"      -> IstioNodes(read, Namespace)
      [] e = "Kyverno"    -> KyvernoNodes(read)
      [] e = "GitHub"     -> GitHubNodes(read, spec.repo)
      [] e = "Prometheus" -> PrometheusNodes(read, Namespace)

(* The nodes of all engines, in the order of the engines.                  *)
Listed(e) == IF e \in Engines THEN SetToSeq(NodesOf(e)) ELSE <<>>

Reported ==
    Listed("K8s") \o Listed("ArgoCD") \o Listed("Istio")
        \o Listed("Kyverno") \o Listed("GitHub") \o Listed("Prometheus")

Conditions == [e \in Engines |-> err[e] = ""]

Result ==
    [topology |-> MergedNodes(Reported),
     edges    |-> IF "K8s" \in Engines THEN K8sEdges(read) ELSE {},
     detected |-> Conditions]

(* The last engines need not have ended.                                   *)
FinishUnwaited ==
    /\ status = Nothing
    /\ \E e \in Engines : Ended(e)
    /\ status' = Result
    /\ UNCHANGED <<spec, installed, world, stable, changes, faults, troubled, engineVars>>

Finish ==
    /\ status = Nothing
    /\ \A e \in Engines : Ended(e)
    /\ status' = Result
    /\ UNCHANGED <<spec, installed, world, stable, changes, faults, troubled, engineVars>>

(* An object is created, replaced by another version, or deleted.          *)
WorldChanges ==
    /\ status = Nothing
    /\ changes < MaxChanges
    /\ changes' = changes + 1
    /\ \E k \in Kinds : \E x \in Things[k] :
          world' = [world EXCEPT ![k] =
                       IF x \in @ THEN @ \ {x}
                       ELSE {y \in @ : ~SameObject(k, x, y)} \cup {x}]
    /\ stable' = [k \in Kinds |-> stable[k] \cap world'[k]]
    /\ UNCHANGED <<spec, installed, troubled, faults, status, engineVars>>

EngineStep(e) ==
    \/ Skip(e) \/ Refuse(e) \/ Present(e) \/ NotPresent(e) \/ NoToken(e)
    \/ CallBreaks(e) \/ CallTimesOut(e) \/ Expire(e)
    \/ \E call \in Kinds : Answered(e, call)

Next ==
    \/ \E e \in Engines : EngineStep(e)
    \/ \E wf \in {x.id : x \in Got(read, "workflows")} : LatestRun(wf)
    \/ WorldChanges
    \/ Finish

Spec == Init /\ [][Next]_vars

(* A timeout fires, and a call that was given the context returns once it  *)
(* did.  Nothing makes a service answer, and GroupVersionAvailable waits   *)
(* for one.                                                                *)
FairSpec ==
    /\ Spec
    /\ \A e \in Engines : /\ WF_vars(Expire(e))
                          /\ WF_vars(CallTimesOut(e))
                          /\ WF_vars(Skip(e) \/ Refuse(e))
    /\ WF_vars("GitHub" \in expired /\ \E wf \in Unasked : LatestRun(wf))
-----------------------------------------------------------------------------
ShownIds == {n.id : n \in status.topology}

(* The types of the pass's state.                                          *)
TypeOK ==
    /\ spec \in Specs
    /\ installed \subseteq Engines /\ stopped \subseteq Engines
    /\ expired \subseteq Engines /\ troubled \subseteq Engines
    /\ DOMAIN world = Kinds
    /\ \A k \in Kinds : stable[k] \subseteq world[k] /\ world[k] \subseteq Things[k]
    /\ DOMAIN at = Engines
    /\ \A e \in Engines : at[e] \in 1..(Len(Calls[e]) + 1)
    /\ \A c \in DOMAIN read : c \in Kinds /\ read[c] \subseteq Things[c]
    /\ err \in [Engines -> {"", "failed", "misconfigured", "CRD not installed"}]
    /\ status = Nothing \/ DOMAIN status.detected = Engines

(* The own node, or for a sample the metric, of an object of kind k.       *)
IdOf(k, x) ==
    CASE k = "deployments"          -> deploymentNodeID(x.ns, x.name)
      [] k = "services"             -> serviceNodeID(x.ns, x.name)
      [] k = "applications"         -> <<"argocd-application", x.ns, x.name>>
      [] k = "virtualservices"      -> <<"istio-virtualservice", x.ns, x.name>>
      [] k = "destinationrules"     -> <<"istio-destinationrule", x.ns, x.name>>
      [] k = "policyreports"        -> <<"kyverno-policyreport", x.ns, x.name>>
      [] k = "clusterpolicyreports" -> <<"kyverno-clusterpolicyreport", x.ns, x.name>>
      [] k = "workflows"            -> <<"github-actions-workflow", spec.repo, x.id>>
      [] OTHER                      -> serviceNodeID(Namespace, x.service)

Concerns(k, x) ==
    /\ k \in Namespaced => x.ns = Namespace
    /\ k = "applications" => x.dest = Namespace
    /\ k \in Metrics => x.service # ""

(* Every list comes whole, unless the workflows fill more than a page.     *)
ListedWhole(k) ==
    /\ k \notin {"presence", "secret"}
    /\ k = "workflows" => Cardinality(Things[k]) <= PageSize

(* A source reported as detected, and not switched off, is shown whole:    *)
(* everything of it that was there during the pass is in the topology, so  *)
(* that a call that failed is never passed off as an empty list, as long   *)
(* as the workflows fill no more than a page                               *)
(* (platformmap_controller.go:136-150).                                    *)
TrueMeansComplete ==
    status # Nothing =>
        \A e \in Engines : status.detected[e] /\ ~SwitchedOff(e) =>
            \A n \in DOMAIN Calls[e] : LET k == Calls[e][n] IN
                ListedWhole(k) =>
                    \A x \in {y \in stable[k] : Concerns(k, y)} :
                        \E node \in status.topology :
                            /\ node.id = IdOf(k, x)
                            /\ e = "Prometheus" => k \in DOMAIN node.meta

(* No list has an object twice, the one that is there or the one that was  *)
(* read; the runs are read one by one.                                     *)
NoTwins ==
    /\ \A k \in Kinds : \A x, y \in world[k] : SameObject(k, x, y) => x = y
    /\ \A c \in DOMAIN read \ {"runs"} : \A x, y \in read[c] : SameObject(c, x, y) => x = y

(* An engine without an error has every answer up to its current call, and *)
(* each has what was there all along.                                      *)
ReadSoFar ==
    \A e \in Engines : err[e] = "" =>
        \A n \in 1..(at[e] - 1) : LET k == Calls[e][n] IN
            k # "presence" =>
                /\ k \in DOMAIN read
                /\ ListedWhole(k) =>
                      {x \in stable[k] : k \in Namespaced => x.ns = Namespace} \subseteq read[k]

(* An engine's answers lie behind its current call; one that a call of its *)
(* made fail goes no further, but for Prometheus.                          *)
ReadInOrder ==
    \A e \in Engines :
        /\ \A n \in DOMAIN Calls[e] : Calls[e][n] \in DOMAIN read => n < at[e]
        /\ e # "Prometheus" /\ Proceeds(e) /\ err[e] # ""
              => e \in stopped /\ at[e] <= Len(Calls[e])

(* A pass at any moment, in the order of runDiscoverers and Discover: what *)
(* is read is whole, an engine that returned early without an error was    *)
(* switched off, and what is published is made of the final answers and    *)
(* errors of all engines (platformmap_controller.go:86-103, 119-153).      *)
PassInv ==
    /\ TypeOK
    /\ NoTwins
    /\ ReadSoFar
    /\ ReadInOrder
    /\ \A e \in stopped : err[e] = "" => SwitchedOff(e)
    /\ status # Nothing => (\A e \in Engines : Ended(e)) /\ status = Result

(* A source is reported as failed only for a trouble of its own: a call of *)
(* it that failed or timed out, its configuration, or its absence.  The    *)
(* errors of the others never reach it (platformmap_controller.go:115-118).*)
FailureStaysLocal ==
    status # Nothing =>
        \A e \in Engines :
            \/ status.detected[e]
            \/ e \in troubled
            \/ err[e] = "misconfigured"
            \/ err[e] = "CRD not installed" /\ e \notin installed

(* No two engines disagree on a detail of a node, so that the order they   *)
(* are merged in decides nothing (builder.go:20-26).                       *)
EnginesDoNotConflict == (\A e \in Engines : Ended(e)) => Consistent(Reported)

(* What an engine measures of a Service or a Deployment that is there is   *)
(* shown at its node, not at a nameless one beside it: the engines agree   *)
(* on the ids of what they describe (prometheus.go:45-48, istio.go:83,     *)
(* kyverno.go:151-201).                                                    *)
ShownAt(id, type, key) ==
    \E n \in status.topology : n.id = id /\ n.type = type /\ key \in DOMAIN n.meta

IsAbout(result, report, dep) ==
    /\ result.kind = "Deployment"
    /\ result.name = dep.name
    /\ dep.ns = IF result.ns = "" THEN report.ns ELSE result.ns
    /\ result.outcome \in {"fail", "error", "warn"}

There(k) == IF k \in Kinds THEN {x \in stable[k] : Concerns(k, x)} ELSE {}

Detected(e) == e \in Engines /\ status.detected[e] /\ ~SwitchedOff(e)

EnrichmentsJoin ==
    status # Nothing /\ Detected("K8s") =>
        /\ Detected("Kyverno") =>
              \A report \in There("policyreports") \cup There("clusterpolicyreports") :
              \A dep \in There("deployments") : \A n \in DOMAIN report.results :
                  IsAbout(report.results[n], report, dep)
                      => ShownAt(IdOf("deployments", dep), "k8s-deployment", "policyViolations")
        /\ Detected("Istio") =>
              \A vs \in There("virtualservices") :
              \A svc \in There("services") : \A n \in DOMAIN vs.routes :
                  vs.routes[n].host = svc.name /\ vs.routes[n].subset # ""
                      => ShownAt(IdOf("services", svc), "k8s-service", "istioTrafficWeights")
        /\ Detected("Prometheus") =>
              \A metric \in Metrics : \A sample \in There(metric) :
              \A svc \in There("services") :
                  sample.service = svc.name
                      => ShownAt(IdOf("services", svc), "k8s-service", metric)

(* The violations shown at a deployment are a sum over both lists: they    *)
(* come with the condition that Kyverno was read whole, and leave out no   *)
(* result of a report that was there all along.  An engine that fails      *)
(* between the lists shows no sum, rather than one too small               *)
(* (kyverno.go:82-110).                                                    *)
TalliesAreWhole ==
    LET lasting == accumulateViolations(There("policyreports") \cup There("clusterpolicyreports"))
    IN  \A node \in {n \in status.topology : "policyViolations" \in DOMAIN n.meta} :
            /\ Detected("Kyverno")
            /\ \A key \in DOMAIN TallyMeta(lasting, node.id) :
                  node.meta[key] >= TallyMeta(lasting, node.id)[key]

(* The edges are those the selectors ask for, although the two lists are   *)
(* read apart and objects come and go between them: each edge joins two    *)
(* nodes of the topology, and a Service and a Deployment that were there   *)
(* all along are joined exactly if the one selects the other               *)
(* (k8s.go:77-95).                                                         *)
EdgesFollowSelectors ==
    /\ \A edge \in status.edges : edge.from \in ShownIds /\ edge.to \in ShownIds
    /\ status # Nothing /\ Detected("K8s") =>
          \A svc \in There("services") : \A dep \in There("deployments") :
              selectorMatchesLabels(svc.selector, dep.labels)
                  <=> \E edge \in status.edges : /\ edge.from = IdOf("services", svc)
                                                /\ edge.to = IdOf("deployments", dep)

(* An engine whose context is done returns, although no service need ever  *)
(* answer (platformmap_controller.go:40, "discoveryTimeout bounds each     *)
(* individual Discoverer call"); the presence check is the exception, it   *)
(* is given no context (detect.go:40).                                     *)
DiscoverIsBounded ==
    \A e \in Engines : e \in expired /\ ~Calling(e, "presence") ~> Ended(e)

(* What an engine returned: its DiscoveryResult.                           *)
EdgesOf(e) == IF e = "K8s" THEN K8sEdges(read) ELSE {}

DiscoveryResults ==
    [e \in {x \in Engines : Ended(x)} |->
        [nodes |-> NodesOf(e), edges |-> EdgesOf(e), ok |-> err[e] = ""]]

(* For Reconcile a pass is one answer of each engine, given for good, and  *)
(* one merge of them all, in which the order of the engines is not to be   *)
(* seen: no engine writes to another one's result, none is read before it  *)
(* has ended, and a late error takes nothing back                          *)
(* (platformmap_controller.go:86-103, 119-134).                            *)
Pass == INSTANCE DiscoveryPass WITH answers <- DiscoveryResults

ImplementsPass == Pass!Spec
=============================================================================
