--------------------------- MODULE DiscoveryNodes ---------------------------
(***************************************************************************)
(* What each discovery engine makes of what it read (internal/discovery):  *)
(* pure functions from the objects a call returned to nodes and edges.     *)
(*                                                                         *)
(* read maps the calls that were answered to the set of objects each       *)
(* returned; an engine that stopped early lacks the later ones.  Metadata  *)
(* keeps the keys that engines could share, and those that are computed;   *)
(* keys whose values are copied from the object are represented by         *)
(* resourceKind.                                                           *)
(***************************************************************************)
EXTENDS Topology, FiniteSets

Got(read, call) == IF call \in DOMAIN read THEN read[call] ELSE {}

Node(id, type, label, status, meta) ==
    [id |-> id, type |-> type, label |-> label, status |-> status, meta |-> meta]

(* A node that only adds metadata to the entity of its id.                 *)
Enrichment(id, meta) == Node(id, "", "", "", meta)
-----------------------------------------------------------------------------
deploymentNodeID(namespace, name) == <<"deployment", namespace, name>>
serviceNodeID(namespace, name)    == <<"service", namespace, name>>

Unset == -1   \* spec.replicas absent

deploymentNode(dep) ==
    LET desiredReplicas == IF dep.replicas = Unset THEN 1 ELSE dep.replicas
    IN  Node(deploymentNodeID(dep.ns, dep.name), "k8s-deployment", dep.name,
             IF dep.ready < desiredReplicas THEN "degraded" ELSE "healthy",
             [resourceKind |-> "Deployment", replicasReady |-> dep.ready])

serviceNode(svc) ==
    Node(serviceNodeID(svc.ns, svc.name), "k8s-service", svc.name, "healthy",
         [resourceKind |-> "Service"])

(* A missing key of a Go map reads as "".                                  *)
LabelOf(labels, k) == IF k \in DOMAIN labels THEN labels[k] ELSE ""

selectorMatchesLabels(selector, labels) ==
    /\ DOMAIN selector # {}
    /\ \A k \in DOMAIN selector : LabelOf(labels, k) = selector[k]

K8sNodes(read) ==
    {deploymentNode(dep) : dep \in Got(read, "deployments")}
        \cup {serviceNode(svc) : svc \in Got(read, "services")}

(* The ends of the edges are swapped.                                      *)
K8sEdgesReversed(read) ==
    {[from |-> deploymentNodeID(pair[2].ns, pair[2].name),
      to   |-> serviceNodeID(pair[1].ns, pair[1].name),
      type |-> "routes-to", label |-> ""] :
        pair \in {p \in Got(read, "services") \X Got(read, "deployments") :
                     selectorMatchesLabels(p[1].selector, p[2].labels)}}

K8sEdges(read) ==
    {[from |-> serviceNodeID(pair[1].ns, pair[1].name),
      to   |-> deploymentNodeID(pair[2].ns, pair[2].name),
      type |-> "routes-to", label |-> ""] :
        pair \in {p \in Got(read, "services") \X Got(read, "deployments") :
                     selectorMatchesLabels(p[1].selector, p[2].labels)}}
-----------------------------------------------------------------------------
argoCDHealthToNodeStatus(health) ==
    CASE health = "Healthy"                -> "healthy"
      [] health \in {"Degraded", "Missing"} -> "degraded"
      [] OTHER                             -> "unknown"

argoCDApplicationNode(app) ==
    Node(<<"argocd-application", app.ns, app.name>>, "argocd-application", app.name,
         argoCDHealthToNodeStatus(app.health), [resourceKind |-> "Application"])

(* The list spans all namespaces: those that deploy to namespace are kept. *)
ArgoCDNodes(read, namespace) ==
    {argoCDApplicationNode(app) :
        app \in {a \in Got(read, "applications") : a.dest = namespace}}
-----------------------------------------------------------------------------
virtualServiceNode(vs) ==
    Node(<<"istio-virtualservice", vs.ns, vs.name>>, "istio-virtualservice", vs.name,
         "healthy", [resourceKind |-> "VirtualService"])

destinationRuleNode(dr) ==
    Node(<<"istio-destinationrule", dr.ns, dr.name>>, "istio-destinationrule", dr.name,
         "healthy", [resourceKind |-> "DestinationRule"])

(* The routes that name a host and a subset, as <<object, position>>.  Of  *)
(* those that name the same ones in an object the last one counts, of      *)
(* those in two objects that of either.                                    *)
Weighted(read) ==
    {r \in UNION {{<<vs, n>> : n \in DOMAIN vs.routes} : vs \in Got(read, "virtualservices")} :
        LET route == r[1].routes[r[2]] IN route.host # "" /\ route.subset # ""}

collectTrafficWeights(read, host) ==
    LET Naming(subset) ==
            {r \in Weighted(read) : LET route == r[1].routes[r[2]]
                                    IN  route.host = host /\ route.subset = subset}
        subsets == {r[1].routes[r[2]].subset : r \in Weighted(read)}
        Counts(r, subset) == \A x \in Naming(subset) : x[1] = r[1] => x[2] <= r[2]
        Final(subset) == CHOOSE r \in Naming(subset) : Counts(r, subset)
    IN  [subset \in {x \in subsets : Naming(x) # {}} |->
            Final(subset)[1].routes[Final(subset)[2]].weight]

(* The weights are added as a node with a health of its own.               *)
IstioNodesWithHealth(read, namespace) ==
    {virtualServiceNode(vs) : vs \in Got(read, "virtualservices")}
        \cup {Node(serviceNodeID(namespace, host), "", "", "unknown",
                   [istioTrafficWeights |-> collectTrafficWeights(read, host)]) :
                 host \in {r[1].routes[r[2]].host : r \in Weighted(read)}}
        \cup {destinationRuleNode(dr) : dr \in Got(read, "destinationrules")}

IstioNodes(read, namespace) ==
    {virtualServiceNode(vs) : vs \in Got(read, "virtualservices")}
        \cup {Enrichment(serviceNodeID(namespace, host),
                         [istioTrafficWeights |-> collectTrafficWeights(read, host)]) :
                 host \in {r[1].routes[r[2]].host : r \in Weighted(read)}}
        \cup {destinationRuleNode(dr) : dr \in Got(read, "destinationrules")}
-----------------------------------------------------------------------------
policyReportNode(report, nodeType) ==
    Node(<<nodeType, report.ns, report.name>>, nodeType, report.name,
         IF report.fail > 0 \/ report.error > 0 THEN "degraded"
         ELSE IF report.warn > 0 THEN "unknown" ELSE "healthy",
         [resourceKind |-> nodeType])

(* The results about Deployments, as <<report, position>>.                 *)
accumulateViolations(reports) ==
    {r \in UNION {{<<report, n>> : n \in DOMAIN report.results} : report \in reports} :
        LET result == r[1].results[r[2]]
        IN  /\ result.outcome \in {"fail", "error", "warn"}
            /\ result.kind = "Deployment"
            /\ result.name # ""}

(* A result without a namespace is not taken for its report's namespace.   *)
TargetOfRaw(r) ==
    LET result == r[1].results[r[2]] IN deploymentNodeID(result.ns, result.name)

TargetOf(r) ==
    LET result == r[1].results[r[2]]
    IN  deploymentNodeID(IF result.ns = "" THEN r[1].ns ELSE result.ns, result.name)

TallyMeta(violations, id) ==
    LET Count(outcomes) ==
            Cardinality({r \in violations :
                            TargetOf(r) = id /\ r[1].results[r[2]].outcome \in outcomes})
    IN  [policyViolations      |-> Count({"fail", "error"}),
         policyViolationsFail  |-> Count({"fail"}),
         policyViolationsError |-> Count({"error"}),
         policyViolationsWarn  |-> Count({"warn"})]

Tallies(read) ==
    LET violations == accumulateViolations(Got(read, "policyreports")
                                               \cup Got(read, "clusterpolicyreports"))
    IN  {Enrichment(id, TallyMeta(violations, id)) : id \in {TargetOf(r) : r \in violations}}

(* The tally is added whatever the second list came to.                    *)
KyvernoNodesTallied(read) ==
    {policyReportNode(r, "kyverno-policyreport") : r \in Got(read, "policyreports")}
        \cup {policyReportNode(r, "kyverno-clusterpolicyreport") :
                 r \in Got(read, "clusterpolicyreports")}
        \cup Tallies(read)

(* The tally is added only when both lists were read.                      *)
KyvernoNodes(read) ==
    {policyReportNode(r, "kyverno-policyreport") : r \in Got(read, "policyreports")}
        \cup {policyReportNode(r, "kyverno-clusterpolicyreport") :
                 r \in Got(read, "clusterpolicyreports")}
        \cup (IF "clusterpolicyreports" \in DOMAIN read THEN Tallies(read) ELSE {})
-----------------------------------------------------------------------------
githubConclusionToNodeStatus(conclusion, status) ==
    IF status = "completed" /\ conclusion = "success" THEN "healthy"
    ELSE IF /\ status = "completed"
            /\ conclusion \in {"failure", "timed_out", "cancelled", "action_required"}
         THEN "degraded" ELSE "unknown"

githubRepositoryNode(repo) ==
    Node(<<"github-repository", repo>>, "github-repository", repo, "healthy",
         [resourceKind |-> "Repository"])

(* runs has the latest run of the workflow, or nothing.                    *)
githubWorkflowNode(repo, wf, runs) ==
    LET run == CHOOSE r \in runs : TRUE
    IN  Node(<<"github-actions-workflow", repo, wf.id>>, "github-actions-workflow", wf.id,
             IF runs = {} THEN "unknown"
             ELSE githubConclusionToNodeStatus(run.conclusion, run.status),
             [k \in {"resourceKind"} \cup (IF runs = {} THEN {} ELSE {"lastRunStatus"}) |->
                 IF k = "resourceKind" THEN "Workflow" ELSE run.status])

(* A workflow is left out until its latest run is known.                   *)
GitHubNodesWithRun(read, repo) ==
    (IF "secret" \in DOMAIN read THEN {githubRepositoryNode(repo)} ELSE {})
        \cup {githubWorkflowNode(repo, wf, {r \in Got(read, "runs") : r.workflow = wf.id}) :
                 wf \in {w \in Got(read, "workflows") :
                           \E r \in Got(read, "runs") : r.workflow = w.id}}

GitHubNodes(read, repo) ==
    (IF "secret" \in DOMAIN read THEN {githubRepositoryNode(repo)} ELSE {})
        \cup {githubWorkflowNode(repo, wf, {r \in Got(read, "runs") : r.workflow = wf.id}) :
                 wf \in Got(read, "workflows")}
-----------------------------------------------------------------------------
Queries == <<"errorRatePct", "latencyP99Ms", "cpuUsageM", "memoryUsageMi">>

Metrics == {Queries[n] : n \in DOMAIN Queries}

(* The samples of a service by metric; those without the label are left    *)
(* out.                                                                    *)
queryByService(read, metric, service) ==
    {s \in Got(read, metric) : s.service = service /\ s.service # ""}

Measured(read) == {s.service : s \in UNION {Got(read, metric) : metric \in Metrics}} \ {""}

Measures(read, service) ==
    [metric \in {m \in Metrics : queryByService(read, m, service) # {}} |->
        (CHOOSE s \in queryByService(read, metric, service) : TRUE).value]

PrometheusNodes(read, namespace) ==
    {Enrichment(serviceNodeID(namespace, service), Measures(read, service)) :
        service \in Measured(read)}
=============================================================================
