------------------------- MODULE MCDiscoveryEngines -------------------------
(* A small platform: namespace "shop" with deployments and services, and   *)
(* what the tools know of them and of another namespace.                   *)
EXTENDS DiscoveryEngines

CONSTANT Present0   \* kinds whose objects are all there at the start, or none

Shop == "shop"

Cart    == [ns |-> Shop, name |-> "cart", labels |-> [app |-> "cart"], replicas |-> Unset, ready |-> 1]
CartOff == [Cart EXCEPT !.ready = 0]
Billing == [ns |-> "other", name |-> "billing", labels |-> [app |-> "cart"], replicas |-> 2, ready |-> 1]
Bare    == [ns |-> Shop, name |-> "bare", labels |-> [tier |-> "web"], replicas |-> 1, ready |-> 1]

CartSvc == [ns |-> Shop, name |-> "cart", selector |-> [app |-> "cart"]]
AllSvc  == [ns |-> Shop, name |-> "all", selector |-> [k \in {} |-> ""]]

Canary == <<[host |-> "cart", subset |-> "v1", weight |-> 90],
            [host |-> "cart", subset |-> "v2", weight |-> 10],
            [host |-> "cart", subset |-> "v2", weight |-> 20],
            [host |-> "cart", subset |-> "", weight |-> 100]>>

Violation(outcome, kind, ns) == [outcome |-> outcome, kind |-> kind, ns |-> ns, name |-> "cart"]

Report(ns, name, results, fail, warn) ==
    [ns |-> ns, name |-> name, results |-> results, fail |-> fail, error |-> 0, warn |-> warn]

MCThings ==
    [deployments  |-> {Cart, CartOff, Bare, Billing},
     services     |-> {CartSvc, AllSvc},
     applications |-> {[ns |-> "argocd", name |-> "cart", dest |-> Shop, health |-> "Missing"],
                       [ns |-> "argocd", name |-> "billing", dest |-> "other", health |-> "Healthy"]},
     virtualservices  |-> {[ns |-> Shop, name |-> "cart", routes |-> Canary]},
     destinationrules |-> {[ns |-> Shop, name |-> "cart"]},
     policyreports |->
        {Report(Shop, "pr", <<Violation("fail", "Deployment", ""), Violation("warn", "Deployment", ""),
                              Violation("fail", "Pod", "")>>, 2, 1)},
     clusterpolicyreports |->
        {Report("", "cpr", <<Violation("error", "Deployment", Shop), Violation("pass", "Deployment", Shop)>>, 0, 0)},
     secret    |-> {[ns |-> "platform", name |-> "gh", hasKey |-> key] : key \in BOOLEAN},
     workflows |-> {[id |-> "ci"], [id |-> "deploy"]},
     runs      |-> {[workflow |-> "ci", status |-> "completed", conclusion |-> "failure"]},
     errorRatePct  |-> {[service |-> "cart", value |-> 1]},
     latencyP99Ms  |-> {[service |-> "cart", value |-> 20], [service |-> "", value |-> 7]},
     cpuUsageM     |-> {[service |-> "cart", value |-> 30]},
     memoryUsageMi |-> {[service |-> "cart", value |-> 40]}]

(* At the start no two versions of one object.                             *)
MCWorlds ==
    LET Initial(k) == CASE k = "secret"      -> {x \in MCThings[k] : x.hasKey}
                        [] k = "deployments" -> MCThings[k] \ {CartOff}
                        [] OTHER             -> MCThings[k]
    IN  {[k \in Kinds |-> IF k \in Present0 THEN Initial(k) ELSE {}]}

(* The secret of the GitHub token has the key, or lacks it.                *)
MCToolWorlds ==
    {[w EXCEPT !["secret"] = secret] :
        w \in MCWorlds, secret \in {{x} : x \in MCThings["secret"]}}

Configured == [tools |-> {"ArgoCD", "Istio", "Kyverno", "GitHub", "Prometheus"},
               repo |-> "korion/shop", tokenSecretRef |-> TRUE, usableURL |-> TRUE]

MCConfigured == {Configured}

MCSpecs ==
    {Configured,
     [Configured EXCEPT !.tools = {"GitHub"}, !.repo = ""],
     [Configured EXCEPT !.tools = {"GitHub"}, !.tokenSecretRef = FALSE],
     [Configured EXCEPT !.tools = {"Prometheus"}],
     [Configured EXCEPT !.tools = {"Prometheus"}, !.usableURL = FALSE]}
=============================================================================
