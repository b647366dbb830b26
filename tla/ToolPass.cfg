\* The engines that depend on the map's configuration or an optional tool,
\* with services that may never answer.
SPECIFICATION FairSpec
CONSTANTS
    Engines = {"K8s", "ArgoCD", "GitHub", "Prometheus"}
    Namespace = "shop"
    Specs <- MCSpecs
    Things <- MCThings
    Worlds <- MCToolWorlds
    Present0 = {"applications", "workflows", "cpuUsageM", "latencyP99Ms"}
    PageSize = 2
    MaxChanges = 0
    MaxFaults = 1
INVARIANTS
    TrueMeansComplete
    FailureStaysLocal
PROPERTIES
    DiscoverIsBounded
    ImplementsPass
\* The pass is over once its status is published.
CHECK_DEADLOCK FALSE
