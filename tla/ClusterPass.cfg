\* The engines that read the cluster, while it changes twice and a call fails.
SPECIFICATION Spec
CONSTANTS
    Engines = {"K8s", "Istio", "Kyverno"}
    Namespace = "shop"
    Specs <- MCConfigured
    Things <- MCThings
    Worlds <- MCWorlds
    Present0 = {"deployments", "services", "virtualservices", "destinationrules", "policyreports", "clusterpolicyreports"}
    PageSize = 2
    MaxChanges = 2
    MaxFaults = 1
INVARIANTS
    PassInv
    TrueMeansComplete
    TalliesAreWhole
    EdgesFollowSelectors
    EnginesDoNotConflict
    EnrichmentsJoin
PROPERTIES
    ImplementsPass
\* The pass is over once its status is published.
CHECK_DEADLOCK FALSE
