\* One manager that restarts, one dashboard, a map that comes and goes.
SPECIFICATION FairSpec
CONSTANTS
    Maps = {pm}
    Polled = pm
    Sources = {k8s}
    Core = {k8s}
    ResourceVersions = {1}
    Managers = {m1}
    MaxBirths = 2
    MaxGen = 1
    MaxVersion = 1
    MaxRetries = 3
    MaxLog = 6
    MaxFaults = 2
INVARIANTS
    TypeOK
    NotFoundIsHonest
PROPERTIES
    ViewNeverGoesBack
    ViewCatchesUp
