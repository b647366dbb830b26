\* Two managers compete for one map, whose spec and cluster change.
SPECIFICATION FairSpec
CONSTANTS
  Maps = {pm}
  Sources = {k8s}
  Core = {k8s}
  Missing = {}
  Toggled = {}
  FloatSources = {}
  Managers = {m1, m2}
  ResourceVersions = {1, 2, 3, 4, 5, 6, 7, 8, 9}
  MaxBirths = 1
  MaxGen = 2
  MaxVersion = 2
  MaxDisruptions = 0
  MaxLag = 1
INVARIANTS
  IInv
PROPERTIES
  TopologyNeverRegresses
  PublishOnlyForCurrentSpec
  ImplementsStatusRegister
  SpecEventuallyObserved
\* Once the last PlatformMap is deleted nothing is left to do.
CHECK_DEADLOCK FALSE
