\* The refresh loop of one manager, with a tool that is not installed.
SPECIFICATION FairSpec
CONSTANTS
  Maps = {pm}
  Sources = {k8s, argocd}
  Core = {k8s}
  Missing = {argocd}
  Toggled = {}
  FloatSources = {}
  Managers = {m1}
  ResourceVersions = {1, 2, 3, 4, 5, 6, 7}
  MaxBirths = 1
  MaxGen = 2
  MaxVersion = 2
  MaxDisruptions = 1
  MaxLag = 1
PROPERTIES
  SpecEventuallyObserved
  TopologyCatchesUp
  QuietAfterDelete
\* Once the last PlatformMap is deleted nothing is left to do.
CHECK_DEADLOCK FALSE
