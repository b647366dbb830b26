\* A restart that disables an engine.
SPECIFICATION Spec
CONSTANTS
  Maps = {pm}
  Sources = {k8s, argocd}
  Core = {k8s}
  Missing = {}
  Toggled = {}
  FloatSources = {}
  Managers = {m1}
  ResourceVersions = {1, 2, 3, 4, 5, 6, 7}
  MaxBirths = 1
  MaxGen = 1
  MaxVersion = 1
  MaxDisruptions = 1
  MaxLag = 1
INVARIANTS
  DetectedMeansDiscovered
\* Once the last PlatformMap is deleted nothing is left to do.
CHECK_DEADLOCK FALSE
