\* A Prometheus sample that JSON cannot express.
SPECIFICATION FairSpec
CONSTANTS
  Maps = {pm}
  Sources = {k8s, prom}
  Core = {k8s}
  Missing = {}
  Toggled = {}
  FloatSources = {prom}
  Managers = {m1}
  ResourceVersions = {1, 2, 3, 4, 5, 6, 7}
  MaxBirths = 1
  MaxGen = 1
  MaxVersion = 1
  MaxDisruptions = 0
  MaxLag = 1
PROPERTIES
  CoreEventuallyShown
\* Once the last PlatformMap is deleted nothing is left to do.
CHECK_DEADLOCK FALSE
