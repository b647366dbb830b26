\* One manager, restarted with other engines enabled; a map is deleted and created again.
SPECIFICATION Spec
CONSTANTS
  Maps = {pm}
  Sources = {k8s, prom}
  Core = {k8s}
  Missing = {}
  Toggled = {prom}
  FloatSources = {prom}
  Managers = {m1}
  ResourceVersions = {1, 2, 3, 4, 5, 6, 7}
  MaxBirths = 2
  MaxGen = 2
  MaxVersion = 1
  MaxDisruptions = 1
  MaxLag = 1
INVARIANTS
  TypeOK
  IInv
  VersionIdentifiesObject
  NoLostWakeup
  ShutdownNotPublished
PROPERTIES
  ImplementsStatusRegister
\* Once the last PlatformMap is deleted nothing is left to do.
CHECK_DEADLOCK FALSE
