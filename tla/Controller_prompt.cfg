SPECIFICATION Spec
CONSTANTS
  p1 = p1
  p2 = p2
  p3 = p3
  n1 = n1
  n2 = n2
  Pipelines = {p1, p2, p3}
  Namespaces = {n1, n2}
  NamespaceOf <- ThreeInTwo
  NoPipeline = NoPipeline
  SCC = SCC
  ClusterRole = ClusterRole
  MaxDisturbances = 4
  LaggingCache = FALSE
  EarlyDeletion = FALSE
  ForegroundDeletion = FALSE
INVARIANTS
  SettledIsProvisioned
  NoOrphans
PROPERTIES
  ImplementsLifeCycle
