SPECIFICATION Spec
CONSTANTS
  p1 = p1
  p2 = p2
  p3 = p3
  n1 = n1
  n2 = n2
  Pipelines = {p1, p2}
  Namespaces = {n1}
  NamespaceOf <- OneNamespace
  NoPipeline = NoPipeline
  SCC = SCC
  ClusterRole = ClusterRole
  MaxDisturbances = 3
  LaggingCache = TRUE
  EarlyDeletion = FALSE
  ForegroundDeletion = FALSE
INVARIANTS
  OneItemMeansLast
