SPECIFICATION Spec
CONSTANTS
  d1 = d1
  d2 = d2
  n1 = n1
  n2 = n2
  Unannotated = Unannotated
  Deployments = {d1, d2}
  Slugs = {s1, s2}
  NamespaceOf <- MCNamespaceOf
  Namespaces <- MCNamespaces
  MaxPairs = 1
  MetricsOn = TRUE
CHECK_DEADLOCK FALSE
INVARIANTS
  TypeOK
  BatchIsComplete
  ShadowsNamedWithinBudget
  SourceSeriesSettles
  OnlySignalStops
PROPERTIES
  ImplementsLoop
