SPECIFICATION FairSpec
CONSTANTS
  d1 = d1
  d2 = d2
  n1 = n1
  n2 = n2
  Unannotated = Unannotated
  Deployments = {d1, d2}
  Slugs = {s1}
  NamespaceOf <- MCNamespaceOf
  Namespaces <- MCNamespaces
  MaxPairs = 1
  MetricsOn = TRUE
CHECK_DEADLOCK FALSE
PROPERTIES
  SignalStops
  HeartbeatsContinue
