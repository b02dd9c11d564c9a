SPECIFICATION Spec
CONSTANTS
  s1 = s1
  s2 = s2
  c1 = c1
  c2 = c2
  c3 = c3
  m1 = m1
  p1 = p1
  p2 = p2
  p3 = p3
  Nobody = Nobody
  Slugs = {s1, s2}
  CpuRows = {c1, c2}
  MemoryRows = {m1}
  Keys = {p1, s2}
  Key <- WarningsKey
  Leads <- WarningsLeads
  CpuKinds = {"gauge", "counter"}
  MemoryKinds = {"counter"}
  HugeSums = {{}, {s1}}
  Ambiguity = {FALSE, TRUE}
  Values = {0}
  Times = {0, 1}
  Ceiling = 1
  MaxRows = 2
INVARIANTS
  TypeOK
  NoSilentLoss
  StaleGaugeExplained
PROPERTIES
  WithheldToldOnce
