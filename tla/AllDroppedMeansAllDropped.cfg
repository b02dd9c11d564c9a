SPECIFICATION Spec
CONSTANTS
  s1 = s1
  s2 = s2
  c1 = c1
  c2 = c2
  c3 = c3
  m1 = m1
  p1 = p1
  p2 = p2
  p3 = p3
  Nobody = Nobody
  Slugs = {s1}
  CpuRows = {c1, c3}
  MemoryRows = {m1}
  Keys = {p1, p3}
  Key <- ShapesKey
  Leads <- ShapesLeads
  CpuKinds = {"counter"}
  MemoryKinds = {"gauge", "counter"}
  HugeSums = {{}}
  Ambiguity = {FALSE}
  Values = {0}
  Times = {0, 1}
  Ceiling = 2
  MaxRows = 2
INVARIANTS
  AllDroppedMeansAllDropped
