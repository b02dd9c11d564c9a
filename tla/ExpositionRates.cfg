SPECIFICATION Spec
CONSTANTS
  s1 = s1
  s2 = s2
  c1 = c1
  c2 = c2
  c3 = c3
  m1 = m1
  p1 = p1
  p2 = p2
  p3 = p3
  Nobody = Nobody
  Slugs = {s1}
  CpuRows = {c1, c2, c3}
  MemoryRows = {}
  Keys = {p1, p2, p3}
  Key <- RatesKey
  Leads <- RatesLeads
  CpuKinds = {"counter"}
  MemoryKinds = {}
  HugeSums = {{}}
  Ambiguity = {FALSE}
  Values = {0, 1}
  Times = {0, 1}
  Ceiling = 2
  MaxRows = 3
SYMMETRY PodSymmetry
PROPERTIES
  WholeAndSeenTwice
  NoSecondTickLost
