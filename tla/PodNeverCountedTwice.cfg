SPECIFICATION Spec
CONSTANTS
  s1 = s1
  s2 = s2
  foreign = foreign
  NoLabel = NoLabel
  Pause = Pause
  Namespaces = {n1, n2}
  Pods = {p1}
  Containers = {c1}
  Slugs = {s1}
  LabelSets <- MCPodShapes
  SlugLabels <- MCUnlabelled
  MaxFamily = 2
INVARIANT
  PodNeverCountedTwice
