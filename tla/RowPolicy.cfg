SPECIFICATION Spec
CONSTANTS
  s1 = s1
  s2 = s2
  foreign = foreign
  NoLabel = NoLabel
  Pause = Pause
  Namespaces = {n1, n2}
  Pods = {p1}
  Containers = {c1}
  Slugs = {s1, s2}
  LabelSets <- MCEveryShape
  SlugLabels <- MCSlugLabels
  MaxFamily = 2
INVARIANTS
  OrderDoesNotMatter
  DoubledOnlyByNamedTotal
  LostPodsAreNamed
  AttributedToOwnPods
