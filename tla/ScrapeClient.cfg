SPECIFICATION Spec
CONSTANTS
  FamilyNames <- MCNames
  Types = {"untyped", "counter", "histogram"}
  RowLists <- MCRows
  MaxFamilies = 2
  Resolvers <- MCOverrides
  MaxSamples = 3
  MaxInt = 15
  DefaultMaxBytes = 2
  MaxConfigurableBytes = 4
  ExpansionFactor = 3
  CapSettings <- MCCaps
  MemLimits = {5, 9, 15}
  BodySizes = {3, 4}
INVARIANTS
  NeverTruncated
  AllOrNothing
  RetentionBounded
  FilterHidesNothing
  OrderOnlyAmongAliases
