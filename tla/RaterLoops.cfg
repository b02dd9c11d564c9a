SPECIFICATION LoopSpec
CONSTANTS
  Fingerprints = {a, b, c}
  Values = {0, 1}
  Times = {0, 1}
  Ceiling = 2
  MaxRows = 3
SYMMETRY FingerprintSymmetry
INVARIANTS
  LoopTypeOK
  CeilingAbsolute
  PredecessorsAreConsecutive
PROPERTIES
  EstablishedSurvive
  Spec
