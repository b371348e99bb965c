SPECIFICATION ModelosSpec
CONSTANTS
  MaxVersions = 3
  MaxSwitches = 4
  Trainers = {t1, t2}
  Switchers = {s1, s2}
  Readers = {"r"}
  Evaluations <- Kinds
  classA = classA
  classB = classB
  Batches = {"old", "new"}
  Old = {"old"}
  Lines <- ThreeLines
  Movs <- OneMovement
  Codes = {1, 2, 3}
  Entries <- TwoCharts
  First = "sa"
  MaxChanges = 2
  MaxBuilds = 2
INVARIANTS
  SwitchesAreWhole
  ManifestExplains
PROPERTIES
  ComparisonsAreCurrent
SYMMETRY Interchangeable
CHECK_DEADLOCK FALSE
