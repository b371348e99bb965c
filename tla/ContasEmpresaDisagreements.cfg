SPECIFICATION Spec
CONSTANTS
  Codes = {1}
  Attrs = {x, y}
  Lotes = {l1, l2}
  Runs = {b1, b2}
  MaxId = 3
INVARIANTS
  LinkCountsLines
  FilterSelects
CHECK_DEADLOCK FALSE
