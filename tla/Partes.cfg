SPECIFICATION PartsSpec
CONSTANTS
  r1 = r1
  r2 = r2
  r3 = r3
  sa = sa
  sb = sb
  sc = sc
  l1 = l1
  l2 = l2
  l3 = l3
  q1 = q1
  q2 = q2
  Publishers = {r1, r2, r3}
  RefOf <- WorktreeOf
  BranchOf <- OneBranch
  Files = {"f", "g"}
  Allowed = {"f"}
  Details = {"d1", "d2", "d3"}
  Pruners = {"p"}
  Keep = 2
  MaxTime = 5
  Snapshots = {sa, sb, sc}
  Vigencias = {2, 3}
  Importers = {i1}
  Users = {u1, u2}
  Batches = {l1, l2, l3}
  DatesOf <- DatesOfBatches
  Codes = {1}
  Attrs = {x, y}
  Lotes = {l1, l2}
  Runs = {r1, r2}
  MaxId = 3
  Movs <- TwoMovements
  Entries <- TwoCharts
  ChartDates = {1, 3, 4}
  Predictable = {2, 3}
  MaxChanges = 4
  Sheets <- LSheets
  Plans <- LPlans
  Catalog = {1, 2}
  BlockSize = 2
  MovementSheets <- AllSheets
  Uploads = {q1, q2}
  Accounts = {1, 2}
  Readings <- AllReadings
  MaxLots = 3
  Blank = Blank
  Bad = Bad
INVARIANTS
  ClosingsAgree
  DoubtsAreTold
  MovementsAreAccounted
  ChartIsCertain
PROPERTIES
  WorkIsSafe
  CountedOnce
  ConflictsAreSettled
  IdentitiesAreStable
  LaterUploadIsBlocked
CHECK_DEADLOCK FALSE
