SPECIFICATION FairSpec
CONSTANTS
  NLotes = 2
  w1 = w1
  w2 = w2
  p1 = p1
  p2 = p2
  Workers = {w1}
  Procs = {p1}
  ProcOf <- OneConsumer
  Requests = {r1}
  MaxAttempts = 2
  Free = Free
PROPERTIES
  ActiveBatchesSettle
