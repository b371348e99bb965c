SPECIFICATION FairSpec
CONSTANTS
  NLotes = 1
  w1 = w1
  w2 = w2
  p1 = p1
  p2 = p2
  Workers = {w1, w2}
  Procs = {p1, p2}
  ProcOf <- TwoProcesses
  Requests = {r1, r2}
  MaxAttempts = 4
  Free = Free
INVARIANTS
  TypeOK
  EntriesOfLastAttempt
  HistoryAgrees
  OneProcessorPerBatch
  FileKeptWhileNeeded
PROPERTIES
  LiveLeaseIsExclusive
  ImplementsLife
  LeftoverFilesCollected
