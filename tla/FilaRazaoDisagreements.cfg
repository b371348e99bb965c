SPECIFICATION Spec
CONSTANTS
  NLotes = 1
  w1 = w1
  w2 = w2
  p1 = p1
  p2 = p2
  Workers = {w1, w2}
  Procs = {p1}
  ProcOf <- SameProcess
  Requests = {r1}
  MaxAttempts = 3
  Free = Free
INVARIANTS
  FirstAttemptFailsForCause
  ConsumersRunUntilShutdown
  WarningsOfLastAttempt
