SPECIFICATION Spec
CONSTANTS
  NJobs = 1
  Company <- OneJob
  Trains = {}
  c1 = c1
  c2 = c2
  Workers = {w1, w2}
  Requests = {r1, r2}
INVARIANTS
  RunsBounded
PROPERTIES
  CancelIsObeyed
SYMMETRY Interchangeable
