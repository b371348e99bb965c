SPECIFICATION Spec
CONSTANTS
  NJobs = 2
  Company <- SameCompany
  Trains = {1}
  c1 = c1
  c2 = c2
  Workers = {w1, w2}
  Requests = {r1}
INVARIANTS
  QueueIsBounded
  OneOwnerPerCompany
PROPERTIES
  OnlyLastRunPublishes
  CancelIsObeyed
SYMMETRY Interchangeable
