SPECIFICATION Spec
CONSTANTS
  NJobs = 1
  Company <- OneJob
  Trains = {1}
  c1 = c1
  c2 = c2
  Workers = {w1}
  Requests = {r1, r2}
INVARIANTS
  CancelledPublishedNothing
  CandidateHasArtifact
PROPERTIES
  OnlyFailedRequeued
