SPECIFICATION FairSpec
CONSTANTS
  NJobs = 3
  Company <- TwoCompanies
  Trains = {2}
  c1 = c1
  c2 = c2
  Workers = {w1}
  Requests = {}
PROPERTIES
  JobsSettle
