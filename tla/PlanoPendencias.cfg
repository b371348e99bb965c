SPECIFICATION PlanoSpec
CONSTANTS
  l1 = l1
  l2 = l2
  Snapshots = {sa, sb, sc}
  Vigencias = {2}
  Importers = {i1}
  Users = {u1}
  Batches = {l1, l2}
  DatesOf <- TwoBatches
INVARIANTS
  DecidedCanBeResolved
CHECK_DEADLOCK FALSE
