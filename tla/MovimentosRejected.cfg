SPECIFICATION Spec
CONSTANTS
  m1 = m1
  m2 = m2
  a1 = a1
  a2 = a2
  Movs = {m1}
  Accounts = {a1}
  Informed <- Pendente
  Users = {ana, bia}
  Workers = {w1}
  Kinds = {"review"}
  MaxRows = 1
INVARIANTS
  RejectedIsClean
CHECK_DEADLOCK FALSE
