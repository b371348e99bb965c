SPECIFICATION Spec
CONSTANTS
  m1 = m1
  m2 = m2
  a1 = a1
  a2 = a2
  Movs = {m1}
  Accounts = {a1}
  Informed <- Pendente
  Users = {ana}
  Workers = {w1}
  Kinds = {"review"}
  MaxRows = 1
PROPERTIES
  VersionTracksState
CHECK_DEADLOCK FALSE
