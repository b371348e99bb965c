SPECIFICATION Spec
CONSTANTS
  m1 = m1
  m2 = m2
  a1 = a1
  a2 = a2
  Movs = {m1, m2}
  Accounts = {a1}
  Informed <- Misto
  Users = {ana, bia}
  Workers = {w1, w2}
  Kinds = {"review", "bulk"}
  MaxRows = 1
INVARIANTS
  DecisionIsWhole
  ItemFollowsDecision
PROPERTIES
  DecisionStands
  LateRequestsChangeNothing
SYMMETRY Interchangeable
