SPECIFICATION Spec
CONSTANTS
  Users = {ana, bia}
  Admins = {bia}
  g1 = g1
  g2 = g2
  g3 = g3
  Groups = {g1}
  Kind <- Manual
  MaxChain = 1
  MaxEvents = 4
INVARIANTS
  ReopeningNamesConclusion
