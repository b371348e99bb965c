SPECIFICATION Spec
CONSTANTS
  Users = {ana, bia}
  Admins = {bia}
  g1 = g1
  g2 = g2
  g3 = g3
  Groups = {g1, g2, g3}
  Kind <- Origins
  MaxChain = 2
  MaxEvents = 6
INVARIANTS
  TypeOK
  HistoryExplainsRow
  HistoryIsAChain
  ConcludedByHolder
  ResolvedByAlias
  OneOpenItemPerGroup
CONSTRAINT Explored
