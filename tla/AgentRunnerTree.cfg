SPECIFICATION Spec
CONSTANTS
  e1 = e1
  e2 = e2
  i1 = i1
  c1 = c1
  d1 = d1
  d2 = d2
  Threads = {t1}
  Events = {e1}
  Content <- Implementa
  Issues = {i1}
  Calls <- TresVezes
  MaxExecs = 1
  MaxCheckpoints = 2
  Comments = {c1}
  Texts <- Aprova
  Trees = {d1, d2}
PROPERTIES
  ChangeInvalidates
CHECK_DEADLOCK FALSE
