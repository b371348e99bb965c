SPECIFICATION Spec
CONSTANTS
  e1 = e1
  e2 = e2
  i1 = i1
  c1 = c1
  d1 = d1
  d2 = d2
  Threads = {t1, t2}
  Events = {e1, e2}
  Content <- Conteudo
  Issues = {i1}
  Calls <- Vezes
  MaxExecs = 2
  MaxCheckpoints = 2
  Comments = {c1}
  Texts <- Ambos
  Trees = {d1}
INVARIANTS
  EventExecutedOnce
SYMMETRY Interchangeable
CHECK_DEADLOCK FALSE
