\* Two candidates of one page, with TTI.
CONSTANTS
  p1 = p1
  r1 = r1
  c1 = c1
  c2 = c2
  f1 = f1
  e = e
  Pages = {p1}
  Readers = {r1}
  Collectors = {c1, c2}
  Evictor = e
  Fillers = {f1}
  WarmFillers = {}
  Tti = TRUE
  MaxHandles = 2
  MaxLives = 1
  MaxSelect = 2
SYMMETRY Sym
SPECIFICATION Spec
CHECK_DEADLOCK FALSE
INVARIANTS
  OnlyUnusedDeleted
  ReadableHasFile
