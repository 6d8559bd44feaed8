\* A block of two pages is claimed page by page, fills share the gate, and
\* the lifecycle record is retired and created again; no TTI.
CONSTANTS
  p1 = p1
  p2 = p2
  r1 = r1
  c1 = c1
  f1 = f1
  f2 = f2
  e = e
  Pages = {p1, p2}
  Readers = {r1}
  Collectors = {c1}
  Evictor = e
  Fillers = {f1, f2}
  WarmFillers = {f1, f2}
  Tti = FALSE
  MaxHandles = 2
  MaxLives = 2
  MaxSelect = 1
SPECIFICATION Spec
CHECK_DEADLOCK FALSE
INVARIANTS
  GateExclusive
  DeferredWorkQueued
  RemovedStaysClosed
  NoPageLeftClosed
PROPERTY GuardProtectsFile
