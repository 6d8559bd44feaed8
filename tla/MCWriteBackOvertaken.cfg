\* Two writers and one flusher of one object, without a fault.
CONSTANTS
  o1 = o1
  w1 = w1
  w2 = w2
  f1 = f1
  Objects = {o1}
  Writers = {w1, w2}
  Flushers = {f1}
  MaxAttempts = 2
  MaxWrites = 3
  MaxErrors = 0
  MaxRearms = 0
  MaxCrashes = 0
SPECIFICATION Spec
CHECK_DEADLOCK FALSE
INVARIANT ReadsAreCurrent
