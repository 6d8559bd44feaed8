\* One writer and two flushers of one object, without a fault.
CONSTANTS
  o1 = o1
  w1 = w1
  f1 = f1
  f2 = f2
  Objects = {o1}
  Writers = {w1}
  Flushers = {f1, f2}
  MaxAttempts = 2
  MaxWrites = 2
  MaxErrors = 0
  MaxRearms = 0
  MaxCrashes = 0
SPECIFICATION Spec
CHECK_DEADLOCK FALSE
INVARIANT RestartKeepsAcked
