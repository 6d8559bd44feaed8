\* The key is admitted again between the lookup and notified().
CONSTANTS
  a = a
  b = b
  c = c
  Callers = {a, b, c}
  Pages = {1, 2, 3}
  Reads <- MCReads
  Concurrency = 2
  MaxFaults = 0
SPECIFICATION FairSpec
CHECK_DEADLOCK FALSE
PROPERTY WaiterWakes
