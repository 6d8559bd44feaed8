\* Three misses of a block or a small object, two reads of overlapping pages,
\* with any two failures, cancellations or evictions.
CONSTANTS
  a = a
  b = b
  c = c
  Callers = {a, b, c}
  Pages = {1, 2, 3}
  Reads <- MCReads
  Concurrency = 2
  MaxFaults = 2
SPECIFICATION FairSpec
CHECK_DEADLOCK FALSE
INVARIANTS
  KeyOwned
  FollowersNeverFetch
PROPERTY RequestsEnd
