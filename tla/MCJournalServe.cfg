\* Two durable appends, one of which misses a group sync, a caller that holds
\* the maintenance permit, a query between a checkpoint and its cut, and a
\* loss at any step.
CONSTANTS
  d1 = d1
  d2 = d2
  q1 = q1
  c1 = c1
  None = None
  Written = {}
  Durable = {d1, d2}
  Queries = {q1}
  Checkpoints = {c1}
  PermitHolders = {d2}
  MaxRequests = 2
  MaxBatch = 2
  CheckpointBytes = 2
  MaxGenerations = 3
  MaxGen = 3
  MaxLosses = 1
  MaxPowerLosses = 1
SPECIFICATION FairSpec
INVARIANT AcknowledgedSurvive
PROPERTY Answered
