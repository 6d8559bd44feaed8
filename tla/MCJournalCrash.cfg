\* Two losses, so that recovery itself is interrupted; an append that is only
\* written, so that a query may see what is not synced.
CONSTANTS
  d1 = d1
  w1 = w1
  q1 = q1
  c1 = c1
  None = None
  Written = {w1}
  Durable = {d1}
  Queries = {q1}
  Checkpoints = {c1}
  PermitHolders = {}
  MaxRequests = 3
  MaxBatch = 2
  CheckpointBytes = 1
  MaxGenerations = 2
  MaxGen = 3
  MaxLosses = 2
  MaxPowerLosses = 1
SPECIFICATION Spec
INVARIANTS
  TypeOK
  RecoverySucceeds
  QuerySurvives
  NoForgottenFile
  CheckpointCovers
PROPERTY ImplementsLog
