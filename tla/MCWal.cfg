\* Blocks of five cells; records that fill less than a block, exactly one,
\* and more than one, packed one after the other.
CONSTANTS
  BLOCK_SIZE = 5
  BodyLens = {0, 3, 4, 7}
  FLUSH_BYTES = 8
  FLUSH_INTERVAL = 2
  MaxAppended = 18
SPECIFICATION FairSpec
CHECK_DEADLOCK FALSE
INVARIANTS
  AckedSynced
  NothingForgotten
  DeadlineKept
  CrashKeepsRecords
  DamageNeverForges
  ResyncAtBlock
PROPERTY EveryRecordAcked
