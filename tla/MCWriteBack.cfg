\* Two writers and two flushers of one object, three writes, two errors, a
\* re-arm and a crash or power loss.
CONSTANTS
  o1 = o1
  w1 = w1
  w2 = w2
  f1 = f1
  f2 = f2
  Objects = {o1}
  Writers = {w1, w2}
  Flushers = {f1, f2}
  MaxAttempts = 2
  MaxWrites = 3
  MaxErrors = 2
  MaxRearms = 1
  MaxCrashes = 1
SYMMETRY Symmetry
SPECIFICATION Spec
CHECK_DEADLOCK FALSE
INVARIANTS
  TypeOK
  AckedDurable
  AckedQueued
  StagedReadable
  NotForgotten
  ReadYourWrites
PROPERTY BackOnlyByRestart
