\* A block with one page and two lives, a checkpoint that fails or a process
\* that stops at any step.
CONSTANTS
    Pages = {p1}
    Readers = {r1}
    MaxTime = 2
    MaxSlots = 2
    MaxRevision = 2
    MaxFaults = 1
    CompactAt = 2
    MaxTombstones = 1
SPECIFICATION FairSpec
INVARIANTS TypeOK NoTouchLost SavedAgesSurvive
PROPERTY TouchEventuallySaved
CHECK_DEADLOCK FALSE
