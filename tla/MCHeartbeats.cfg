SPECIFICATION Spec
CONSTANTS
    Coordinators = {c1, c2}
    Instances = {i1, i2}
    Nobody = Nobody
    Timer = Timer
    TTL = 3
    MAX_AGE = 2
    REQUEST_TIMEOUT = 1
    HOLD = 1
    ROUND = 1
    MaxMoves = 3
    MaxReads = 1
SYMMETRY Symmetry
INVARIANTS
    TypeOK
    LeaseBounded
    ReadyOnlyIfSole
    AdmissionBacked
