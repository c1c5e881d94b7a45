SPECIFICATION FairSpec
CONSTANTS
    MAX_TASKS = 3
    Mutexes = {m1, m2}
INVARIANTS
    TypeOK
    MutualExclusion
    NoLostWakeup
    GuardNeverContended
    ExitedStayDead
PROPERTIES
    ImplementsLocks
    SleeperWakes
CHECK_DEADLOCK FALSE
