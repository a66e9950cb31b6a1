SPECIFICATION Spec
CONSTANTS
    Process = {p1, p2}
    Policy <- MCPolicy
    MaxRestarts = 1
    None = None
INVARIANTS
    TypeOK
    NoStalePidfile
    NoServerLeft
    HealthyServes
PROPERTIES
    StartEnds
    StopEnds
\* Every daemon may have ended.
CHECK_DEADLOCK FALSE
