SPECIFICATION Spec
CONSTANTS
    c1 = c1
    c2 = c2
    Caller = {c1, c2}
    Subscriber = {c1}
    Loop = Loop
    Report = Report
    MaxSockets = 2
    MaxCalls <- MCMaxCalls
    MaxPushes = 1
    None = None
INVARIANTS
    TypeOK
    OwnReply
    ClosedStays
    RedialSubscribed
PROPERTIES
    CallEnds
\* The callers may have made all their calls.
CHECK_DEADLOCK FALSE
