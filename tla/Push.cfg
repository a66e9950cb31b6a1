SPECIFICATION Spec
CONSTANTS
    Moniker = {alice}
    Websocket = {w1, w2}
    None = None
    PageSize = 1
    MaxEvents = 2
    MaxBreaks = 1
INVARIANTS
    TypeOK
    MapsAgree
    NothingMissed
PROPERTIES
    InOrder
    Delivered
    Recovers
CHECK_DEADLOCK FALSE
