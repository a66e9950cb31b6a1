\* In-memory store: no store faults, a restart forgets every token.
SPECIFICATION Spec
CONSTANTS
    Session = {s1, s2}
    Websocket = {w1, w2}
    StateId = {1, 2, 3}
    Token = {1, 2, 3}
    Table = {}
    None = None
    Instance = {i1}
    Secret = {k1}
    Durable = FALSE
    Faults = {}
    MaxRequest = 0
INVARIANTS
    HomeSocket
    GateGrantsLiveToken
    BoundHasToken
    SnapshotOfOwnSession
PROPERTIES
    ExpiredSaysExpired
SYMMETRY Symmetry
