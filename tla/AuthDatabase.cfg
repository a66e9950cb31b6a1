\* Database store: put may raise, a restart keeps the records and may change
\* the instance id.
SPECIFICATION Spec
CONSTANTS
    Session = {s1, s2}
    Websocket = {w1}
    StateId = {1, 2}
    Token = {1, 2, 3}
    Table = {}
    None = None
    Instance = {i1, i2}
    Secret = {k1}
    Durable = TRUE
    Faults = {"put"}
    MaxRequest = 0
INVARIANTS
    TypeOK
    OneRecordPerSession
    FailureKeepsToken
    GateGrantsLiveToken
PROPERTIES
    ImplementsBearerTokens
SYMMETRY Symmetry
