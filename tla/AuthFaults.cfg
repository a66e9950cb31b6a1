\* Database store whose put and delete may both raise, and a secret that can
\* change with a restart.
SPECIFICATION Spec
CONSTANTS
    Session = {s1, s2}
    Websocket = {w1, w2}
    StateId = {1, 2, 3}
    Token = {1, 2}
    Table = {}
    None = None
    Instance = {i1, i2}
    Secret = {k1, k2}
    Durable = TRUE
    Faults = {"put", "delete"}
    MaxRequest = 1
PROPERTIES
    GoneForGood
    PendingSurvivesFailure
SYMMETRY Symmetry
