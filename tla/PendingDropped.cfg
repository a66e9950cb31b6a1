\* In-memory store, one property: the run ends in a counterexample.
SPECIFICATION Spec
CONSTANTS
    Session = {s1, s2}
    Websocket = {w1, w2}
    StateId = {1, 2, 3}
    Token = {1, 2, 3}
    Table = {}
    None = None
    Instance = {i1}
    Secret = {k1}
    Durable = FALSE
    Faults = {}
    MaxRequest = 1
PROPERTY PendingReplayedToHolder
