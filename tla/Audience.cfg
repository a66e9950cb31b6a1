\* Sockets enough for a session on several, logins over sockets in use.
SPECIFICATION Spec
CONSTANTS
    Session = {s1, s2}
    Websocket = {w1, w2, w3}
    StateId = {1, 2, 3}
    Token = {}
    Table = {t1}
    None = None
INVARIANTS
    WatchersIndexed
    ObserversExact
SYMMETRY Symmetry
