-------------------------- MODULE SessionRegistry --------------------------
(***************************************************************************)
(* The session registry of bed (src/bed/api/session.py): SessionState      *)
(* objects, reached by session id and by websocket id, and the index of    *)
(* the sessions that spectate each casino table.                           *)
(*                                                                         *)
(* Every method of the class runs under one lock, so each is one step.     *)
(* The two dictionaries hold references: one object may be reached by      *)
(* several sockets, and by a socket after its session id was dropped.  An  *)
(* object is therefore an element of StateId and the dictionaries map to   *)
(* it.  An object that no dictionary holds is collected (Blank).           *)
(*                                                                         *)
(* The module holds the state and the effect of each write; AuthService    *)
(* and TableAudience build their actions from it.                          *)
(***************************************************************************)
EXTENDS Naturals, Functions

CONSTANTS
    Session,    \* session ids: uuids, issued once each
    Websocket,  \* ids of the sockets the server has accepted
    StateId,    \* identities of SessionState objects
    Token,      \* bearer tokens, issued once each
    Table,      \* monikers of casino tables
    None        \* Python's None

ASSUME RegistryAssumption ==
    /\ None \notin Session \cup Websocket \cup StateId \cup Token \cup Table
    /\ None \notin Nat

VARIABLES
    heap,         \* the SessionState objects
    bySession,    \* _by_session
    byWebsocket,  \* _by_websocket
    observers     \* _table_observers: an absent key is the empty set

registryVars == <<heap, bySession, byWebsocket, observers>>

\* The fields the properties tell apart.  moniker, is_sysop, loginid and
\* balance are data of the session.  A request id "r<N>" is its number.
SessionState ==
    [session   : Session \cup {None},
     websocket : Websocket \cup {None},
     token     : Token \cup {None},     \* auth_service_token
     counter   : Nat,                   \* request_id_counter
     pending   : Nat \cup {None},       \* pending_request
     table     : Table \cup {None},     \* table_moniker
     watching  : SUBSET Table]          \* spectator_of

Blank ==
    [session |-> None, websocket |-> None, token |-> None, counter |-> 0,
     pending |-> None, table |-> None, watching |-> {}]

RegistryTypeOK ==
    /\ heap \in [StateId -> SessionState]
    /\ bySession \in [Session -> StateId \cup {None}]
    /\ byWebsocket \in [Websocket -> StateId \cup {None}]
    /\ observers \in [Table -> SUBSET Session]

RegistryInit ==
    /\ heap = [i \in StateId |-> Blank]
    /\ bySession = [s \in Session |-> None]
    /\ byWebsocket = [w \in Websocket |-> None]
    /\ observers = [t \in Table |-> {}]

---------------------------------------------------------------------------
Referenced(sessions, sockets) == (Range(sessions) \cup Range(sockets)) \ {None}

Free == StateId \ Referenced(bySession, byWebsocket)

\* The heap once objects that no dictionary refers to are collected.
Collected(h, sessions, sockets) ==
    [i \in StateId |-> IF i \in Referenced(sessions, sockets) THEN h[i] ELSE Blank]

Registered(s) == bySession[s] # None

\* The object bind() leaves under session id s.
TargetOf(s) == IF Registered(s) THEN bySession[s] ELSE CHOOSE i \in Free : TRUE

\* bind() can go ahead: either s has an object or a new one is allocated.
CanBind(s) == Registered(s) \/ Free # {}

\* The object bind(s, w) finds under w that belongs to another session.
Evicted(s, w) ==
    IF byWebsocket[w] # None /\ heap[byWebsocket[w]].session # s
    THEN byWebsocket[w] ELSE None

\* bind() drops the evicted object's session BY ID, whatever object that id
\* has in _by_session by now.
BoundSessionsNoEviction(s, w) == [bySession EXCEPT ![s] = TargetOf(s)]

BoundSessions(s, w) ==
    LET gone == Evicted(s, w) IN
    [x \in Session |->
        IF x = s THEN TargetOf(s)
        ELSE IF gone # None /\ heap[gone].session = x THEN None
        ELSE bySession[x]]

BoundState(s, w) ==
    IF Registered(s) THEN [heap[bySession[s]] EXCEPT !.websocket = w]
    ELSE [Blank EXCEPT !.session = s, !.websocket = w]

\* _purge_indices of the evicted object, then _reindex of the bound one.
BoundObserversNoPurge(s, w, watching) ==
    [t \in Table |-> observers[t] \cup {x \in {s} : t \in watching}]

BoundObservers(s, w, watching) ==
    LET gone == Evicted(s, w) IN
    [t \in Table |->
        (observers[t] \ {x \in Session : /\ gone # None
                                         /\ x = heap[gone].session
                                         /\ t \in heap[gone].watching})
        \cup {x \in {s} : t \in watching}]

\* bind(s, w): the object of s is left in the given state, which the caller
\* gets from BoundState(s, w) and the fields it then assigns.  Only the key w
\* of _by_websocket is written: a socket that held s before keeps holding it.
Bind(s, w, state) ==
    /\ CanBind(s)
    /\ bySession' = BoundSessions(s, w)
    /\ byWebsocket' = [byWebsocket EXCEPT ![w] = TargetOf(s)]
    /\ heap' = Collected([heap EXCEPT ![TargetOf(s)] = state], bySession', byWebsocket')
    /\ observers' = BoundObservers(s, w, state.watching)

---------------------------------------------------------------------------
\* A method that looks s up in _by_session and updates its object; on an
\* unknown session these methods do nothing.
UpdateSession(s, state) ==
    /\ Registered(s)
    /\ heap' = [heap EXCEPT ![bySession[s]] = state]
    /\ UNCHANGED <<bySession, byWebsocket>>

\* next_request_id then record_pending: the router sends an IO request and
\* keeps its envelope until it is acknowledged.
Requested(state) ==
    [state EXCEPT !.counter = @ + 1, !.pending = state.counter + 1]

ClearPending(h, s) ==
    IF Registered(s) THEN [h EXCEPT ![bySession[s]].pending = None] ELSE h

---------------------------------------------------------------------------
\* A registered session can be reached through the socket it names: the
\* socket of the latest bind() of the session still maps to its object.
HomeSocket ==
    \A s \in Session :
        Registered(s) =>
            /\ heap[bySession[s]].session = s
            /\ heap[bySession[s]].websocket \in Websocket
            /\ byWebsocket[heap[bySession[s]].websocket] = bySession[s]
=============================================================================
