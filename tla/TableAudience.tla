--------------------------- MODULE TableAudience ---------------------------
(***************************************************************************)
(* Seats and spectators in the session registry (src/bed/api/session.py):  *)
(* the registry methods a router of casino tables uses, interleaved with   *)
(* the bind() calls that logins and reconnects make.  Tokens are left to   *)
(* AuthService: a session that logged in may reconnect at any time.        *)
(***************************************************************************)
EXTENDS SessionRegistry

VARIABLES
    known,    \* the sessions that logged in
    reused    \* history: a login took over the socket of another session

vars == <<registryVars, known, reused>>

TypeOK == RegistryTypeOK /\ known \subseteq Session /\ reused \in BOOLEAN

Init == RegistryInit /\ known = {} /\ reused = FALSE

---------------------------------------------------------------------------
\* What the registry holds once s is forgotten by its id and one socket.
DroppedObserversKept(s) == observers

\* _purge_indices of the object of s.
DroppedObservers(s) ==
    [t \in Table |-> IF t \in heap[bySession[s]].watching
                     THEN observers[t] \ {s} ELSE observers[t]]

\* _handle_auth: a new session, over a socket that may serve another one.
Login(s, w) ==
    /\ s \notin known
    /\ Bind(s, w, BoundState(s, w))
    /\ known' = known \cup {s}
    /\ reused' = (reused \/ byWebsocket[w] # None)

\* _handle_reconnect, or a gate that binds the session of a token: over a
\* socket without a session, or of this one.
Reconnect(s, w) ==
    /\ s \in known
    /\ byWebsocket[w] # None => heap[byWebsocket[w]].session = s
    /\ Bind(s, w, BoundState(s, w))
    /\ UNCHANGED <<known, reused>>

\* set_table_moniker; its _reindex adds the tables the session watches.
SetTable(s, t) ==
    /\ Registered(s)
    /\ UpdateSession(s, [heap[bySession[s]] EXCEPT !.table = t])
    /\ observers' = [u \in Table |->
                        observers[u] \cup {x \in {s} : u \in heap[bySession[s]].watching}]
    /\ UNCHANGED <<known, reused>>

\* add_spectator.
Watch(s, t) ==
    /\ Registered(s)
    /\ UpdateSession(s, [heap[bySession[s]] EXCEPT !.watching = @ \cup {t}])
    /\ observers' = [observers EXCEPT ![t] = @ \cup {s}]
    /\ UNCHANGED <<known, reused>>

\* remove_spectator.
StopWatching(s, t) ==
    /\ Registered(s)
    /\ UpdateSession(s, [heap[bySession[s]] EXCEPT !.watching = @ \ {t}])
    /\ observers' = [observers EXCEPT ![t] = @ \ {s}]
    /\ UNCHANGED <<known, reused>>

\* drop: the session id and the socket the object names.
Drop(s) ==
    /\ Registered(s)
    /\ bySession' = [bySession EXCEPT ![s] = None]
    /\ byWebsocket' = [byWebsocket EXCEPT ![heap[bySession[s]].websocket] = None]
    /\ heap' = Collected(heap, bySession', byWebsocket')
    /\ observers' = DroppedObservers(s)
    /\ UNCHANGED <<known, reused>>

\* rebind_websocket; a session that w serves is overwritten there and keeps its
\* registration, and w as the socket it names.
Rebind(v, w) ==
    /\ byWebsocket[v] # None
    /\ byWebsocket' = [byWebsocket EXCEPT ![v] = None, ![w] = byWebsocket[v]]
    /\ heap' = Collected([heap EXCEPT ![byWebsocket[v]].websocket = w], bySession, byWebsocket')
    /\ UNCHANGED <<bySession, observers, known, reused>>

\* unbind_websocket: the session stays registered.
Unbind(w) ==
    /\ byWebsocket[w] # None
    /\ byWebsocket' = [byWebsocket EXCEPT ![w] = None]
    /\ heap' = Collected(heap, bySession, byWebsocket')
    /\ UNCHANGED <<bySession, observers, known, reused>>

Next ==
    \/ \E s \in Session, w \in Websocket : Login(s, w) \/ Reconnect(s, w)
    \/ \E s \in Session, t \in Table \cup {None} : SetTable(s, t)
    \/ \E s \in Session, t \in Table : Watch(s, t) \/ StopWatching(s, t)
    \/ \E s \in Session : Drop(s)
    \/ \E v, w \in Websocket : Rebind(v, w)
    \/ \E w \in Websocket : Unbind(w)

Spec == Init /\ [][Next]_vars

---------------------------------------------------------------------------
Watchers(t) == {s \in Session : Registered(s) /\ t \in heap[bySession[s]].watching}

\* What is published to a table reaches every registered session that watches
\* it, whatever the logins over reused sockets, socket moves and drops did to
\* the objects in between.
WatchersIndexed == \A t \in Table : Watchers(t) \subseteq observers[t]

\* As _reindex documents, the observer set of a table "matches the per-session
\* truth": it is exactly the registered sessions that watch the table, until a
\* login takes over the socket of another session (from then on the set may
\* keep sessions that are no longer registered; WatchersIndexed still holds).
ObserversExact == ~reused => \A t \in Table : observers[t] = Watchers(t)
=============================================================================
