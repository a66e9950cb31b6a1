--------------------------- MODULE AudienceProofs --------------------------
(***************************************************************************)
(* No spectator is missed: for any number of sessions, sockets and tables, *)
(* with or without logins over reused sockets; and, without them, nobody   *)
(* else is in an observer set.                                             *)
(***************************************************************************)
EXTENDS TableAudience, SessionRegistryProofs

\* The object of a registered session is of that session, so that two
\* registered sessions never share one.  Inductive with TypeOK, and with it
\* WatchersIndexed is.
Owned == \A s \in Session : Registered(s) => heap[bySession[s]].session = s

IInv == TypeOK /\ Owned /\ WatchersIndexed

LEMMA InitIInv == Init => IInv
<1> SUFFICES ASSUME Init PROVE IInv
  OBVIOUS
<1>1. reused \in BOOLEAN /\ known \subseteq Session
  BY DEF Init
<1>2. RegistryTypeOK /\ Owned /\ WatchersIndexed
  BY DEF Init, RegistryInit, RegistryTypeOK, SessionState, Blank,
         Owned, WatchersIndexed, Watchers, Registered
<1> QED
  BY <1>1, <1>2 DEF IInv, TypeOK

LEMMA ObjectTypes ==
    ASSUME RegistryTypeOK
    PROVE  /\ \A w \in Websocket : byWebsocket[w] # None =>
                byWebsocket[w] \in StateId /\ heap[byWebsocket[w]] \in SessionState
           /\ \A s \in Session : Registered(s) =>
                bySession[s] \in StateId /\ heap[bySession[s]] \in SessionState
BY DEF RegistryTypeOK, Registered

\* Whatever happens to the sockets, a session that stays registered with an
\* object whose session and watched tables stay, and whose entries in the
\* index stay, is owned and indexed as before.
KeptFrom(x) ==
    /\ Registered(x)
    /\ bySession'[x] = bySession[x]
    /\ heap'[bySession[x]].session = heap[bySession[x]].session
    /\ heap'[bySession[x]].watching = heap[bySession[x]].watching
    /\ \A t \in Table : x \in observers[t] => x \in observers'[t]

OwnedAndIndexed(x) ==
    Registered(x) =>
        /\ heap[bySession[x]].session = x
        /\ \A t \in heap[bySession[x]].watching \cap Table : x \in observers[t]

LEMMA PerSession == (Owned /\ WatchersIndexed) <=> \A x \in Session : OwnedAndIndexed(x)
<1>1. WatchersIndexed <=>
        \A t \in Table : \A x \in Session :
            (Registered(x) /\ t \in heap[bySession[x]].watching) => x \in observers[t]
  BY DEF WatchersIndexed, Watchers
<1>2. ASSUME Owned, WatchersIndexed, NEW x \in Session
      PROVE  OwnedAndIndexed(x)
  BY <1>1, <1>2 DEF Owned, OwnedAndIndexed
<1>3. ASSUME \A x \in Session : OwnedAndIndexed(x)
      PROVE  Owned /\ WatchersIndexed
  BY <1>1, <1>3 DEF Owned, OwnedAndIndexed
<1> QED
  BY <1>2, <1>3

LEMMA FineTogether ==
    ASSUME \A x \in Session : OwnedAndIndexed(x)'
    PROVE  Owned' /\ WatchersIndexed'
<1>1. (\A x \in Session : OwnedAndIndexed(x))'
  OBVIOUS
<1> QED
  BY <1>1, PerSession, PTL

LEMMA KeptIsFine ==
    ASSUME IInv, NEW x \in Session, KeptFrom(x)
    PROVE  OwnedAndIndexed(x)'
<1>1. OwnedAndIndexed(x)
  BY PerSession DEF IInv
<1> QED
  BY <1>1 DEF KeptFrom, OwnedAndIndexed, Registered

\* What bind() leaves: the session's own object, and the objects of the
\* sessions that stay registered, which are others and as they were.
LEMMA BindOwn ==
    ASSUME IInv, NEW s \in Session, NEW w \in Websocket,
           Bind(s, w, BoundState(s, w))
    PROVE  /\ RegistryTypeOK'
           /\ TargetOf(s) \in StateId /\ bySession'[s] = TargetOf(s)
           /\ bySession'[s] # None
           /\ heap'[bySession'[s]] = BoundState(s, w)
           /\ BoundState(s, w).session = s
           /\ \A x \in Session : bySession'[x] # None =>
                 heap'[bySession'[x]] =
                     [heap EXCEPT ![TargetOf(s)] = BoundState(s, w)][bySession'[x]]
<1> DEFINE state == BoundState(s, w)
           target == TargetOf(s)
<1>1. RegistryTypeOK
  BY DEF IInv, TypeOK
<1>2. state \in SessionState /\ state.session = s
  BY <1>1, BoundStateType DEF IInv, Owned
<1>3. RegistryTypeOK' /\ target \in StateId /\ target # None
  BY <1>1, <1>2, RegistryAssumption, BindType, TargetIsState DEF Bind, RegistryAssumption
<1>4. bySession'[s] = target
  BY DEF Bind, BoundSessions
<1>5. ASSUME NEW x \in Session, bySession'[x] # None
      PROVE  heap'[bySession'[x]] = [heap EXCEPT ![target] = state][bySession'[x]]
  <2>1. bySession'[x] \in Referenced(bySession', byWebsocket') /\ bySession'[x] \in StateId
    BY <1>3, <1>5, RegisteredIsReferenced DEF RegistryTypeOK
  <2>2. heap' = Collected([heap EXCEPT ![target] = state], bySession', byWebsocket')
    BY DEF Bind
  <2> QED
    BY <2>1, <2>2 DEF Collected
<1>6. heap'[bySession'[s]] = state
  BY <1>1, <1>3, <1>4, <1>5 DEF RegistryTypeOK
<1> QED
  BY <1>2, <1>3, <1>4, <1>5, <1>6

LEMMA BindOthers ==
    ASSUME IInv, NEW s \in Session, NEW w \in Websocket,
           Bind(s, w, BoundState(s, w)),
           NEW x \in Session, x # s, bySession'[x] # None
    PROVE  /\ bySession'[x] = bySession[x] /\ Registered(x)
           /\ Evicted(s, w) # None => heap[Evicted(s, w)].session # x
           /\ heap'[bySession[x]] = heap[bySession[x]]
<1> DEFINE target == TargetOf(s)
<1>1. RegistryTypeOK
  BY DEF IInv, TypeOK
<1>2. /\ bySession'[x] = bySession[x] /\ Registered(x)
      /\ Evicted(s, w) # None => heap[Evicted(s, w)].session # x
  BY DEF Bind, BoundSessions, Registered
<1>3. bySession[x] # target
  <2>1. CASE Registered(s)
    BY <1>2, <2>1 DEF IInv, Owned, TargetOf
  <2>2. CASE ~Registered(s)
    <3>1. target \in Free
      BY <2>2 DEF Bind, CanBind, TargetOf
    <3>2. bySession[x] \in Referenced(bySession, byWebsocket)
      BY <1>1, <1>2, RegisteredIsReferenced DEF RegistryTypeOK, Registered
    <3> QED
      BY <3>1, <3>2 DEF Free
  <2> QED
    BY <2>1, <2>2
<1>4. heap'[bySession[x]] = heap[bySession[x]]
  BY <1>1, <1>2, <1>3, BindOwn DEF RegistryTypeOK, Registered
<1> QED
  BY <1>2, <1>4

LEMMA StepBind ==
    ASSUME IInv, NEW s \in Session, NEW w \in Websocket,
           Bind(s, w, BoundState(s, w))
    PROVE  RegistryTypeOK' /\ Owned' /\ WatchersIndexed'
<1> DEFINE state == BoundState(s, w)
<1>1. RegistryTypeOK'
  BY BindOwn
<1>2. ASSUME NEW x \in Session
      PROVE  OwnedAndIndexed(x)'
  <2>1. CASE x = s
    <3>1. heap'[bySession'[x]] = state /\ state.session = s
      BY <2>1, BindOwn
    <3>2. \A t \in state.watching \cap Table : x \in observers'[t]
      BY <2>1 DEF Bind, BoundObservers
    <3> QED
      BY <2>1, <3>1, <3>2 DEF OwnedAndIndexed
  <2>2. CASE x # s /\ bySession'[x] # None
    <3>1. /\ bySession'[x] = bySession[x] /\ Registered(x)
          /\ Evicted(s, w) # None => heap[Evicted(s, w)].session # x
          /\ heap'[bySession[x]] = heap[bySession[x]]
      BY <2>2, BindOthers
    <3>2. \A t \in Table : x \in observers[t] => x \in observers'[t]
      BY <3>1 DEF Bind, BoundObservers
    <3> QED
      BY <3>1, <3>2, KeptIsFine DEF KeptFrom
  <2>3. CASE bySession'[x] = None
    BY <2>3 DEF OwnedAndIndexed, Registered
  <2> QED
    BY <2>1, <2>2, <2>3
<1> QED
  BY <1>1, <1>2, FineTogether

\* The other steps change the object of one session, or none.
LEMMA StepOther ==
    ASSUME IInv, NEW s \in Session, Registered(s),
           NEW state \in SessionState, state.session = s,
           UpdateSession(s, state),
           \A x \in Session \ {s} : \A t \in Table : x \in observers[t] => x \in observers'[t],
           \A t \in state.watching : s \in observers'[t],
           observers' \in [Table -> SUBSET Session]
    PROVE  RegistryTypeOK' /\ Owned' /\ WatchersIndexed'
<1>1. RegistryTypeOK /\ bySession[s] \in StateId
  BY ObjectTypes DEF IInv, TypeOK
<1>2. RegistryTypeOK'
  BY <1>1 DEF UpdateSession, RegistryTypeOK
<1>3. ASSUME NEW x \in Session
      PROVE  OwnedAndIndexed(x)'
  <2>1. CASE x = s
    <3>1. heap'[bySession'[x]] = state
      BY <1>1, <2>1 DEF UpdateSession, RegistryTypeOK
    <3> QED
      BY <2>1, <3>1 DEF OwnedAndIndexed
  <2>2. CASE x # s /\ Registered(x)
    <3>1. bySession[x] # bySession[s] /\ bySession[x] \in StateId
      BY <1>1, <2>2, ObjectTypes DEF IInv, Owned
    <3>2. heap'[bySession[x]] = heap[bySession[x]] /\ bySession'[x] = bySession[x]
      BY <1>1, <3>1 DEF UpdateSession, RegistryTypeOK
    <3> QED
      BY <2>2, <3>2, KeptIsFine DEF KeptFrom
  <2>3. CASE ~Registered(x)
    BY <2>3 DEF OwnedAndIndexed, Registered, UpdateSession
  <2> QED
    BY <2>1, <2>2, <2>3
<1> QED
  BY <1>2, <1>3, FineTogether

LEMMA SetTableStep ==
    ASSUME IInv, NEW s \in Session, NEW t \in Table \cup {None}, SetTable(s, t)
    PROVE  RegistryTypeOK' /\ Owned' /\ WatchersIndexed'
<1> DEFINE state == [heap[bySession[s]] EXCEPT !.table = t]
<1>1. RegistryTypeOK /\ heap[bySession[s]] \in SessionState
  BY ObjectTypes DEF SetTable, IInv, TypeOK
<1>2. /\ state \in SessionState /\ state.session = s
      /\ state.watching = heap[bySession[s]].watching /\ state.watching \subseteq Table
  BY <1>1 DEF SessionState, IInv, Owned, SetTable
<1>3. observers' \in [Table -> SUBSET Session]
  BY <1>1 DEF SetTable, RegistryTypeOK
<1>4. \A u \in Table : observers'[u] = observers[u] \cup {x \in {s} : u \in state.watching}
  BY <1>2 DEF SetTable
<1> HIDE DEF state
<1>5. /\ \A x \in Session \ {s} : \A u \in Table : x \in observers[u] => x \in observers'[u]
      /\ \A u \in state.watching : s \in observers'[u]
  BY <1>2, <1>4
<1>6. Registered(s) /\ UpdateSession(s, state)
  BY DEF SetTable, state
<1> QED
  BY <1>2, <1>3, <1>5, <1>6, StepOther

LEMMA WatchStep ==
    ASSUME IInv, NEW s \in Session, NEW t \in Table, Watch(s, t) \/ StopWatching(s, t)
    PROVE  RegistryTypeOK' /\ Owned' /\ WatchersIndexed'
<1>1. /\ RegistryTypeOK /\ heap[bySession[s]] \in SessionState
      /\ heap[bySession[s]].session = s /\ heap[bySession[s]].watching \subseteq Table
  BY ObjectTypes DEF Watch, StopWatching, IInv, TypeOK, Owned, SessionState
<1>2. \A u \in heap[bySession[s]].watching : s \in observers[u]
  BY <1>1, PerSession DEF IInv, OwnedAndIndexed, Watch, StopWatching
<1>3. CASE Watch(s, t)
  <2> DEFINE state == [heap[bySession[s]] EXCEPT !.watching = @ \cup {t}]
  <2>1. /\ state \in SessionState /\ state.session = s
        /\ state.watching = heap[bySession[s]].watching \cup {t}
    BY <1>1 DEF SessionState
  <2>2. /\ observers' \in [Table -> SUBSET Session]
        /\ \A u \in Table \ {t} : observers'[u] = observers[u]
        /\ observers'[t] = observers[t] \cup {s}
    BY <1>1, <1>3 DEF Watch, RegistryTypeOK
  <2>3. Registered(s) /\ UpdateSession(s, state)
    BY <1>3 DEF Watch
  <2> HIDE DEF state
  <2>4. /\ \A x \in Session \ {s} : \A u \in Table : x \in observers[u] => x \in observers'[u]
        /\ \A u \in state.watching : s \in observers'[u]
    BY <1>1, <1>2, <2>1, <2>2
  <2> QED
    BY <2>1, <2>2, <2>3, <2>4, StepOther
<1>4. CASE StopWatching(s, t)
  <2> DEFINE state == [heap[bySession[s]] EXCEPT !.watching = @ \ {t}]
  <2>1. /\ state \in SessionState /\ state.session = s
        /\ state.watching = heap[bySession[s]].watching \ {t}
    BY <1>1 DEF SessionState
  <2>2. /\ observers' \in [Table -> SUBSET Session]
        /\ \A u \in Table \ {t} : observers'[u] = observers[u]
        /\ observers'[t] = observers[t] \ {s}
    BY <1>1, <1>4 DEF StopWatching, RegistryTypeOK
  <2>3. Registered(s) /\ UpdateSession(s, state)
    BY <1>4 DEF StopWatching
  <2> HIDE DEF state
  <2>4. /\ \A x \in Session \ {s} : \A u \in Table : x \in observers[u] => x \in observers'[u]
        /\ \A u \in state.watching : s \in observers'[u]
    BY <1>1, <1>2, <2>1, <2>2
  <2> QED
    BY <2>1, <2>2, <2>3, <2>4, StepOther
<1> QED
  BY <1>3, <1>4

\* A step that leaves the sessions that stay registered, and what they watch,
\* as they are.
LEMMA DropKeeps ==
    ASSUME IInv, NEW s \in Session, Drop(s), NEW x \in Session, x # s, Registered(x)
    PROVE  bySession'[x] = bySession[x] /\ heap'[bySession[x]] = heap[bySession[x]]
<1>1. RegistryTypeOK
  BY DEF IInv, TypeOK
<1>2. bySession' \in [Session -> StateId \cup {None}]
  BY <1>1 DEF Drop, RegistryTypeOK
<1>3. bySession'[x] = bySession[x] /\ bySession[x] \in StateId /\ bySession[x] # None
  BY <1>1, ObjectTypes DEF Drop, Registered, RegistryTypeOK
<1>4. bySession[x] \in Referenced(bySession', byWebsocket')
  BY <1>2, <1>3, RegisteredIsReferenced
<1> QED
  BY <1>3, <1>4 DEF Drop, Collected

LEMMA DropStep ==
    ASSUME IInv, NEW s \in Session, Drop(s)
    PROVE  RegistryTypeOK' /\ Owned' /\ WatchersIndexed'
<1>1. RegistryTypeOK
  BY DEF IInv, TypeOK
<1>2. bySession' \in [Session -> StateId \cup {None}] /\ heap' \in [StateId -> SessionState]
  BY <1>1, CollectedHeap DEF Drop, RegistryTypeOK
<1>3. RegistryTypeOK'
  BY <1>1, <1>2 DEF Drop, DroppedObservers, RegistryTypeOK
<1>4. ASSUME NEW x \in Session
      PROVE  OwnedAndIndexed(x)'
  <2>1. CASE x # s /\ Registered(x)
    <3>1. bySession'[x] = bySession[x] /\ heap'[bySession[x]] = heap[bySession[x]]
      BY <2>1, DropKeeps
    <3>2. \A t \in Table : x \in observers[t] => x \in observers'[t]
      BY <2>1 DEF Drop, DroppedObservers
    <3> QED
      BY <2>1, <3>1, <3>2, KeptIsFine DEF KeptFrom
  <2>2. CASE x = s \/ ~Registered(x)
    BY <1>1, <2>2 DEF OwnedAndIndexed, Registered, Drop, RegistryTypeOK
  <2> QED
    BY <2>1, <2>2
<1> QED
  BY <1>3, <1>4, FineTogether

LEMMA SocketKeeps ==
    ASSUME IInv, NEW v \in Websocket, NEW w \in Websocket,
           Rebind(v, w) \/ Unbind(w)
    PROVE  /\ RegistryTypeOK'
           /\ UNCHANGED <<bySession, observers>>
           /\ \A x \in Session : Registered(x) =>
                 /\ heap'[bySession[x]].session = heap[bySession[x]].session
                 /\ heap'[bySession[x]].watching = heap[bySession[x]].watching
<1>1. RegistryTypeOK /\ UNCHANGED <<bySession, observers>>
  BY DEF IInv, TypeOK, Rebind, Unbind
<1>2. ASSUME Rebind(v, w)
      PROVE  /\ RegistryTypeOK'
             /\ \A x \in Session : Registered(x) =>
                    /\ heap'[bySession[x]].session = heap[bySession[x]].session
                    /\ heap'[bySession[x]].watching = heap[bySession[x]].watching
  <2> DEFINE h == [heap EXCEPT ![byWebsocket[v]] = [heap[byWebsocket[v]] EXCEPT !.websocket = w]]
  <2>1. byWebsocket[v] \in StateId /\ heap[byWebsocket[v]] \in SessionState
    BY <1>1, <1>2, ObjectTypes DEF Rebind
  <2>2. [heap[byWebsocket[v]] EXCEPT !.websocket = w] \in SessionState
    BY <2>1 DEF SessionState
  <2>3. heap' = Collected(h, bySession, byWebsocket')
    BY <1>1, <1>2, <2>1 DEF Rebind, RegistryTypeOK
  <2>4. /\ h \in [StateId -> SessionState]
        /\ \A i \in StateId : h[i].session = heap[i].session /\ h[i].watching = heap[i].watching
    BY <1>1, <2>1, <2>2 DEF RegistryTypeOK, SessionState
  <2>5. byWebsocket' \in [Websocket -> StateId \cup {None}]
    BY <1>1, <1>2 DEF Rebind, RegistryTypeOK
  <2> HIDE DEF h
  <2>6. heap' \in [StateId -> SessionState]
    BY <2>3, <2>4, CollectedHeap
  <2>7. \A x \in Session : Registered(x) =>
            bySession[x] \in StateId /\ bySession[x] \in Referenced(bySession, byWebsocket')
    BY <1>1, RegisteredIsReferenced DEF Registered, RegistryTypeOK
  <2>8. \A x \in Session : Registered(x) => heap'[bySession[x]] = h[bySession[x]]
    BY <2>3, <2>4, <2>7 DEF Collected
  <2> QED
    BY <1>1, <2>4, <2>5, <2>6, <2>7, <2>8 DEF RegistryTypeOK
<1>3. ASSUME Unbind(w)
      PROVE  /\ RegistryTypeOK'
             /\ \A x \in Session : Registered(x) => heap'[bySession[x]] = heap[bySession[x]]
  <2>1. heap' \in [StateId -> SessionState]
    BY <1>1, <1>3, CollectedHeap DEF Unbind, RegistryTypeOK
  <2>2. byWebsocket' \in [Websocket -> StateId \cup {None}]
    BY <1>1, <1>3 DEF Unbind, RegistryTypeOK
  <2>3. \A x \in Session : Registered(x) =>
            bySession[x] \in StateId /\ bySession[x] \in Referenced(bySession, byWebsocket')
    BY <1>1, RegisteredIsReferenced DEF Registered, RegistryTypeOK
  <2> QED
    BY <1>1, <1>3, <2>1, <2>2, <2>3 DEF Unbind, Collected, RegistryTypeOK
<1>4. \A x \in Session : Registered(x) => bySession[x] \in StateId
  BY <1>1, ObjectTypes
<1> QED
  BY <1>1, <1>2, <1>3, <1>4

LEMMA SocketStep ==
    ASSUME IInv, NEW v \in Websocket, NEW w \in Websocket, Rebind(v, w) \/ Unbind(w)
    PROVE  RegistryTypeOK' /\ Owned' /\ WatchersIndexed'
<1>1. ASSUME NEW x \in Session
      PROVE  OwnedAndIndexed(x)'
  <2>1. CASE Registered(x)
    BY <2>1, SocketKeeps, KeptIsFine DEF KeptFrom
  <2>2. CASE ~Registered(x)
    BY <2>2, SocketKeeps DEF OwnedAndIndexed, Registered
  <2> QED
    BY <2>1, <2>2
<1> QED
  BY <1>1, SocketKeeps, FineTogether

LEMMA StepIInv == IInv /\ [Next]_vars => IInv'
<1> SUFFICES ASSUME IInv, [Next]_vars PROVE IInv'
  OBVIOUS
<1>1. known' \subseteq Session /\ reused' \in BOOLEAN
  <2>1. reused' = reused \/ reused' \in BOOLEAN
    BY DEF Next, Login, Reconnect, SetTable, Watch, StopWatching, Drop, Rebind, Unbind, vars
  <2>2. known' \subseteq Session
    BY DEF IInv, TypeOK, Next, Login, Reconnect, SetTable, Watch, StopWatching, Drop,
           Rebind, Unbind, vars
  <2> QED
    BY <2>1, <2>2 DEF IInv, TypeOK
<1>2. CASE UNCHANGED vars
  BY <1>2 DEF IInv, TypeOK, RegistryTypeOK, Owned, WatchersIndexed, Watchers, Registered,
              vars, registryVars
<1>3. CASE Next
  <2>1. RegistryTypeOK' /\ Owned' /\ WatchersIndexed'
    BY <1>3, StepBind, SetTableStep, WatchStep, DropStep, SocketStep
       DEF Next, Login, Reconnect
  <2> QED
    BY <1>1, <2>1 DEF IInv, TypeOK
<1> QED
  BY <1>2, <1>3

\* A registered session is in the observer set of every table it watches, also
\* when logins over reused sockets leave several objects of one session.
THEOREM NoWatcherMissed == Spec => []WatchersIndexed
<1>1. IInv => WatchersIndexed
  BY DEF IInv
<1> QED
  BY <1>1, InitIInv, StepIInv, PTL DEF Spec

---------------------------------------------------------------------------
\* The converse.  Until a login takes over a socket, bind() evicts nobody, and
\* a session is in the index only of tables it watches; in particular a session
\* that is not registered is in no observer set when bind() makes its object.
NotStale(x) ==
    \A t \in Table : x \in observers[t] => Registered(x) /\ t \in heap[bySession[x]].watching

NoneStale == ~reused => \A x \in Session : NotStale(x)

\* A session other than the one a step is about: its object is not touched, and
\* it enters no observer set.
Untouched(x) ==
    /\ \A t \in Table : x \in observers'[t] => x \in observers[t]
    /\ Registered(x) => /\ bySession'[x] = bySession[x]
                        /\ heap'[bySession[x]].watching = heap[bySession[x]].watching

LEMMA UntouchedNotStale ==
    ASSUME NEW x, NotStale(x), Untouched(x)
    PROVE  NotStale(x)'
BY DEF NotStale, Untouched, Registered

LEMMA BindNotStale ==
    ASSUME IInv, NEW s \in Session, NEW w \in Websocket, Evicted(s, w) = None,
           Bind(s, w, BoundState(s, w)), NEW x \in Session, NotStale(x)
    PROVE  NotStale(x)'
<1> DEFINE state == BoundState(s, w)
<1>1. RegistryTypeOK /\ Owned
  BY DEF IInv, TypeOK
<1>2. observers' = [t \in Table |-> observers[t] \cup {y \in {s} : t \in state.watching}]
  BY <1>1 DEF Bind, BoundObservers, RegistryTypeOK
<1>3. CASE x = s
  <2>1. bySession'[s] # None /\ heap'[bySession'[s]] = state
    BY BindOwn DEF IInv
  <2>2. ASSUME NEW t \in Table, s \in observers'[t]
        PROVE  t \in state.watching
    <3>1. CASE s \in observers[t]
      <4>1. Registered(s) /\ t \in heap[bySession[s]].watching
        BY <1>3, <3>1 DEF NotStale
      <4>2. heap[bySession[s]] \in SessionState
        BY <1>1, <4>1, ObjectTypes
      <4> QED
        BY <4>1, <4>2 DEF BoundState, SessionState
    <3>2. CASE s \notin observers[t]
      BY <1>2, <2>2, <3>2
    <3> QED
      BY <3>1, <3>2
  <2> QED
    BY <1>3, <2>1, <2>2 DEF NotStale, Registered
<1>4. CASE x # s
  <2>1. \A t \in Table : x \in observers'[t] => x \in observers[t]
    BY <1>2, <1>4
  <2>2. ASSUME Registered(x)
        PROVE  bySession'[x] = bySession[x] /\ heap'[bySession[x]] = heap[bySession[x]]
    <3>1. bySession'[x] = bySession[x]
      BY <1>4 DEF Bind, BoundSessions
    <3> QED
      BY <1>4, <2>2, <3>1, BindOthers DEF Registered
  <2> QED
    BY <2>1, <2>2, UntouchedNotStale DEF Untouched
<1> QED
  BY <1>3, <1>4

LEMMA UpdateNotStale ==
    ASSUME IInv, NEW s \in Session, Registered(s), NEW state, UpdateSession(s, state),
           \A y \in Session \ {s} : \A t \in Table : y \in observers'[t] => y \in observers[t],
           \A t \in Table : s \in observers'[t] => t \in state.watching,
           NEW x \in Session, NotStale(x)
    PROVE  NotStale(x)'
<1>1. RegistryTypeOK /\ Owned /\ bySession[s] \in StateId
  BY ObjectTypes DEF IInv, TypeOK
<1>2. CASE x = s
  <2>1. bySession'[s] # None /\ heap'[bySession'[s]] = state
    BY <1>1 DEF UpdateSession, RegistryTypeOK, Registered
  <2> QED
    BY <1>2, <2>1 DEF NotStale, Registered
<1>3. CASE x # s
  <2>1. Registered(x) => bySession'[x] = bySession[x] /\ heap'[bySession[x]] = heap[bySession[x]]
    <3> SUFFICES ASSUME Registered(x)
                 PROVE  bySession'[x] = bySession[x] /\ heap'[bySession[x]] = heap[bySession[x]]
      OBVIOUS
    <3>1. bySession[x] # bySession[s] /\ bySession[x] \in StateId
      BY <1>1, <1>3, ObjectTypes DEF Owned
    <3> QED
      BY <1>1, <3>1 DEF UpdateSession, RegistryTypeOK
  <2> QED
    BY <1>3, <2>1, UntouchedNotStale DEF Untouched
<1> QED
  BY <1>2, <1>3

LEMMA TableNotStale ==
    ASSUME IInv, NEW s \in Session, NEW t \in Table \cup {None},
           SetTable(s, t) \/ (t \in Table /\ (Watch(s, t) \/ StopWatching(s, t))),
           NEW x \in Session, NotStale(x), NotStale(s)
    PROVE  NotStale(x)'
<1>1. /\ RegistryTypeOK /\ Registered(s)
      /\ heap[bySession[s]] \in SessionState
  BY ObjectTypes DEF SetTable, Watch, StopWatching, IInv, TypeOK
<1>2. \A u \in Table : s \in observers[u] => u \in heap[bySession[s]].watching
  BY DEF NotStale
<1>3. CASE SetTable(s, t)
  <2> DEFINE state == [heap[bySession[s]] EXCEPT !.table = t]
  <2>1. state.watching = heap[bySession[s]].watching
    BY <1>1 DEF SessionState
  <2>2. \A u \in Table : observers'[u] = observers[u] \cup {y \in {s} : u \in state.watching}
    BY <1>3, <2>1 DEF SetTable
  <2>3. UpdateSession(s, state)
    BY <1>3 DEF SetTable
  <2> HIDE DEF state
  <2>4. /\ \A y \in Session \ {s} : \A u \in Table : y \in observers'[u] => y \in observers[u]
        /\ \A u \in Table : s \in observers'[u] => u \in state.watching
    BY <1>2, <2>1, <2>2
  <2> QED
    BY <1>1, <2>3, <2>4, UpdateNotStale
<1>4. CASE t \in Table /\ Watch(s, t)
  <2> DEFINE state == [heap[bySession[s]] EXCEPT !.watching = @ \cup {t}]
  <2>1. state.watching = heap[bySession[s]].watching \cup {t}
    BY <1>1 DEF SessionState
  <2>2. \A u \in Table : observers'[u] = IF u = t THEN observers[t] \cup {s} ELSE observers[u]
    BY <1>1, <1>4 DEF Watch, RegistryTypeOK
  <2>3. UpdateSession(s, state)
    BY <1>4 DEF Watch
  <2> HIDE DEF state
  <2>4. /\ \A y \in Session \ {s} : \A u \in Table : y \in observers'[u] => y \in observers[u]
        /\ \A u \in Table : s \in observers'[u] => u \in state.watching
    BY <1>2, <2>1, <2>2
  <2> QED
    BY <1>1, <2>3, <2>4, UpdateNotStale
<1>5. CASE t \in Table /\ StopWatching(s, t)
  <2> DEFINE state == [heap[bySession[s]] EXCEPT !.watching = @ \ {t}]
  <2>1. state.watching = heap[bySession[s]].watching \ {t}
    BY <1>1 DEF SessionState
  <2>2. \A u \in Table : observers'[u] = IF u = t THEN observers[t] \ {s} ELSE observers[u]
    BY <1>1, <1>5 DEF StopWatching, RegistryTypeOK
  <2>3. UpdateSession(s, state)
    BY <1>5 DEF StopWatching
  <2> HIDE DEF state
  <2>4. /\ \A y \in Session \ {s} : \A u \in Table : y \in observers'[u] => y \in observers[u]
        /\ \A u \in Table : s \in observers'[u] => u \in state.watching
    BY <1>2, <2>1, <2>2
  <2> QED
    BY <1>1, <2>3, <2>4, UpdateNotStale
<1> QED
  BY <1>3, <1>4, <1>5

LEMMA DropNotStale ==
    ASSUME IInv, NEW s \in Session, Drop(s), NEW x \in Session, NotStale(x)
    PROVE  NotStale(x)'
<1>1. RegistryTypeOK
  BY DEF IInv, TypeOK
<1>2. CASE x = s
  <2>1. \A t \in Table : s \notin observers'[t]
    BY <1>2 DEF Drop, DroppedObservers, NotStale
  <2> QED
    BY <1>2, <2>1 DEF NotStale
<1>3. CASE x # s
  <2>1. \A t \in Table : x \in observers'[t] => x \in observers[t]
    BY DEF Drop, DroppedObservers
  <2>2. ASSUME Registered(x)
        PROVE  bySession'[x] = bySession[x] /\ heap'[bySession[x]] = heap[bySession[x]]
    BY <1>3, <2>2, DropKeeps
  <2> QED
    BY <2>1, <2>2, UntouchedNotStale DEF Untouched
<1> QED
  BY <1>2, <1>3

LEMMA SocketNotStale ==
    ASSUME IInv, NEW v \in Websocket, NEW w \in Websocket, Rebind(v, w) \/ Unbind(w),
           NEW x \in Session, NotStale(x)
    PROVE  NotStale(x)'
<1>1. UNCHANGED <<bySession, observers>>
  BY DEF Rebind, Unbind
<1>2. Registered(x) => heap'[bySession[x]].watching = heap[bySession[x]].watching
  BY SocketKeeps, ObjectTypes DEF IInv, TypeOK
<1> QED
  BY <1>1, <1>2, UntouchedNotStale DEF Untouched

LEMMA StepNoneStale == IInv /\ NoneStale /\ [Next]_vars => NoneStale'
<1> SUFFICES ASSUME IInv, NoneStale, [Next]_vars, ~reused', NEW x \in Session
             PROVE  NotStale(x)'
  BY DEF NoneStale
<1>1. ~reused
  BY DEF Next, vars, Login, Reconnect, SetTable, Watch, StopWatching, Drop, Rebind, Unbind
<1>2. \A y \in Session : NotStale(y)
  BY <1>1 DEF NoneStale
<1>3. CASE UNCHANGED vars
  BY <1>2, <1>3 DEF NotStale, Registered, vars, registryVars
<1>4. ASSUME NEW s \in Session, NEW w \in Websocket, Login(s, w) \/ Reconnect(s, w)
      PROVE  NotStale(x)'
  <2>1. Evicted(s, w) = None
    BY <1>4 DEF Login, Reconnect, Evicted
  <2> QED
    BY <1>2, <1>4, <2>1, BindNotStale DEF Login, Reconnect
<1>5. ASSUME NEW s \in Session, NEW t \in Table \cup {None}, SetTable(s, t)
      PROVE  NotStale(x)'
  BY <1>2, <1>5, TableNotStale
<1>6. ASSUME NEW s \in Session, NEW t \in Table, Watch(s, t) \/ StopWatching(s, t)
      PROVE  NotStale(x)'
  BY <1>2, <1>6, TableNotStale
<1>7. ASSUME NEW s \in Session, Drop(s)
      PROVE  NotStale(x)'
  BY <1>2, <1>7, DropNotStale
<1>8. ASSUME NEW v \in Websocket, NEW w \in Websocket, Rebind(v, w) \/ Unbind(w)
      PROVE  NotStale(x)'
  BY <1>2, <1>8, SocketNotStale
<1> QED
  BY <1>3, <1>4, <1>5, <1>6, <1>7, <1>8 DEF Next

\* While no login has taken over another session's socket, the observer set of
\* a table is exactly the registered sessions that watch it, as _reindex says.
THEOREM ObserverSetsExact == Spec => []ObserversExact
<1>1. Init => NoneStale
  BY DEF Init, RegistryInit, NoneStale, NotStale
<1>2. IInv /\ NoneStale => ObserversExact
  <2> SUFFICES ASSUME IInv, NoneStale, ~reused, NEW t \in Table
               PROVE  observers[t] = Watchers(t)
    BY DEF ObserversExact
  <2>1. observers[t] \subseteq Session
    BY DEF IInv, TypeOK, RegistryTypeOK
  <2>2. observers[t] \subseteq Watchers(t)
    BY <2>1 DEF NoneStale, NotStale, Watchers
  <2> QED
    BY <2>2 DEF IInv, WatchersIndexed
<1> QED
  BY <1>1, <1>2, InitIInv, StepIInv, StepNoneStale, PTL DEF Spec
=============================================================================
