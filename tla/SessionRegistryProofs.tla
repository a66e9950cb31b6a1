----------------------- MODULE SessionRegistryProofs -----------------------
(***************************************************************************)
(* What bind() preserves, for every set of sessions, sockets and objects:  *)
(* the lemmas the theorems about AuthService rest on.                      *)
(***************************************************************************)
EXTENDS SessionRegistry, TLAPS

\* The object bind() works on is one of the heap.
LEMMA TargetIsState ==
    ASSUME RegistryTypeOK, NEW s \in Session, CanBind(s)
    PROVE  TargetOf(s) \in StateId
<1>1. CASE Registered(s)
  BY <1>1 DEF RegistryTypeOK, TargetOf, Registered
<1>2. CASE ~Registered(s)
  <2>1. Free # {}
    BY <1>2 DEF CanBind
  <2>2. (CHOOSE i \in Free : TRUE) \in Free
    BY <2>1
  <2> QED
    BY <1>2, <2>2 DEF TargetOf, Free
<1> QED
  BY <1>1, <1>2

\* The fields bind() leaves are of their types.
LEMMA BoundStateType ==
    ASSUME RegistryTypeOK, NEW s \in Session, NEW w \in Websocket
    PROVE  /\ BoundState(s, w) \in SessionState
           /\ BoundState(s, w).session = IF Registered(s) THEN heap[bySession[s]].session ELSE s
           /\ BoundState(s, w).websocket = w
<1>1. CASE Registered(s)
  <2>1. heap[bySession[s]] \in SessionState
    BY <1>1 DEF RegistryTypeOK, Registered
  <2> QED
    BY <1>1, <2>1 DEF BoundState, SessionState
<1>2. CASE ~Registered(s)
  BY <1>2 DEF BoundState, SessionState, Blank
<1> QED
  BY <1>1, <1>2

\* Collection keeps a heap a heap, and leaves what is referenced as it is.
LEMMA CollectedHeap ==
    ASSUME NEW h \in [StateId -> SessionState], NEW p, NEW q
    PROVE  /\ Collected(h, p, q) \in [StateId -> SessionState]
           /\ \A i \in StateId : i \in Referenced(p, q) => Collected(h, p, q)[i] = h[i]
BY DEF Collected, SessionState, Blank

\* bind() keeps the registry well typed.
LEMMA BindType ==
    ASSUME RegistryTypeOK, NEW s \in Session, NEW w \in Websocket,
           NEW state \in SessionState, Bind(s, w, state)
    PROVE  RegistryTypeOK'
<1>1. TargetOf(s) \in StateId
  BY TargetIsState DEF Bind
<1>2. bySession' \in [Session -> StateId \cup {None}]
  BY <1>1 DEF Bind, BoundSessions, RegistryTypeOK
<1>3. byWebsocket' \in [Websocket -> StateId \cup {None}]
  BY <1>1 DEF Bind, RegistryTypeOK
<1>4. heap' \in [StateId -> SessionState]
  <2>1. [heap EXCEPT ![TargetOf(s)] = state] \in [StateId -> SessionState]
    BY <1>1 DEF RegistryTypeOK
  <2> QED
    BY <2>1, CollectedHeap DEF Bind
<1>5. observers' \in [Table -> SUBSET Session]
  BY DEF Bind, BoundObservers, RegistryTypeOK
<1> QED
  BY <1>2, <1>3, <1>4, <1>5 DEF RegistryTypeOK

\* A registered session's object is referenced.
LEMMA RegisteredIsReferenced ==
    ASSUME NEW S, NEW p \in [Session -> S], NEW q, NEW s \in Session, p[s] # None
    PROVE  p[s] \in Referenced(p, q)
BY DEF Referenced, Range

LEMMA HeldAreStates ==
    ASSUME RegistryTypeOK
    PROVE  Referenced(bySession, byWebsocket) \subseteq StateId
BY DEF Referenced, Range, RegistryTypeOK

\* After bind() the objects some id or socket reaches are the one it left, and
\* others that were reached before and are as they were.
LEMMA BindHeld ==
    ASSUME RegistryAssumption, RegistryTypeOK, NEW s \in Session, NEW w \in Websocket,
           NEW state \in SessionState, Bind(s, w, state),
           NEW i \in Referenced(bySession', byWebsocket')
    PROVE  \/ i = TargetOf(s) /\ heap'[i] = state
           \/ i # TargetOf(s) /\ i \in Referenced(bySession, byWebsocket) /\ heap'[i] = heap[i]
<1>1. TargetOf(s) \in StateId
  BY TargetIsState DEF Bind
<1>2. RegistryTypeOK'
  BY BindType
<1>3. i \in StateId /\ i # None
  BY <1>2 DEF Referenced, Range, RegistryTypeOK
<1>4. heap'[i] = [heap EXCEPT ![TargetOf(s)] = state][i]
  BY <1>3 DEF Bind, Collected
<1>5. CASE i = TargetOf(s)
  BY <1>1, <1>4, <1>5 DEF RegistryTypeOK
<1>6. CASE i # TargetOf(s)
  <2>1. heap'[i] = heap[i]
    BY <1>1, <1>3, <1>4, <1>6 DEF RegistryTypeOK
  <2>2. CASE \E x \in Session : i = bySession'[x]
    <3>1. PICK x \in Session : i = bySession'[x]
      BY <2>2
    <3>2. bySession'[x] \in {TargetOf(s), None, bySession[x]}
      BY DEF Bind, BoundSessions
    <3> QED
      BY <1>3, <1>6, <2>1, <3>1, <3>2, RegisteredIsReferenced DEF RegistryTypeOK
  <2>3. CASE \E x \in Websocket : i = byWebsocket'[x]
    <3>1. PICK x \in Websocket : i = byWebsocket'[x]
      BY <2>3
    <3>2. byWebsocket'[x] \in {TargetOf(s), byWebsocket[x]}
      BY DEF Bind, RegistryTypeOK
    <3>3. i \in Range(byWebsocket)
      BY <1>6, <3>1, <3>2 DEF Range, RegistryTypeOK
    <3> QED
      BY <1>3, <1>6, <2>1, <3>3 DEF Referenced
  <2> QED
    BY <1>2, <2>2, <2>3 DEF Referenced, Range, RegistryTypeOK
<1> QED
  BY <1>5, <1>6

\* bind() with the fields it sets itself keeps every registered session
\* reachable through its own socket.
LEMMA BindHomeSocket ==
    ASSUME RegistryAssumption, RegistryTypeOK, HomeSocket,
           NEW s \in Session, NEW w \in Websocket, NEW state \in SessionState,
           state.session = s, state.websocket = w, Bind(s, w, state)
    PROVE  HomeSocket'
<1> DEFINE target == TargetOf(s)
<1>1. target \in StateId /\ target # None
  BY TargetIsState DEF Bind, RegistryAssumption
<1>2. bySession'[s] = target /\ byWebsocket'[w] = target
  BY DEF Bind, BoundSessions, RegistryTypeOK
<1>3. bySession' \in [Session -> StateId \cup {None}]
  BY BindType DEF RegistryTypeOK
<1>4. ASSUME NEW x \in Session, bySession'[x] # None
      PROVE  heap'[bySession'[x]] =
                [heap EXCEPT ![target] = state][bySession'[x]]
  <2>1. bySession'[x] \in Referenced(bySession', byWebsocket')
    BY <1>3, <1>4, RegisteredIsReferenced
  <2>2. bySession'[x] \in StateId
    BY <1>3, <1>4
  <2>3. heap' = Collected([heap EXCEPT ![target] = state], bySession', byWebsocket')
    BY DEF Bind
  <2> QED
    BY <2>1, <2>2, <2>3 DEF Collected
<1>5. ASSUME NEW x \in Session, bySession'[x] # None
      PROVE  /\ heap'[bySession'[x]].session = x
             /\ heap'[bySession'[x]].websocket \in Websocket
             /\ byWebsocket'[heap'[bySession'[x]].websocket] = bySession'[x]
  <2>1. CASE x = s
    <3>1. heap'[bySession'[x]] = state
      BY <1>1, <1>2, <1>4, <1>5, <2>1 DEF RegistryTypeOK
    <3> QED
      BY <1>2, <2>1, <3>1
  <2>2. CASE x # s
    <3>1. bySession'[x] = bySession[x] /\ Registered(x)
      BY <1>5, <2>2 DEF Bind, BoundSessions, Registered
    <3>2. /\ heap[bySession[x]].session = x
          /\ heap[bySession[x]].websocket \in Websocket
          /\ byWebsocket[heap[bySession[x]].websocket] = bySession[x]
      BY <3>1 DEF HomeSocket
    <3>3. bySession[x] # target
      <4>1. CASE Registered(s)
        BY <2>2, <3>2, <4>1 DEF HomeSocket, TargetOf
      <4>2. CASE ~Registered(s)
        <5>1. Free # {}
          BY <4>2 DEF Bind, CanBind
        <5>2. target \in Free
          BY <4>2, <5>1 DEF TargetOf
        <5>3. bySession[x] \in Referenced(bySession, byWebsocket)
          BY <3>1, RegisteredIsReferenced DEF RegistryTypeOK, Registered
        <5> QED
          BY <5>2, <5>3 DEF Free
      <4> QED
        BY <4>1, <4>2
    <3>4. heap'[bySession'[x]] = heap[bySession[x]]
      BY <1>1, <1>4, <1>5, <3>1, <3>3 DEF RegistryTypeOK, Registered
    <3>5. heap[bySession[x]].websocket # w
      <4>1. SUFFICES ASSUME heap[bySession[x]].websocket = w  PROVE FALSE
        OBVIOUS
      <4>2. Evicted(s, w) = bySession[x]
        BY <2>2, <3>1, <3>2, <4>1 DEF Evicted, Registered
      <4>3. bySession'[x] = None
        BY <2>2, <3>1, <3>2, <4>2 DEF Bind, BoundSessions, Registered
      <4> QED
        BY <1>5, <4>3
    <3>6. byWebsocket'[heap[bySession[x]].websocket]
            = byWebsocket[heap[bySession[x]].websocket]
      BY <3>2, <3>5 DEF Bind, RegistryTypeOK
    <3> QED
      BY <3>1, <3>2, <3>4, <3>6
  <2> QED
    BY <2>1, <2>2
<1> QED
  BY <1>5 DEF HomeSocket, Registered
=============================================================================
