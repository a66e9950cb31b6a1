----------------------------- MODULE AuthProofs ----------------------------
(***************************************************************************)
(* Theorems about AuthService for every number of sessions, sockets,       *)
(* tokens, instance ids and secrets, with either store and any store call  *)
(* that may raise.                                                         *)
(***************************************************************************)
EXTENDS AuthRefinement, SessionRegistryProofs

---------------------------------------------------------------------------
(***************************************************************************)
(* Lemmas on the operators of the token store and on minting.              *)
(***************************************************************************)
LEMMA NewTokenIsUnminted ==
    ASSUME CanMint
    PROVE  NewToken \in Token /\ NewToken \notin Minted
BY DEF CanMint, NewToken

LEMMA MintedClaims ==
    ASSUME TypeOK, NEW t \in Minted
    PROVE  claims[t] \in Claims /\ claims[t].session \in Session
BY DEF TypeOK, Minted, Claims

\* Minting adds one token, of session s, and leaves the others as they are.
LEMMA MintAdds ==
    ASSUME TypeOK, CanMint, NEW s \in Session, Mint(s)
    PROVE  /\ claims' \in [Token -> Claims \cup {Unminted}]
           /\ Minted' = Minted \cup {NewToken}
           /\ claims'[NewToken].session = s
           /\ \A t \in Minted : claims'[t] = claims[t]
<1> DEFINE new == [session |-> s, instance |-> instance, secret |-> secret]
<1>1. NewToken \in Token /\ NewToken \notin Minted
  BY NewTokenIsUnminted
<1>2. new \in Claims
  BY DEF TypeOK, Claims
<1>3. new # Unminted
  BY RegistryAssumption DEF Unminted
<1>4. claims' = [claims EXCEPT ![NewToken] = new]
  BY DEF Mint
<1>5. claims \in [Token -> Claims \cup {Unminted}]
  BY DEF TypeOK
<1>6. claims' \in [Token -> Claims \cup {Unminted}]
  BY <1>2, <1>4, <1>5
<1>7. claims'[NewToken] = new /\ \A t \in Token \ {NewToken} : claims'[t] = claims[t]
  BY <1>1, <1>4, <1>5
<1>8. Minted' = Minted \cup {NewToken}
  BY <1>1, <1>3, <1>7 DEF Minted, Unminted
<1> QED
  BY <1>1, <1>6, <1>7, <1>8 DEF Minted

LEMMA PutAndDelete ==
    ASSUME NEW records, NEW t, NEW outcome
    PROVE  /\ Put(records, t, outcome) \subseteq records \cup {t}
           /\ Delete(records, t, outcome) \subseteq records
           /\ outcome = "ok" => t \notin Delete(records, t, outcome)
BY DEF Put, Delete

LEMMA RotationKeepsOrAdds ==
    ASSUME NEW t, NEW put, NEW del
    PROVE  RotatedStore(t, put, del) \subseteq store \cup {NewToken}
BY DEF RotatedStore, Put, Delete

---------------------------------------------------------------------------
(***************************************************************************)
(* What one step does to claims and store: it mints nothing and the store  *)
(* does not grow, or it starts a session, or it rotates a live token.      *)
(***************************************************************************)
MintsNothing ==
    /\ claims' = claims
    /\ store' \subseteq store
    /\ lapsed \subseteq lapsed'

StartsSession ==
    /\ CanMint
    /\ \E s \in Session : NewSession(s) /\ Mint(s)
    /\ store' \in {store, store \cup {NewToken}}
    /\ UNCHANGED clockVars

RotatesToken ==
    /\ CanMint
    /\ \E t \in Minted, put \in Outcome("put"), del \in Outcome("delete") :
        /\ HasRecord(t)
        /\ Mint(claims[t].session)
        /\ store' = RotatedStore(t, put, del)
    /\ UNCHANGED clockVars

\* The hook and the gates only take records away.
LEMMA HookShrinks ==
    ASSUME NEW t
    PROVE  AfterHook(t) \subseteq store
BY DEF AfterHook, AfterGet

LEMMA GateStoreShrinks ==
    ASSUME NEW op, NEW t, NEW del
    PROVE  /\ WireStore(op, t, del) \subseteq store
           /\ SessionStore(op, t, del) \subseteq store
BY HookShrinks DEF WireStore, SessionStore, Delete, AfterGet

LEMMA RefusalMintsNothing ==
    ASSUME NEW op, NEW t, RefusedInvalid(op, t) \/ Denied(op, t)
    PROVE  MintsNothing
BY HookShrinks DEF RefusedInvalid, Denied, MintsNothing, tokenVars, clockVars

LEMMA HookRaisesMintsNothing ==
    ASSUME NEW op, NEW t, HookRaises(op, t)
    PROVE  MintsNothing
BY DEF HookRaises, MintsNothing, clockVars, Delete

LEMMA TokenStep ==
    ASSUME TypeOK, Next
    PROVE  MintsNothing \/ StartsSession \/ RotatesToken
<1>1. ASSUME NEW w \in Websocket, Login(w)
      PROVE  StartsSession
  BY <1>1 DEF Login, StartsSession, Put
<1>2. ASSUME NEW w \in Websocket, NEW t \in delivered, Reconnect(w, t)
      PROVE  MintsNothing \/ RotatesToken
  <2>1. CASE \/ RefusedInvalid("reconnect", t)
             \/ Denied("reconnect", t)
    BY <2>1, RefusalMintsNothing
  <2>2. CASE ReconnectExpired(w, t) \/ ReconnectRevoked(w, t)
    BY <2>2, HookShrinks
       DEF ReconnectExpired, ReconnectRevoked, MintsNothing, tokenVars, clockVars, Delete
  <2>3. CASE ReconnectOk(w, t)
    BY <2>3 DEF ReconnectOk, Rotate, Acceptable, RotatesToken, TypeOK
  <2> QED
    BY <1>2, <2>1, <2>2, <2>3 DEF Reconnect, ReconnectDenied
<1>3. ASSUME NEW w \in Websocket, NEW t \in delivered, Refresh(w, t)
      PROVE  MintsNothing \/ RotatesToken
  <2>1. CASE RefusedInvalid("auth_refresh", t)
    BY <2>1, RefusalMintsNothing
  <2>2. CASE RefreshExpired(t) \/ RefreshRefused(w, t)
    BY <2>2, HookShrinks
       DEF RefreshExpired, RefreshRefused, MintsNothing, tokenVars, clockVars, Delete
  <2>3. CASE RefreshOk(w, t)
    BY <2>3 DEF RefreshOk, Rotate, Acceptable, RotatesToken, TypeOK
  <2> QED
    BY <1>3, <2>1, <2>2, <2>3 DEF Refresh
<1>4. ASSUME NEW t \in delivered, Revoke(t)
      PROVE  MintsNothing
  <2>1. CASE RefusedInvalid("auth_revoke", t) \/ Denied("auth_revoke", t)
    BY <2>1, RefusalMintsNothing
  <2> QED
    BY <1>4, <2>1, HookShrinks DEF Revoke, MintsNothing, Delete, clockVars
<1>5. ASSUME NEW op \in GateOp, NEW w \in Websocket, NEW t, Gate(op, w, t)
      PROVE  MintsNothing
  BY <1>5, GateStoreShrinks, HookShrinks
     DEF Gate, GateClaimed, GateBound, GateUnbound, GateBinds, MintsNothing, tokenVars, clockVars
<1>6. ASSUME CollectTokens \/ Restart \/ (\E t \in Token : Expire(t) \/ Lapse(t))
             \/ (\E s \in Session : Push(s) \/ Acknowledge(s))
      PROVE  MintsNothing
  BY <1>6 DEF CollectTokens, Restart, Expire, Lapse, Push, Acknowledge, MintsNothing, tokenVars, clockVars
<1> QED
  BY <1>1, <1>2, <1>3, <1>4, <1>5, <1>6, HookRaisesMintsNothing DEF Next

---------------------------------------------------------------------------
(***************************************************************************)
(* Type correctness.                                                       *)
(***************************************************************************)
LEMMA InitType == Init => TypeOK
<1> SUFFICES ASSUME Init PROVE TypeOK
  OBVIOUS
<1>1. RegistryTypeOK
  BY DEF Init, RegistryInit, RegistryTypeOK, SessionState, Blank
<1>2. reply \in Reply
  BY DEF Init, Silent, Answer, Reply, Op, Code
<1> QED
  BY <1>1, <1>2 DEF Init, TypeOK, Minted

\* The part of TypeOK that is about tokens.
TokenTypeOK ==
    /\ claims \in [Token -> Claims \cup {Unminted}]
    /\ store \subseteq Minted
    /\ expired \subseteq Minted
    /\ lapsed \subseteq Minted
    /\ delivered \subseteq Minted

LEMMA MintsNothingType ==
    ASSUME TypeOK, MintsNothing, UNCHANGED <<clockVars, delivered>>
    PROVE  TokenTypeOK'
BY DEF TypeOK, MintsNothing, TokenTypeOK, Minted, clockVars

LEMMA MintType ==
    ASSUME TypeOK, CanMint, NEW s \in Session, Mint(s), NEW success,
           store' \subseteq store \cup {NewToken}, Deliver(NewToken, success),
           UNCHANGED clockVars
    PROVE  TokenTypeOK'
<1>1. /\ claims' \in [Token -> Claims \cup {Unminted}]
      /\ Minted' = Minted \cup {NewToken}
  BY MintAdds
<1> QED
  BY <1>1 DEF TypeOK, TokenTypeOK, Deliver, clockVars

\* A socket's object is one of the heap, and so is a registered session's.
LEMMA HeapTypes ==
    ASSUME RegistryTypeOK
    PROVE  /\ \A w \in Websocket : byWebsocket[w] # None =>
                byWebsocket[w] \in StateId /\ heap[byWebsocket[w]] \in SessionState
           /\ \A s \in Session : Registered(s) =>
                bySession[s] \in StateId /\ heap[bySession[s]] \in SessionState
BY DEF RegistryTypeOK, Registered

LEMMA ClearPendingType ==
    ASSUME RegistryTypeOK, NEW s \in Session
    PROVE  ClearPending(heap, s) \in [StateId -> SessionState]
<1>1. CASE Registered(s)
  <2>1. bySession[s] \in StateId /\ heap[bySession[s]] \in SessionState
    BY <1>1, HeapTypes
  <2>2. [heap[bySession[s]] EXCEPT !.pending = None] \in SessionState
    BY <2>1 DEF SessionState
  <2>3. ClearPending(heap, s)
          = [heap EXCEPT ![bySession[s]] = [heap[bySession[s]] EXCEPT !.pending = None]]
    BY <1>1, <2>1 DEF ClearPending, RegistryTypeOK
  <2> QED
    BY <2>1, <2>2, <2>3 DEF RegistryTypeOK
<1>2. CASE ~Registered(s)
  BY <1>2 DEF ClearPending, RegistryTypeOK
<1> QED
  BY <1>1, <1>2

LEMMA AnswerType ==
    ASSUME NEW op \in Op, NEW code \in Code, NEW t \in Token \cup {None}
    PROVE  Answer(op, code, t) \in Reply
BY DEF Answer, Reply

LEMMA SilentType == Silent \in Reply
BY DEF Silent, Answer, Reply, Op, Code

\* What changes only objects' fields keeps the registry well typed.
LEMMA HeapOnlyType ==
    ASSUME RegistryTypeOK, heap' \in [StateId -> SessionState],
           UNCHANGED <<bySession, byWebsocket, observers>>
    PROVE  RegistryTypeOK'
BY DEF RegistryTypeOK

LEMMA RegistryUnchangedType ==
    ASSUME RegistryTypeOK, UNCHANGED registryVars
    PROVE  RegistryTypeOK'
BY DEF RegistryTypeOK, registryVars

LEMMA GateCodeType ==
    ASSUME NEW op \in GateOp, NEW t, NEW del
    PROVE  /\ op \in Op
           /\ WireVerdict(op, t) \in Code
           /\ SessionCode(op, t, del) \in Code
BY DEF GateOp, Op, WireVerdict, SessionCode, Verdict, BankVerdict, MessageVerdict, Code

LEMMA LoginType ==
    ASSUME TypeOK, NEW w \in Websocket, Login(w)
    PROVE  TypeOK'
<1>1. PICK s \in Session, put \in Outcome("put") :
        /\ Bind(s, w, [BoundState(s, w) EXCEPT !.token = SnapshotAfterLogin(put)])
        /\ Mint(s)
        /\ store' = Put(store, NewToken, put)
        /\ Deliver(NewToken, put = "ok")
        /\ reply' = Answer("auth", IF put = "ok" THEN "ok" ELSE "error", NewToken)
  BY DEF Login
<1>2. CanMint /\ NewToken \in Token
  BY NewTokenIsUnminted DEF Login
<1>3. [BoundState(s, w) EXCEPT !.token = SnapshotAfterLogin(put)] \in SessionState
  BY <1>2, BoundStateType DEF TypeOK, SessionState, SnapshotAfterLogin
<1>4. RegistryTypeOK'
  BY <1>1, <1>3, BindType DEF TypeOK
<1>5. TokenTypeOK'
  BY <1>1, <1>2, MintType, PutAndDelete DEF Login
<1>6. reply' \in Reply
  BY <1>1, <1>2, AnswerType DEF Op, Code
<1> QED
  BY <1>4, <1>5, <1>6 DEF TypeOK, TokenTypeOK, Login, daemonVars

LEMMA RefusalType ==
    ASSUME TypeOK, NEW op \in Op, NEW t \in Token,
           RefusedInvalid(op, t) \/ Denied(op, t)
    PROVE  TypeOK'
<1>1. MintsNothing /\ UNCHANGED <<registryVars, clockVars, delivered, daemonVars>>
  BY RefusalMintsNothing DEF RefusedInvalid, Denied, tokenVars, clockVars
<1>2. reply' \in Reply
  BY AnswerType DEF RefusedInvalid, Denied, Code
<1> QED
  BY <1>1, <1>2, MintsNothingType, RegistryUnchangedType DEF TypeOK, TokenTypeOK, daemonVars

LEMMA HookRaisesType ==
    ASSUME TypeOK, NEW op \in Op, NEW t \in delivered, HookRaises(op, t)
    PROVE  TypeOK'
<1>1. MintsNothing /\ UNCHANGED <<registryVars, clockVars, delivered, daemonVars>>
  BY HookRaisesMintsNothing DEF HookRaises
<1>2. reply' \in Reply
  BY AnswerType DEF HookRaises, Code, TypeOK, Minted
<1> QED
  BY <1>1, <1>2, MintsNothingType, RegistryUnchangedType DEF TypeOK, TokenTypeOK, daemonVars

LEMMA ReconnectType ==
    ASSUME TypeOK, NEW w \in Websocket, NEW t \in delivered, Reconnect(w, t)
    PROVE  TypeOK'
<1>1. t \in Token /\ t \in Minted /\ claims[t].session \in Session
  BY MintedClaims DEF TypeOK, Minted
<1>2. CASE \/ RefusedInvalid("reconnect", t)
           \/ Denied("reconnect", t)
  BY <1>1, <1>2, RefusalType DEF Op
<1>3. CASE ReconnectExpired(w, t) \/ ReconnectRevoked(w, t)
  <2>1. MintsNothing /\ UNCHANGED <<bySession, byWebsocket, observers, clockVars, delivered, daemonVars>>
    BY <1>3, HookShrinks
       DEF ReconnectExpired, ReconnectRevoked, MintsNothing, tokenVars, clockVars, Delete
  <2>2. heap' \in [StateId -> SessionState]
    BY <1>1, <1>3, ClearPendingType DEF ReconnectExpired, ReconnectRevoked, TypeOK
  <2>3. reply' \in Reply
    BY <1>1, <1>3, AnswerType DEF ReconnectExpired, ReconnectRevoked, Op, Code
  <2> QED
    BY <2>1, <2>2, <2>3, HeapOnlyType, MintsNothingType DEF TypeOK, TokenTypeOK, daemonVars
<1>4. CASE ReconnectOk(w, t)
  <2> DEFINE s == claims[t].session
  <2>1. PICK put \in Outcome("put"), del \in Outcome("delete") :
          LET success == put = "ok" /\ del = "ok"
          IN  /\ Rotate(t, put, del)
              /\ Bind(s, w, ReconnectedState(s, w, success))
              /\ reply' = [Answer("reconnect", IF success THEN "ok" ELSE "error", t) EXCEPT
                           !.replayed = IF success THEN BoundState(s, w).pending ELSE None]
    BY <1>4 DEF ReconnectOk
  <2> DEFINE success == put = "ok" /\ del = "ok"
  <2>2. CanMint /\ NewToken \in Token
    BY <2>1, NewTokenIsUnminted DEF Rotate
  <2>3. BoundState(s, w) \in SessionState
    BY <1>1, BoundStateType DEF TypeOK
  <2>4. ReconnectedState(s, w, success) \in SessionState
    BY <2>2, <2>3 DEF ReconnectedState, SessionState
  <2>5. RegistryTypeOK'
    BY <1>1, <2>1, <2>4, BindType DEF TypeOK
  <2>6. TokenTypeOK'
    <3>1. UNCHANGED clockVars
      BY <1>4 DEF ReconnectOk
    <3> QED
      BY <1>1, <2>1, <3>1, MintType, RotationKeepsOrAdds DEF Rotate
  <2>7. reply' \in Reply
    BY <1>1, <2>1, <2>3 DEF Reply, Answer, Op, Code, SessionState
  <2> QED
    BY <1>4, <2>5, <2>6, <2>7 DEF TypeOK, TokenTypeOK, ReconnectOk, daemonVars
<1> QED
  BY <1>2, <1>3, <1>4 DEF Reconnect, ReconnectDenied

LEMMA RefreshType ==
    ASSUME TypeOK, NEW w \in Websocket, NEW t \in delivered, Refresh(w, t)
    PROVE  TypeOK'
<1>1. t \in Token /\ t \in Minted /\ claims[t].session \in Session
  BY MintedClaims DEF TypeOK, Minted
<1>2. CASE RefusedInvalid("auth_refresh", t)
  BY <1>1, <1>2, RefusalType DEF Op
<1>3. CASE RefreshExpired(t) \/ RefreshRefused(w, t)
  <2>1. MintsNothing /\ UNCHANGED <<registryVars, clockVars, delivered, daemonVars>>
    BY <1>3, HookShrinks
       DEF RefreshExpired, RefreshRefused, MintsNothing, tokenVars, clockVars, Delete
  <2>2. reply' \in Reply
    BY <1>1, <1>3, AnswerType DEF RefreshExpired, RefreshRefused, Op, Code
  <2> QED
    BY <2>1, <2>2, RegistryUnchangedType, MintsNothingType DEF TypeOK, TokenTypeOK, daemonVars
<1>4. CASE RefreshOk(w, t)
  <2>1. PICK put \in Outcome("put"), del \in Outcome("delete") :
          LET success == put = "ok" /\ del = "ok"
          IN  /\ Rotate(t, put, del)
              /\ heap' = IF success
                         THEN [heap EXCEPT ![byWebsocket[w]].token = NewToken]
                         ELSE heap
              /\ reply' = Answer("auth_refresh", IF success THEN "ok" ELSE "error", t)
    BY <1>4 DEF RefreshOk
  <2>2. CanMint /\ NewToken \in Token
    BY <2>1, NewTokenIsUnminted DEF Rotate
  <2>3. heap' \in [StateId -> SessionState]
    <3>1. byWebsocket[w] \in StateId /\ heap[byWebsocket[w]] \in SessionState
      BY <1>4, HeapTypes DEF RefreshOk, RefreshAllowed, TypeOK
    <3>2. [heap[byWebsocket[w]] EXCEPT !.token = NewToken] \in SessionState
      BY <2>2, <3>1 DEF SessionState
    <3>3. [heap EXCEPT ![byWebsocket[w]].token = NewToken]
            = [heap EXCEPT ![byWebsocket[w]] = [heap[byWebsocket[w]] EXCEPT !.token = NewToken]]
      BY <3>1 DEF TypeOK, RegistryTypeOK
    <3> QED
      BY <2>1, <3>1, <3>2, <3>3 DEF TypeOK, RegistryTypeOK
  <2>4. RegistryTypeOK'
    BY <1>4, <2>3, HeapOnlyType DEF RefreshOk, TypeOK
  <2>5. TokenTypeOK'
    <3>1. UNCHANGED clockVars
      BY <1>4 DEF RefreshOk
    <3> QED
      BY <1>1, <2>1, <3>1, MintType, RotationKeepsOrAdds DEF Rotate
  <2>6. reply' \in Reply
    BY <1>1, <2>1, AnswerType DEF Op, Code
  <2> QED
    BY <1>4, <2>4, <2>5, <2>6 DEF TypeOK, TokenTypeOK, RefreshOk, daemonVars
<1> QED
  BY <1>2, <1>3, <1>4 DEF Refresh

LEMMA RevokeType ==
    ASSUME TypeOK, NEW t \in delivered, Revoke(t)
    PROVE  TypeOK'
<1>1. t \in Token
  BY DEF TypeOK, Minted
<1>2. CASE RefusedInvalid("auth_revoke", t) \/ Denied("auth_revoke", t)
  BY <1>1, <1>2, RefusalType DEF Op
<1>3. CASE ~(RefusedInvalid("auth_revoke", t) \/ Denied("auth_revoke", t))
  <2>1. MintsNothing /\ UNCHANGED <<registryVars, clockVars, delivered, daemonVars>>
    BY <1>3, HookShrinks DEF Revoke, MintsNothing, Delete, clockVars
  <2>2. PICK del \in Outcome("delete") :
          reply' = Answer("auth_revoke", RevokeCode(t, del), t)
    BY <1>3 DEF Revoke
  <2>3. reply' \in Reply
    BY <1>1, <2>2, AnswerType DEF Op, Code, RevokeCode
  <2> QED
    BY <2>1, <2>3, RegistryUnchangedType, MintsNothingType DEF TypeOK, TokenTypeOK, daemonVars
<1> QED
  BY <1>2, <1>3

LEMMA GateType ==
    ASSUME TypeOK, NEW op \in GateOp, NEW w \in Websocket,
           NEW wire \in delivered \cup {None}, Gate(op, w, wire)
    PROVE  TypeOK'
<1>1. wire \in Token \cup {None} /\ op \in Op
  BY GateCodeType DEF TypeOK, Minted
<1>2. MintsNothing /\ UNCHANGED <<clockVars, delivered, daemonVars>>
  BY GateStoreShrinks, HookShrinks
     DEF Gate, GateClaimed, GateBound, GateUnbound, GateBinds, MintsNothing, tokenVars, clockVars
<1>6. CASE GateClaimed(op, w, wire)
  <2>1. reply' \in Reply
    BY <1>1, <1>6 DEF GateClaimed, Answer, Reply, Code
  <2> QED
    BY <1>2, <1>6, <2>1, RegistryUnchangedType, MintsNothingType
       DEF GateClaimed, TypeOK, TokenTypeOK, daemonVars
<1>3. CASE GateBound(op, w, wire)
  <2>1. heap[byWebsocket[w]] \in SessionState
    BY <1>3, HeapTypes DEF GateBound, TypeOK
  <2>2. reply' \in Reply
    BY <1>1, <1>3, <2>1, AnswerType, GateCodeType DEF GateBound, SessionState, Code
  <2> QED
    BY <1>2, <1>3, <2>2, RegistryUnchangedType, MintsNothingType
       DEF GateBound, TypeOK, TokenTypeOK, daemonVars
<1>4. CASE GateUnbound(op, w, wire)
  <2>1. reply' \in Reply
    BY <1>1, <1>4, AnswerType, GateCodeType DEF GateUnbound, Code
  <2> QED
    BY <1>2, <1>4, <2>1, RegistryUnchangedType, MintsNothingType
       DEF GateUnbound, TypeOK, TokenTypeOK, daemonVars
<1>5. CASE GateBinds(op, w, wire)
  <2> DEFINE s == claims[wire].session
  <2>1. wire \in Token /\ wire \in Minted /\ s \in Session
    BY <1>5, MintedClaims DEF GateBinds, TypeOK, Minted
  <2>2. Bind(s, w, [BoundState(s, w) EXCEPT !.token = wire])
    BY <1>5 DEF GateBinds
  <2>3. [BoundState(s, w) EXCEPT !.token = wire] \in SessionState
    BY <2>1, BoundStateType DEF TypeOK, SessionState
  <2>4. RegistryTypeOK'
    BY <2>1, <2>2, <2>3, BindType DEF TypeOK
  <2>5. reply' \in Reply
    BY <1>1, <1>5, AnswerType DEF GateBinds, Code
  <2> QED
    BY <1>2, <2>4, <2>5, MintsNothingType DEF TypeOK, TokenTypeOK, daemonVars
<1> QED
  BY <1>3, <1>4, <1>5, <1>6 DEF Gate

LEMMA RequestedType ==
    ASSUME NEW state \in SessionState
    PROVE  Requested(state) \in SessionState
<1> DEFINE next == state.counter + 1
<1>1. next \in Nat /\ next \in Nat \cup {None}
  BY DEF SessionState
<1>2. ASSUME NEW st \in SessionState, NEW n \in Nat
      PROVE  [st EXCEPT !.counter = n] \in SessionState
  BY DEF SessionState
<1>3. ASSUME NEW st \in SessionState, NEW n \in Nat \cup {None}
      PROVE  [st EXCEPT !.pending = n] \in SessionState
  BY DEF SessionState
<1>4. ASSUME NEW st, NEW n
      PROVE  [st EXCEPT !.counter = n, !.pending = n]
               = [[st EXCEPT !.counter = n] EXCEPT !.pending = n]
  OBVIOUS
<1>5. [[state EXCEPT !.counter = next] EXCEPT !.pending = next] \in SessionState
  BY <1>1, <1>2, <1>3
<1> QED
  BY <1>4, <1>5 DEF Requested

LEMMA PushType ==
    ASSUME TypeOK, NEW s \in Session, Push(s)
    PROVE  TypeOK'
<1>1. bySession[s] \in StateId /\ heap[bySession[s]] \in SessionState
  BY HeapTypes DEF Push, TypeOK
<1>2. Requested(heap[bySession[s]]) \in SessionState
  BY <1>1, RequestedType
<1>3. RegistryTypeOK'
  BY <1>1, <1>2, HeapOnlyType DEF Push, UpdateSession, TypeOK, RegistryTypeOK
<1>4. TokenTypeOK'
  BY MintsNothingType DEF Push, tokenVars, clockVars, MintsNothing
<1> QED
  BY <1>3, <1>4, SilentType DEF Push, TypeOK, TokenTypeOK, daemonVars

LEMMA AcknowledgeType ==
    ASSUME TypeOK, NEW s \in Session, Acknowledge(s)
    PROVE  TypeOK'
<1>1. RegistryTypeOK'
  BY ClearPendingType, HeapOnlyType DEF Acknowledge, TypeOK
<1>2. TokenTypeOK'
  BY MintsNothingType DEF Acknowledge, tokenVars, clockVars, MintsNothing
<1> QED
  BY <1>1, <1>2, SilentType DEF Acknowledge, TypeOK, TokenTypeOK, daemonVars

LEMMA ExpireType ==
    ASSUME TypeOK, NEW t \in Token, Expire(t) \/ Lapse(t)
    PROVE  TypeOK'
BY RegistryUnchangedType, SilentType DEF Expire, Lapse, TypeOK, Minted, daemonVars

LEMMA CollectType == ASSUME TypeOK, CollectTokens PROVE TypeOK'
BY RegistryUnchangedType, SilentType DEF CollectTokens, TypeOK, Minted, daemonVars, clockVars

LEMMA RestartType == ASSUME TypeOK, Restart PROVE TypeOK'
<1>1. RegistryTypeOK'
  BY DEF Restart, RegistryTypeOK, SessionState, Blank
<1> QED
  BY <1>1, SilentType DEF Restart, TypeOK, Minted, clockVars

LEMMA StepType == TypeOK /\ [Next]_vars => TypeOK'
<1> SUFFICES ASSUME TypeOK, [Next]_vars PROVE TypeOK'
  OBVIOUS
<1>1. CASE UNCHANGED vars
  BY <1>1, RegistryUnchangedType DEF vars, tokenVars, clockVars, daemonVars, TypeOK, Minted
<1>2. CASE Next
  BY <1>2, LoginType, ReconnectType, RefreshType, RevokeType, GateType, ExpireType,
     HookRaisesType, PushType, AcknowledgeType, CollectType, RestartType DEF Next
<1> QED
  BY <1>1, <1>2

\* Every state of the service is well typed: in particular the token store,
\* the deliveries and the expiries are of tokens that were minted.
THEOREM TypeCorrect == Spec => []TypeOK
BY InitType, StepType, PTL DEF Spec

---------------------------------------------------------------------------
(***************************************************************************)
(* One record per session.  The invariant is inductive with TypeOK: a      *)
(* login starts a session no minted token has, and a rotation removes the  *)
(* record it replaces or the one it put.                                   *)
(***************************************************************************)
LEMMA StepOneRecord ==
    TypeOK /\ OneRecordPerSession /\ [Next]_vars => OneRecordPerSession'
<1> SUFFICES ASSUME TypeOK, OneRecordPerSession, [Next]_vars, "delete" \notin Faults,
                    NEW t \in store', NEW u \in store',
                    claims'[t].session = claims'[u].session
             PROVE  t = u
  BY DEF OneRecordPerSession
<1>1. \A p, q \in store : claims[p].session = claims[q].session => p = q
  BY DEF OneRecordPerSession
<1>2. \A p \in store : p \in Minted
  BY DEF TypeOK
<1>3. CASE UNCHANGED vars \/ MintsNothing
  BY <1>1, <1>3 DEF vars, tokenVars, clockVars, MintsNothing
<1>4. CASE StartsSession
  <2>1. PICK s \in Session : NewSession(s) /\ Mint(s)
    BY <1>4 DEF StartsSession
  <2>2. claims'[NewToken].session = s /\ \A p \in Minted : claims'[p] = claims[p]
    BY <1>4, <2>1, MintAdds DEF StartsSession
  <2>3. \A p \in store : claims'[p] = claims[p] /\ claims[p].session # s
    BY <1>2, <2>1, <2>2 DEF NewSession
  <2> QED
    BY <1>1, <1>4, <2>2, <2>3 DEF StartsSession
<1>5. CASE RotatesToken
  <2>1. PICK v \in Minted, put \in Outcome("put"), del \in Outcome("delete") :
          /\ HasRecord(v)
          /\ Mint(claims[v].session)
          /\ store' = RotatedStore(v, put, del)
    BY <1>5 DEF RotatesToken
  <2>2. /\ claims'[NewToken].session = claims[v].session
        /\ \A p \in Minted : claims'[p] = claims[p]
    BY <1>5, <2>1, MintedClaims, MintAdds DEF RotatesToken
  <2>3. del = "ok"
    BY <2>1 DEF Outcome
  <2>4. \A p \in store : claims'[p] = claims[p]
    BY <1>2, <2>2
  <2>5. CASE put = "ok"
    <3>1. store' \subseteq (store \cup {NewToken}) \ {v}
      BY <2>1, <2>3, <2>5 DEF RotatedStore, Put, Delete
    <3>2. \A p \in store \ {v} : claims[p].session # claims[v].session
      BY <1>1, <2>1 DEF HasRecord
    <3> QED
      BY <1>1, <2>2, <2>4, <3>1, <3>2
  <2>6. CASE put # "ok"
    <3>1. store' \subseteq store
      BY <2>1, <2>3, <2>6 DEF RotatedStore, Put, Delete
    <3> QED
      BY <1>1, <2>4, <3>1
  <2> QED
    BY <2>5, <2>6
<1> QED
  BY <1>3, <1>4, <1>5, TokenStep

\* While no delete fails the store never holds two records of one session.
THEOREM OneRecord == Spec => []OneRecordPerSession
<1>1. Init => OneRecordPerSession
  BY DEF Init, OneRecordPerSession
<1> QED
  BY <1>1, InitType, StepType, StepOneRecord, PTL DEF Spec

---------------------------------------------------------------------------
(***************************************************************************)
(* A token does not come back.  What can enter the store in a step is the  *)
(* new token only, and a success is reported only once the old is deleted. *)
(***************************************************************************)
LEMMA StepGone ==
    TypeOK /\ [Next]_vars =>
        [/\ \A t \in Minted : t \notin store => t \notin store'
         /\ (reply'.op \in {"reconnect", "auth_refresh", "auth_revoke"} /\ reply'.code = "ok")
              => reply'.token \notin store']_vars
<1> SUFFICES ASSUME TypeOK, Next
             PROVE  /\ \A t \in Minted : t \notin store => t \notin store'
                    /\ (/\ reply'.op \in {"reconnect", "auth_refresh", "auth_revoke"}
                        /\ reply'.code = "ok") => reply'.token \notin store'
  OBVIOUS
<1>1. \A t \in Minted : t \notin store => t \notin store'
  <2>1. CASE MintsNothing
    BY <2>1 DEF MintsNothing
  <2>2. CASE StartsSession
    BY <2>2, NewTokenIsUnminted DEF StartsSession
  <2>3. CASE RotatesToken
    BY <2>3, NewTokenIsUnminted, RotationKeepsOrAdds DEF RotatesToken
  <2> QED
    BY <2>1, <2>2, <2>3, TokenStep
<1>2. ASSUME reply'.op \in {"reconnect", "auth_refresh", "auth_revoke"}, reply'.code = "ok"
      PROVE  reply'.token \notin store'
  <2>1. ASSUME NEW w \in Websocket, Login(w) PROVE FALSE
    BY <1>2, <2>1 DEF Login, Answer
  <2>2. ASSUME NEW op, NEW t, RefusedInvalid(op, t) \/ Denied(op, t)
        PROVE  FALSE
    BY <1>2, <2>2 DEF RefusedInvalid, Denied, Answer
  <2>3. ASSUME NEW t \in delivered, NEW put \in Outcome("put"), NEW del \in Outcome("delete"),
               Rotate(t, put, del), put = "ok", del = "ok"
        PROVE  t \notin store'
    <3>1. store' = (store \cup {NewToken}) \ {t}
      BY <2>3 DEF Rotate, RotatedStore, Put, Delete
    <3> QED
      BY <3>1
  <2>4. ASSUME NEW w \in Websocket, NEW t \in delivered, Reconnect(w, t)
        PROVE  reply'.token \notin store'
    <3>1. CASE ReconnectExpired(w, t) \/ ReconnectRevoked(w, t)
      BY <1>2, <3>1 DEF ReconnectExpired, ReconnectRevoked, Answer
    <3>2. CASE ReconnectOk(w, t)
      BY <1>2, <2>3, <3>2 DEF ReconnectOk, Answer
    <3> QED
      BY <2>2, <2>4, <3>1, <3>2 DEF Reconnect, ReconnectDenied
  <2>5. ASSUME NEW w \in Websocket, NEW t \in delivered, Refresh(w, t)
        PROVE  reply'.token \notin store'
    <3>1. CASE RefreshExpired(t) \/ RefreshRefused(w, t)
      BY <1>2, <3>1 DEF RefreshExpired, RefreshRefused, Answer
    <3>2. CASE RefreshOk(w, t)
      BY <1>2, <2>3, <3>2 DEF RefreshOk, Answer
    <3> QED
      BY <2>2, <2>5, <3>1, <3>2 DEF Refresh
  <2>6. ASSUME NEW t \in delivered, Revoke(t)
        PROVE  reply'.token \notin store'
    <3>1. PICK del \in Outcome("delete") : /\ store' = Delete(AfterHook(t), t, del)
                                           /\ reply' = Answer("auth_revoke", RevokeCode(t, del), t)
      BY <2>2, <2>6 DEF Revoke
    <3>2. del = "ok" /\ reply'.token = t
      BY <1>2, <3>1 DEF RevokeCode, Answer
    <3> QED
      BY <3>1, <3>2 DEF Delete
  <2>7. ASSUME NEW op \in GateOp, NEW w \in Websocket, NEW t, Gate(op, w, t) PROVE FALSE
    BY <1>2, <2>7 DEF Gate, GateClaimed, GateBound, GateUnbound, GateBinds, Answer, GateOp
  <2>9. ASSUME NEW op, NEW t, HookRaises(op, t) PROVE FALSE
    BY <1>2, <2>9 DEF HookRaises, Answer
  <2>8. ASSUME CollectTokens \/ Restart \/ (\E t \in Token : Expire(t) \/ Lapse(t))
               \/ (\E s \in Session : Push(s) \/ Acknowledge(s))
        PROVE  FALSE
    BY <1>2, <2>8 DEF CollectTokens, Restart, Expire, Lapse, Push, Acknowledge, Silent, Answer
  <2> QED
    BY <2>1, <2>4, <2>5, <2>6, <2>7, <2>8, <2>9 DEF Next
<1> QED
  BY <1>1, <1>2

\* A token that was rotated out or revoked is never accepted again.
THEOREM Gone == Spec => GoneForGood
BY InitType, StepType, StepGone, PTL DEF Spec, GoneForGood

---------------------------------------------------------------------------
(***************************************************************************)
(* Home sockets: inductive with TypeOK.  The steps that call bind() are    *)
(* covered by BindHomeSocket, the others leave the objects' identity.      *)
(***************************************************************************)
LEMMA SameHomes ==
    ASSUME RegistryTypeOK, HomeSocket, UNCHANGED <<bySession, byWebsocket>>,
           \A i \in StateId : /\ heap'[i].session = heap[i].session
                              /\ heap'[i].websocket = heap[i].websocket
    PROVE  HomeSocket'
BY DEF RegistryTypeOK, HomeSocket, Registered

\* The fields a caller of bind() starts from name the session and the socket.
LEMMA BoundStateHome ==
    ASSUME RegistryTypeOK, HomeSocket, NEW s \in Session, NEW w \in Websocket
    PROVE  /\ BoundState(s, w) \in SessionState
           /\ BoundState(s, w).session = s
           /\ BoundState(s, w).websocket = w
BY BoundStateType DEF HomeSocket

LEMMA StepHomeSocket == TypeOK /\ HomeSocket /\ [Next]_vars => HomeSocket'
<1> SUFFICES ASSUME TypeOK, HomeSocket, [Next]_vars PROVE HomeSocket'
  OBVIOUS
<1> USE RegistryAssumption
<1>1. RegistryTypeOK
  BY DEF TypeOK
<1>2. ASSUME UNCHANGED registryVars PROVE HomeSocket'
  BY <1>2 DEF registryVars, HomeSocket, Registered
<1>3. ASSUME NEW s \in Session, heap' = ClearPending(heap, s), UNCHANGED <<bySession, byWebsocket>>
      PROVE  HomeSocket'
  <2>1. \A i \in StateId : /\ heap'[i].session = heap[i].session
                           /\ heap'[i].websocket = heap[i].websocket
    BY <1>1, <1>3, HeapTypes DEF ClearPending, RegistryTypeOK, SessionState
  <2> QED
    BY <1>1, <1>3, <2>1, SameHomes
<1>4. ASSUME NEW w \in Websocket, Login(w) PROVE HomeSocket'
  <2>1. PICK s \in Session, put \in Outcome("put") :
          Bind(s, w, [BoundState(s, w) EXCEPT !.token = SnapshotAfterLogin(put)])
    BY <1>4 DEF Login
  <2> DEFINE state == [BoundState(s, w) EXCEPT !.token = SnapshotAfterLogin(put)]
  <2>2. state \in SessionState /\ state.session = s /\ state.websocket = w
    <3>1. NewToken \in Token
      BY <1>4, NewTokenIsUnminted DEF Login
    <3> QED
      BY <1>1, <3>1, BoundStateHome DEF SessionState, SnapshotAfterLogin
  <2> QED
    BY <1>1, <2>1, <2>2, BindHomeSocket
<1>5. ASSUME NEW w \in Websocket, NEW t \in delivered, Reconnect(w, t) PROVE HomeSocket'
  <2> DEFINE s == claims[t].session
  <2>1. s \in Session
    BY MintedClaims DEF TypeOK
  <2>2. CASE ReconnectOk(w, t)
    <3>1. PICK success \in BOOLEAN : Bind(s, w, ReconnectedState(s, w, success)) /\ CanMint
      BY <2>2 DEF ReconnectOk, Rotate
    <3>2. NewToken \in Token
      BY <3>1, NewTokenIsUnminted
    <3> DEFINE state == ReconnectedState(s, w, success)
    <3>3. state \in SessionState /\ state.session = s /\ state.websocket = w
      <4>1. /\ BoundState(s, w) \in SessionState
            /\ BoundState(s, w).session = s
            /\ BoundState(s, w).websocket = w
        BY <1>1, <2>1, BoundStateHome
      <4>2. CASE success
        BY <3>2, <4>1, <4>2 DEF ReconnectedState, SessionState
      <4>3. CASE ~success
        BY <4>1, <4>3 DEF ReconnectedState
      <4> QED
        BY <4>2, <4>3
    <3> QED
      BY <1>1, <2>1, <3>1, <3>3, BindHomeSocket
  <2>3. CASE ReconnectExpired(w, t) \/ ReconnectRevoked(w, t)
    BY <1>3, <2>1, <2>3 DEF ReconnectExpired, ReconnectRevoked
  <2>4. CASE \/ RefusedInvalid("reconnect", t)
             \/ Denied("reconnect", t)
    BY <1>2, <2>4 DEF RefusedInvalid, Denied
  <2> QED
    BY <1>5, <2>2, <2>3, <2>4 DEF Reconnect, ReconnectDenied
<1>6. ASSUME NEW w \in Websocket, NEW t \in delivered, Refresh(w, t) PROVE HomeSocket'
  <2>1. CASE RefreshOk(w, t)
    <3>1. heap' = heap \/ heap' = [heap EXCEPT ![byWebsocket[w]].token = NewToken]
      BY <2>1 DEF RefreshOk
    <3>2. byWebsocket[w] \in StateId /\ heap[byWebsocket[w]] \in SessionState
      BY <1>1, <2>1, HeapTypes DEF RefreshOk, RefreshAllowed
    <3>3. \A i \in StateId : /\ heap'[i].session = heap[i].session
                             /\ heap'[i].websocket = heap[i].websocket
      BY <1>1, <3>1, <3>2 DEF RegistryTypeOK, SessionState
    <3> QED
      BY <1>1, <2>1, <3>3, SameHomes DEF RefreshOk
  <2>2. CASE ~RefreshOk(w, t)
    BY <1>2, <1>6, <2>2
       DEF Refresh, RefusedInvalid, RefreshExpired, RefreshRefused
  <2> QED
    BY <2>1, <2>2
<1>7. ASSUME NEW t \in delivered, Revoke(t) PROVE HomeSocket'
  BY <1>2, <1>7 DEF Revoke, Denied, RefusedInvalid
<1>8. ASSUME NEW op \in GateOp, NEW w \in Websocket, NEW wire \in delivered \cup {None},
             Gate(op, w, wire)
      PROVE  HomeSocket'
  <2>1. CASE GateBinds(op, w, wire)
    <3> DEFINE s == claims[wire].session
    <3>1. wire \in Token /\ s \in Session
      BY <2>1, MintedClaims DEF GateBinds, TypeOK, Minted
    <3> DEFINE state == [BoundState(s, w) EXCEPT !.token = wire]
    <3>2. state \in SessionState /\ state.session = s /\ state.websocket = w
      BY <1>1, <3>1, BoundStateHome DEF SessionState
    <3>3. Bind(s, w, state)
      BY <2>1 DEF GateBinds
    <3> QED
      BY <1>1, <3>1, <3>2, <3>3, BindHomeSocket
  <2>2. CASE GateClaimed(op, w, wire) \/ GateBound(op, w, wire) \/ GateUnbound(op, w, wire)
    BY <1>2, <2>2 DEF GateClaimed, GateBound, GateUnbound
  <2> QED
    BY <1>8, <2>1, <2>2 DEF Gate
<1>9. ASSUME NEW s \in Session, Push(s) PROVE HomeSocket'
  <2>1. bySession[s] \in StateId /\ heap[bySession[s]] \in SessionState
    BY <1>1, <1>9, HeapTypes DEF Push
  <2>2. \A i \in StateId : /\ heap'[i].session = heap[i].session
                           /\ heap'[i].websocket = heap[i].websocket
    BY <1>1, <1>9, <2>1 DEF Push, UpdateSession, Requested, RegistryTypeOK, SessionState
  <2> QED
    BY <1>1, <1>9, <2>2, SameHomes DEF Push, UpdateSession
<1>10. ASSUME NEW s \in Session, Acknowledge(s) PROVE HomeSocket'
  BY <1>3, <1>10 DEF Acknowledge
<1>11. CASE UNCHANGED vars \/ CollectTokens \/ \E t \in Token : Expire(t) \/ Lapse(t)
  BY <1>2, <1>11 DEF vars, CollectTokens, Expire, Lapse
<1>12. CASE Restart
  BY <1>12 DEF Restart, HomeSocket, Registered
<1>13. ASSUME NEW op, NEW t, HookRaises(op, t) PROVE HomeSocket'
  BY <1>2, <1>13 DEF HookRaises
<1> QED
  BY <1>4, <1>5, <1>6, <1>7, <1>8, <1>9, <1>10, <1>11, <1>12, <1>13 DEF Next

\* A registered session is always reachable through the socket it names.
THEOREM HomeSocketCorrect == Spec => []HomeSocket
<1>1. Init => HomeSocket
  BY DEF Init, RegistryInit, HomeSocket, Registered
<1> QED
  BY <1>1, InitType, StepType, StepHomeSocket, PTL DEF Spec
---------------------------------------------------------------------------
(***************************************************************************)
(* What replies say.  These invariants speak of the last reply only, so    *)
(* that a step establishes them from TypeOK; ReplyOf names the handler a   *)
(* reply comes from.                                                       *)
(***************************************************************************)
OtherReply == reply'.op \in {"none", "auth", "auth_revoke"}

LEMMA ReconnectReply ==
    ASSUME NEW w, NEW t, ReconnectOk(w, t)
    PROVE  reply'.op = "reconnect" /\ reply'.token = t /\ reply'.code \in {"ok", "error"}
<1> DEFINE Answered(put, del) == IF put = "ok" /\ del = "ok" THEN "ok" ELSE "error"
           Again(put, del)    == IF put = "ok" /\ del = "ok"
                               THEN BoundState(claims[t].session, w).pending ELSE None
<1>1. PICK put, del : reply' = [Answer("reconnect", Answered(put, del), t) EXCEPT
                                !.replayed = Again(put, del)]
  BY DEF ReconnectOk
<1> HIDE DEF Again
<1> QED
  BY <1>1 DEF Answer

LEMMA ReplyOf ==
    ASSUME TypeOK, Next
    PROVE  \/ OtherReply
           \/ \E w \in Websocket, t \in delivered : Reconnect(w, t) /\ reply'.op = "reconnect"
           \/ \E w \in Websocket, t \in delivered : Refresh(w, t) /\ reply'.op = "auth_refresh"
           \/ \E op \in GateOp, w \in Websocket, t \in delivered \cup {None} :
                Gate(op, w, t) /\ reply'.op = op
           \/ \E op \in Op, t \in delivered : HookRaises(op, t) /\ reply'.code = "error"
<1>1. ASSUME NEW op, NEW t, RefusedInvalid(op, t) \/ Denied(op, t)
      PROVE  reply'.op = op
  BY <1>1 DEF RefusedInvalid, Denied, Answer
<1>2. ASSUME NEW w \in Websocket, NEW t \in delivered, Reconnect(w, t)
      PROVE  reply'.op = "reconnect"
  BY <1>1, <1>2, ReconnectReply
     DEF Reconnect, ReconnectDenied, ReconnectExpired, ReconnectRevoked, Answer
<1>3. ASSUME NEW w \in Websocket, NEW t \in delivered, Refresh(w, t)
      PROVE  reply'.op = "auth_refresh"
  BY <1>1, <1>3 DEF Refresh, RefreshExpired, RefreshRefused, RefreshOk, Answer
<1>4. ASSUME NEW op \in GateOp, NEW w \in Websocket, NEW t, Gate(op, w, t)
      PROVE  reply'.op = op
  BY <1>4 DEF Gate, GateClaimed, GateBound, GateUnbound, GateBinds, Answer
<1>5. ASSUME NEW t \in delivered, Revoke(t)
      PROVE  OtherReply
  BY <1>1, <1>5 DEF Revoke, Answer, OtherReply
<1>6. ASSUME CollectTokens \/ Restart \/ (\E t \in Token : Expire(t) \/ Lapse(t))
             \/ (\E s \in Session : Push(s) \/ Acknowledge(s))
      PROVE  OtherReply
  BY <1>6
     DEF CollectTokens, Restart, Expire, Lapse, Push, Acknowledge, Silent, Answer, OtherReply
<1>7. ASSUME NEW w \in Websocket, Login(w)
      PROVE  OtherReply
  BY <1>7 DEF Login, Answer, OtherReply
<1>8. ASSUME NEW op, NEW t, HookRaises(op, t)
      PROVE  reply'.code = "error"
  BY <1>8 DEF HookRaises, Answer
<1> QED
  BY <1>2, <1>3, <1>4, <1>5, <1>6, <1>7, <1>8 DEF Next

LEMMA StepFailureKeeps ==
    TypeOK /\ FailureKeepsToken /\ [Next]_vars => FailureKeepsToken'
<1> SUFFICES ASSUME TypeOK, FailureKeepsToken, [Next]_vars, "delete" \notin Faults,
                    reply'.op \in {"reconnect", "auth_refresh"}, reply'.code = "error"
             PROVE  reply'.token \in store'
  BY DEF FailureKeepsToken
<1>1. CASE UNCHANGED vars
  BY <1>1 DEF vars, tokenVars, clockVars, FailureKeepsToken
<1>2. Outcome("delete") = {"ok"}
  BY DEF Outcome
<1>3. ASSUME NEW t \in delivered, NEW put, Rotate(t, put, "ok"), HasRecord(t), put # "ok"
      PROVE  t \in store'
  <2>1. t \in store /\ t # NewToken
    BY <1>3, NewTokenIsUnminted DEF Rotate, HasRecord, TypeOK
  <2> QED
    BY <1>3, <2>1 DEF Rotate, RotatedStore, Put, Delete
<1>4. ASSUME NEW op, NEW t, RefusedInvalid(op, t) \/ Denied(op, t)
      PROVE  FALSE
  BY <1>2, <1>4 DEF RefusedInvalid, Denied, Answer
<1>5. ASSUME NEW w \in Websocket, NEW t \in delivered, Reconnect(w, t)
      PROVE  reply'.token \in store'
  <2>1. CASE ReconnectExpired(w, t) \/ ReconnectRevoked(w, t)
    BY <2>1 DEF ReconnectExpired, ReconnectRevoked, Answer
  <2>2. CASE ReconnectOk(w, t)
    <3>1. PICK put \in Outcome("put"), del \in Outcome("delete") :
            /\ Rotate(t, put, del)
            /\ reply' = [Answer("reconnect", IF put = "ok" /\ del = "ok" THEN "ok" ELSE "error", t)
                         EXCEPT !.replayed = IF put = "ok" /\ del = "ok"
                                             THEN BoundState(claims[t].session, w).pending
                                             ELSE None]
      BY <2>2 DEF ReconnectOk
    <3>2. del = "ok" /\ put # "ok"
      BY <1>2, <3>1 DEF Answer
    <3> QED
      BY <1>3, <2>2, <3>1, <3>2, ReconnectReply DEF ReconnectOk, Acceptable
  <2> QED
    BY <1>4, <1>5, <2>1, <2>2 DEF Reconnect, ReconnectDenied
<1>6. ASSUME NEW w \in Websocket, NEW t \in delivered, Refresh(w, t)
      PROVE  reply'.token \in store'
  <2>1. CASE RefreshExpired(t) \/ RefreshRefused(w, t)
    BY <2>1 DEF RefreshExpired, RefreshRefused, Answer
  <2>2. CASE RefreshOk(w, t)
    BY <1>2, <1>3, <2>2 DEF RefreshOk, Acceptable, Answer
  <2> QED
    BY <1>4, <1>6, <2>1, <2>2 DEF Refresh
<1>7. ASSUME NEW op, NEW t, HookRaises(op, t)
      PROVE  FALSE
  BY <1>2, <1>7 DEF HookRaises
<1>8. CASE Next
  BY <1>5, <1>6, <1>7, <1>8, ReplyOf DEF OtherReply, GateOp
<1> QED
  BY <1>1, <1>8

\* A client whose reconnect or refresh failed on the put of the new record can
\* try again with the token it has: the rollback removes the new record and
\* leaves the old one (_handle_reconnect, _handle_auth_refresh).
THEOREM FailuresKeepTokens == Spec => []FailureKeepsToken
<1>1. Init => FailureKeepsToken
  BY DEF Init, FailureKeepsToken, Silent, Answer
<1> QED
  BY <1>1, InitType, StepType, StepFailureKeeps, PTL DEF Spec

LEMMA StepExpiredSays ==
    TypeOK /\ [Next]_vars =>
        [(reply'.op \in {"reconnect", "auth_refresh", "message"} /\ reply'.code = "token_revoked")
            => reply'.token \notin expired]_vars
<1> SUFFICES ASSUME TypeOK, Next,
                    reply'.op \in {"reconnect", "auth_refresh", "message"},
                    reply'.code = "token_revoked"
             PROVE  reply'.token \notin expired
  OBVIOUS
<1>1. ASSUME NEW op, NEW t, RefusedInvalid(op, t) \/ Denied(op, t)
      PROVE  FALSE
  BY <1>1 DEF RefusedInvalid, Denied, Answer
<1>2. ASSUME NEW w \in Websocket, NEW t \in delivered, Reconnect(w, t)
      PROVE  reply'.token \notin expired
  <2>1. ReconnectRevoked(w, t)
    BY <1>1, <1>2, ReconnectReply DEF Reconnect, ReconnectDenied, ReconnectExpired, Answer
  <2> QED
    BY <2>1 DEF ReconnectRevoked, Answer
<1>3. ASSUME NEW w \in Websocket, NEW t \in delivered, Refresh(w, t)
      PROVE  reply'.token \notin expired
  <2>1. RefreshRefused(w, t)
    BY <1>1, <1>3 DEF Refresh, RefreshExpired, RefreshOk, Answer
  <2> QED
    BY <2>1 DEF RefreshRefused, Answer
<1>4. ASSUME NEW w \in Websocket, NEW wire \in delivered \cup {None}, Gate("message", w, wire)
      PROVE  reply'.token \notin expired
  <2>1. ASSUME NEW t, WireVerdict("message", t) \in {"token_revoked", "bed_instance_mismatch"},
               t \in expired
        PROVE  FALSE
    <3>1. Verdict("message", t) \in {"token_revoked", "bed_instance_mismatch"}
      BY <2>1 DEF WireVerdict
    <3>2. Verdict("message", t) = MessageVerdict(t)
      BY DEF Verdict
    <3>3. Decodes(t)
      BY <3>1, <3>2 DEF MessageVerdict, BankVerdict
    <3> QED
      BY <2>1, <3>1, <3>2, <3>3 DEF MessageVerdict
  <2>2. ASSUME NEW t, NEW del, SessionCode("message", t, del) = "token_revoked"
        PROVE  t \notin expired
    BY <2>1, <2>2 DEF SessionCode, WireVerdict
  <2>3. CASE GateClaimed("message", w, wire) \/ GateBinds("message", w, wire)
    BY <2>3 DEF GateClaimed, GateBinds, Answer
  <2>4. CASE GateBound("message", w, wire)
    BY <2>1, <2>2, <2>4 DEF GateBound, Answer
  <2>5. CASE GateUnbound("message", w, wire)
    BY <2>1, <2>5 DEF GateUnbound, Answer
  <2> QED
    BY <1>4, <2>3, <2>4, <2>5 DEF Gate
<1> QED
  BY <1>2, <1>3, <1>4, ReplyOf DEF OtherReply, GateOp

\* reconnect, auth_refresh and the message service look at the claims before the
\* store: none of them calls a token revoked that it would have found expired,
\* whatever the collector, the store's own clock and the hook did to its record
\* before (_handle_reconnect, _handle_auth_refresh).
THEOREM ExpiredTokensSayExpired == Spec => ExpiredSaysExpired
BY InitType, StepType, StepExpiredSays, PTL DEF Spec, ExpiredSaysExpired
---------------------------------------------------------------------------
(***************************************************************************)
(* The token a session object remembers.  The claims of a token that was   *)
(* not minted yet can still change, so the invariant needs that remembered *)
(* tokens are minted; and bind() finds the object of the session it is     *)
(* about, which is HomeSocket.                                             *)
(***************************************************************************)
Held == Referenced(bySession, byWebsocket)

OwnToken(state) ==
    state.token # None =>
        state.token \in Minted /\ claims[state.token].session = state.session

HeldOwnTokens == \A i \in Held : OwnToken(heap[i])

\* The same of a state an object is left in, with the tokens after the step.
OwnTokenAfter(state) ==
    state.token # None =>
        state.token \in Minted' /\ claims'[state.token].session = state.session

\* A step that mints nothing, or a new token only, changes no minted token's claims.
ClaimsKept == \A t \in Minted : t \in Minted' /\ claims'[t] = claims[t]

LEMMA StepClaimsKept == ASSUME TypeOK, [Next]_vars PROVE ClaimsKept
<1>1. CASE UNCHANGED vars \/ MintsNothing
  BY <1>1 DEF vars, tokenVars, clockVars, MintsNothing, Minted, ClaimsKept
<1>2. CASE StartsSession
  BY <1>2, MintAdds DEF StartsSession, ClaimsKept
<1>3. CASE RotatesToken
  BY <1>3, MintAdds, MintedClaims DEF RotatesToken, ClaimsKept
<1> QED
  BY <1>1, <1>2, <1>3, TokenStep

LEMMA OwnTokenKept ==
    ASSUME ClaimsKept, NEW state, OwnToken(state)
    PROVE  OwnTokenAfter(state)
BY DEF ClaimsKept, OwnToken, OwnTokenAfter

\* The state bind() starts from has a token of its own or none.
LEMMA BoundStateOwn ==
    ASSUME TypeOK, HomeSocket, HeldOwnTokens, NEW s \in Session, NEW w \in Websocket
    PROVE  OwnToken(BoundState(s, w))
<1>1. CASE Registered(s)
  <2>1. bySession[s] \in Held /\ heap[bySession[s]] \in SessionState
    BY <1>1, HeapTypes, RegisteredIsReferenced DEF Held, Registered, TypeOK, RegistryTypeOK
  <2>2. BoundState(s, w) = [heap[bySession[s]] EXCEPT !.websocket = w]
    BY <1>1 DEF BoundState
  <2>3. /\ BoundState(s, w).token = heap[bySession[s]].token
        /\ BoundState(s, w).session = heap[bySession[s]].session
    BY <2>1, <2>2 DEF SessionState
  <2> QED
    BY <2>1, <2>3 DEF HeldOwnTokens, OwnToken
<1>2. CASE ~Registered(s)
  BY <1>2 DEF BoundState, Blank, OwnToken
<1> QED
  BY <1>1, <1>2

\* bind() leaves the objects of other sessions alone.
LEMMA BindOwnTokens ==
    ASSUME TypeOK, HeldOwnTokens, ClaimsKept, NEW s \in Session, NEW w \in Websocket,
           NEW state \in SessionState, Bind(s, w, state), OwnTokenAfter(state)
    PROVE  HeldOwnTokens'
<1> SUFFICES ASSUME NEW i \in Held' PROVE OwnToken(heap[i])'
  BY DEF HeldOwnTokens
<1>1. \/ heap'[i] = state
      \/ i \in Held /\ heap'[i] = heap[i]
  BY BindHeld, RegistryAssumption DEF TypeOK, Held
<1>2. CASE heap'[i] = state
  BY <1>2 DEF OwnToken, OwnTokenAfter
<1>3. CASE i \in Held /\ heap'[i] = heap[i]
  BY <1>3 DEF HeldOwnTokens, OwnToken, ClaimsKept
<1> QED
  BY <1>1, <1>2, <1>3

\* Writes to other fields of the objects.
LEMMA SameOwnTokens ==
    ASSUME TypeOK, HeldOwnTokens, ClaimsKept, UNCHANGED <<bySession, byWebsocket>>,
           \A i \in StateId : heap'[i].token = heap[i].token /\ heap'[i].session = heap[i].session
    PROVE  HeldOwnTokens'
<1>1. Held' = Held /\ Held \subseteq StateId
  BY HeldAreStates DEF Held, TypeOK
<1> QED
  BY <1>1 DEF HeldOwnTokens, OwnToken, ClaimsKept
\* What one step does to the tokens in the objects: nothing; bind() leaves one
\* object with a token of its session, and without faults never none; a refresh
\* replaces the token of a bound object; a restart drops all objects.
NoTokenWritten ==
    /\ UNCHANGED <<bySession, byWebsocket>>
    /\ \A i \in StateId : heap'[i].token = heap[i].token /\ heap'[i].session = heap[i].session

BindsOwn ==
    \E s \in Session, w \in Websocket, state \in SessionState :
        /\ Bind(s, w, state)
        /\ OwnTokenAfter(state)
        /\ Faults = {} => state.token # None

Refreshes ==
    \E i \in Held :
        /\ heap' = [heap EXCEPT ![i].token = NewToken]
        /\ NewToken \in Minted'
        /\ claims'[NewToken].session = heap[i].session
        /\ UNCHANGED <<bySession, byWebsocket>>

DropsObjects == Held' = {}

LEMMA ClearedTokens ==
    ASSUME RegistryTypeOK, NEW s \in Session, heap' = ClearPending(heap, s),
           UNCHANGED <<bySession, byWebsocket>>
    PROVE  NoTokenWritten
BY HeapTypes DEF ClearPending, RegistryTypeOK, SessionState, NoTokenWritten

LEMMA LoginObjects ==
    ASSUME TypeOK, HomeSocket, ClaimsKept, NEW w \in Websocket, Login(w)
    PROVE  BindsOwn
<1>1. PICK s \in Session, put \in Outcome("put") :
        /\ Bind(s, w, [BoundState(s, w) EXCEPT !.token = SnapshotAfterLogin(put)])
        /\ Mint(s)
  BY DEF Login
<1>2. NewToken \in Token /\ NewToken \in Minted' /\ claims'[NewToken].session = s
  BY <1>1, MintAdds, NewTokenIsUnminted DEF Login
<1> DEFINE state == [BoundState(s, w) EXCEPT !.token = SnapshotAfterLogin(put)]
<1>3. BoundState(s, w) \in SessionState /\ BoundState(s, w).session = s
  BY BoundStateHome DEF TypeOK
<1>4. SnapshotAfterLogin(put) \in {NewToken, None} /\ (Faults = {} => SnapshotAfterLogin(put) = NewToken)
  BY DEF SnapshotAfterLogin, Outcome
<1>5. /\ state \in SessionState /\ state.session = s
      /\ state.token = SnapshotAfterLogin(put)
  BY <1>2, <1>3, <1>4 DEF SessionState
<1>6. OwnTokenAfter(state) /\ (Faults = {} => state.token # None)
  <2> HIDE DEF state
  <2> QED
    BY <1>2, <1>4, <1>5, RegistryAssumption DEF OwnTokenAfter
<1>7. Bind(s, w, state)
  BY <1>1
<1> HIDE DEF state
<1> QED
  BY <1>5, <1>6, <1>7 DEF BindsOwn

LEMMA ReconnectObjects ==
    ASSUME TypeOK, HomeSocket, HeldOwnTokens, ClaimsKept,
           NEW w \in Websocket, NEW t \in delivered, ReconnectOk(w, t)
    PROVE  BindsOwn
<1> DEFINE s == claims[t].session
<1>1. t \in Minted /\ s \in Session
  BY MintedClaims DEF TypeOK
<1>2. PICK put \in Outcome("put"), del \in Outcome("delete") :
        /\ Rotate(t, put, del)
        /\ Bind(s, w, ReconnectedState(s, w, put = "ok" /\ del = "ok"))
  BY DEF ReconnectOk
<1>3. NewToken \in Token /\ NewToken \in Minted' /\ claims'[NewToken].session = s
  BY <1>1, <1>2, MintAdds, NewTokenIsUnminted DEF Rotate
<1>4. /\ BoundState(s, w) \in SessionState /\ BoundState(s, w).session = s
      /\ OwnTokenAfter(BoundState(s, w))
  BY <1>1, BoundStateHome, BoundStateOwn, OwnTokenKept DEF TypeOK
<1> HIDE DEF s
<1>5. CASE put = "ok" /\ del = "ok"
  <2> DEFINE state == [BoundState(s, w) EXCEPT !.token = NewToken, !.pending = None]
  <2>1. state \in SessionState /\ state.session = s /\ state.token = NewToken
    BY <1>3, <1>4 DEF SessionState
  <2>2. Bind(s, w, state)
    BY <1>2, <1>5 DEF ReconnectedState
  <2> HIDE DEF state
  <2>3. OwnTokenAfter(state) /\ state.token # None
    BY <1>3, <2>1, RegistryAssumption DEF OwnTokenAfter
  <2> QED
    BY <1>1, <2>1, <2>2, <2>3 DEF BindsOwn, s
<1>6. CASE ~(put = "ok" /\ del = "ok")
  <2>1. Faults # {} /\ Bind(s, w, BoundState(s, w))
    BY <1>2, <1>6 DEF ReconnectedState, Outcome
  <2> QED
    BY <1>1, <1>4, <2>1 DEF BindsOwn, s
<1> QED
  BY <1>5, <1>6

LEMMA GateObjects ==
    ASSUME TypeOK, HomeSocket, ClaimsKept, NEW op \in GateOp, NEW w \in Websocket,
           NEW wire \in delivered \cup {None}, GateBinds(op, w, wire)
    PROVE  BindsOwn
<1> DEFINE s == claims[wire].session
           state == [BoundState(s, w) EXCEPT !.token = wire]
<1>1. wire \in Token /\ wire \in Minted /\ s \in Session /\ wire # None
  BY MintedClaims DEF GateBinds, TypeOK, Minted
<1>2. Bind(s, w, state)
  BY DEF GateBinds
<1>3. BoundState(s, w) \in SessionState /\ BoundState(s, w).session = s
  BY <1>1, BoundStateHome DEF TypeOK
<1>4. state \in SessionState /\ state.session = s /\ state.token = wire
  BY <1>1, <1>3 DEF SessionState
<1>5. wire \in Minted' /\ claims'[wire].session = s
  BY <1>1 DEF ClaimsKept
<1> HIDE DEF state
<1>6. OwnTokenAfter(state)
  BY <1>4, <1>5 DEF OwnTokenAfter
<1> QED
  BY <1>1, <1>2, <1>4, <1>6 DEF BindsOwn

LEMMA RefreshObjects ==
    ASSUME TypeOK, NEW w \in Websocket, NEW t \in delivered, RefreshOk(w, t)
    PROVE  NoTokenWritten \/ Refreshes
<1>1. t \in Minted /\ claims[t].session \in Session
  BY MintedClaims DEF TypeOK
<1>2. PICK put \in Outcome("put"), del \in Outcome("delete") :
        /\ Rotate(t, put, del)
        /\ heap' = IF put = "ok" /\ del = "ok"
                   THEN [heap EXCEPT ![byWebsocket[w]].token = NewToken]
                   ELSE heap
  BY DEF RefreshOk
<1>3. NewToken \in Minted' /\ claims'[NewToken].session = claims[t].session
  BY <1>1, <1>2, MintAdds DEF Rotate
<1>4. byWebsocket[w] \in Held /\ heap[byWebsocket[w]].session = claims[t].session
  BY DEF RefreshOk, RefreshAllowed, Held, Referenced, Range, TypeOK, RegistryTypeOK
<1>5. UNCHANGED <<bySession, byWebsocket>>
  BY DEF RefreshOk
<1> QED
  BY <1>2, <1>3, <1>4, <1>5 DEF NoTokenWritten, Refreshes

LEMMA ObjectStep ==
    ASSUME TypeOK, HomeSocket, HeldOwnTokens, [Next]_vars
    PROVE  NoTokenWritten \/ BindsOwn \/ Refreshes \/ DropsObjects
<1>0. ClaimsKept
  BY StepClaimsKept
<1>1. ASSUME UNCHANGED registryVars PROVE NoTokenWritten
  BY <1>1 DEF registryVars, NoTokenWritten
<1>2. ASSUME NEW op, NEW t, RefusedInvalid(op, t) \/ Denied(op, t)
      PROVE  NoTokenWritten
  BY <1>1, <1>2 DEF RefusedInvalid, Denied
<1>3. ASSUME NEW w \in Websocket, NEW t \in delivered, Reconnect(w, t)
      PROVE  NoTokenWritten \/ BindsOwn
  <2>1. CASE ReconnectExpired(w, t) \/ ReconnectRevoked(w, t)
    BY <2>1, MintedClaims, ClearedTokens DEF ReconnectExpired, ReconnectRevoked, TypeOK
  <2> QED
    BY <1>0, <1>2, <1>3, <2>1, ReconnectObjects DEF Reconnect, ReconnectDenied
<1>4. ASSUME NEW w \in Websocket, NEW t \in delivered, Refresh(w, t)
      PROVE  NoTokenWritten \/ Refreshes
  <2>1. CASE RefreshExpired(t) \/ RefreshRefused(w, t)
    BY <1>1, <2>1 DEF RefreshExpired, RefreshRefused
  <2> QED
    BY <1>2, <1>4, <2>1, RefreshObjects DEF Refresh
<1>5. ASSUME NEW t \in delivered, Revoke(t)
      PROVE  NoTokenWritten
  BY <1>1, <1>2, <1>5 DEF Revoke
<1>6. ASSUME NEW op \in GateOp, NEW w \in Websocket, NEW wire \in delivered \cup {None},
             Gate(op, w, wire)
      PROVE  NoTokenWritten \/ BindsOwn
  <2>1. CASE GateClaimed(op, w, wire) \/ GateBound(op, w, wire) \/ GateUnbound(op, w, wire)
    BY <1>1, <2>1 DEF GateClaimed, GateBound, GateUnbound
  <2> QED
    BY <1>0, <1>6, <2>1, GateObjects DEF Gate
<1>7. ASSUME NEW s \in Session, Push(s)
      PROVE  NoTokenWritten
  BY <1>7, HeapTypes
     DEF Push, UpdateSession, Requested, TypeOK, RegistryTypeOK, SessionState, NoTokenWritten
<1>8. ASSUME NEW s \in Session, Acknowledge(s)
      PROVE  NoTokenWritten
  BY <1>8, ClearedTokens DEF Acknowledge, TypeOK
<1>9. CASE Restart
  BY <1>9 DEF Restart, DropsObjects, Held, Referenced, Range
<1>10. CASE UNCHANGED vars \/ CollectTokens \/ \E t \in Token : Expire(t) \/ Lapse(t)
  BY <1>1, <1>10 DEF vars, CollectTokens, Expire, Lapse
<1>11. ASSUME NEW op, NEW t, HookRaises(op, t)
       PROVE  NoTokenWritten
  BY <1>1, <1>11 DEF HookRaises
<1> QED
  BY <1>0, <1>3, <1>4, <1>5, <1>6, <1>7, <1>8, <1>9, <1>10, <1>11, LoginObjects DEF Next

LEMMA StepOwnTokens == TypeOK /\ HomeSocket /\ HeldOwnTokens /\ [Next]_vars => HeldOwnTokens'
<1> SUFFICES ASSUME TypeOK, HomeSocket, HeldOwnTokens, [Next]_vars PROVE HeldOwnTokens'
  OBVIOUS
<1>1. ClaimsKept
  BY StepClaimsKept
<1>2. CASE NoTokenWritten
  BY <1>1, <1>2, SameOwnTokens DEF NoTokenWritten
<1>3. CASE BindsOwn
  BY <1>1, <1>3, BindOwnTokens DEF BindsOwn
<1>4. CASE Refreshes
  <2>1. PICK i \in Held : /\ heap' = [heap EXCEPT ![i].token = NewToken]
                          /\ NewToken \in Minted'
                          /\ claims'[NewToken].session = heap[i].session
                          /\ UNCHANGED <<bySession, byWebsocket>>
    BY <1>4 DEF Refreshes
  <2>2. Held' = Held /\ Held \subseteq StateId
    BY <2>1, HeldAreStates DEF Held, TypeOK
  <2>3. heap'[i].token = NewToken /\ heap'[i].session = heap[i].session
    BY <2>1, <2>2 DEF TypeOK, RegistryTypeOK, SessionState
  <2>4. \A j \in Held \ {i} : heap'[j] = heap[j]
    BY <2>1, <2>2 DEF TypeOK, RegistryTypeOK
  <2> QED
    BY <1>1, <2>1, <2>2, <2>3, <2>4 DEF HeldOwnTokens, OwnToken, ClaimsKept
<1>5. CASE DropsObjects
  BY <1>5 DEF DropsObjects, HeldOwnTokens
<1> QED
  BY <1>2, <1>3, <1>4, <1>5, ObjectStep

LEMMA OwnTokensAlways == Spec => [](TypeOK /\ HomeSocket /\ HeldOwnTokens)
<1>1. Init => HomeSocket /\ HeldOwnTokens
  BY DEF Init, RegistryInit, HomeSocket, Registered, HeldOwnTokens, Held, Referenced, Range
<1> QED
  BY <1>1, InitType, StepType, StepHomeSocket, StepOwnTokens, PTL DEF Spec

\* The token a session object remembers, and its socket's calls then use, is
\* one of that session: rebinding a socket that served another session, failed
\* rotations and gates that bind never leave a foreign token behind (bind,
\* auth_service_token).
THEOREM SnapshotsOfOwnSession == Spec => []SnapshotOfOwnSession
<1>1. TypeOK /\ HomeSocket /\ HeldOwnTokens => SnapshotOfOwnSession
  BY DEF HeldOwnTokens, SnapshotOfOwnSession, OwnToken, Held
<1> QED
  BY <1>1, OwnTokensAlways, PTL

LEMMA StepBoundHasToken ==
    TypeOK /\ HomeSocket /\ HeldOwnTokens /\ BoundHasToken /\ [Next]_vars => BoundHasToken'
<1> SUFFICES ASSUME TypeOK, HomeSocket, HeldOwnTokens, BoundHasToken, [Next]_vars,
                    Faults = {}, NEW i \in Held'
             PROVE  heap'[i].token # None
  BY DEF BoundHasToken, Held
<1>1. \A j \in Held : heap[j].token # None
  BY DEF BoundHasToken, Held
<1>2. Held \subseteq StateId
  BY HeldAreStates DEF Held, TypeOK
<1>3. CASE NoTokenWritten
  BY <1>1, <1>2, <1>3 DEF NoTokenWritten, Held
<1>4. CASE BindsOwn
  <2>1. PICK s \in Session, w \in Websocket, state \in SessionState :
          Bind(s, w, state) /\ state.token # None
    BY <1>4 DEF BindsOwn
  <2>2. heap'[i] = state \/ (i \in Held /\ heap'[i] = heap[i])
    BY <2>1, BindHeld, RegistryAssumption DEF TypeOK, Held
  <2> QED
    BY <1>1, <2>1, <2>2
<1>5. CASE Refreshes
  <2>1. PICK j \in Held : /\ heap' = [heap EXCEPT ![j].token = NewToken]
                          /\ NewToken \in Minted'
                          /\ UNCHANGED <<bySession, byWebsocket>>
    BY <1>5 DEF Refreshes
  <2>2. i \in Held /\ i \in StateId /\ j \in StateId
    BY <1>2, <2>1 DEF Held
  <2>3. NewToken # None
    BY <2>1, RegistryAssumption DEF Minted
  <2> QED
    BY <1>1, <2>1, <2>2, <2>3 DEF TypeOK, RegistryTypeOK, SessionState
<1>6. CASE DropsObjects
  BY <1>6 DEF DropsObjects
<1> QED
  BY <1>3, <1>4, <1>5, <1>6, ObjectStep

\* With a store that does not fail, no gate ever falls back to the bound session
\* alone: whatever binds a socket leaves the session a token.
THEOREM BoundSessionsHaveTokens == Spec => []BoundHasToken
<1>1. Init => BoundHasToken
  BY DEF Init, RegistryInit, BoundHasToken, Referenced, Range
<1>2. TypeOK /\ HomeSocket /\ HeldOwnTokens /\ BoundHasToken /\ [Next]_vars => BoundHasToken'
  BY StepBoundHasToken
<1> QED
  BY <1>1, <1>2, OwnTokensAlways, PTL DEF Spec
---------------------------------------------------------------------------
(***************************************************************************)
(* What a gate lets through.  With a token it is the verdict that says so; *)
(* without one it is a message with its own claims, or a session without a *)
(* token, which BoundHasToken leaves to failing stores.                    *)
(***************************************************************************)

\* A gate that says "ok" on a token found it live, and took nothing away.
LEMMA OkIsLive ==
    ASSUME NEW op \in GateOp, NEW t, Verdict(op, t) = "ok"
    PROVE  /\ Acceptable(t)
           /\ op = "message" => t \notin expired
           /\ \A del : WireStore(op, t, del) = store /\ SessionStore(op, t, del) = store
<1>1. BankVerdict(t) = "ok" /\ (op = "message" => ~(Decodes(t) /\ t \in expired))
  BY DEF Verdict, MessageVerdict, GateOp
<1>2. Acceptable(t)
  BY <1>1 DEF BankVerdict
<1> QED
  BY <1>1, <1>2 DEF Acceptable, WireStore, SessionStore, AfterHook

LEMMA GateOk ==
    ASSUME TypeOK, BoundHasToken, NEW op \in GateOp, NEW w \in Websocket,
           NEW wire \in delivered \cup {None}, Gate(op, w, wire), reply'.code = "ok"
    PROVE  \/ /\ reply'.token # None
              /\ LiveFor(op, reply'.token)
              /\ UNCHANGED <<tokenVars, daemonVars>>
           \/ reply'.token = None /\ (reply'.claimed \/ Faults # {})
<1> DEFINE Goal(t) == /\ t # None
                      /\ LiveFor(op, t)
                      /\ UNCHANGED <<tokenVars, daemonVars>>
<1>1. ASSUME NEW t, Verdict(op, t) = "ok", t # None, store' = store,
             UNCHANGED <<claims, clockVars, delivered, daemonVars>>
      PROVE  Goal(t)
  BY <1>1, OkIsLive DEF LiveFor, Acceptable, Decodes, HasRecord, tokenVars
<1>2. ASSUME NEW t, NEW del, SessionCode(op, t, del) = "ok" \/ WireVerdict(op, t) = "ok"
      PROVE  Verdict(op, t) = "ok"
  BY <1>2 DEF SessionCode, WireVerdict
<1>3. CASE GateClaimed(op, w, wire)
  BY <1>3 DEF GateClaimed, Answer
<1>4. CASE GateBound(op, w, wire)
  <2> DEFINE own == heap[byWebsocket[w]].token
  <2>1. PICK del \in Outcome("delete") :
          \/ /\ wire # None
             /\ store' = WireStore(op, wire, del)
             /\ reply' = Answer(op, WireVerdict(op, wire), wire)
          \/ /\ own # None
             /\ store' = SessionStore(op, own, del)
             /\ reply' = Answer(op, SessionCode(op, own, del), own)
          \/ own = None /\ reply' = Answer(op, "ok", None)
    BY <1>4 DEF GateBound
  <2>2. UNCHANGED <<claims, clockVars, delivered, daemonVars>>
    BY <1>4 DEF GateBound
  <2>3. ASSUME wire # None, store' = WireStore(op, wire, del),
               reply' = Answer(op, WireVerdict(op, wire), wire)
        PROVE  Goal(reply'.token)
    BY <1>1, <1>2, <2>2, <2>3, OkIsLive DEF Answer
  <2>4. ASSUME own # None, store' = SessionStore(op, own, del),
               reply' = Answer(op, SessionCode(op, own, del), own)
        PROVE  Goal(reply'.token)
    BY <1>1, <1>2, <2>2, <2>4, OkIsLive DEF Answer
  <2>5. ASSUME own = None, reply' = Answer(op, "ok", None)
        PROVE  reply'.token = None /\ Faults # {}
    <3>1. byWebsocket[w] \in Referenced(bySession, byWebsocket)
      BY <1>4 DEF GateBound, Referenced, Range, TypeOK, RegistryTypeOK
    <3> QED
      BY <2>5, <3>1 DEF BoundHasToken, Answer
  <2> QED
    BY <2>1, <2>3, <2>4, <2>5
<1>5. CASE GateUnbound(op, w, wire)
  BY <1>5 DEF GateUnbound, Answer
<1>6. CASE GateBinds(op, w, wire)
  <2>1. reply' = Answer(op, "ok", wire) /\ wire # None /\ WireVerdict(op, wire) = "ok"
    BY <1>6 DEF GateBinds
  <2>2. store' = store /\ UNCHANGED <<claims, clockVars, delivered, daemonVars>>
    BY <1>6 DEF GateBinds, tokenVars
  <2>3. Goal(wire)
    BY <1>1, <1>2, <2>1, <2>2
  <2> QED
    BY <2>1, <2>3 DEF Answer
<1> QED
  BY <1>3, <1>4, <1>5, <1>6 DEF Gate

LEMMA StepGateGrants ==
    TypeOK /\ BoundHasToken /\ GateGrantsLiveToken /\ [Next]_vars => GateGrantsLiveToken'
<1> SUFFICES ASSUME TypeOK, BoundHasToken, GateGrantsLiveToken, [Next]_vars,
                    reply'.op \in GateOp, reply'.code = "ok"
             PROVE  \/ reply'.token # None /\ LiveFor(reply.op, reply.token)'
                    \/ reply'.token = None /\ (reply'.claimed \/ Faults # {})
  BY DEF GateGrantsLiveToken
<1>1. CASE UNCHANGED vars
  BY <1>1 DEF vars, tokenVars, clockVars, daemonVars, GateGrantsLiveToken, LiveFor
<1>2. CASE Next
  <2>1. PICK op \in GateOp, w \in Websocket, t \in delivered \cup {None} :
          Gate(op, w, t) /\ reply'.op = op
    BY <1>2, ReplyOf DEF OtherReply, GateOp
  <2>2. \/ /\ reply'.token # None
           /\ LiveFor(op, reply'.token)
           /\ UNCHANGED <<tokenVars, daemonVars>>
        \/ reply'.token = None /\ (reply'.claimed \/ Faults # {})
    BY <2>1, GateOk
  <2> QED
    BY <2>1, <2>2 DEF LiveFor, tokenVars, clockVars, daemonVars
<1> QED
  BY <1>1, <1>2

\* Whatever came before, a gate lets a message through on no token that was
\* rotated out, revoked, collected or has lapsed, or that another instance or
\* secret made; and it does without a token only for a message with claims of
\* its own, or once a failing store has left a session without one
\* (_check_access of bank, casino and message, the twins of
\* _validate_token_against_store in gate.py and message.py).
THEOREM GatesGrantLiveTokens == Spec => []GateGrantsLiveToken
<1>1. Init => GateGrantsLiveToken
  BY DEF Init, GateGrantsLiveToken, Silent, Answer, GateOp
<1>2. TypeOK /\ BoundHasToken /\ GateGrantsLiveToken /\ [Next]_vars => GateGrantsLiveToken'
  BY StepGateGrants
<1> QED
  BY <1>1, <1>2, TypeCorrect, BoundSessionsHaveTokens, PTL DEF Spec
---------------------------------------------------------------------------
(***************************************************************************)
(* Requests in flight.  HomeSocket again: the object bind() leaves is that *)
(* of its session only, so that no other session's request is touched.     *)
(***************************************************************************)
Pending(s) == heap[bySession[s]].pending

KeepsPending(s) == heap'[bySession[s]].pending = Pending(s)

\* A session that is registered under the same object before and after.
Stays(s) == Registered(s) /\ bySession'[s] = bySession[s]

LEMMA BoundStatePending ==
    ASSUME RegistryTypeOK, NEW s \in Session, NEW w \in Websocket, Registered(s)
    PROVE  BoundState(s, w) \in SessionState /\ BoundState(s, w).pending = Pending(s)
BY HeapTypes, BoundStateType DEF BoundState, SessionState, Pending

LEMMA BindPending ==
    ASSUME RegistryTypeOK, HomeSocket, NEW q \in Session, NEW w \in Websocket,
           NEW state \in SessionState, Bind(q, w, state), NEW s \in Session, Stays(s)
    PROVE  IF s = q THEN heap'[bySession[s]] = state ELSE KeepsPending(s)
<1>1. bySession[s] \in Referenced(bySession, byWebsocket)
  BY RegisteredIsReferenced DEF Stays, Registered, RegistryTypeOK
<1>2. RegistryTypeOK'
  BY BindType
<1>3. bySession[s] \in Referenced(bySession', byWebsocket')
  BY <1>2, RegisteredIsReferenced DEF Stays, Registered, RegistryTypeOK
<1>4. CASE s = q
  <2>1. bySession[s] = TargetOf(q)
    BY <1>4 DEF Stays, TargetOf
  <2> QED
    BY <1>3, <1>4, <2>1, BindHeld, RegistryAssumption
<1>5. CASE s # q
  <2>1. bySession[s] # TargetOf(q)
    <3>1. CASE Registered(q)
      BY <1>5, <3>1 DEF HomeSocket, Stays, TargetOf
    <3>2. CASE ~Registered(q)
      <4>1. TargetOf(q) \in Free
        BY <3>2 DEF Bind, CanBind, TargetOf
      <4> QED
        BY <1>1, <4>1 DEF Free
    <3> QED
      BY <3>1, <3>2
  <2> QED
    BY <1>3, <1>5, <2>1, BindHeld, RegistryAssumption DEF KeepsPending, Pending
<1> QED
  BY <1>4, <1>5

LEMMA LoginPending ==
    ASSUME TypeOK, HomeSocket, NEW w \in Websocket, Login(w), NEW s \in Session, Stays(s)
    PROVE  KeepsPending(s)
<1>1. PICK q \in Session, put \in Outcome("put") :
        Bind(q, w, [BoundState(q, w) EXCEPT !.token = SnapshotAfterLogin(put)])
  BY DEF Login
<1> DEFINE state == [BoundState(q, w) EXCEPT !.token = SnapshotAfterLogin(put)]
<1>2. NewToken \in Token
  BY NewTokenIsUnminted DEF Login
<1>3. state \in SessionState /\ state.pending = BoundState(q, w).pending
  BY <1>2, BoundStateType DEF TypeOK, SessionState, SnapshotAfterLogin
<1>4. Bind(q, w, state)
  BY <1>1
<1>5. IF s = q THEN heap'[bySession[s]] = state ELSE KeepsPending(s)
  <2> HIDE DEF state
  <2> QED
    BY <1>3, <1>4, BindPending DEF TypeOK
<1> HIDE DEF state
<1> QED
  BY <1>3, <1>5, BoundStatePending DEF KeepsPending, TypeOK, Stays

LEMMA GatePending ==
    ASSUME TypeOK, HomeSocket, NEW op \in GateOp, NEW w \in Websocket,
           NEW wire \in delivered \cup {None}, GateBinds(op, w, wire),
           NEW s \in Session, Stays(s)
    PROVE  KeepsPending(s)
<1> DEFINE q == claims[wire].session
           state == [BoundState(q, w) EXCEPT !.token = wire]
<1>1. wire \in Token /\ q \in Session
  BY MintedClaims DEF GateBinds, TypeOK, Minted
<1>2. state \in SessionState /\ state.pending = BoundState(q, w).pending
  BY <1>1, BoundStateType DEF TypeOK, SessionState
<1>3. Bind(q, w, state)
  BY DEF GateBinds
<1> HIDE DEF q, state
<1>4. IF s = q THEN heap'[bySession[s]] = state ELSE KeepsPending(s)
  BY <1>1, <1>2, <1>3, BindPending DEF TypeOK
<1> QED
  BY <1>2, <1>4, BoundStatePending DEF KeepsPending, TypeOK, Stays

LEMMA ReconnectPending ==
    ASSUME TypeOK, HomeSocket, NEW w \in Websocket, NEW t \in delivered, ReconnectOk(w, t),
           NEW s \in Session, Stays(s)
    PROVE  KeepsPending(s) \/ Replays(s)
<1> DEFINE q == claims[t].session
<1>1. t \in Minted /\ q \in Session
  BY MintedClaims DEF TypeOK
<1>2. PICK put \in Outcome("put"), del \in Outcome("delete") :
        /\ Rotate(t, put, del)
        /\ Bind(q, w, ReconnectedState(q, w, put = "ok" /\ del = "ok"))
        /\ reply' = [Answer("reconnect", IF put = "ok" /\ del = "ok" THEN "ok" ELSE "error", t)
                     EXCEPT !.replayed = IF put = "ok" /\ del = "ok"
                                         THEN BoundState(q, w).pending ELSE None]
  BY DEF ReconnectOk
<1>3. NewToken \in Token
  BY <1>2, NewTokenIsUnminted DEF Rotate
<1>4. BoundState(q, w) \in SessionState
  BY <1>1, BoundStateType DEF TypeOK
<1>5. CASE put = "ok" /\ del = "ok"
  <2> DEFINE state == [BoundState(q, w) EXCEPT !.token = NewToken, !.pending = None]
  <2>1. state \in SessionState /\ Bind(q, w, state)
    BY <1>2, <1>3, <1>4, <1>5 DEF SessionState, ReconnectedState
  <2>2. s # q => KeepsPending(s)
    <3> HIDE DEF q, state
    <3> QED
      BY <1>1, <2>1, BindPending DEF TypeOK
  <2>3. s = q => Replays(s)
    BY <1>1, <1>2, <1>5, BoundStatePending DEF Replays, Answer, Stays, TypeOK, Pending
  <2> QED
    BY <2>2, <2>3
<1>6. CASE ~(put = "ok" /\ del = "ok")
  <2>1. Bind(q, w, BoundState(q, w))
    BY <1>2, <1>6 DEF ReconnectedState
  <2>2. IF s = q THEN heap'[bySession[s]] = BoundState(q, w) ELSE KeepsPending(s)
    BY <1>1, <1>4, <2>1, BindPending DEF TypeOK
  <2> QED
    BY <2>2, BoundStatePending DEF KeepsPending, TypeOK, Stays
<1> QED
  BY <1>5, <1>6

LEMMA StepPending ==
    ASSUME TypeOK, HomeSocket, Next, NEW s \in Session, LosesPending(s)
    PROVE  Replays(s) \/ reply'.code \in {"token_expired", "token_revoked"}
<1> DEFINE Goal == Replays(s) \/ reply'.code \in {"token_expired", "token_revoked"}
<1>1. ~KeepsPending(s) /\ Stays(s) /\ reply' # Silent /\ heap' # heap
  BY DEF LosesPending, KeepsPending, Pending, Stays
<1>2. ASSUME NEW op, NEW t, RefusedInvalid(op, t) \/ Denied(op, t)
      PROVE  FALSE
  BY <1>1, <1>2 DEF RefusedInvalid, Denied, registryVars
<1>3. ASSUME NEW w \in Websocket, NEW t \in delivered, Reconnect(w, t)
      PROVE  Goal
  <2>1. CASE ReconnectExpired(w, t) \/ ReconnectRevoked(w, t)
    BY <2>1 DEF ReconnectExpired, ReconnectRevoked, Answer
  <2> QED
    BY <1>1, <1>2, <1>3, <2>1, ReconnectPending DEF Reconnect, ReconnectDenied
<1>4. ASSUME NEW w \in Websocket, NEW t \in delivered, Refresh(w, t)
      PROVE  FALSE
  <2>1. RefreshOk(w, t)
    BY <1>1, <1>2, <1>4 DEF Refresh, RefreshExpired, RefreshRefused, registryVars
  <2>2. heap' = [heap EXCEPT ![byWebsocket[w]].token = NewToken]
    BY <1>1, <2>1 DEF RefreshOk
  <2>3. byWebsocket[w] \in StateId /\ heap[byWebsocket[w]] \in SessionState /\ bySession[s] \in StateId
    BY <1>1, <2>1, HeapTypes DEF RefreshOk, RefreshAllowed, TypeOK, Stays
  <2>4. KeepsPending(s)
    BY <2>2, <2>3 DEF KeepsPending, Pending, TypeOK, RegistryTypeOK, SessionState
  <2> QED
    BY <1>1, <2>4
<1>5. ASSUME NEW t \in delivered, Revoke(t)
      PROVE  FALSE
  BY <1>1, <1>2, <1>5 DEF Revoke, registryVars
<1>6. ASSUME NEW op \in GateOp, NEW w \in Websocket, NEW wire \in delivered \cup {None},
             Gate(op, w, wire)
      PROVE  FALSE
  <2>1. GateBinds(op, w, wire)
    BY <1>1, <1>6 DEF Gate, GateClaimed, GateBound, GateUnbound, registryVars
  <2> QED
    BY <1>1, <2>1, GatePending
<1>7. ASSUME CollectTokens \/ Restart \/ (\E t \in Token : Expire(t) \/ Lapse(t))
             \/ (\E q \in Session : Push(q) \/ Acknowledge(q))
      PROVE  FALSE
  BY <1>1, <1>7 DEF CollectTokens, Restart, Expire, Lapse, Push, Acknowledge
<1>8. ASSUME NEW w \in Websocket, Login(w)
      PROVE  FALSE
  BY <1>1, <1>8, LoginPending
<1>9. ASSUME NEW op, NEW t, HookRaises(op, t)
      PROVE  FALSE
  BY <1>1, <1>9 DEF HookRaises, registryVars
<1> QED
  BY <1>3, <1>4, <1>5, <1>6, <1>7, <1>8, <1>9 DEF Next

\* A request in flight is forgotten only by a reconnect that replays it or that
\* reports the session's token dead: not by a failed rotation, a refresh, a gate
\* that binds the session, nor by what other sessions do on its sockets
\* (take_pending in _handle_reconnect, clear_pending).
THEOREM PendingSurvives == Spec => PendingSurvivesFailure
<1>1. TypeOK /\ HomeSocket /\ [Next]_vars =>
        [\A s \in Session : LosesPending(s) =>
            Replays(s) \/ reply'.code \in {"token_expired", "token_revoked"}]_vars
  BY StepPending
<1> QED
  BY <1>1, OwnTokensAlways, PTL DEF Spec, PendingSurvivesFailure

---------------------------------------------------------------------------
(***************************************************************************)
(* AuthService implements BearerTokens as long as deletes do not fail: its *)
(* initial states map to initial states and each of its steps to a step of *)
(* BearerTokens or to none.                                                *)
(***************************************************************************)
LEMMA StatusOf ==
    ASSUME TypeOK, NEW t \in Token
    PROVE  /\ Owner[t] = claims[t].session
           /\ Status[t] = "new"  <=> t \notin Minted
           /\ Status[t] = "live" <=> HasRecord(t)
           /\ Status[t] = "dead" <=> (t \in Minted /\ ~HasRecord(t))
BY DEF Owner, Status, HasRecord, TypeOK

LEMMA RefinesInit == Init => Bearer!Init
<1> SUFFICES ASSUME Init PROVE Bearer!Init
  OBVIOUS
<1>1. \A t \in Token : claims[t] = Unminted /\ t \notin Minted
  BY DEF Init, Minted
<1> QED
  BY <1>1 DEF Bearer!Init, Owner, Status, Unminted

\* Losing records and time passing kill tokens.
LEMMA MintsNothingRefines ==
    ASSUME TypeOK, TypeOK', MintsNothing
    PROVE  Bearer!Kill
<1> DEFINE dead == {t \in Token : Status[t] = "live" /\ Status'[t] # "live"}
<1>1. Owner' = Owner /\ Minted' = Minted
  BY DEF Owner, MintsNothing, Minted
<1>2. ASSUME NEW t \in Token
      PROVE  Status'[t] = IF t \in dead THEN "dead" ELSE Status[t]
  BY <1>1 DEF Status, HasRecord, MintsNothing, TypeOK
<1>3. Status' = [t \in Token |-> IF t \in dead THEN "dead" ELSE Status[t]]
  BY <1>2 DEF Status
<1>4. dead \in SUBSET {t \in Token : Status[t] = "live"}
  OBVIOUS
<1> QED
  BY <1>1, <1>3, <1>4 DEF Bearer!Kill

\* A login starts a session's chain of tokens, or spoils its token when the
\* record was not put.
LEMMA StartRefines ==
    ASSUME TypeOK, StartsSession
    PROVE  \E s \in Session : Bearer!Start(NewToken, s) \/ Bearer!Spoil(NewToken, s)
<1>1. NewToken \in Token /\ NewToken \notin Minted
  BY NewTokenIsUnminted DEF StartsSession
<1>2. PICK s \in Session : NewSession(s) /\ Mint(s)
  BY DEF StartsSession
<1>3. /\ claims' \in [Token -> Claims \cup {Unminted}]
      /\ Minted' = Minted \cup {NewToken}
      /\ claims'[NewToken].session = s
      /\ \A t \in Minted : claims'[t] = claims[t]
  BY <1>2, MintAdds DEF StartsSession
<1>4. \A t \in Token \ {NewToken} : claims'[t] = claims[t]
  BY <1>1, <1>2 DEF Mint, TypeOK
<1>5. Owner' = [Owner EXCEPT ![NewToken] = s]
  BY <1>1, <1>3, <1>4 DEF Owner
<1>6. Status[NewToken] = "new"
  BY <1>1 DEF Status
<1>7. \A t \in Token \ {NewToken} : Status'[t] = Status[t]
  BY <1>3 DEF Status, HasRecord, StartsSession, clockVars
<1>8. \A t \in Token : Owner[t] # s
  BY <1>2, RegistryAssumption DEF Owner, NewSession, Minted, Unminted
<1>9. CASE NewToken \in store'
  <2>1. Status'[NewToken] = "live"
    BY <1>1, <1>3, <1>9 DEF Status, HasRecord, StartsSession, clockVars, TypeOK
  <2>2. Status' = [Status EXCEPT ![NewToken] = "live"]
    BY <1>1, <1>7, <2>1 DEF Status
  <2> QED
    BY <1>5, <1>6, <1>8, <2>2 DEF Bearer!Start
<1>10. CASE NewToken \notin store'
  <2>1. Status'[NewToken] = "dead"
    BY <1>1, <1>3, <1>10 DEF Status, HasRecord
  <2>2. Status' = [Status EXCEPT ![NewToken] = "dead"]
    BY <1>1, <1>7, <2>1 DEF Status
  <2> QED
    BY <1>5, <1>6, <2>2 DEF Bearer!Spoil
<1> QED
  BY <1>9, <1>10

\* A rotation replaces the token, or spoils the new one when the record could
\* not be put.
LEMMA RotationRefines ==
    ASSUME TypeOK, RotatesToken, "delete" \notin Faults
    PROVE  \/ \E t \in Token : Bearer!Replace(t, NewToken)
           \/ \E s \in Session : Bearer!Spoil(NewToken, s)
<1>1. NewToken \in Token /\ NewToken \notin Minted
  BY NewTokenIsUnminted DEF RotatesToken
<1>2. PICK v \in Minted, put \in Outcome("put"), del \in Outcome("delete") :
        /\ HasRecord(v)
        /\ Mint(claims[v].session)
        /\ store' = RotatedStore(v, put, del)
  BY DEF RotatesToken
<1> DEFINE s == claims[v].session
<1>3. s \in Session /\ v \in Token /\ v # NewToken /\ del = "ok"
  BY <1>1, <1>2, MintedClaims DEF Outcome, Minted
<1>4. /\ Minted' = Minted \cup {NewToken}
      /\ claims'[NewToken].session = s
  BY <1>2, <1>3, MintAdds DEF RotatesToken
<1>5. \A t \in Token \ {NewToken} : claims'[t] = claims[t]
  BY <1>1, <1>2 DEF Mint, TypeOK
<1>6. Owner' = [Owner EXCEPT ![NewToken] = s]
  BY <1>1, <1>4, <1>5 DEF Owner
<1>7. Status[NewToken] = "new" /\ Status[v] = "live" /\ Owner[v] = s
  BY <1>1, <1>2, <1>3 DEF Status, Owner
<1>8. CASE put = "ok"
  <2>1. store' = (store \cup {NewToken}) \ {v}
    BY <1>2, <1>3, <1>8 DEF RotatedStore, Put, Delete
  <2>2. Status'[NewToken] = "live" /\ Status'[v] = "dead"
    BY <1>1, <1>2, <1>3, <1>4, <2>1 DEF Status, HasRecord, RotatesToken, clockVars, TypeOK
  <2>3. \A t \in Token \ {NewToken, v} : Status'[t] = Status[t]
    BY <1>4, <2>1 DEF Status, HasRecord, RotatesToken, clockVars
  <2>4. Status' = [Status EXCEPT ![v] = "dead", ![NewToken] = "live"]
    BY <1>1, <1>3, <2>2, <2>3 DEF Status
  <2>5. Bearer!Replace(v, NewToken)
    BY <1>6, <1>7, <2>4 DEF Bearer!Replace
  <2> QED
    BY <1>3, <2>5
<1>9. CASE put # "ok"
  <2>1. store' = store
    BY <1>1, <1>2, <1>3, <1>9 DEF RotatedStore, Put, Delete, TypeOK
  <2>2. Status'[NewToken] = "dead"
    BY <1>1, <1>4, <2>1 DEF Status, HasRecord, TypeOK
  <2>3. \A t \in Token \ {NewToken} : Status'[t] = Status[t]
    BY <1>4, <2>1 DEF Status, HasRecord, RotatesToken, clockVars
  <2>4. Status' = [Status EXCEPT ![NewToken] = "dead"]
    BY <1>1, <2>2, <2>3 DEF Status
  <2>5. Bearer!Spoil(NewToken, s)
    BY <1>6, <1>7, <2>4 DEF Bearer!Spoil
  <2> QED
    BY <1>3, <2>5
<1> QED
  BY <1>8, <1>9

LEMMA RefinesNext ==
    "delete" \notin Faults /\ TypeOK /\ TypeOK' /\ [Next]_vars => [Bearer!Next]_(Bearer!vars)
<1> SUFFICES ASSUME "delete" \notin Faults, TypeOK, TypeOK', [Next]_vars
             PROVE  [Bearer!Next]_(Bearer!vars)
  OBVIOUS
<1>1. CASE UNCHANGED vars
  BY <1>1 DEF vars, tokenVars, clockVars, Bearer!vars, Owner, Status, Minted, HasRecord
<1>2. CASE Next
  <2>1. NewToken \in Token \/ MintsNothing
    BY <1>2, TokenStep, NewTokenIsUnminted DEF StartsSession, RotatesToken
  <2> QED
    BY <1>2, <2>1, TokenStep, MintsNothingRefines, StartRefines, RotationRefines DEF Bearer!Next
<1> QED
  BY <1>1, <1>2

\* Whatever logins, reconnects, refreshes, failed puts and restarts do, the
\* tokens of AuthService live and die as BearerTokens says.
THEOREM Refinement == "delete" \notin Faults => (Spec => ImplementsBearerTokens)
<1> SUFFICES ASSUME "delete" \notin Faults PROVE Spec => ImplementsBearerTokens
  OBVIOUS
<1>1. TypeOK /\ TypeOK' /\ [Next]_vars => [Bearer!Next]_(Bearer!vars)
  BY RefinesNext
<1> QED
  BY <1>1, RefinesInit, TypeCorrect, PTL DEF Spec, ImplementsBearerTokens, Bearer!Spec
=============================================================================
