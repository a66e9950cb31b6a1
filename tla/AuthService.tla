---------------------------- MODULE AuthService ----------------------------
(***************************************************************************)
(* Bearer tokens in bed: the AuthService handlers (src/bed/api/auth.py),   *)
(* the token store behind them (src/bed/api/token_store.py), the token     *)
(* gates every other service runs first (src/bed/api/gate.py and its twin  *)
(* in src/bed/api/message.py), the hook that verifies the token of every   *)
(* message before its handler (main.py), the collector and restarts.       *)
(*                                                                         *)
(* Neither the hook nor a handler awaits, so on the event loop a message   *)
(* is one step.  What can come between its statements is a store call that *)
(* raises, whose outcome is a parameter of the action, the collector's     *)
(* thread, and the passing of time.  Both concern a token whose time is    *)
(* up: they reach the handler through its store calls, so they are a step  *)
(* before the handler's for the store, and after its own look at the clock.*)
(*                                                                         *)
(* A token is opaque; its claims are fixed when it is minted.  There are   *)
(* two looks at a clock: the handler's at the expires_at of the claims     *)
(* ("expired") and, later, the store's at that of the record ("lapsed").   *)
(* The clock of a database is another host's, so either may be ahead; in   *)
(* one process the store's look comes last, and is the one ahead.          *)
(***************************************************************************)
EXTENDS SessionRegistry, FiniteSets

CONSTANTS
    Instance,    \* values bed_instance_id can have
    Secret,      \* values the HMAC secret can have
    Durable,     \* TRUE: DBTokenStore, FALSE: InMemoryTokenStore
    Faults,      \* the store calls that may raise
    MaxRequest   \* bound on the request ids pushed to one session object

ASSUME AuthAssumption ==
    /\ None \notin Instance \cup Secret
    /\ Durable \in BOOLEAN
    /\ Faults \subseteq {"put", "delete"}
    /\ MaxRequest \in Nat
    /\ ~Durable => Faults = {}     \* a dict operation under a lock does not fail

VARIABLES
    claims,     \* the claims of every token minted so far
    store,      \* the tokens with a record in the token store
    expired,    \* the tokens whose expires_at has passed for a handler
    lapsed,     \* the tokens whose expires_at has passed for the store
    delivered,  \* the tokens sent to a client in a successful reply
    instance,   \* bed_instance_id of the running daemon
    secret,     \* HMAC secret of the running daemon
    reply       \* the reply of the last step, Silent if it sent none

clockVars == <<expired, lapsed>>
tokenVars == <<claims, store, clockVars, delivered>>
daemonVars == <<instance, secret>>
vars == <<registryVars, tokenVars, daemonVars, reply>>

Claims == [session : Session, instance : Instance, secret : Secret]

Unminted == [session |-> None, instance |-> None, secret |-> None]

Minted == {t \in Token : claims[t] # Unminted}

Op == {"none", "auth", "reconnect", "auth_refresh", "auth_revoke", "bank", "message"}

Code == {"none", "ok", "error", "token_invalid", "token_expired", "token_revoked",
         "bed_instance_mismatch", "not_authenticated", "forbidden"}

Reply == [op : Op, code : Code,
          token    : Token \cup {None},   \* the token the step was decided on
          replayed : Nat \cup {None},     \* the request a reconnect replays
          claimed  : BOOLEAN]             \* the message brought its own claims

Answer(op, code, t) ==
    [op |-> op, code |-> code, token |-> t, replayed |-> None, claimed |-> FALSE]

Silent == Answer("none", "none", None)

TypeOK ==
    /\ RegistryTypeOK
    /\ claims \in [Token -> Claims \cup {Unminted}]
    /\ store \subseteq Minted
    /\ expired \subseteq Minted
    /\ lapsed \subseteq Minted
    /\ delivered \subseteq Minted
    /\ instance \in Instance
    /\ secret \in Secret
    /\ reply \in Reply

Init ==
    /\ RegistryInit
    /\ claims = [t \in Token |-> Unminted]
    /\ store = {}
    /\ expired = {}
    /\ lapsed = {}
    /\ delivered = {}
    /\ instance \in Instance
    /\ secret \in Secret
    /\ reply = Silent

---------------------------------------------------------------------------
(***************************************************************************)
(* The token store.  A database call may raise before it took effect       *)
(* ("undone") or after ("done": the connection broke on the way back).     *)
(***************************************************************************)
Outcome(call) == {"ok"} \cup IF call \in Faults THEN {"undone", "done"} ELSE {}

Put(records, t, outcome) == IF outcome = "undone" THEN records ELSE records \cup {t}

Delete(records, t, outcome) == IF outcome = "undone" THEN records ELSE records \ {t}

HasRecordOfAnyAge(t) == t \in store

\* get() returns the record of a token that has not lapsed.
HasRecord(t) == t \in store \ lapsed

\* get() of the in-memory store drops a lapsed record it meets.
AfterGet(t) == IF ~Durable /\ t \in lapsed THEN store \ {t} ELSE store

\* _decode_token: the signature is checked with the daemon's secret.
Decodes(t) == claims[t].secret = secret

---------------------------------------------------------------------------
(***************************************************************************)
(* Minting.  A login starts a session no token was ever minted for.        *)
(***************************************************************************)
NewSession(s) == \A t \in Minted : claims[t].session # s

NewToken == CHOOSE t \in Token : t \notin Minted

CanMint == \E t \in Token : t \notin Minted

MintUnclaimed(s) == claims' = [claims EXCEPT ![NewToken] = Unminted]

Mint(s) ==
    claims' = [claims EXCEPT
        ![NewToken] = [session |-> s, instance |-> instance, secret |-> secret]]

Deliver(t, success) == delivered' = IF success THEN delivered \cup {t} ELSE delivered

SnapshotAfterLoginForgotten(put) == None

\* bind, then auth_service_token = None, mint, persist, and only then the
\* token.  A persist that raises leaves the session bound, without a token.
SnapshotAfterLogin(put) == IF put = "ok" THEN NewToken ELSE None

Login(w) ==
    /\ CanMint
    /\ \E s \in Session, put \in Outcome("put") :
        /\ NewSession(s)
        /\ Bind(s, w, [BoundState(s, w) EXCEPT !.token = SnapshotAfterLogin(put)])
        /\ Mint(s)
        /\ store' = Put(store, NewToken, put)
        /\ Deliver(NewToken, put = "ok")
        /\ reply' = Answer("auth", IF put = "ok" THEN "ok" ELSE "error", NewToken)
    /\ UNCHANGED <<clockVars, daemonVars>>

---------------------------------------------------------------------------
(***************************************************************************)
(* Rotation, shared by reconnect and auth_refresh: put the new record, and *)
(* on failure delete it and raise; otherwise delete the old one.           *)
(***************************************************************************)
RotatedStoreNoRollback(t, put, del) ==
    IF put = "ok"
    THEN Delete(Put(store, NewToken, put), t, del)
    ELSE Put(store, NewToken, put)

RotatedStoreKeepsOld(t, put, del) == Put(store, NewToken, put)

RotatedStoreDeleteFirst(t, put, del) == Put(Delete(store, t, del), NewToken, put)

RotatedStore(t, put, del) ==
    IF put = "ok"
    THEN Delete(Put(store, NewToken, put), t, del)
    ELSE Delete(Put(store, NewToken, put), NewToken, del)

Rotate(t, put, del) ==
    /\ CanMint
    /\ Mint(claims[t].session)
    /\ store' = RotatedStore(t, put, del)
    /\ Deliver(NewToken, put = "ok" /\ del = "ok")

---------------------------------------------------------------------------
(***************************************************************************)
(* The check of a token against the store that the hook and the gates      *)
(* share (_validate_token_against_store), and the hook: it puts every      *)
(* message's token through that check before the handler runs, and drops   *)
(* the verdict, but not what the check did to the store.                   *)
(***************************************************************************)
Acceptable(t) == Decodes(t) /\ HasRecord(t) /\ claims[t].instance = instance

BankVerdictAnyInstance(t) ==
    IF ~Decodes(t) THEN "token_invalid" ELSE IF HasRecord(t) THEN "ok" ELSE "token_revoked"

BankVerdict(t) ==
    CASE ~Decodes(t)                   -> "token_invalid"
      [] Decodes(t) /\ ~HasRecord(t)   -> "token_revoked"
      [] Acceptable(t)                 -> "ok"
      [] OTHER                         -> "bed_instance_mismatch"

\* A record of another instance is deleted, a lapsed one may be.
AfterHook(t) ==
    CASE BankVerdict(t) = "bed_instance_mismatch" -> store \ {t}
      [] BankVerdict(t) = "token_revoked"         -> AfterGet(t)
      [] OTHER                                    -> store

\* When that delete raises, the message is answered with an error and has no
\* handler.
HookRaises(op, t) ==
    /\ BankVerdict(t) = "bed_instance_mismatch"
    /\ \E del \in Outcome("delete") \ {"ok"} : store' = Delete(store, t, del)
    /\ reply' = Answer(op, "error", t)
    /\ UNCHANGED <<registryVars, claims, clockVars, delivered, daemonVars>>

---------------------------------------------------------------------------
(***************************************************************************)
(* The checks of reconnect and auth_refresh, in the handlers' order:       *)
(* signature, expiry, store, instance.  Each action is one way through, in *)
(* the store the hook has left.  There the instance of a record is the     *)
(* daemon's: what is not Acceptable has no record, and is revoked.         *)
(***************************************************************************)
RefusedInvalid(op, t) ==
    /\ ~Decodes(t)
    /\ reply' = Answer(op, "token_invalid", t)
    /\ UNCHANGED <<registryVars, tokenVars, daemonVars>>

Denied(op, t) ==
    /\ Decodes(t)
    /\ store' = AfterHook(t)
    /\ reply' = Answer(op, "forbidden", t)
    /\ UNCHANGED <<registryVars, claims, clockVars, delivered, daemonVars>>

\* An expired or revoked token drops the request its session was waiting on.
ReconnectExpired(w, t) ==
    /\ Decodes(t)
    /\ t \in expired
    /\ \E del \in Outcome("delete") : store' = Delete(AfterHook(t), t, del)
    /\ heap' = ClearPending(heap, claims[t].session)
    /\ reply' = Answer("reconnect", "token_expired", t)
    /\ UNCHANGED <<bySession, byWebsocket, observers, claims, clockVars, delivered, daemonVars>>

ReconnectRevoked(w, t) ==
    /\ Decodes(t)
    /\ t \notin expired
    /\ ~Acceptable(t)
    /\ store' = AfterHook(t)
    /\ heap' = ClearPending(heap, claims[t].session)
    /\ reply' = Answer("reconnect", "token_revoked", t)
    /\ UNCHANGED <<bySession, byWebsocket, observers, claims, clockVars, delivered, daemonVars>>

\* The policy (bbsengine6.auth.access, another repository) lets a socket without
\* a session reconnect and may refuse one that has a session.
ReconnectDenied(w, t) ==
    /\ Acceptable(t)
    /\ t \notin expired
    /\ byWebsocket[w] # None
    /\ Denied("reconnect", t)

ReconnectedStateEagerTake(s, w, success) ==
    [BoundState(s, w) EXCEPT !.token = IF success THEN NewToken ELSE @, !.pending = None]

\* bind() comes before the rotation, so a failed rotation leaves it done;
\* the pending request is taken after it, so a failed rotation keeps it.
ReconnectedState(s, w, success) ==
    IF success
    THEN [BoundState(s, w) EXCEPT !.token = NewToken, !.pending = None]
    ELSE BoundState(s, w)

ReconnectOk(w, t) ==
    /\ Acceptable(t)
    /\ t \notin expired
    /\ \E put \in Outcome("put"), del \in Outcome("delete") :
        LET s       == claims[t].session
            success == put = "ok" /\ del = "ok"
        IN  /\ Rotate(t, put, del)
            /\ Bind(s, w, ReconnectedState(s, w, success))
            /\ reply' = [Answer("reconnect", IF success THEN "ok" ELSE "error", t) EXCEPT
                         !.replayed = IF success THEN BoundState(s, w).pending ELSE None]
    /\ UNCHANGED <<clockVars, daemonVars>>

Reconnect(w, t) ==
    \/ RefusedInvalid("reconnect", t)
    \/ ReconnectExpired(w, t)
    \/ ReconnectRevoked(w, t)
    \/ ReconnectDenied(w, t)
    \/ ReconnectOk(w, t)

---------------------------------------------------------------------------
(***************************************************************************)
(* auth_refresh keeps the socket.  The policy requires that a session is   *)
(* bound to it, and that it is the token's.                                *)
(***************************************************************************)
RefreshAllowedAnySession(w, t) == byWebsocket[w] # None

RefreshAllowed(w, t) ==
    /\ byWebsocket[w] # None
    /\ heap[byWebsocket[w]].session = claims[t].session

RefreshExpired(t) ==
    /\ Decodes(t)
    /\ t \in expired
    /\ \E del \in Outcome("delete") : store' = Delete(AfterHook(t), t, del)
    /\ reply' = Answer("auth_refresh", "token_expired", t)
    /\ UNCHANGED <<registryVars, claims, clockVars, delivered, daemonVars>>

RefreshRefused(w, t) ==
    /\ Decodes(t)
    /\ t \notin expired
    /\ \/ ~Acceptable(t) /\ reply' = Answer("auth_refresh", "token_revoked", t)
       \/ /\ Acceptable(t)
          /\ ~RefreshAllowed(w, t)
          /\ reply' = Answer("auth_refresh", "not_authenticated", t)
    /\ store' = AfterHook(t)
    /\ UNCHANGED <<registryVars, claims, clockVars, delivered, daemonVars>>

RefreshOk(w, t) ==
    /\ Acceptable(t)
    /\ t \notin expired
    /\ RefreshAllowed(w, t)
    /\ \E put \in Outcome("put"), del \in Outcome("delete") :
        LET success == put = "ok" /\ del = "ok"
        IN  /\ Rotate(t, put, del)
            /\ heap' = IF success
                       THEN [heap EXCEPT ![byWebsocket[w]].token = NewToken]
                       ELSE heap
            /\ reply' = Answer("auth_refresh", IF success THEN "ok" ELSE "error", t)
    /\ UNCHANGED <<bySession, byWebsocket, observers, clockVars, daemonVars>>

Refresh(w, t) ==
    \/ RefusedInvalid("auth_refresh", t)
    \/ RefreshExpired(t)
    \/ RefreshRefused(w, t)
    \/ RefreshOk(w, t)

---------------------------------------------------------------------------
RevokeCode(t, del) ==
    IF del # "ok" THEN "error" ELSE IF t \in AfterHook(t) THEN "ok" ELSE "token_revoked"

\* auth_revoke deletes the record the hook has left, whatever its age, unless
\* the policy refuses; the session stays bound.
Revoke(t) ==
    \/ RefusedInvalid("auth_revoke", t)
    \/ Denied("auth_revoke", t)
    \/ /\ Decodes(t)
       /\ \E del \in Outcome("delete") :
            /\ store' = Delete(AfterHook(t), t, del)
            /\ reply' = Answer("auth_revoke", RevokeCode(t, del), t)
       /\ UNCHANGED <<registryVars, claims, clockVars, delivered, daemonVars>>

---------------------------------------------------------------------------
(***************************************************************************)
(* The gates.  "bank" stands for the services on gate.py (bank, casino,    *)
(* whiteboard), "message" for the message service, which checks the claim  *)
(* of expiry before it asks the store.                                     *)
(***************************************************************************)
GateOp == {"bank", "message"}

MessageVerdictStoreFirst(t) == BankVerdict(t)

MessageVerdict(t) ==
    CASE Decodes(t) /\ t \in expired   -> "token_expired"
      [] OTHER                         -> BankVerdict(t)

Verdict(op, t) == IF op = "bank" THEN BankVerdict(t) ELSE MessageVerdict(t)

\* The verdict on the message's own token, which the hook has been through:
\* the record of another instance is gone by now.
WireVerdict(op, t) ==
    IF Verdict(op, t) = "bed_instance_mismatch" THEN "token_revoked" ELSE Verdict(op, t)

\* The message gate deletes what it finds expired, and ignores a failure to.
WireStore(op, t, del) ==
    IF Verdict(op, t) = "token_expired" THEN Delete(AfterHook(t), t, del) ELSE AfterHook(t)

\* The same for the token of the session, of which the hook knows nothing: a
\* failure to delete the record of another instance ends in an error.
SessionStore(op, t, del) ==
    CASE Verdict(op, t) \in {"token_expired", "bed_instance_mismatch"}
                                          -> Delete(store, t, del)
      [] Verdict(op, t) = "token_revoked" -> AfterGet(t)
      [] OTHER                            -> store

SessionCode(op, t, del) ==
    IF Verdict(op, t) = "bed_instance_mismatch" /\ del # "ok" THEN "error"
    ELSE Verdict(op, t)

\* A bound socket: the gates of bank, casino and message look at no token when
\* the message has claims of its own (whiteboard's always looks).
GateClaimed(op, w, wire) ==
    /\ byWebsocket[w] # None
    /\ store' = IF wire = None THEN store ELSE AfterHook(wire)
    /\ reply' = [Answer(op, "ok", None) EXCEPT !.claimed = TRUE]
    /\ UNCHANGED <<registryVars, claims, clockVars, delivered, daemonVars>>

\* Otherwise the message's token decides if there is one, then the session's,
\* and without either the bound session alone is enough.
GateBound(op, w, wire) ==
    LET own == heap[byWebsocket[w]].token
    IN  /\ byWebsocket[w] # None
        /\ \E del \in Outcome("delete") :
            \/ /\ wire # None
               /\ store' = WireStore(op, wire, del)
               /\ reply' = Answer(op, WireVerdict(op, wire), wire)
            \/ /\ wire = None
               /\ own # None
               /\ store' = SessionStore(op, own, del)
               /\ reply' = Answer(op, SessionCode(op, own, del), own)
            \/ /\ wire = None
               /\ own = None
               /\ reply' = Answer(op, "ok", None)
               /\ UNCHANGED store
        /\ UNCHANGED <<registryVars, claims, clockVars, delivered, daemonVars>>

GateUnbound(op, w, wire) ==
    /\ byWebsocket[w] = None
    /\ \/ /\ wire = None
          /\ reply' = Answer(op, "not_authenticated", None)
          /\ UNCHANGED store
       \/ /\ wire # None
          /\ WireVerdict(op, wire) # "ok"
          /\ \E del \in Outcome("delete") : store' = WireStore(op, wire, del)
          /\ reply' = Answer(op, WireVerdict(op, wire), wire)
    /\ UNCHANGED <<registryVars, claims, clockVars, delivered, daemonVars>>

\* A valid wire token binds its session to a socket that has none.
GateBinds(op, w, wire) ==
    /\ byWebsocket[w] = None
    /\ wire # None
    /\ WireVerdict(op, wire) = "ok"
    /\ LET s == claims[wire].session
       IN  Bind(s, w, [BoundState(s, w) EXCEPT !.token = wire])
    /\ reply' = Answer(op, "ok", wire)
    /\ UNCHANGED <<tokenVars, daemonVars>>

Gate(op, w, wire) ==
    \/ GateClaimed(op, w, wire)
    \/ GateBound(op, w, wire)
    \/ GateUnbound(op, w, wire)
    \/ GateBinds(op, w, wire)

---------------------------------------------------------------------------
\* The clock a handler looks at reaches the expires_at of t.
Expire(t) ==
    /\ t \in Minted \ expired
    /\ ~Durable => t \in lapsed
    /\ expired' = expired \cup {t}
    /\ reply' = Silent
    /\ UNCHANGED <<registryVars, claims, store, lapsed, delivered, daemonVars>>

\* The clock the store looks at reaches it.
Lapse(t) ==
    /\ t \in Minted \ lapsed
    /\ lapsed' = lapsed \cup {t}
    /\ reply' = Silent
    /\ UNCHANGED <<registryVars, claims, store, expired, delivered, daemonVars>>

\* One tick of _gc_loop; an error is logged and the loop goes on.
CollectTokens ==
    /\ store' = store \ lapsed
    /\ reply' = Silent
    /\ UNCHANGED <<registryVars, claims, clockVars, delivered, daemonVars>>

\* The router sends an IO request to the session, or its client acknowledges.
Push(s) ==
    /\ Registered(s)
    /\ heap[bySession[s]].counter < MaxRequest
    /\ UpdateSession(s, Requested(heap[bySession[s]]))
    /\ reply' = Silent
    /\ UNCHANGED <<observers, tokenVars, daemonVars>>

Acknowledge(s) ==
    /\ Registered(s)
    /\ heap' = ClearPending(heap, s)
    /\ reply' = Silent
    /\ UNCHANGED <<bySession, byWebsocket, observers, tokenVars, daemonVars>>

\* A new process: no session, the records the store kept, and possibly another
\* instance id or secret (a new or upgraded secret file, --bed-instance-id).
Restart ==
    /\ heap' = [i \in StateId |-> Blank]
    /\ bySession' = [s \in Session |-> None]
    /\ byWebsocket' = [w \in Websocket |-> None]
    /\ observers' = [t \in Table |-> {}]
    /\ store' = IF Durable THEN store ELSE {}
    /\ instance' \in Instance
    /\ secret' \in Secret
    /\ reply' = Silent
    /\ UNCHANGED <<claims, clockVars, delivered>>

\* Clients present the tokens they were given, or none.
Next ==
    \/ \E w \in Websocket : Login(w)
    \/ \E w \in Websocket, t \in delivered : Reconnect(w, t)
    \/ \E w \in Websocket, t \in delivered : Refresh(w, t)
    \/ \E t \in delivered : Revoke(t)
    \/ \E op \in GateOp, w \in Websocket, t \in delivered \cup {None} : Gate(op, w, t)
    \/ \E op \in Op \ {"none", "auth"}, t \in delivered : HookRaises(op, t)
    \/ \E t \in Token : Expire(t) \/ Lapse(t)
    \/ \E s \in Session : Push(s)
    \/ \E s \in Session : Acknowledge(s)
    \/ CollectTokens
    \/ Restart

Spec == Init /\ [][Next]_vars

---------------------------------------------------------------------------
(***************************************************************************)
(* Properties.                                                             *)
(***************************************************************************)

\* However rotations, failed rotations, retries and restarts interleave, the
\* store never holds two records of one session: the rollback in reconnect
\* and auth_refresh and the delete of the old record leave exactly one.  (A
\* delete that raises can leave two; then the handler cannot do better.)
OneRecordPerSession ==
    "delete" \notin Faults =>
        \A t, u \in store : claims[t].session = claims[u].session => t = u

\* A token that left the store never comes back into it, and when a client was
\* told that its token was replaced or revoked, that token is gone.
GoneForGood ==
    [][/\ \A t \in Minted : t \notin store => t \notin store'
       /\ (reply'.op \in {"reconnect", "auth_refresh", "auth_revoke"} /\ reply'.code = "ok")
              => reply'.token \notin store']_vars

\* A reconnect or refresh that fails because the new record could not be put
\* leaves the presented token usable: the client, who got no new one, can retry.
FailureKeepsToken ==
    ("delete" \notin Faults /\ reply.op \in {"reconnect", "auth_refresh"} /\ reply.code = "error")
        => reply.token \in store

\* t is good for a message to op: signed and issued by this daemon, with a
\* record the store still answers for and, for the message service, claims that
\* have not expired.
LiveFor(op, t) ==
    /\ claims[t].secret = secret
    /\ claims[t].instance = instance
    /\ t \in store \ lapsed
    /\ op = "message" => t \notin expired

\* A gate lets a message through only on a live token, its own or the one its
\* socket's session holds, with two exceptions: a message with claims of its
\* own, which no gate but whiteboard's checks, and, when store calls can
\* fail, a session that a failing store has left without a token.
GateGrantsLiveToken ==
    (reply.op \in GateOp /\ reply.code = "ok") =>
        \/ reply.token # None /\ LiveFor(reply.op, reply.token)
        \/ reply.token = None /\ (reply.claimed \/ Faults # {})

\* The token remembered in a session is one of its own, for every object some
\* socket or session id still reaches.
SnapshotOfOwnSession ==
    \A i \in Referenced(bySession, byWebsocket) :
        heap[i].token # None => claims[heap[i].token].session = heap[i].session

\* With a store that does not fail every bound socket has a session with a
\* token: no gate falls back to the bound session alone.
BoundHasToken ==
    Faults = {} =>
        \A i \in Referenced(bySession, byWebsocket) : heap[i].token # None

\* A token whose claims have expired by the time a handler looks is not called
\* revoked by reconnect, auth_refresh or the message gate, whoever has taken its
\* record first: the collector, another message, or the hook of this very one.
\* The client can tell from it that it may log in again.  (A token that passes
\* its time after that look, when the store looks, is called revoked, as is one
\* for which the database's clock is ahead; and the gate of bank, casino and
\* whiteboard looks at the store alone.)
ExpiredSaysExpired ==
    [][(reply'.op \in {"reconnect", "auth_refresh", "message"} /\ reply'.code = "token_revoked")
            => reply'.token \notin expired]_vars

\* s loses the request its client has yet to acknowledge, in a step that
\* answers a message, and s keeps its object.
LosesPending(s) ==
    /\ Registered(s)
    /\ heap[bySession[s]].pending # None
    /\ bySession'[s] = bySession[s]
    /\ heap'[bySession[s]].pending = None
    /\ reply' # Silent

Replays(s) ==
    /\ reply'.code = "ok"
    /\ reply'.replayed = heap[bySession[s]].pending
    /\ claims[reply'.token].session = s

\* A request in flight is forgotten only by a reconnect that replays it, or
\* that reports the session's token dead: in particular a reconnect whose
\* store call fails leaves it for the retry.
PendingSurvivesFailure ==
    [][\A s \in Session : LosesPending(s) =>
            Replays(s) \/ reply'.code \in {"token_expired", "token_revoked"}]_vars

\* As the SessionState docstring has it: while a client holds a live token of
\* the session, its request in flight leaves it only by being replayed.
PendingReplayedToHolder ==
    [][\A s \in Session :
            /\ LosesPending(s)
            /\ \E t \in delivered : HasRecord(t) /\ claims[t].session = s
            => Replays(s)]_vars
=============================================================================
