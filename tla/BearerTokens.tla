---------------------------- MODULE BearerTokens ---------------------------
(***************************************************************************)
(* What AuthService and its token store promise, without sockets, claims   *)
(* or store calls: a token is issued once, is live until it is rotated     *)
(* out, revoked or expired, and is then dead for good; a session has at    *)
(* most one live token, and a rotation replaces it in one step.            *)
(***************************************************************************)
CONSTANTS Session, Token, None

VARIABLES
    owner,   \* the session a token was issued for
    status   \* "new", "live" or "dead"

vars == <<owner, status>>

TypeOK ==
    /\ owner \in [Token -> Session \cup {None}]
    /\ status \in [Token -> {"new", "live", "dead"}]

Init ==
    /\ owner = [t \in Token |-> None]
    /\ status = [t \in Token |-> "new"]

Live(s) == {t \in Token : status[t] = "live" /\ owner[t] = s}

\* The first token of a session.
Start(t, s) ==
    /\ status[t] = "new"
    /\ \A u \in Token : owner[u] # s
    /\ owner' = [owner EXCEPT ![t] = s]
    /\ status' = [status EXCEPT ![t] = "live"]

\* A live token is replaced by a new one of its session.
Replace(t, u) ==
    /\ status[t] = "live"
    /\ status[u] = "new"
    /\ owner' = [owner EXCEPT ![u] = owner[t]]
    /\ status' = [status EXCEPT ![t] = "dead", ![u] = "live"]

\* A token that is minted and never becomes valid.
Spoil(t, s) ==
    /\ status[t] = "new"
    /\ owner' = [owner EXCEPT ![t] = s]
    /\ status' = [status EXCEPT ![t] = "dead"]

\* Revocation, expiry, collection, loss of the store.
Kill ==
    /\ UNCHANGED owner
    /\ \E dead \in SUBSET {t \in Token : status[t] = "live"} :
        status' = [t \in Token |-> IF t \in dead THEN "dead" ELSE status[t]]

Next ==
    \/ Kill
    \/ \E t \in Token, s \in Session : Start(t, s) \/ Spoil(t, s)
    \/ \E t, u \in Token : Replace(t, u)

Spec == Init /\ [][Next]_vars

\* A session never has two live tokens: the promise that makes a rotation or a
\* revocation (_handle_reconnect, _handle_auth_refresh, _handle_auth_revoke)
\* take the session away from whoever holds an older token.
OneLiveToken == \A t, u \in Token :
    (status[t] = "live" /\ status[u] = "live" /\ owner[t] = owner[u]) => t = u
=============================================================================
