--------------------------- MODULE AuthRefinement --------------------------
(***************************************************************************)
(* AuthService implements BearerTokens: a token is live while its record   *)
(* is in the store and has not lapsed there.                               *)
(***************************************************************************)
EXTENDS AuthService

Owner == [t \in Token |-> claims[t].session]

Status == [t \in Token |->
    IF t \notin Minted THEN "new" ELSE IF HasRecord(t) THEN "live" ELSE "dead"]

Bearer == INSTANCE BearerTokens WITH owner <- Owner, status <- Status

\* Every step of every handler, with store calls that raise on put, is a step
\* of BearerTokens or leaves it unchanged.
ImplementsBearerTokens == Bearer!Spec
=============================================================================
