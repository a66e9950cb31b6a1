--------------------------- MODULE MCAuthService ---------------------------
(***************************************************************************)
(* Instances of AuthService for TLC.  Tokens and object ids are integers,  *)
(* allocated in order; sessions, sockets, instance ids and secrets are     *)
(* interchangeable model values, of which no definition chooses one.       *)
(***************************************************************************)
EXTENDS AuthRefinement, TLC

Symmetry ==
    Permutations(Session) \cup Permutations(Websocket)
        \cup Permutations(Instance) \cup Permutations(Secret)
=============================================================================
