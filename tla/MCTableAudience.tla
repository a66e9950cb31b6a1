-------------------------- MODULE MCTableAudience --------------------------
(***************************************************************************)
(* Instances of TableAudience for TLC.  Object ids are integers; sessions, *)
(* sockets and tables are interchangeable model values.                    *)
(***************************************************************************)
EXTENDS TableAudience, TLC

Symmetry ==
    Permutations(Session) \cup Permutations(Websocket) \cup Permutations(Table)
=============================================================================
