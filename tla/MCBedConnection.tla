-------------------------- MODULE MCBedConnection --------------------------
EXTENDS BedConnection, TLC

CONSTANTS c1, c2

\* A subscription takes two requests.
MCMaxCalls == c1 :> 2 @@ c2 :> 1 @@ Report :> 1
=============================================================================
