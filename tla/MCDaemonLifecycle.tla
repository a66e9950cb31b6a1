------------------------- MODULE MCDaemonLifecycle -------------------------
EXTENDS DaemonLifecycle

Restart(auto, onBindFailure, max) ==
    [autorestart |-> auto, restartOnBindFailure |-> onBindFailure, maxRestarts |-> max]

\* A reload can raise the limit above the counter and lower it below.
MCPolicy == {Restart(FALSE, FALSE, 0), Restart(TRUE, FALSE, 1), Restart(TRUE, TRUE, 0)}
=============================================================================
