--------------------------- MODULE MCTokenClient ---------------------------
EXTENDS TokenClient, TLC

\* Processes are interchangeable; tokens and sessions are used in order.
Symmetry == Permutations(Process)
=============================================================================
