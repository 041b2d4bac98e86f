-------------------------- MODULE MCRetryingClient --------------------------
EXTENDS RetryingClient, TLC
Requests == 1..3
TwoRequests == 1..2
Symmetry == Permutations(Gated) \cup Permutations(Body)
=============================================================================
