--------------------------- MODULE MCTaskWorkflow ---------------------------
EXTENDS TaskWorkflow, TLC
Symmetry == Permutations(Task) \cup Permutations(Issue) \cup Permutations(Employee) \cup Permutations(Worker)
=============================================================================
