----------------------------- MODULE MCChildren -----------------------------
EXTENDS Children

Symmetry == Permutations(Unit) \cup Permutations(Pid)
=============================================================================
