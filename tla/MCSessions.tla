----------------------------- MODULE MCSessions -----------------------------
EXTENDS Sessions, TLC

Symmetry == Permutations(SessionIds) \cup Permutations(Workers)
=============================================================================
