------------------------ MODULE MCResearchCandidates ------------------------
EXTENDS ResearchCandidates, TLC

CONSTANTS k1

MCKeyOf == [c \in Candidates |-> k1]

Symmetry == Permutations(Workers)
=============================================================================
