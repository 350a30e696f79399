------------------------ MODULE MCShadowObservation ------------------------
EXTENDS ShadowObservation, TLC

CONSTANTS k1, k2, g

\* Configurations of the runner: the default, one with two pairs of which a tick
\* runs the first, and an invalid one.
MCDefault == [valid |-> TRUE, enabled |-> FALSE, pairs |-> <<k1>>, max_runs_per_tick |-> 1]
MCConfigs == {MCDefault,
              [valid |-> TRUE, enabled |-> TRUE, pairs |-> <<k1, k2>>, max_runs_per_tick |-> 1],
              [valid |-> FALSE, enabled |-> TRUE, pairs |-> <<>>, max_runs_per_tick |-> 1]}
MCStrategyOf == [k \in Keys |-> g]
MCKeyOf == [c \in Candidates |-> k1]

Symmetry == Permutations(Workers) \cup Permutations(Kinds)
=============================================================================
