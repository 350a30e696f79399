------------------------ MODULE MCScheduledResearch ------------------------
(* Small instances of ScheduledResearch for TLC. *)
EXTENDS ScheduledResearch, TLC

(* Runners are interchangeable, and so are requests. *)
Symmetry == Permutations(Runners) \cup Permutations(Requests)
=============================================================================
