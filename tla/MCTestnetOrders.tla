-------------------------- MODULE MCTestnetOrders --------------------------
(* Small instances of TestnetOrders for TLC. *)
EXTENDS TestnetOrders, TLC

(* Orders, requests and runs of one kind are interchangeable. *)
Symmetry ==
    Permutations(Orders) \cup Permutations(Submits) \cup Permutations(Requests)
        \cup Permutations(Runs)
=============================================================================
