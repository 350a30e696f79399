------------------------- MODULE MCShadowPromotions -------------------------
(* Small instances of ShadowPromotions for TLC. *)
EXTENDS ShadowPromotions, TLC

(* Previews, submits and client order ids are interchangeable. *)
Symmetry == Permutations(Previews) \cup Permutations(Submits) \cup Permutations(Orders)
=============================================================================
