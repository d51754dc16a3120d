-------------------------- MODULE MCMatchingEngine --------------------------
(* Instances of MatchingEngine for TLC; the ids are interchangeable. *)
EXTENDS MatchingEngine

IdSymmetry == Permutations(OrderIds)
=============================================================================
