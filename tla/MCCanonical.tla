---------------------------- MODULE MCCanonical ----------------------------
(* A project with one tree: a direct job, a rollout candidate and its promotion. *)
EXTENDS CanonicalInvariant, TLC

CONSTANTS canonical, isolated, l1, l2

MCCwd == 1 :> canonical @@ 2 :> isolated @@ 3 :> canonical
MCVisible == [j \in 1..3 |-> canonical]
MCCandidate == <<0, 0, 2>>
MCSymmetry == Permutations({l1, l2})
=============================================================================
