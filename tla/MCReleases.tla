----------------------------- MODULE MCReleases -----------------------------
(* Small instances of Releases for TLC. *)
EXTENDS ReleaseInvariant, TLC

CONSTANTS verify, deploy, other, candidate, staging, production, gv, gd, p1, p2

\* Two operations compete for one target under one grant.
MCRaceCandidateOf == (deploy :> candidate) @@ (other :> candidate)
MCRaceTargetOf == (deploy :> production) @@ (other :> production)
MCRaceCovers == gd :> {deploy, other}

\* A deployment of a candidate that must be verified first.
MCProofCandidateOf == (verify :> candidate) @@ (deploy :> candidate)
MCProofTargetOf == (verify :> staging) @@ (deploy :> production)
MCProofCovers == (gv :> {verify}) @@ (gd :> {deploy})

Interchangeable == Permutations(Procs) \cup Permutations(Ops)
=============================================================================
