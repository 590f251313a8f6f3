--------------------------- MODULE MCCoordination ---------------------------
(* Small instances of Coordination for TLC. *)
EXTENDS CoordinationInvariant, TLC

CONSTANTS w1, w2

\* Two jobs and a crash, two jobs and a control, one job with two controls,
\* and one job with its continuations.
MCBounds == {
    [requests |-> 2, floor |-> 0, controls |-> 0, crashes |-> 1],
    [requests |-> 2, floor |-> 0, controls |-> 1, crashes |-> 0],
    [requests |-> 1, floor |-> 0, controls |-> 2, crashes |-> 0],
    [requests |-> 1, floor |-> 5, controls |-> 1, crashes |-> 0]}

Interchangeable == Permutations(Worktrees)
=============================================================================
