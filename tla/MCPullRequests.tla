--------------------------- MODULE MCPullRequests ---------------------------
(* Small instances of PullRequests for TLC. *)
EXTENDS PullRequestsInvariant

CONSTANTS c1, c2

\* People and stale answers; failures and crashes; one of each.
MCBudgets == {
    [failures |-> 0, restarts |-> 0, humans |-> 3],
    [failures |-> 2, restarts |-> 2, humans |-> 0],
    [failures |-> 1, restarts |-> 1, humans |-> 1]}
=============================================================================
