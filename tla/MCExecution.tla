---------------------------- MODULE MCExecution ----------------------------
(* Small instances of Execution for TLC. *)
EXTENDS ExecutionInvariant, TLC

\* Jobs on one worktree, each with a provider session of its own.
MCResources == {"tree", "task", "state1", "state2"}
MCNeeds == [j \in Jobs |-> {"tree", IF j = 1 THEN "state1" ELSE "state2"}]
MCWorktree == [j \in Jobs |-> "tree"]

\* Jobs on worktrees of their own.
MCApartNeeds == [j \in Jobs |-> {IF j = 1 THEN "state1" ELSE "state2"}]
MCApartWorktree == [j \in Jobs |-> IF j = 1 THEN "state1" ELSE "state2"]

\* Jobs of one task on one worktree.
MCTaskNeeds == [j \in Jobs |-> {"tree", "task", IF j = 1 THEN "state1" ELSE "state2"}]

\* One command after the provider for the first job, none for the others.
MCGates == [j \in Jobs |-> IF j = 1 THEN 1 ELSE 0]
MCNoGates == [j \in Jobs |-> 0]

\* How far operators reconcile: the first command of job 1, or nothing.
MCFirstJob == [j \in Jobs |-> IF j = 1 THEN 4 ELSE 0]
MCNever == [j \in Jobs |-> 0]
=============================================================================
