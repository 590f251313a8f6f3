----------------------- MODULE CoordinationInvariant -----------------------
(* What the coordination of tasks guarantees. *)
EXTENDS Coordination

\* Controls are delivered and acknowledged in the order they were recorded, and
\* only the execution a control was delivered to acknowledges it, whatever the
\* order of checkpoints, acknowledgments, new controls and successive jobs.
ControlsInOrder ==
    \A t \in Tasks : \A i \in DOMAIN controls[t] :
        /\ controls[t][i].acked # NoJob => controls[t][i].acked = controls[t][i].delivered
        /\ \A k \in 1..(i - 1) :
            /\ controls[t][i].acked # NoJob => controls[t][k].acked # NoJob
            /\ controls[t][i].delivered # NoJob => controls[t][k].delivered # NoJob

\* No instruction is left behind: a task is never completed while an instruction
\* waits for its acknowledgment, though it may arrive while gates still run.
InstructionsReachWork ==
    \A t \in Tasks : task[t].state = "completed" =>
        \A i \in DOMAIN controls[t] :
            controls[t][i].kind = "instruction" => controls[t][i].acked # NoJob

\* A task that says it is working has a job that is queued or runs: nobody waits
\* for work that will not come.  Excepted are tasks whose bookkeeping a crash cut.
WorkingHasExecution ==
    \A t \in Tasks : task[t].state = "working" =>
        InStates(t, PendingStates) # {} \/ t \in interrupted \cup cut

\* A task owns no worktree but its own, and only a writer owns one.
OwnershipFollowsTask ==
    \A w \in Worktrees : owner[w] # NoTask =>
        task[owner[w]].workdir = w /\ owner[w] \notin ReadOnly

\* An explicit checkpoint keeps its worktree: no step takes the ownership of a
\* task and leaves it checkpointed or waiting for a decision, except a move.
CheckpointKeepsWorktree ==
    [][\A w \in Worktrees :
         owner[w] # NoTask /\ owner'[w] # owner[w] =>
             \/ task'[owner[w]].state \notin {"checkpointed", "awaiting_decision"}
             \/ \E v \in Worktrees : owner'[v] = owner[w]]_vars

\* The goal floor gives up: between two controls a task gets at most three
\* continuations of its own, and one more that answers the newest control.
FloorIsBounded ==
    \A t \in Tasks :
        Cardinality({j \in JobsOf(t) : jobs[j].floor /\ jobs[j].after = Len(controls[t])})
            <= (IF controls[t] = <<>> THEN 3 ELSE 4)

-----------------------------------------------------------------------------
(* What these rest on, besides the types *)

\* A job is busy while it runs or an execution of it is open.
Busy(js, j) == js[j].execution = "open" \/ js[j].state \in {"running", "cancel_requested"}

Quiet == {"checkpointed", "awaiting_decision", "completed"}

\* The resources of a task are held by one job at a time, a busy job holds them, and
\* a task with a busy job is not quiet.
HeldAlone ==
    /\ \A j \in DOMAIN jobs :
          /\ Busy(jobs, j) => jobs[j].lock /\ task[jobs[j].task].state \notin Quiet
          /\ jobs[j].place = "finally" => jobs[j].state \in TerminalJobStates
    /\ \A j, k \in DOMAIN jobs :
          jobs[j].lock /\ jobs[k].lock /\ jobs[j].task = jobs[k].task => j = k

\* start() marks every interrupted task before the daemon is up.
AllMarked == daemon # "recovering" => interrupted = {}

\* The inductive invariant behind WorkingHasExecution and CheckpointKeepsWorktree.
CoordinationInv == TypeOK /\ HeldAlone /\ AllMarked /\ WorkingHasExecution

-----------------------------------------------------------------------------
(* What the bound on continuations rests on *)

\* The jobs of a task that are as new as its newest control: its continuations, and
\* the claims that are counted before the floor gives in.
Recent(t) == {j \in JobsOf(t) : jobs[j].after = Len(controls[t])}
Continuations(t) == {j \in Recent(t) : jobs[j].floor}
Claims(t, outcome) ==
    {j \in Recent(t) : jobs[j].state = "succeeded" /\ jobs[j].claim = outcome}

\* A job older than the newest control, and still pending.
Outdated(t) == {j \in InStates(t, PendingStates) : jobs[j].after < Len(controls[t])}

\* The continuation of such a job is new, while its claim is not counted.
LateAnswers(t) == IF controls[t] = <<>> \/ Outdated(t) # {} THEN 0 ELSE 1

UpTo(n, S) == IF Cardinality(S) < n THEN Cardinality(S) ELSE n

\* Each continuation has a counted claim behind it, up to the limit of its kind.
ClaimsPay ==
    \A t \in Tasks : Cardinality(Continuations(t)) <=
        UpTo(2, Claims(t, "blocked")) + UpTo(1, Claims(t, "completed")) + LateAnswers(t)

\* A job knows no control of the future, and only a job that has started and not ended
\* stands in its provider or its gates.
JobsAreTimely ==
    \A j \in DOMAIN jobs :
        /\ jobs[j].after <= Len(controls[jobs[j].task])
        /\ jobs[j].place \in {"provider", "gates"} => jobs[j].state \in {"running", "cancel_requested"}

\* The inductive invariant behind FloorIsBounded.
FloorInv == CoordinationInv /\ JobsAreTimely /\ ClaimsPay
=============================================================================
