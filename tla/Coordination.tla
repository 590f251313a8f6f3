---------------------------- MODULE Coordination ----------------------------
(***************************************************************************)
(* Logical tasks: the jobs that execute them, the control inbox, the       *)
(* ownership of worktrees, the goal floor, cancellation, and what a crash  *)
(* leaves of them.                                                         *)
(*                                                                         *)
(* A task outlives its jobs.  Operators record controls, send follow-ups,  *)
(* hand off, retry, resume and cancel; the provider of a running job reads *)
(* and acknowledges controls and reports an outcome; the dispatch pass     *)
(* claims the worktree for the task and starts the job.  One action is one *)
(* SQLite transaction or one stretch of the daemon between two awaits.     *)
(*                                                                         *)
(* Abstracted: the commands of a job are an execution that is open or      *)
(* settled (module Execution says how); one provider serves every room and *)
(* a room holds one task; the pass looks at the queued jobs in any order.  *)
(* Rollout groups, which also hold a task, are module Rollouts.             *)
(***************************************************************************)
EXTENDS Integers, Sequences, FiniteSets

CONSTANTS
    NumTasks,    \* bound: tasks ever created
    Bounds,      \* bound: an execution stays within one of these budgets
    Worktrees,
    NoWorktree,  \* of a task before its first job
    ReadOnly,    \* tasks of a read-only workflow
    MaxQueued,   \* config.maxQueuedJobs
    Outcomes,    \* the outcomes providers report in the instance
    ControlKinds \* the control kinds operators use in the instance

Tasks == 1..NumTasks
NoTask == 0
NoJob == 0

ASSUME CoordinationAssumption ==
    /\ NumTasks \in Nat
    \* jobs operators create, continuations the floor creates, controls, crashes
    /\ Bounds \subseteq [requests : Nat, floor : Nat, controls : Nat, crashes : Nat]
    /\ NoWorktree \notin Worktrees
    /\ ReadOnly \subseteq Tasks
    /\ MaxQueued \in Nat
    /\ Outcomes \subseteq {"working", "checkpointed", "awaiting_decision", "blocked",
                           "completed", "unknown", "cancelled"}
    /\ ControlKinds \subseteq {"instruction", "decision", "pause", "resume"}

VARIABLES
    jobs,        \* the jobs table, oldest first
    task,        \* the tasks table
    controls,    \* task_controls of each task, by sequence
    owner,       \* task_ownership: the task that owns a worktree
    daemon,      \* "up", "recovering" (inside start()) or "down"
    interrupted, \* memory of start(): tasks it has still to mark interrupted
    cut,         \* history: tasks whose bookkeeping a crash cut in two
    crashes

vars == <<jobs, task, controls, owner, daemon, interrupted, cut, crashes>>

TaskStates == {"working", "checkpointed", "awaiting_decision", "blocked",
               "completed", "unknown", "cancelled"}
PendingStates == {"queued", "running", "cancel_requested"}
TerminalJobStates == {"succeeded", "failed", "cancelled"}
NoClaim == "none"

TypeOK ==
    /\ jobs \in Seq([task : Tasks, cwd : Worktrees, state : PendingStates \cup TerminalJobStates,
                     waits : 0..Len(jobs), floor : BOOLEAN, after : Nat,
                     claim : TaskStates \cup {NoClaim}, lock : BOOLEAN,
                     execution : {"none", "open", "settled"},
                     place : {"none", "provider", "gates", "finally"}])
    /\ task \in [Tasks -> [state : TaskStates \cup {"none"}, latest : 0..Len(jobs),
                           workdir : Worktrees \cup {NoWorktree}]]
    /\ controls \in [Tasks -> Seq([kind : ControlKinds, delivered : 0..Len(jobs),
                                   acked : 0..Len(jobs)])]
    /\ owner \in [Worktrees -> Tasks \cup {NoTask}]
    /\ daemon \in {"up", "recovering", "down"}
    /\ interrupted \subseteq Tasks
    /\ cut \subseteq Tasks
    /\ crashes \in Nat

Init ==
    /\ jobs = <<>>
    /\ task = [t \in Tasks |-> [state |-> "none", latest |-> NoJob, workdir |-> NoWorktree]]
    /\ controls = [t \in Tasks |-> <<>>]
    /\ owner = [w \in Worktrees |-> NoTask]
    /\ daemon = "up"
    /\ interrupted = {}
    /\ cut = {}
    /\ crashes = 0

-----------------------------------------------------------------------------
(* Reading the database *)

\* The execution, with this much more, is within one of the budgets.
Within(requests, floor, more, crash) ==
    \E b \in Bounds :
        /\ Cardinality({j \in DOMAIN jobs : ~jobs[j].floor}) + requests <= b.requests
        /\ Cardinality({j \in DOMAIN jobs : jobs[j].floor}) + floor <= b.floor
        /\ \A t \in Tasks : Len(controls[t]) + more <= b.controls
        /\ crashes + crash <= b.crashes

JobsOf(t) == {j \in DOMAIN jobs : jobs[j].task = t}
InStates(t, states) == {j \in JobsOf(t) : jobs[j].state \in states}
Newest(S) == CHOOSE j \in S : \A k \in S : k <= j

QueueHasRoom == Cardinality({j \in DOMAIN jobs : jobs[j].state = "queued"}) < MaxQueued

\* The last pause or resume of the inbox decides.
Paused(t) ==
    LET marks == {i \in DOMAIN controls[t] : controls[t][i].kind \in {"pause", "resume"}}
    IN  marks # {} /\ controls[t][Newest(marks)].kind = "pause"

CanReleaseTaskOwnership(t) == \A j \in JobsOf(t) : jobs[j].execution # "open"

Disowned(t) == [w \in Worktrees |-> IF owner[w] = t THEN NoTask ELSE owner[w]]

PriorClaimCountOfOthers(t, j, outcome) ==
    Cardinality({k \in InStates(t, {"succeeded"}) \ {j} :
        jobs[k].claim = outcome /\ jobs[k].after = Len(controls[t]) /\ ~jobs[k].floor})

\* Earlier claims of this outcome since the newest control of the task.
PriorClaimCount(t, j, outcome) ==
    Cardinality({k \in InStates(t, {"succeeded"}) \ {j} :
        jobs[k].claim = outcome /\ jobs[k].after = Len(controls[t])})

-----------------------------------------------------------------------------
(* Writing the database.  Each operator gives the new value of one variable. *)

TransitionJob(js, j, state) == [js EXCEPT ![j].state = state]
EndJob(js, j, state) == [js EXCEPT ![j].state = state, ![j].place = "finally"]

\* What a crash leaves of the jobs: no runner stands anywhere.
Forgotten(js) == [j \in DOMAIN js |-> [js[j] EXCEPT !.place = "none"]]

WithState(t, state) == [task EXCEPT ![t].state = state]

OwnerAfterAnyEnd(t, state, keep) ==
    IF CanReleaseTaskOwnership(t) /\ state # "working" /\ ~keep THEN Disowned(t) ELSE owner

\* What setState leaves of the ownership; an interrupted task keeps it.
OwnerAfter(t, state, keep) ==
    IF CanReleaseTaskOwnership(t) /\ state \in {"completed", "cancelled", "unknown"} /\ ~keep
    THEN Disowned(t) ELSE owner

SetState(t, state) ==
    /\ task' = WithState(t, state)
    /\ owner' = OwnerAfter(t, state, FALSE)

\* setState followed by the caller's own release.
SetStateAndRelease(t, state) ==
    /\ task' = WithState(t, state)
    /\ owner' = IF CanReleaseTaskOwnership(t) THEN Disowned(t) ELSE owner

\* waits: the pending predecessor of a follow-up.  The predecessors of all other
\* jobs have ended before them and are only read for prompts and sessions.
NewJob(t, cwd, waits, floor) ==
    [task |-> t, cwd |-> cwd, state |-> "queued", waits |-> waits, floor |-> floor,
     after |-> Len(controls[t]), claim |-> NoClaim, lock |-> FALSE,
     execution |-> "none", place |-> "none"]

\* createJob: admission, the fixed worktree of the task, and the task row.
MayRequest == Within(1, 0, 0, 0) /\ QueueHasRoom

MayCreateJob(t, cwd) ==
    /\ MayRequest
    /\ task[t].workdir \in {NoWorktree, cwd}

Queued(t, cwd) ==
    [task EXCEPT ![t] = [state |-> "working", latest |-> Len(jobs) + 1,
                         workdir |-> IF @.state = "none" THEN cwd ELSE @.workdir]]

CreateJob(t, cwd, waits) ==
    /\ MayCreateJob(t, cwd)
    /\ jobs' = Append(jobs, NewJob(t, cwd, waits, FALSE))
    /\ task' = Queued(t, cwd)

Delivered(t, j) ==
    [controls EXCEPT ![t] = [i \in DOMAIN @ |->
        IF @[i].acked = NoJob THEN [@[i] EXCEPT !.delivered = j] ELSE @[i]]]

MayAcknowledgeAnyOrder(t, j, ids) == \A i \in ids : controls[t][i].delivered = j

\* ids may be acknowledged by j: all delivered to it, none out of sequence.
MayAcknowledge(t, j, ids) ==
    \A i \in ids :
        /\ controls[t][i].delivered = j
        /\ \A k \in 1..(i - 1) : controls[t][k].acked # NoJob \/ k \in ids

Acknowledged(t, j, ids) ==
    [controls EXCEPT ![t] = [i \in DOMAIN @ |->
        IF i \in ids /\ @[i].acked = NoJob THEN [@[i] EXCEPT !.acked = j] ELSE @[i]]]

\* Only the running job, or the last job of a completed task, handles controls.
Current(t, j) ==
    /\ j \in JobsOf(t)
    /\ \/ jobs[j].state = "running"
       \/ task[t].state = "completed" /\ task[t].latest = j /\ jobs[j].state = "succeeded"

-----------------------------------------------------------------------------
(* Operators create work *)

Unchanged(rest) == UNCHANGED <<rest, daemon, interrupted, cut, crashes>>

CreateRoom(t, w) ==
    /\ daemon = "up"
    /\ task[t].state = "none"
    /\ \A u \in Tasks : u < t /\ (u \in ReadOnly <=> t \in ReadOnly) => task[u].state # "none"
    /\ CreateJob(t, w, NoJob)
    /\ Unchanged(<<controls, owner>>)

\* A follow-up waits for the newest job of the room when that one is pending.
CreateMessage(t) ==
    /\ daemon = "up"
    /\ JobsOf(t) # {}
    /\ LET prior == Newest(JobsOf(t)) IN
       CreateJob(t, jobs[prior].cwd, IF jobs[prior].state \in PendingStates THEN prior ELSE NoJob)
    /\ Unchanged(<<controls, owner>>)

CreateHandoff(source) ==
    /\ daemon = "up"
    /\ jobs[source].state = "succeeded"
    /\ CreateJob(jobs[source].task, jobs[source].cwd, NoJob)
    /\ Unchanged(<<controls, owner>>)

RetryJob(source) ==
    /\ daemon = "up"
    /\ jobs[source].state \in {"failed", "cancelled"}
    /\ CreateJob(jobs[source].task, jobs[source].cwd, NoJob)
    /\ Unchanged(<<controls, owner>>)

RebindKeeping(t, w) ==
    /\ task[t].state = "checkpointed"
    /\ CanReleaseTaskOwnership(t)
    /\ owner[w] \in {NoTask, t}
    /\ owner' = [owner EXCEPT ![w] = IF t \in ReadOnly THEN @ ELSE t]

\* rebind inside resumeTask: the task moves to another worktree.
Rebind(t, w) ==
    /\ task[t].state = "checkpointed"
    /\ CanReleaseTaskOwnership(t)
    /\ owner[w] \in {NoTask, t}
    /\ owner' = [Disowned(t) EXCEPT ![w] = IF t \in ReadOnly THEN @ ELSE t]

ResumeTask(t, w) ==
    /\ daemon = "up"
    /\ task[t].state \notin {"none", "completed", "cancelled"}
    /\ InStates(t, PendingStates) = {}
    /\ ~Paused(t)
    /\ MayRequest
    /\ IF w = task[t].workdir THEN UNCHANGED owner ELSE Rebind(t, w)
    /\ jobs' = Append(jobs, NewJob(t, w, NoJob, FALSE))
    /\ task' = [task EXCEPT ![t] = [state |-> "working", latest |-> Len(jobs) + 1, workdir |-> w]]
    /\ Unchanged(<<controls>>)

-----------------------------------------------------------------------------
(* Controls *)

\* An instruction reopens a completed task.
CreateControl(t, kind) ==
    /\ daemon = "up"
    /\ task[t].state \notin {"none", "cancelled"}
    /\ Within(0, 0, 1, 0)
    /\ controls' = [controls EXCEPT ![t] =
           Append(@, [kind |-> kind, delivered |-> NoJob, acked |-> NoJob])]
    /\ IF task[t].state = "completed" /\ kind = "instruction"
       THEN SetState(t, "checkpointed") ELSE UNCHANGED <<task, owner>>
    /\ Unchanged(<<jobs>>)

Checkpoint(t, j) ==
    /\ daemon = "up"
    /\ Current(t, j)
    /\ controls' = Delivered(t, j)
    /\ Unchanged(<<jobs, task, owner>>)

Acknowledge(t, j, ids) ==
    /\ daemon = "up"
    /\ Current(t, j)
    /\ MayAcknowledge(t, j, ids)
    /\ controls' = Acknowledged(t, j, ids)
    /\ Unchanged(<<jobs, task, owner>>)

-----------------------------------------------------------------------------
(* The dispatch pass looks at one queued job *)

PredecessorEnded(j) ==
    jobs[j].waits # NoJob => jobs[jobs[j].waits].state \in TerminalJobStates

\* A follow-up of a job that did not succeed is not dispatched.
PredecessorFailed(j) ==
    jobs[j].waits # NoJob /\ jobs[jobs[j].waits].state # "succeeded"

Looks(j) == daemon = "up" /\ jobs[j].state = "queued" /\ PredecessorEnded(j)

DropContinuation(j) ==
    /\ Looks(j)
    /\ PredecessorFailed(j)
    /\ jobs' = TransitionJob(jobs, j, "cancelled")
    /\ SetStateAndRelease(jobs[j].task,
           IF jobs[jobs[j].waits].state = "cancelled" THEN "cancelled" ELSE "blocked")
    /\ Unchanged(<<controls>>)

Writable(j) == jobs[j].task \notin ReadOnly

Claim(j) ==
    LET t == jobs[j].task
        w == jobs[j].cwd
    IN  /\ ~Paused(t)
        /\ Writable(j) => owner[w] \in {NoTask, t}
        /\ owner' = [owner EXCEPT ![w] = IF Writable(j) THEN t ELSE @]

\* The resources of the job: its task and, for a writer, its worktree.
ResourcesFree(j) ==
    \A k \in DOMAIN jobs : jobs[k].lock =>
        /\ jobs[k].task # jobs[j].task
        /\ jobs[k].cwd # jobs[j].cwd \/ ~Writable(k) \/ ~Writable(j)

\* The claim is committed even when the resources are not free.
ClaimInVain(j) ==
    /\ Looks(j)
    /\ ~PredecessorFailed(j)
    /\ Claim(j)
    /\ ~ResourcesFree(j)
    /\ Unchanged(<<jobs, task, controls>>)

\* The prompt of the first attempt delivers the inbox in the same stretch.
Dispatch(j) ==
    /\ Looks(j)
    /\ ~PredecessorFailed(j)
    /\ Claim(j)
    /\ ResourcesFree(j)
    /\ jobs' = [jobs EXCEPT ![j].state = "running", ![j].lock = TRUE, ![j].place = "provider"]
    /\ task' = WithState(jobs[j].task, "working")
    /\ controls' = Delivered(jobs[j].task, j)
    /\ Unchanged(<<>>)

-----------------------------------------------------------------------------
(* The running job *)

Runs(j, place) == daemon = "up" /\ jobs[j].place = place

LaunchCommand(j) ==
    /\ daemon = "up"
    /\ jobs[j].place \in {"provider", "gates"}
    /\ jobs[j].state = "running"
    /\ jobs[j].execution # "open"
    /\ jobs' = [jobs EXCEPT ![j].execution = "open"]
    /\ Unchanged(<<task, controls, owner>>)

CommandExits(j) ==
    /\ daemon = "up"
    /\ jobs[j].place \in {"provider", "gates"}
    /\ jobs[j].execution = "open"
    /\ jobs' = [jobs EXCEPT ![j].execution = "settled"]
    /\ Unchanged(<<task, controls, owner>>)

UndeliveredInstruction(t, ids) ==
    \E i \in DOMAIN controls[t] :
        controls[t][i].kind = "instruction" /\ controls[t][i].delivered = NoJob /\ i \notin ids

\* An instruction that ids do not acknowledge either.
PendingInstruction(t, ids) ==
    \E i \in DOMAIN controls[t] :
        controls[t][i].kind = "instruction" /\ controls[t][i].acked = NoJob /\ i \notin ids

\* The outcome finish() records for a reported one, once ids are acknowledged.
FinalOutcome(t, j, outcome, ids, queuesAnother) ==
    LET honest == IF outcome = "completed" /\ PendingInstruction(t, ids)
                  THEN "checkpointed" ELSE outcome
        another == queuesAnother \/ InStates(t, {"queued"}) \ {j} # {}
    IN  IF Paused(t) THEN "checkpointed"
        ELSE IF another THEN "working"
        ELSE IF honest = "working" THEN "checkpointed" ELSE honest

\* canQueueGoalFloorContinuation; open: the provider takes new work.
CanContinue(t, j, open) ==
    /\ ~Paused(t)
    /\ QueueHasRoom
    /\ InStates(t, {"queued"}) \ {j} = {}
    /\ open

\* The goal floor: a claim that is not believed yet.  idle: no tool was used.
Doubted(t, j, outcome, idle, open) ==
    /\ CanContinue(t, j, open)
    /\ \/ outcome = "blocked" /\ PriorClaimCount(t, j, "blocked") + 1 < 3
       \/ outcome = "completed" /\ t \in ReadOnly /\ idle /\ PriorClaimCount(t, j, "completed") < 1

Reports(j) ==
    /\ Runs(j, "provider")
    /\ jobs[j].state = "running"
    /\ jobs[j].execution = "settled"

Succeeded(j, outcome) ==
    [EndJob(jobs, j, "succeeded") EXCEPT ![j].claim = outcome]

\* An unproven claim: the same transaction queues a continuation.
Continue(j, outcome, ids, idle, open) ==
    LET t == jobs[j].task IN
    /\ Reports(j)
    /\ Within(0, 1, 0, 0)
    /\ Doubted(t, j, outcome, idle, open)
    /\ MayAcknowledge(t, j, ids)
    /\ jobs' = Append(Succeeded(j, outcome), NewJob(t, jobs[j].cwd, NoJob, TRUE))
    /\ controls' = Acknowledged(t, j, ids)
    /\ task' = [task EXCEPT ![t].state = FinalOutcome(t, j, outcome, ids, TRUE),
                            ![t].latest = Len(jobs) + 1]
    /\ owner' = OwnerAfter(t, task'[t].state, FALSE)
    /\ Unchanged(<<>>)

\* Any outcome but completed ends the job at once: no gates, no review.
Yield(j, outcome, ids, open) ==
    LET t == jobs[j].task IN
    /\ Reports(j)
    /\ outcome # "completed"
    /\ ~Doubted(t, j, outcome, FALSE, open)
    /\ MayAcknowledge(t, j, ids)
    /\ jobs' = Succeeded(j, outcome)
    /\ controls' = Acknowledged(t, j, ids)
    /\ SetState(t, FinalOutcome(t, j, outcome, ids, FALSE))
    /\ Unchanged(<<>>)

\* A completed claim, or a result without one, goes through the gates.
EnterGates(j, claim, idle, open) ==
    /\ Reports(j)
    /\ claim \in (Outcomes \cap {"completed"}) \cup {NoClaim}
    /\ claim = "completed" => ~Doubted(jobs[j].task, j, "completed", idle, open)
    /\ jobs' = [jobs EXCEPT ![j].place = "gates", ![j].claim = claim]
    /\ Unchanged(<<task, controls, owner>>)

PassGates(j, ids) ==
    LET t == jobs[j].task IN
    /\ Runs(j, "gates")
    /\ jobs[j].state = "running"
    /\ jobs[j].execution = "settled"
    /\ jobs[j].claim = NoClaim => ids = {}
    /\ MayAcknowledge(t, j, ids)
    /\ jobs' = EndJob(jobs, j, "succeeded")
    /\ controls' = Acknowledged(t, j, ids)
    /\ SetState(t, FinalOutcome(t, j, IF jobs[j].claim = NoClaim THEN "unknown" ELSE "completed",
                                ids, FALSE))
    /\ Unchanged(<<>>)

\* finishJob: the provider or a gate failed, or the cancelled job stopped.
FailOrStop(j) ==
    LET cancelled == jobs[j].state = "cancel_requested" IN
    /\ daemon = "up"
    /\ jobs[j].place \in {"provider", "gates"}
    /\ jobs' = [EndJob(jobs, j, IF cancelled THEN "cancelled" ELSE "failed")
                   EXCEPT ![j].claim = NoClaim]
    /\ SetStateAndRelease(jobs[j].task, IF cancelled THEN "cancelled" ELSE "blocked")
    /\ Unchanged(<<controls>>)

\* failUnexpected, after an exception (a false acknowledgment is one): the task
\* is blocked, in a commit of its own that a crash may forestall.
FailUnexpected(j) ==
    LET t == jobs[j].task IN
    /\ daemon = "up"
    /\ jobs[j].place \in {"provider", "gates"}
    /\ LET ended == [EndJob(jobs, j, IF jobs[j].state = "cancel_requested" THEN "cancelled" ELSE "failed")
                        EXCEPT ![j].claim = NoClaim] IN
       \/ /\ jobs' = ended
          /\ SetStateAndRelease(t, "blocked")
          /\ UNCHANGED <<daemon, cut, crashes>>
       \/ /\ Within(0, 0, 0, 1)
          /\ jobs' = Forgotten(ended)
          /\ daemon' = "down"
          /\ cut' = cut \cup {t}
          /\ crashes' = crashes + 1
          /\ UNCHANGED <<task, owner>>
    /\ UNCHANGED <<controls, interrupted>>

\* The finally of the runner: an open execution keeps the resources.
Release(j) ==
    /\ Runs(j, "finally")
    /\ jobs' = [jobs EXCEPT ![j].place = "none", ![j].lock = jobs[j].execution = "open"]
    /\ Unchanged(<<task, controls, owner>>)

\* The late handler or an operator settles an execution that outlived its job.
SettleExecution(j) ==
    LET t == jobs[j].task IN
    /\ daemon = "up"
    /\ jobs[j].state \in TerminalJobStates
    /\ jobs[j].execution = "open"
    /\ jobs' = [jobs EXCEPT ![j].execution = "settled", ![j].lock = FALSE]
    /\ owner' = IF \A k \in JobsOf(t) \ {j} : jobs[k].execution # "open"
                THEN Disowned(t) ELSE owner
    /\ Unchanged(<<task, controls>>)

-----------------------------------------------------------------------------
(* Cancellation *)

CancelQueued(js, S) == [j \in DOMAIN js |->
    IF j \in S THEN [js[j] EXCEPT !.state = IF @ = "queued" THEN "cancelled" ELSE "cancel_requested"]
    ELSE js[j]]

OnlyRunning(t, j) == InStates(t, PendingStates \ {"queued"}) = {j}

OnlyPending(t, j) == InStates(t, PendingStates) = {j}

CancelJob(j) ==
    LET t == jobs[j].task IN
    /\ daemon = "up"
    /\ jobs[j].state \in {"queued", "running"}
    /\ jobs' = CancelQueued(jobs, {j})
    /\ IF jobs[j].state = "queued" /\ OnlyPending(t, j)
       THEN SetState(t, "cancelled") ELSE UNCHANGED <<task, owner>>
    /\ Unchanged(<<controls>>)

CancelTask(t) ==
    /\ daemon = "up"
    /\ task[t].state # "none"
    /\ jobs' = CancelQueued(jobs, InStates(t, PendingStates))
    /\ SetState(t, "cancelled")
    /\ Unchanged(<<controls>>)

-----------------------------------------------------------------------------
(* Crash and restart *)

Crash ==
    /\ daemon # "down"
    /\ Within(0, 0, 0, 1)
    /\ crashes' = crashes + 1
    /\ daemon' = "down"
    /\ cut' = cut \cup interrupted
    /\ interrupted' = {}
    /\ jobs' = Forgotten(jobs)
    /\ UNCHANGED <<task, controls, owner>>

\* recoverInterruptedJobs.  gone: executions observed to be absent.  A job that
\* never launched anything is taken for an execution of an old daemon.
RecoverJobs(gone) ==
    LET active == {j \in DOMAIN jobs : jobs[j].state \in {"running", "cancel_requested"}} IN
    /\ daemon = "down"
    /\ gone \subseteq {j \in active : jobs[j].execution = "open"}
    /\ daemon' = "recovering"
    /\ interrupted' = {jobs[j].task : j \in active}
    /\ jobs' = [j \in DOMAIN jobs |->
           IF j \notin active THEN jobs[j] ELSE
           LET execution == IF jobs[j].execution = "none" THEN "open"
                            ELSE IF j \in gone THEN "settled" ELSE jobs[j].execution
           IN  [jobs[j] EXCEPT !.state = IF @ = "running" THEN "failed" ELSE "cancelled",
                               !.claim = NoClaim, !.execution = execution,
                               !.lock = execution = "open", !.place = "none"]]
    /\ UNCHANGED <<task, controls, owner, cut, crashes>>

\* start() then quarantines the dependents of each interrupted task.
RecoverTask(t) ==
    /\ daemon = "recovering"
    /\ t \in interrupted
    /\ interrupted' = interrupted \ {t}
    /\ jobs' = CancelQueued(jobs, InStates(t, {"queued"}))
    /\ task' = WithState(t, "unknown")
    /\ owner' = OwnerAfter(t, "unknown", TRUE)
    /\ UNCHANGED <<controls, daemon, cut, crashes>>

Started ==
    /\ daemon = "recovering"
    /\ interrupted = {}
    /\ daemon' = "up"
    /\ UNCHANGED <<jobs, task, controls, owner, interrupted, cut, crashes>>

-----------------------------------------------------------------------------
Next ==
    \/ \E t \in Tasks :
           \/ CreateMessage(t) \/ CancelTask(t) \/ RecoverTask(t)
           \/ \E w \in Worktrees : CreateRoom(t, w) \/ ResumeTask(t, w)
           \/ \E kind \in ControlKinds : CreateControl(t, kind)
           \/ \E j \in JobsOf(t) :
                  Checkpoint(t, j) \/ \E ids \in SUBSET DOMAIN controls[t] : Acknowledge(t, j, ids)
    \/ \E j \in DOMAIN jobs :
           \/ CreateHandoff(j) \/ RetryJob(j) \/ CancelJob(j)
           \/ DropContinuation(j) \/ ClaimInVain(j) \/ Dispatch(j)
           \/ LaunchCommand(j) \/ CommandExits(j) \/ FailOrStop(j) \/ FailUnexpected(j)
           \/ Release(j) \/ SettleExecution(j)
           \/ \E ids \in SUBSET DOMAIN controls[jobs[j].task], open, idle \in BOOLEAN :
                  \/ \E outcome \in Outcomes :
                         Continue(j, outcome, ids, idle, open) \/ Yield(j, outcome, ids, open)
                  \/ \E claim \in {"completed", NoClaim} : EnterGates(j, claim, idle, open)
                  \/ PassGates(j, ids)
    \/ \E gone \in SUBSET DOMAIN jobs : RecoverJobs(gone)
    \/ Crash
    \/ Started

Spec == Init /\ [][Next]_vars
=============================================================================
