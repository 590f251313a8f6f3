-------------------------- MODULE CoordinationProofs --------------------------
(***************************************************************************)
(* TLAPS proofs about Coordination: its types, the order of the control    *)
(* inbox, that no instruction is left behind a completed task, that a      *)
(* worktree is owned only by the task that is bound to it and kept by a    *)
(* checkpoint, that a working task has a job that works for it, and that   *)
(* the goal floor gives up.                                                *)
(***************************************************************************)
EXTENDS CoordinationInvariant, SequenceTheorems, FiniteSetTheorems, WellFoundedInduction, TLAPS

USE CoordinationAssumption

-----------------------------------------------------------------------------
(* The tables as functions *)

JobRows(n) ==
    [task : Tasks, cwd : Worktrees, state : PendingStates \cup TerminalJobStates,
     waits : 0..n, floor : BOOLEAN, after : Nat,
     claim : TaskStates \cup {NoClaim}, lock : BOOLEAN,
     execution : {"none", "open", "settled"},
     place : {"none", "provider", "gates", "finally"}]

Table(n) == [1..n -> JobRows(n)]
TaskRows(n) == [state : TaskStates \cup {"none"}, latest : 0..n,
                workdir : Worktrees \cup {NoWorktree}]
ControlRows(n) == [kind : ControlKinds, delivered : 0..n, acked : 0..n]

\* No job changes its task or tree, or is pending again once it has ended.
Progress(js, ks) ==
    \A j \in DOMAIN js :
        /\ ks[j].task = js[j].task /\ ks[j].cwd = js[j].cwd
        /\ ks[j].state \in PendingStates => js[j].state \in PendingStates

LEMMA JobsTable ==
    ASSUME TypeOK
    PROVE  Len(jobs) \in Nat /\ jobs \in Table(Len(jobs)) /\ DOMAIN jobs = 1..Len(jobs)
<1>1. jobs \in Seq(JobRows(Len(jobs)))
    BY DEF TypeOK, JobRows
<1> QED
    BY <1>1, LenProperties DEF Table

LEMMA TableIsSeq ==
    ASSUME NEW n \in Nat, NEW js \in Table(n)
    PROVE  js \in Seq(JobRows(n)) /\ Len(js) = n /\ DOMAIN js = 1..n
<1>1. js \in Seq(JobRows(n)) /\ DOMAIN js = 1..n
    BY SeqDef DEF Table
<1>2. Len(js) = n
    BY <1>1, LenProperties
<1> QED
    BY <1>1, <1>2

LEMMA FunctionIsSeq ==
    ASSUME NEW n \in Nat, NEW S, NEW f \in [1..n -> S]
    PROVE  f \in Seq(S)
BY SeqDef

LEMMA RowsGrow ==
    ASSUME NEW n \in Nat
    PROVE  /\ JobRows(n) \subseteq JobRows(n + 1)
           /\ TaskRows(n) \subseteq TaskRows(n + 1)
           /\ ControlRows(n) \subseteq ControlRows(n + 1)
BY DEF JobRows, TaskRows, ControlRows

LEMMA Appended ==
    ASSUME NEW n \in Nat, NEW js \in Table(n), NEW row \in JobRows(n)
    PROVE  /\ Append(js, row) \in Table(n + 1)
           /\ \A j \in 1..n : Append(js, row)[j] = js[j]
           /\ Append(js, row)[n + 1] = row
<1>1. js \in Seq(JobRows(n + 1)) /\ Len(js) = n /\ row \in JobRows(n + 1)
    BY TableIsSeq, RowsGrow, SeqMonotonic
<1>2. /\ Append(js, row) \in Seq(JobRows(n + 1)) /\ Len(Append(js, row)) = n + 1
      /\ \A j \in 1..n : Append(js, row)[j] = js[j]
      /\ Append(js, row)[n + 1] = row
    BY <1>1
<1> QED
    BY <1>2, LenProperties DEF Table

LEMMA Rewritten ==
    ASSUME NEW n \in Nat, NEW js \in Table(n), NEW j \in 1..n,
           NEW state \in PendingStates \cup TerminalJobStates
    PROVE  /\ TransitionJob(js, j, state) \in Table(n)
           /\ EndJob(js, j, state) \in Table(n)
           /\ state \in TerminalJobStates \/ js[j].state \in PendingStates =>
                 /\ Progress(js, TransitionJob(js, j, state))
                 /\ Progress(js, EndJob(js, j, state))
<1>1. /\ [js[j] EXCEPT !.state = state] \in JobRows(n)
      /\ [js[j] EXCEPT !.state = state, !.place = "finally"] \in JobRows(n)
    BY DEF Table, JobRows
<1>2. /\ TransitionJob(js, j, state) = [js EXCEPT ![j] = [js[j] EXCEPT !.state = state]]
      /\ EndJob(js, j, state)
            = [js EXCEPT ![j] = [js[j] EXCEPT !.state = state, !.place = "finally"]]
    BY DEF TransitionJob, EndJob, Table, JobRows
<1>3. TransitionJob(js, j, state) \in Table(n) /\ EndJob(js, j, state) \in Table(n)
    BY <1>1, <1>2 DEF Table
<1>4. js[j] \in JobRows(n)
    BY DEF Table
<1> QED
    BY <1>1, <1>2, <1>3, <1>4 DEF Table, JobRows, Progress, PendingStates, TerminalJobStates

LEMMA ForgottenTable ==
    ASSUME NEW n \in Nat, NEW js \in Table(n)
    PROVE  Forgotten(js) \in Table(n) /\ Progress(js, Forgotten(js))
BY DEF Forgotten, Table, JobRows, Progress

LEMMA CancelledTable ==
    ASSUME NEW n \in Nat, NEW js \in Table(n), NEW S,
           \A j \in S \cap (1..n) : js[j].state \in PendingStates
    PROVE  CancelQueued(js, S) \in Table(n) /\ Progress(js, CancelQueued(js, S))
BY DEF CancelQueued, Table, JobRows, Progress, PendingStates, TerminalJobStates

LEMMA Progresses ==
    ASSUME NEW n, NEW js \in Table(n), NEW ks \in Table(n), NEW ls \in Table(n),
           Progress(js, ks), Progress(ks, ls)
    PROVE  Progress(js, ls)
BY DEF Progress, Table

-----------------------------------------------------------------------------
(* Controls *)

LEMMA InboxSeq ==
    ASSUME TypeOK, NEW t \in Tasks
    PROVE  /\ controls[t] \in Seq(ControlRows(Len(jobs)))
           /\ Len(controls[t]) \in Nat /\ DOMAIN controls[t] = 1..Len(controls[t])
           /\ \A i \in DOMAIN controls[t] : controls[t][i] \in ControlRows(Len(jobs))
<1>1. controls[t] \in Seq(ControlRows(Len(jobs)))
    BY DEF TypeOK, ControlRows
<1> QED
    BY <1>1, LenProperties

LEMMA MarkedRow ==
    ASSUME NEW n \in Nat, NEW row \in ControlRows(n), NEW j \in 0..n
    PROVE  /\ [row EXCEPT !.delivered = j] \in ControlRows(n)
           /\ [row EXCEPT !.acked = j] \in ControlRows(n)
BY DEF ControlRows

\* What a step may do to an inbox: nothing, deliver, acknowledge, or append.
LEMMA DeliveredType ==
    ASSUME TypeOK, NEW t \in Tasks, NEW j \in DOMAIN jobs
    PROVE  /\ Delivered(t, j) \in [Tasks -> Seq(ControlRows(Len(jobs)))]
           /\ \A u \in Tasks \ {t} : Delivered(t, j)[u] = controls[u]
           /\ DOMAIN Delivered(t, j)[t] = DOMAIN controls[t]
           /\ \A i \in DOMAIN controls[t] : Delivered(t, j)[t][i] =
                 IF controls[t][i].acked = NoJob
                 THEN [controls[t][i] EXCEPT !.delivered = j] ELSE controls[t][i]
<1> DEFINE inbox == [i \in DOMAIN controls[t] |->
                        IF controls[t][i].acked = NoJob
                        THEN [controls[t][i] EXCEPT !.delivered = j] ELSE controls[t][i]]
<1>1. \A i \in DOMAIN controls[t] : inbox[i] \in ControlRows(Len(jobs))
    <2> SUFFICES ASSUME NEW i \in DOMAIN controls[t] PROVE inbox[i] \in ControlRows(Len(jobs))
        OBVIOUS
    <2>1. controls[t][i] \in ControlRows(Len(jobs)) /\ Len(jobs) \in Nat /\ j \in 0..Len(jobs)
        BY InboxSeq, JobsTable
    <2> QED
        BY <2>1, MarkedRow
<1>2. inbox \in Seq(ControlRows(Len(jobs)))
    <2>1. inbox \in [1..Len(controls[t]) -> ControlRows(Len(jobs))]
        BY <1>1, InboxSeq
    <2> HIDE DEF inbox
    <2> QED
        BY <2>1, InboxSeq, FunctionIsSeq
<1>3. controls \in [Tasks -> Seq(ControlRows(Len(jobs)))]
    BY DEF TypeOK, ControlRows
<1>4. Delivered(t, j) = [controls EXCEPT ![t] = inbox]
    BY DEF Delivered
<1> QED
    BY <1>2, <1>3, <1>4

LEMMA AcknowledgedType ==
    ASSUME TypeOK, NEW t \in Tasks, NEW j \in DOMAIN jobs, NEW ids
    PROVE  /\ Acknowledged(t, j, ids) \in [Tasks -> Seq(ControlRows(Len(jobs)))]
           /\ \A u \in Tasks \ {t} : Acknowledged(t, j, ids)[u] = controls[u]
           /\ DOMAIN Acknowledged(t, j, ids)[t] = DOMAIN controls[t]
           /\ \A i \in DOMAIN controls[t] : Acknowledged(t, j, ids)[t][i] =
                 IF i \in ids /\ controls[t][i].acked = NoJob
                 THEN [controls[t][i] EXCEPT !.acked = j] ELSE controls[t][i]
<1> DEFINE inbox == [i \in DOMAIN controls[t] |->
                        IF i \in ids /\ controls[t][i].acked = NoJob
                        THEN [controls[t][i] EXCEPT !.acked = j] ELSE controls[t][i]]
<1>1. \A i \in DOMAIN controls[t] : inbox[i] \in ControlRows(Len(jobs))
    <2> SUFFICES ASSUME NEW i \in DOMAIN controls[t] PROVE inbox[i] \in ControlRows(Len(jobs))
        OBVIOUS
    <2>1. controls[t][i] \in ControlRows(Len(jobs)) /\ Len(jobs) \in Nat /\ j \in 0..Len(jobs)
        BY InboxSeq, JobsTable
    <2> QED
        BY <2>1, MarkedRow
<1>2. inbox \in Seq(ControlRows(Len(jobs)))
    <2>1. inbox \in [1..Len(controls[t]) -> ControlRows(Len(jobs))]
        BY <1>1, InboxSeq
    <2> HIDE DEF inbox
    <2> QED
        BY <2>1, InboxSeq, FunctionIsSeq
<1>3. controls \in [Tasks -> Seq(ControlRows(Len(jobs)))]
    BY DEF TypeOK, ControlRows
<1>4. Acknowledged(t, j, ids) = [controls EXCEPT ![t] = inbox]
    BY DEF Acknowledged
<1> QED
    BY <1>2, <1>3, <1>4

-----------------------------------------------------------------------------
(* What a step does to each table *)

\* A task has a tree from its first job on, which is also the tree of all its
\* pending jobs.
TasksAreBound ==
    /\ \A t \in Tasks : task[t].state = "none" <=> task[t].workdir = NoWorktree
    /\ \A t \in interrupted : task[t].state # "none"
    /\ \A j \in DOMAIN jobs :
          /\ task[jobs[j].task].state # "none"
          /\ jobs[j].state \in PendingStates => jobs[j].cwd = task[jobs[j].task].workdir

Bound == TypeOK /\ TasksAreBound /\ OwnershipFollowsTask

JobsKept == jobs' \in Table(Len(jobs)) /\ Progress(jobs, jobs')

TasksKept ==
    /\ task' \in [Tasks -> TaskRows(Len(jobs))]
    /\ \A t \in Tasks : /\ task'[t].workdir = task[t].workdir
                        /\ task'[t].state = "none" <=> task[t].state = "none"

InboxesKept == controls' \in [Tasks -> Seq(ControlRows(Len(jobs)))]

\* A worktree stays with its task, is given up, or is taken by a pending job.
OwnersKept ==
    /\ owner' \in [Worktrees -> Tasks \cup {NoTask}]
    /\ \A w \in Worktrees :
          \/ owner'[w] \in {owner[w], NoTask}
          \/ \E j \in DOMAIN jobs : /\ jobs[j].state \in PendingStates /\ Writable(j)
                                   /\ owner'[w] = jobs[j].task /\ w = jobs[j].cwd

ProcessKept ==
    /\ daemon' \in {"up", "recovering", "down"}
    /\ interrupted' \subseteq {t \in Tasks : task[t].state # "none"}
    /\ cut' \subseteq Tasks
    /\ crashes' \in Nat

NoJobCreated == JobsKept /\ TasksKept /\ InboxesKept /\ OwnersKept /\ ProcessKept

LEMMA BoundRow ==
    ASSUME Bound, NEW j \in DOMAIN jobs
    PROVE  /\ j \in Nat \ {0} /\ jobs[j] \in JobRows(Len(jobs)) /\ jobs[j].task \in Tasks
           /\ j \in 1..Len(jobs) /\ Len(jobs) \in Nat /\ task[jobs[j].task].state # "none"
<1>1. Len(jobs) \in Nat /\ jobs \in Table(Len(jobs)) /\ DOMAIN jobs = 1..Len(jobs)
    BY JobsTable DEF Bound
<1>2. jobs[j] \in JobRows(Len(jobs))
    BY <1>1 DEF Table
<1> QED
    BY <1>1, <1>2 DEF JobRows, Bound, TasksAreBound

LEMMA SameJobs ==
    ASSUME Bound, UNCHANGED jobs
    PROVE  JobsKept
BY JobsTable DEF Bound, JobsKept, Progress

LEMMA SameTasks ==
    ASSUME Bound, UNCHANGED task
    PROVE  TasksKept
BY DEF Bound, TypeOK, TasksKept, TaskRows

LEMMA SameInboxes ==
    ASSUME Bound, UNCHANGED controls
    PROVE  InboxesKept
BY DEF Bound, TypeOK, InboxesKept, ControlRows

LEMMA SameOwners ==
    ASSUME Bound, UNCHANGED owner
    PROVE  OwnersKept
BY DEF Bound, TypeOK, OwnersKept

LEMMA SameProcess ==
    ASSUME Bound, UNCHANGED <<daemon, interrupted, cut, crashes>>
    PROVE  ProcessKept
BY DEF Bound, TypeOK, TasksAreBound, ProcessKept

LEMMA StateSet ==
    ASSUME Bound, NEW t \in Tasks, NEW state \in TaskStates, task[t].state # "none",
           task' = WithState(t, state)
    PROVE  TasksKept
<1>1. task \in [Tasks -> TaskRows(Len(jobs))]
    BY DEF Bound, TypeOK, TaskRows
<1> QED
    BY <1>1 DEF TasksKept, TaskRows, WithState, TaskStates

LEMMA GivenUp ==
    ASSUME Bound, NEW t, owner' \in {owner, Disowned(t)}
    PROVE  OwnersKept
BY DEF Bound, TypeOK, OwnersKept, Disowned

LEMMA SetStateFacts ==
    ASSUME Bound, NEW t \in Tasks, NEW state \in TaskStates, task[t].state # "none",
           SetState(t, state) \/ SetStateAndRelease(t, state)
    PROVE  TasksKept /\ OwnersKept
<1>1. task' = WithState(t, state) /\ owner' \in {owner, Disowned(t)}
    BY DEF SetState, SetStateAndRelease, OwnerAfter
<1> QED
    BY <1>1, StateSet, GivenUp

LEMMA RowRewritten ==
    ASSUME Bound, NEW j \in DOMAIN jobs, NEW row \in JobRows(Len(jobs)),
           row.task = jobs[j].task, row.cwd = jobs[j].cwd,
           row.state \in PendingStates => jobs[j].state \in PendingStates,
           jobs' = [jobs EXCEPT ![j] = row]
    PROVE  JobsKept
BY JobsTable DEF Bound, JobsKept, Table, Progress

-----------------------------------------------------------------------------
(* Actions that create no job *)

LEMMA ControlKept ==
    ASSUME Bound, NEW t \in Tasks, NEW kind \in ControlKinds, CreateControl(t, kind)
    PROVE  NoJobCreated
<1>1. TasksKept /\ OwnersKept
    BY SetStateFacts, SameTasks, SameOwners DEF CreateControl, TaskStates
<1>2. InboxesKept
    <2> DEFINE row == [kind |-> kind, delivered |-> NoJob, acked |-> NoJob]
    <2>1. row \in ControlRows(Len(jobs))
        BY JobsTable DEF ControlRows, NoJob, Bound
    <2>2. Append(controls[t], row) \in Seq(ControlRows(Len(jobs)))
        BY <2>1, InboxSeq DEF Bound
    <2>3. controls' = [controls EXCEPT ![t] = Append(controls[t], row)]
        BY DEF CreateControl
    <2> QED
        BY <2>2, <2>3 DEF InboxesKept, Bound, TypeOK, ControlRows
<1> QED
    BY <1>1, <1>2, SameJobs, SameProcess DEF NoJobCreated, CreateControl, Unchanged

LEMMA InboxKept ==
    ASSUME Bound, NEW t \in Tasks, NEW j \in JobsOf(t), NEW ids,
           Checkpoint(t, j) \/ Acknowledge(t, j, ids)
    PROVE  NoJobCreated
<1>1. InboxesKept
    BY DeliveredType, AcknowledgedType DEF InboxesKept, Checkpoint, Acknowledge, JobsOf, Bound
<1> QED
    BY <1>1, SameJobs, SameTasks, SameOwners, SameProcess
       DEF NoJobCreated, Checkpoint, Acknowledge, Unchanged

LEMMA ClaimKept ==
    ASSUME Bound, NEW j \in DOMAIN jobs, jobs[j].state = "queued", Claim(j)
    PROVE  OwnersKept
<1>1. jobs[j].task \in Tasks /\ jobs[j].cwd \in Worktrees
    BY BoundRow DEF JobRows
<1>2. owner' = [owner EXCEPT ![jobs[j].cwd] = IF Writable(j) THEN jobs[j].task ELSE @]
    BY DEF Claim
<1> QED
    BY <1>1, <1>2 DEF OwnersKept, Bound, TypeOK, PendingStates

LEMMA PassKept ==
    ASSUME Bound, NEW j \in DOMAIN jobs,
           DropContinuation(j) \/ ClaimInVain(j) \/ Dispatch(j)
    PROVE  NoJobCreated
<1> USE BoundRow, JobsTable
<1>1. CASE DropContinuation(j)
    <2>1. JobsKept
        BY <1>1, Rewritten DEF DropContinuation, JobsKept, Bound, TerminalJobStates
    <2>2. TasksKept /\ OwnersKept
        BY <1>1, SetStateFacts DEF DropContinuation, TaskStates
    <2> QED
        BY <1>1, <2>1, <2>2, SameInboxes, SameProcess
           DEF NoJobCreated, DropContinuation, Unchanged
<1>2. CASE ClaimInVain(j)
    BY <1>2, SameJobs, SameTasks, SameInboxes, ClaimKept, SameProcess
       DEF NoJobCreated, ClaimInVain, Looks, Unchanged
<1>3. CASE Dispatch(j)
    <2>1. JobsKept
        <3> DEFINE row == [jobs[j] EXCEPT !.state = "running", !.lock = TRUE,
                                          !.place = "provider"]
        <3>1. jobs[j] \in JobRows(Len(jobs)) /\ jobs[j].state \in PendingStates
            BY <1>3, BoundRow DEF Dispatch, Looks, PendingStates
        <3>2. row \in JobRows(Len(jobs)) /\ row.task = jobs[j].task /\ row.cwd = jobs[j].cwd
            BY <3>1 DEF JobRows, PendingStates
        <3>3. jobs' = [jobs EXCEPT ![j] = row]
            BY <1>3 DEF Dispatch
        <3> QED
            BY <3>1, <3>2, <3>3, RowRewritten
    <2>2. TasksKept
        BY <1>3, StateSet DEF Dispatch, TaskStates
    <2>3. InboxesKept
        BY <1>3, DeliveredType DEF Dispatch, InboxesKept, Bound
    <2> QED
        BY <1>3, <2>1, <2>2, <2>3, ClaimKept, SameProcess
           DEF NoJobCreated, Dispatch, Looks, Unchanged
<1> QED
    BY <1>1, <1>2, <1>3

LEMMA OutcomeType ==
    ASSUME Bound, NEW t, NEW j, NEW outcome \in TaskStates, NEW ids, NEW another
    PROVE  FinalOutcome(t, j, outcome, ids, another) \in TaskStates
BY DEF FinalOutcome, TaskStates

LEMMA EndKept ==
    ASSUME Bound, NEW j \in DOMAIN jobs, NEW state \in TerminalJobStates,
           NEW claim \in TaskStates \cup {NoClaim}
    PROVE  /\ [EndJob(jobs, j, state) EXCEPT ![j].claim = claim] \in Table(Len(jobs))
           /\ Progress(jobs, [EndJob(jobs, j, state) EXCEPT ![j].claim = claim])
<1> DEFINE row == [jobs[j] EXCEPT !.state = state, !.place = "finally", !.claim = claim]
<1>1. jobs[j] \in JobRows(Len(jobs)) /\ jobs \in Table(Len(jobs)) /\ DOMAIN jobs = 1..Len(jobs)
    BY BoundRow, JobsTable DEF Bound
<1>2. row \in JobRows(Len(jobs))
    BY <1>1 DEF JobRows
<1>3. row.task = jobs[j].task /\ row.cwd = jobs[j].cwd /\ row.state = state
    BY <1>1 DEF JobRows
<1>4. [EndJob(jobs, j, state) EXCEPT ![j].claim = claim] = [jobs EXCEPT ![j] = row]
    BY <1>1 DEF EndJob, Table, JobRows
<1> HIDE DEF row
<1> QED
    BY <1>1, <1>2, <1>3, <1>4 DEF Table, Progress, TerminalJobStates, PendingStates

LEMMA RunningKept ==
    ASSUME Bound, NEW j \in DOMAIN jobs,
           \/ LaunchCommand(j) \/ CommandExits(j) \/ Release(j)
           \/ \E claim \in {"completed", NoClaim}, idle, open \in BOOLEAN :
                 EnterGates(j, claim, idle, open)
    PROVE  NoJobCreated
<1>1. JobsKept
    <2>1. jobs[j] \in JobRows(Len(jobs))
        BY BoundRow
    <2>2. CASE LaunchCommand(j)
        <3>1. [jobs[j] EXCEPT !.execution = "open"] \in JobRows(Len(jobs))
            BY <2>1 DEF JobRows
        <3> QED
            BY <2>1, <2>2, <3>1, RowRewritten DEF LaunchCommand, JobRows
    <2>3. CASE CommandExits(j)
        <3>1. [jobs[j] EXCEPT !.execution = "settled"] \in JobRows(Len(jobs))
            BY <2>1 DEF JobRows
        <3> QED
            BY <2>1, <2>3, <3>1, RowRewritten DEF CommandExits, JobRows
    <2>4. CASE Release(j)
        <3> DEFINE row == [jobs[j] EXCEPT !.place = "none", !.lock = jobs[j].execution = "open"]
        <3>1. row \in JobRows(Len(jobs))
            BY <2>1 DEF JobRows
        <3>2. row.task = jobs[j].task /\ row.cwd = jobs[j].cwd /\ row.state = jobs[j].state
            BY <2>1 DEF JobRows
        <3>3. jobs' = [jobs EXCEPT ![j] = row]
            BY <2>4 DEF Release
        <3> QED
            BY <3>1, <3>2, <3>3, RowRewritten
    <2>5. ASSUME NEW claim \in {"completed", NoClaim}, NEW idle, NEW open,
                 EnterGates(j, claim, idle, open)
          PROVE  JobsKept
        <3> DEFINE row == [jobs[j] EXCEPT !.place = "gates", !.claim = claim]
        <3>1. row \in JobRows(Len(jobs))
            BY <2>1 DEF JobRows, TaskStates
        <3>2. row.task = jobs[j].task /\ row.cwd = jobs[j].cwd /\ row.state = jobs[j].state
            BY <2>1 DEF JobRows
        <3>3. jobs' = [jobs EXCEPT ![j] = row]
            BY <2>5 DEF EnterGates
        <3> QED
            BY <3>1, <3>2, <3>3, RowRewritten
    <2> QED
        BY <2>2, <2>3, <2>4, <2>5
<1> QED
    BY <1>1, SameTasks, SameInboxes, SameOwners, SameProcess
       DEF NoJobCreated, LaunchCommand, CommandExits, Release, EnterGates, Unchanged

LEMMA ReportKept ==
    ASSUME Bound, NEW j \in DOMAIN jobs, NEW ids,
           \/ \E outcome \in Outcomes, open \in BOOLEAN : Yield(j, outcome, ids, open)
           \/ PassGates(j, ids)
    PROVE  NoJobCreated
<1>1. /\ jobs[j].task \in Tasks /\ task[jobs[j].task].state # "none"
      /\ jobs[j] \in JobRows(Len(jobs)) /\ Outcomes \subseteq TaskStates
    BY BoundRow DEF TaskStates
<1>2. InboxesKept
    <2>1. controls' = Acknowledged(jobs[j].task, j, ids)
        BY DEF Yield, PassGates
    <2> QED
        BY <1>1, <2>1, AcknowledgedType DEF InboxesKept, Bound
<1>3. ASSUME NEW outcome \in Outcomes, NEW open, Yield(j, outcome, ids, open)
      PROVE  JobsKept /\ TasksKept /\ OwnersKept
    <2>1. JobsKept
        BY <1>1, <1>3, EndKept DEF Yield, Succeeded, JobsKept, TerminalJobStates
    <2> QED
        BY <1>1, <1>3, <2>1, OutcomeType, SetStateFacts DEF Yield
<1>4. ASSUME PassGates(j, ids) PROVE JobsKept /\ TasksKept /\ OwnersKept
    <2>1. JobsKept
        BY <1>4, JobsTable, Rewritten DEF PassGates, JobsKept, TerminalJobStates, Bound
    <2>2. (IF jobs[j].claim = NoClaim THEN "unknown" ELSE "completed") \in TaskStates
        BY DEF TaskStates
    <2>3. PICK final \in TaskStates : SetState(jobs[j].task, final)
        BY <1>4, <2>2, OutcomeType DEF PassGates
    <2>4. /\ task' = WithState(jobs[j].task, final)
          /\ owner' \in {owner, Disowned(jobs[j].task)}
        BY <2>3 DEF SetState, OwnerAfter
    <2>5. TasksKept
        BY <1>1, <2>4, StateSet
    <2>6. OwnersKept
        BY <2>4, GivenUp
    <2> QED
        BY <2>1, <2>5, <2>6
<1> QED
    BY <1>2, <1>3, <1>4, SameProcess DEF NoJobCreated, Yield, PassGates, Unchanged

LEMMA FailureKept ==
    ASSUME Bound, NEW j \in DOMAIN jobs, FailOrStop(j) \/ FailUnexpected(j)
    PROVE  NoJobCreated
<1> DEFINE state == IF jobs[j].state = "cancel_requested" THEN "cancelled" ELSE "failed"
           ended == [EndJob(jobs, j, state) EXCEPT ![j].claim = NoClaim]
<1>1. /\ jobs[j].task \in Tasks /\ task[jobs[j].task].state # "none"
      /\ Len(jobs) \in Nat /\ jobs \in Table(Len(jobs)) /\ DOMAIN jobs = 1..Len(jobs)
    BY BoundRow, JobsTable DEF Bound
<1>2. ended \in Table(Len(jobs)) /\ Progress(jobs, ended)
    BY EndKept DEF TerminalJobStates
<1>3. Forgotten(ended) \in Table(Len(jobs)) /\ Progress(jobs, Forgotten(ended))
    BY <1>1, <1>2, ForgottenTable, Progresses
<1>4. CASE FailOrStop(j)
    <2>1. JobsKept
        BY <1>2, <1>4 DEF FailOrStop, JobsKept
    <2>2. TasksKept /\ OwnersKept
        BY <1>1, <1>4, SetStateFacts DEF FailOrStop, TaskStates
    <2> QED
        BY <1>4, <2>1, <2>2, SameInboxes, SameProcess DEF FailOrStop, Unchanged, NoJobCreated
<1>5. CASE FailUnexpected(j) /\ jobs' = ended /\ SetStateAndRelease(jobs[j].task, "blocked")
           /\ UNCHANGED <<daemon, cut, crashes>>
    <2>1. TasksKept /\ OwnersKept
        BY <1>1, <1>5, SetStateFacts DEF TaskStates
    <2> QED
        BY <1>2, <1>5, <2>1, SameInboxes, SameProcess
           DEF FailUnexpected, NoJobCreated, JobsKept
<1>6. CASE FailUnexpected(j) /\ jobs' = Forgotten(ended) /\ daemon' = "down"
           /\ cut' = cut \cup {jobs[j].task} /\ crashes' = crashes + 1
           /\ UNCHANGED <<task, owner>>
    <2>1. ProcessKept
        BY <1>1, <1>6 DEF FailUnexpected, ProcessKept, Bound, TypeOK, TasksAreBound
    <2> QED
        BY <1>3, <1>6, <2>1, SameTasks, SameOwners, SameInboxes
           DEF FailUnexpected, NoJobCreated, JobsKept
<1> QED
    BY <1>4, <1>5, <1>6 DEF FailUnexpected

LEMMA SettleKept ==
    ASSUME Bound, NEW j \in DOMAIN jobs, SettleExecution(j)
    PROVE  NoJobCreated
<1> DEFINE row == [jobs[j] EXCEPT !.execution = "settled", !.lock = FALSE]
<1>1. jobs[j] \in JobRows(Len(jobs))
    BY BoundRow
<1>2. /\ row \in JobRows(Len(jobs)) /\ row.task = jobs[j].task /\ row.cwd = jobs[j].cwd
      /\ row.state = jobs[j].state
    BY <1>1 DEF JobRows
<1>3. jobs' = [jobs EXCEPT ![j] = row]
    BY DEF SettleExecution
<1>4. JobsKept
    BY <1>2, <1>3, RowRewritten
<1>5. OwnersKept
    BY GivenUp DEF SettleExecution
<1> QED
    BY <1>4, <1>5, SameTasks, SameInboxes, SameProcess
       DEF NoJobCreated, SettleExecution, Unchanged

LEMMA CancelKept ==
    ASSUME Bound,
           (\E j \in DOMAIN jobs : CancelJob(j)) \/ (\E t \in Tasks : CancelTask(t))
    PROVE  NoJobCreated
<1> USE DEF TaskStates
<1>1. ASSUME NEW j \in DOMAIN jobs, CancelJob(j) PROVE JobsKept /\ TasksKept /\ OwnersKept
    <2>1. JobsKept
        BY <1>1, JobsTable, CancelledTable
           DEF CancelJob, JobsKept, Bound, PendingStates
    <2> QED
        BY <1>1, <2>1, BoundRow, SetStateFacts, SameTasks, SameOwners DEF CancelJob
<1>2. ASSUME NEW t \in Tasks, CancelTask(t) PROVE JobsKept /\ TasksKept /\ OwnersKept
    <2>1. \A j \in InStates(t, PendingStates) : jobs[j].state \in PendingStates
        BY DEF InStates
    <2>2. JobsKept
        BY <1>2, <2>1, JobsTable, CancelledTable DEF CancelTask, JobsKept, Bound
    <2> QED
        BY <1>2, <2>2, SetStateFacts DEF CancelTask
<1>3. UNCHANGED <<controls, daemon, interrupted, cut, crashes>>
    BY DEF CancelJob, CancelTask, Unchanged
<1> QED
    BY <1>1, <1>2, <1>3, SameInboxes, SameProcess DEF NoJobCreated

LEMMA RecoverKept ==
    ASSUME Bound, NEW gone, RecoverJobs(gone)
    PROVE  NoJobCreated
<1> DEFINE active == {j \in DOMAIN jobs : jobs[j].state \in {"running", "cancel_requested"}}
<1>1. /\ interrupted' = {jobs[j].task : j \in active} /\ daemon' = "recovering"
      /\ UNCHANGED <<task, controls, owner, cut, crashes>>
    BY DEF RecoverJobs
<1>2. ProcessKept
    <2>1. \A j \in active : jobs[j].task \in {t \in Tasks : task[t].state # "none"}
        BY BoundRow
    <2> QED
        BY <1>1, <2>1 DEF ProcessKept, Bound, TypeOK
<1>3. DOMAIN jobs' = DOMAIN jobs /\ jobs' = [j \in DOMAIN jobs |-> jobs'[j]]
    BY DEF RecoverJobs
<1>4. ASSUME NEW j \in DOMAIN jobs
      PROVE  /\ jobs'[j] \in JobRows(Len(jobs))
             /\ jobs'[j].task = jobs[j].task /\ jobs'[j].cwd = jobs[j].cwd
             /\ jobs'[j].state \in PendingStates => jobs[j].state \in PendingStates
    <2>1. jobs[j] \in JobRows(Len(jobs))
        BY BoundRow
    <2>2. CASE j \notin active
        BY <2>1, <2>2 DEF RecoverJobs
    <2>3. CASE j \in active
        <3> DEFINE execution == IF jobs[j].execution = "none" THEN "open"
                                ELSE IF j \in gone THEN "settled" ELSE jobs[j].execution
                   state == IF jobs[j].state = "running" THEN "failed" ELSE "cancelled"
                   lock == execution = "open"
                   row == [jobs[j] EXCEPT !.state = state, !.claim = NoClaim,
                              !.execution = execution, !.lock = lock, !.place = "none"]
        <3>1. /\ execution \in {"none", "open", "settled"}
              /\ state \in {"failed", "cancelled"} /\ lock \in BOOLEAN
            BY <2>1 DEF JobRows
        <3>2. jobs'[j] = row
            BY <2>3 DEF RecoverJobs
        <3> HIDE DEF execution, state, lock
        <3>3. /\ row \in JobRows(Len(jobs)) /\ row.task = jobs[j].task /\ row.cwd = jobs[j].cwd
              /\ row.state \in {"failed", "cancelled"}
            BY <2>1, <3>1 DEF JobRows, TerminalJobStates
        <3> QED
            BY <3>2, <3>3 DEF PendingStates
    <2> QED
        BY <2>2, <2>3
<1>5. JobsKept
    <2>1. jobs' \in Table(Len(jobs))
        BY <1>3, <1>4, JobsTable DEF Table, Bound
    <2> QED
        BY <1>4, <2>1 DEF JobsKept, Progress
<1> QED
    BY <1>1, <1>2, <1>5, SameTasks, SameInboxes, SameOwners DEF NoJobCreated

LEMMA RestartKept ==
    ASSUME Bound, Crash \/ Started \/ \E t \in Tasks : RecoverTask(t)
    PROVE  NoJobCreated
<1>1. CASE Crash
    <2>1. JobsKept
        BY <1>1, JobsTable, ForgottenTable DEF Crash, JobsKept, Bound
    <2>2. ProcessKept
        BY <1>1 DEF Crash, ProcessKept, Bound, TypeOK
    <2> QED
        BY <1>1, <2>1, <2>2, SameTasks, SameInboxes, SameOwners DEF Crash, NoJobCreated
<1>2. CASE Started
    <2>1. ProcessKept
        BY <1>2 DEF Started, ProcessKept, Bound, TypeOK
    <2> QED
        BY <1>2, <2>1, SameJobs, SameTasks, SameInboxes, SameOwners DEF Started, NoJobCreated
<1>3. ASSUME NEW t \in Tasks, RecoverTask(t) PROVE NoJobCreated
    <2>1. JobsKept
        <3>1. \A j \in InStates(t, {"queued"}) : jobs[j].state \in PendingStates
            BY DEF InStates, PendingStates
        <3> QED
            BY <1>3, <3>1, JobsTable, CancelledTable DEF RecoverTask, JobsKept, Bound
    <2>2. TasksKept
        BY <1>3, StateSet DEF RecoverTask, TaskStates, Bound, TasksAreBound
    <2>3. OwnersKept
        BY <1>3, GivenUp DEF RecoverTask, OwnerAfter
    <2>4. ProcessKept
        BY <1>3 DEF RecoverTask, ProcessKept, Bound, TypeOK, TasksAreBound
    <2> QED
        BY <1>3, <2>1, <2>2, <2>3, <2>4, SameInboxes DEF RecoverTask, NoJobCreated
<1> QED
    BY <1>1, <1>2, <1>3

-----------------------------------------------------------------------------
(* Actions that create one job *)

LEMMA NewestIsLast ==
    ASSUME NEW n \in Nat, NEW S, S \subseteq 1..n, S # {}
    PROVE  Newest(S) \in S /\ \A k \in S : k <= Newest(S)
<1> DEFINE T == {n - k : k \in S}
<1>1. T \subseteq Nat /\ T # {}
    OBVIOUS
<1>2. PICK x \in T : \A y \in T : ~(<<y, x>> \in OpToRel(<, Nat))
    BY <1>1, NatLessThanWellFounded, WFMin
<1>3. PICK k \in S : x = n - k
    BY <1>2
<1>4. \A m \in S : m <= k
    <2> SUFFICES ASSUME NEW m \in S, m > k PROVE FALSE
        BY <1>3
    <2>1. n - m \in T /\ n - m \in Nat /\ x \in Nat /\ n - m < x
        BY <1>3
    <2>2. <<n - m, x>> \in Nat \X Nat
        BY <2>1
    <2>3. <<n - m, x>> \in OpToRel(<, Nat)
        BY <2>1, <2>2 DEF OpToRel
    <2> QED
        BY <1>2, <2>1, <2>3
<1>5. \E j \in S : \A m \in S : m <= j
    BY <1>3, <1>4
<1> QED
    BY <1>5 DEF Newest

\* One more job, queued for task t; the task may move to another tree meanwhile.
OneJobCreated(t) ==
    LET n == Len(jobs) + 1 IN
    /\ jobs' \in Table(n)
    /\ Progress(jobs, jobs')
    /\ jobs'[n].task = t /\ jobs'[n].cwd = task'[t].workdir
    /\ task' \in [Tasks -> TaskRows(n)]
    /\ \A u \in Tasks \ {t} : task'[u] = task[u]
    /\ task'[t].state # "none" /\ task'[t].workdir # NoWorktree
    /\ \A j \in JobsOf(t) : jobs[j].state \in PendingStates => jobs[j].cwd = task'[t].workdir
    /\ InboxesKept
    /\ owner' \in [Worktrees -> Tasks \cup {NoTask}]
    /\ \A w \in Worktrees :
          \/ owner'[w] = NoTask
          \/ owner'[w] = owner[w] /\ (owner[w] = t => w = task'[t].workdir)
          \/ owner'[w] = t /\ t \notin ReadOnly /\ w = task'[t].workdir
    /\ UNCHANGED <<daemon, interrupted, cut, crashes>>

LEMMA NewRow ==
    ASSUME Bound, NEW t \in Tasks, NEW w \in Worktrees, NEW waits \in 0..Len(jobs),
           NEW floor \in BOOLEAN
    PROVE  /\ NewJob(t, w, waits, floor) \in JobRows(Len(jobs))
           /\ NewJob(t, w, waits, floor).task = t /\ NewJob(t, w, waits, floor).cwd = w
<1>1. Len(controls[t]) \in Nat
    BY InboxSeq DEF Bound
<1> QED
    BY <1>1 DEF NewJob, JobRows, PendingStates

LEMMA RowAdded ==
    ASSUME Bound, NEW t \in Tasks, NEW w \in Worktrees, NEW waits \in 0..Len(jobs),
           NEW floor \in BOOLEAN, NEW js \in Table(Len(jobs)), Progress(jobs, js),
           jobs' = Append(js, NewJob(t, w, waits, floor))
    PROVE  LET n == Len(jobs) + 1 IN
           /\ jobs' \in Table(n) /\ Progress(jobs, jobs')
           /\ jobs'[n].task = t /\ jobs'[n].cwd = w
<1>1. Len(jobs) \in Nat /\ jobs \in Table(Len(jobs)) /\ DOMAIN jobs = 1..Len(jobs)
    BY JobsTable DEF Bound
<1>2. /\ jobs' \in Table(Len(jobs) + 1)
      /\ \A j \in 1..Len(jobs) : jobs'[j] = js[j]
      /\ jobs'[Len(jobs) + 1] = NewJob(t, w, waits, floor)
    <2> DEFINE row == NewJob(t, w, waits, floor)
    <2>1. row \in JobRows(Len(jobs))
        BY NewRow
    <2> HIDE DEF row
    <2>2. /\ Append(js, row) \in Table(Len(jobs) + 1)
          /\ \A j \in 1..Len(jobs) : Append(js, row)[j] = js[j]
          /\ Append(js, row)[Len(jobs) + 1] = row
        BY <1>1, <2>1, Appended, Zenon
    <2>3. jobs' = Append(js, row)
        BY DEF row
    <2> QED
        BY <2>2, <2>3, Zenon DEF row
<1>3. Progress(jobs, jobs')
    BY <1>1, <1>2 DEF Progress
<1> QED
    BY <1>2, <1>3, NewRow

\* createJob for a task of the tree w, or for a task that gets w as its first tree.
LEMMA JobQueued ==
    ASSUME Bound, NEW t \in Tasks, NEW w \in Worktrees, NEW waits \in 0..Len(jobs),
           CreateJob(t, w, waits), UNCHANGED <<controls, owner>>,
           UNCHANGED <<daemon, interrupted, cut, crashes>>
    PROVE  OneJobCreated(t)
<1>1. /\ Len(jobs) \in Nat /\ jobs \in Table(Len(jobs)) /\ DOMAIN jobs = 1..Len(jobs)
      /\ Progress(jobs, jobs)
    BY JobsTable DEF Bound, Progress
<1>2. jobs' = Append(jobs, NewJob(t, w, waits, FALSE))
    BY DEF CreateJob
<1>3. /\ jobs' \in Table(Len(jobs) + 1) /\ Progress(jobs, jobs')
      /\ jobs'[Len(jobs) + 1].task = t /\ jobs'[Len(jobs) + 1].cwd = w
    BY <1>1, <1>2, RowAdded
<1>4. task \in [Tasks -> TaskRows(Len(jobs))] /\ task[t].workdir \in {NoWorktree, w}
    BY DEF Bound, TypeOK, TaskRows, CreateJob, MayCreateJob
<1>5. /\ task[t].state = "none" => task[t].workdir = NoWorktree
      /\ task[t].state # "none" => task[t].workdir = w
    BY <1>4 DEF Bound, TasksAreBound
<1>6. /\ task' = [task EXCEPT ![t] = [state |-> "working", latest |-> Len(jobs) + 1, workdir |-> w]]
    BY <1>4, <1>5 DEF CreateJob, Queued
<1>7. task' \in [Tasks -> TaskRows(Len(jobs) + 1)]
    <2>1. [state |-> "working", latest |-> Len(jobs) + 1, workdir |-> w] \in TaskRows(Len(jobs) + 1)
        BY <1>1 DEF TaskRows, TaskStates
    <2>2. task \in [Tasks -> TaskRows(Len(jobs) + 1)]
        BY <1>1, <1>4, RowsGrow
    <2> QED
        BY <1>6, <2>1, <2>2
<1>8. task'[t].state = "working" /\ task'[t].workdir = w /\ \A u \in Tasks \ {t} : task'[u] = task[u]
    BY <1>4, <1>6
<1>9. \A j \in JobsOf(t) : jobs[j].state \in PendingStates => jobs[j].cwd = w
    BY <1>5 DEF Bound, TasksAreBound, JobsOf
<1>10. \A v \in Worktrees : owner[v] = t => v = w
    BY <1>5 DEF Bound, OwnershipFollowsTask, NoTask, Tasks
<1>11. InboxesKept /\ owner' \in [Worktrees -> Tasks \cup {NoTask}]
    BY SameInboxes DEF Bound, TypeOK
<1> QED
    BY <1>3, <1>7, <1>8, <1>9, <1>10, <1>11 DEF OneJobCreated

LEMMA RequestCreates ==
    ASSUME Bound,
           \/ \E t \in Tasks : CreateMessage(t) \/ \E w \in Worktrees : CreateRoom(t, w)
           \/ \E j \in DOMAIN jobs : CreateHandoff(j) \/ RetryJob(j)
    PROVE  \E t \in Tasks : OneJobCreated(t)
<1> USE DEF Unchanged
<1>1. Len(jobs) \in Nat /\ DOMAIN jobs = 1..Len(jobs) /\ NoJob \in 0..Len(jobs)
    BY JobsTable DEF Bound, NoJob
<1>2. ASSUME NEW t \in Tasks, CreateMessage(t) PROVE OneJobCreated(t)
    <2> DEFINE prior == Newest(JobsOf(t))
               waits == IF jobs[prior].state \in PendingStates THEN prior ELSE NoJob
    <2>1. prior \in JobsOf(t)
        BY <1>1, <1>2, NewestIsLast DEF CreateMessage, JobsOf
    <2>2. waits \in 0..Len(jobs) /\ jobs[prior].cwd \in Worktrees
        BY <1>1, <2>1, BoundRow DEF JobsOf, JobRows
    <2>3. CreateJob(t, jobs[prior].cwd, waits) /\ UNCHANGED <<controls, owner>>
          /\ UNCHANGED <<daemon, interrupted, cut, crashes>>
        BY <1>2 DEF CreateMessage
    <2> QED
        BY <2>2, <2>3, JobQueued
<1>3. ASSUME NEW t \in Tasks, NEW w \in Worktrees, CreateRoom(t, w) PROVE OneJobCreated(t)
    BY <1>1, <1>3, JobQueued DEF CreateRoom
<1>4. ASSUME NEW j \in DOMAIN jobs, CreateHandoff(j) \/ RetryJob(j)
      PROVE  OneJobCreated(jobs[j].task)
    <2>1. jobs[j].task \in Tasks /\ jobs[j].cwd \in Worktrees
        BY BoundRow DEF JobRows
    <2> QED
        BY <1>1, <1>4, <2>1, JobQueued DEF CreateHandoff, RetryJob
<1> QED
    BY <1>2, <1>3, <1>4, BoundRow

LEMMA ResumeCreates ==
    ASSUME Bound, NEW t \in Tasks, NEW w \in Worktrees, ResumeTask(t, w)
    PROVE  OneJobCreated(t)
<1>1. /\ Len(jobs) \in Nat /\ jobs \in Table(Len(jobs)) /\ DOMAIN jobs = 1..Len(jobs)
      /\ Progress(jobs, jobs) /\ NoJob \in 0..Len(jobs)
    BY JobsTable DEF Bound, Progress, NoJob
<1>2. jobs' = Append(jobs, NewJob(t, w, NoJob, FALSE))
    BY DEF ResumeTask
<1>3. /\ jobs' \in Table(Len(jobs) + 1) /\ Progress(jobs, jobs')
      /\ jobs'[Len(jobs) + 1].task = t /\ jobs'[Len(jobs) + 1].cwd = w
    BY <1>1, <1>2, RowAdded
<1>4. task \in [Tasks -> TaskRows(Len(jobs))]
    BY DEF Bound, TypeOK, TaskRows
<1>5. task' = [task EXCEPT ![t] = [state |-> "working", latest |-> Len(jobs) + 1, workdir |-> w]]
    BY DEF ResumeTask
<1>6. task' \in [Tasks -> TaskRows(Len(jobs) + 1)]
    <2>1. [state |-> "working", latest |-> Len(jobs) + 1, workdir |-> w] \in TaskRows(Len(jobs) + 1)
        BY <1>1 DEF TaskRows, TaskStates
    <2>2. task \in [Tasks -> TaskRows(Len(jobs) + 1)]
        BY <1>1, <1>4, RowsGrow
    <2> QED
        BY <1>5, <2>1, <2>2
<1>7. task'[t].state = "working" /\ task'[t].workdir = w /\ \A u \in Tasks \ {t} : task'[u] = task[u]
    BY <1>4, <1>5
<1>8. \A j \in JobsOf(t) : jobs[j].state \in PendingStates => jobs[j].cwd = w
    BY DEF ResumeTask, InStates
<1>9. owner \in [Worktrees -> Tasks \cup {NoTask}]
    BY DEF Bound, TypeOK
<1>10. /\ owner' \in [Worktrees -> Tasks \cup {NoTask}]
       /\ \A v \in Worktrees :
             \/ owner'[v] = NoTask
             \/ owner'[v] = owner[v] /\ (owner[v] = t => v = w)
             \/ owner'[v] = t /\ t \notin ReadOnly /\ v = w
    <2>1. CASE w = task[t].workdir
        <3>1. owner' = owner
            BY <2>1 DEF ResumeTask
        <3>2. \A v \in Worktrees : owner[v] = t => v = w
            BY <2>1 DEF Bound, OwnershipFollowsTask, NoTask, Tasks
        <3> QED
            BY <1>9, <3>1, <3>2
    <2>2. CASE w # task[t].workdir
        <3>1. owner' = [Disowned(t) EXCEPT ![w] = IF t \in ReadOnly THEN @ ELSE t]
            BY <2>2 DEF ResumeTask, Rebind
        <3> QED
            BY <1>9, <3>1 DEF Disowned
    <2> QED
        BY <2>1, <2>2
<1>11. InboxesKept /\ UNCHANGED <<daemon, interrupted, cut, crashes>>
    BY SameInboxes DEF ResumeTask, Unchanged
<1> QED
    BY <1>3, <1>6, <1>7, <1>8, <1>10, <1>11 DEF OneJobCreated

LEMMA FloorCreates ==
    ASSUME Bound, NEW j \in DOMAIN jobs, NEW outcome \in Outcomes, NEW ids,
           NEW idle, NEW open, Continue(j, outcome, ids, idle, open)
    PROVE  OneJobCreated(jobs[j].task)
<1> DEFINE t == jobs[j].task
           w == jobs[j].cwd
           final == FinalOutcome(t, j, outcome, ids, TRUE)
<1>1. /\ Len(jobs) \in Nat /\ jobs \in Table(Len(jobs)) /\ DOMAIN jobs = 1..Len(jobs)
      /\ NoJob \in 0..Len(jobs) /\ outcome \in TaskStates
    BY JobsTable DEF Bound, NoJob, TaskStates
<1>2. t \in Tasks /\ w \in Worktrees /\ w = task[t].workdir /\ task[t].state # "none"
    <2>1. jobs[j] \in JobRows(Len(jobs)) /\ task[t].state # "none"
        BY BoundRow
    <2>2. jobs[j].state \in PendingStates
        BY DEF Continue, Reports, PendingStates
    <2> QED
        BY <2>1, <2>2 DEF JobRows, Bound, TasksAreBound
<1>3. /\ jobs' = Append(Succeeded(j, outcome), NewJob(t, w, NoJob, TRUE))
      /\ controls' = Acknowledged(t, j, ids)
      /\ task' = [task EXCEPT ![t].state = final, ![t].latest = Len(jobs) + 1]
      /\ owner' \in {owner, Disowned(t)}
      /\ UNCHANGED <<daemon, interrupted, cut, crashes>>
    BY DEF Continue, OwnerAfter, Unchanged
<1>4. final \in TaskStates
    BY <1>1, OutcomeType
<1> HIDE DEF t, w, final
<1>5. Succeeded(j, outcome) \in Table(Len(jobs)) /\ Progress(jobs, Succeeded(j, outcome))
    BY <1>1, EndKept DEF Succeeded, TerminalJobStates
<1>6. /\ jobs' \in Table(Len(jobs) + 1) /\ Progress(jobs, jobs')
      /\ jobs'[Len(jobs) + 1].task = t /\ jobs'[Len(jobs) + 1].cwd = w
    BY <1>1, <1>2, <1>3, <1>5, RowAdded
<1>7. task \in [Tasks -> TaskRows(Len(jobs))]
    BY DEF Bound, TypeOK, TaskRows
<1>8. /\ task' = [task EXCEPT ![t] = [task[t] EXCEPT !.state = final, !.latest = Len(jobs) + 1]]
      /\ [task[t] EXCEPT !.state = final, !.latest = Len(jobs) + 1] \in TaskRows(Len(jobs) + 1)
    BY <1>1, <1>2, <1>3, <1>4, <1>7 DEF TaskRows
<1>9. task' \in [Tasks -> TaskRows(Len(jobs) + 1)]
    <2>1. task \in [Tasks -> TaskRows(Len(jobs) + 1)]
        BY <1>1, <1>7, RowsGrow
    <2> QED
        BY <1>8, <2>1
<1>10. /\ task'[t].state # "none" /\ task'[t].workdir = w
       /\ \A u \in Tasks \ {t} : task'[u] = task[u]
    BY <1>2, <1>3, <1>4, <1>7 DEF TaskRows, TaskStates
<1>11. \A k \in JobsOf(t) : jobs[k].state \in PendingStates => jobs[k].cwd = w
    BY <1>2 DEF Bound, TasksAreBound, JobsOf
<1>12. /\ owner' \in [Worktrees -> Tasks \cup {NoTask}]
       /\ \A v \in Worktrees : \/ owner'[v] = NoTask
                               \/ owner'[v] = owner[v] /\ (owner[v] = t => v = w)
    <2>1. owner \in [Worktrees -> Tasks \cup {NoTask}] /\ t # NoTask
        <3>1. owner \in [Worktrees -> Tasks \cup {NoTask}]
            BY DEF Bound, TypeOK
        <3>2. t # NoTask
            BY <1>2 DEF NoTask, Tasks
        <3> QED
            BY <3>1, <3>2
    <2>2. \A v \in Worktrees : owner[v] = t => v = w
        BY <1>2, <2>1 DEF Bound, OwnershipFollowsTask
    <2>3. CASE owner' = owner
        BY <2>1, <2>2, <2>3
    <2>4. CASE owner' = Disowned(t)
        BY <2>1, <2>4 DEF Disowned
    <2> QED
        BY <1>3, <2>3, <2>4
<1>13. InboxesKept
    BY <1>2, <1>3, AcknowledgedType DEF InboxesKept, Bound
<1>14. OneJobCreated(t)
    BY <1>2, <1>3, <1>6, <1>9, <1>10, <1>11, <1>12, <1>13 DEF OneJobCreated
<1> QED
    BY <1>14 DEF t

-----------------------------------------------------------------------------
(* Every step *)

LEMMA EveryStep ==
    ASSUME Bound, Next
    PROVE  NoJobCreated \/ \E t \in Tasks : OneJobCreated(t)
<1>1. ASSUME NEW t \in Tasks,
             \/ CreateMessage(t) \/ CancelTask(t) \/ RecoverTask(t)
             \/ \E w \in Worktrees : CreateRoom(t, w) \/ ResumeTask(t, w)
             \/ \E kind \in ControlKinds : CreateControl(t, kind)
             \/ \E j \in JobsOf(t) :
                    Checkpoint(t, j) \/ \E ids \in SUBSET DOMAIN controls[t] : Acknowledge(t, j, ids)
      PROVE  NoJobCreated \/ \E u \in Tasks : OneJobCreated(u)
    BY <1>1, RequestCreates, CancelKept, RestartKept, ResumeCreates, ControlKept, InboxKept
<1>2. ASSUME NEW j \in DOMAIN jobs,
             \/ CreateHandoff(j) \/ RetryJob(j) \/ CancelJob(j)
             \/ DropContinuation(j) \/ ClaimInVain(j) \/ Dispatch(j)
             \/ LaunchCommand(j) \/ CommandExits(j) \/ FailOrStop(j) \/ FailUnexpected(j)
             \/ Release(j) \/ SettleExecution(j)
      PROVE  NoJobCreated \/ \E u \in Tasks : OneJobCreated(u)
    BY <1>2, RequestCreates, CancelKept, PassKept, RunningKept, FailureKept, SettleKept
<1>3. ASSUME NEW j \in DOMAIN jobs, NEW ids, NEW open \in BOOLEAN, NEW idle \in BOOLEAN,
             \/ \E outcome \in Outcomes :
                    Continue(j, outcome, ids, idle, open) \/ Yield(j, outcome, ids, open)
             \/ \E claim \in {"completed", NoClaim} : EnterGates(j, claim, idle, open)
             \/ PassGates(j, ids)
      PROVE  NoJobCreated \/ \E u \in Tasks : OneJobCreated(u)
    <2>1. ASSUME NEW outcome \in Outcomes, Continue(j, outcome, ids, idle, open)
          PROVE  \E u \in Tasks : OneJobCreated(u)
        BY <2>1, FloorCreates, BoundRow
    <2>2. ASSUME NEW outcome \in Outcomes, Yield(j, outcome, ids, open) PROVE NoJobCreated
        BY <2>2, ReportKept
    <2>3. CASE PassGates(j, ids)
        BY <2>3, ReportKept
    <2>4. ASSUME NEW claim \in {"completed", NoClaim}, EnterGates(j, claim, idle, open)
          PROVE  NoJobCreated
        BY <2>4, RunningKept
    <2> QED
        BY <1>3, <2>1, <2>2, <2>3, <2>4
<1>4. ASSUME \/ \E gone \in SUBSET DOMAIN jobs : RecoverJobs(gone)
             \/ Crash \/ Started
      PROVE  NoJobCreated
    BY <1>4, RecoverKept, RestartKept
<1> QED
    BY <1>1, <1>2, <1>3, <1>4 DEF Next

LEMMA BoundStart == Init => Bound
<1> SUFFICES ASSUME Init PROVE Bound
    OBVIOUS
<1> USE DEF Init
<1>1. Len(jobs) = 0 /\ DOMAIN jobs = {}
    OBVIOUS
<1>2. /\ jobs \in Seq(JobRows(Len(jobs)))
      /\ \A t \in Tasks : controls[t] \in Seq(ControlRows(Len(jobs)))
    OBVIOUS
<1>3. TypeOK
    BY <1>1, <1>2 DEF TypeOK, JobRows, ControlRows, NoJob
<1> QED
    BY <1>1, <1>3 DEF Bound, TasksAreBound, OwnershipFollowsTask

LEMMA KeptIsBound ==
    ASSUME Bound, NoJobCreated
    PROVE  Bound'
<1>1. Len(jobs) \in Nat /\ jobs \in Table(Len(jobs)) /\ DOMAIN jobs = 1..Len(jobs)
    BY JobsTable DEF Bound
<1>2. /\ jobs' \in Seq(JobRows(Len(jobs))) /\ Len(jobs') = Len(jobs)
      /\ DOMAIN jobs' = DOMAIN jobs /\ Progress(jobs, jobs')
    BY <1>1, TableIsSeq DEF NoJobCreated, JobsKept
<1>3. TypeOK'
    BY <1>2 DEF TypeOK, JobRows, TaskRows, ControlRows, NoJobCreated, TasksKept, InboxesKept,
                OwnersKept, ProcessKept
<1>4. ASSUME NEW j \in DOMAIN jobs PROVE jobs[j].task \in Tasks
    BY BoundRow
<1>5. TasksAreBound'
    BY <1>2, <1>4 DEF Bound, TasksAreBound, NoJobCreated, TasksKept, ProcessKept, Progress
<1>6. OwnershipFollowsTask'
    <2> SUFFICES ASSUME NEW w \in Worktrees, owner'[w] # NoTask
                 PROVE  task'[owner'[w]].workdir = w /\ owner'[w] \notin ReadOnly
        BY DEF OwnershipFollowsTask
    <2>1. CASE owner'[w] = owner[w]
        <3>1. owner[w] \in Tasks /\ task[owner[w]].workdir = w /\ owner[w] \notin ReadOnly
            BY <2>1 DEF Bound, TypeOK, OwnershipFollowsTask
        <3> QED
            BY <2>1, <3>1 DEF NoJobCreated, TasksKept
    <2>2. ASSUME NEW j \in DOMAIN jobs, jobs[j].state \in PendingStates, Writable(j),
                 owner'[w] = jobs[j].task, w = jobs[j].cwd
          PROVE  task'[owner'[w]].workdir = w /\ owner'[w] \notin ReadOnly
        BY <1>4, <2>2 DEF Bound, TasksAreBound, Writable, NoJobCreated, TasksKept
    <2> QED
        BY <2>1, <2>2 DEF NoJobCreated, OwnersKept
<1> QED
    BY <1>3, <1>5, <1>6 DEF Bound

LEMMA CreatedIsBound ==
    ASSUME Bound, NEW t \in Tasks, OneJobCreated(t)
    PROVE  Bound'
<1> DEFINE n == Len(jobs) + 1
<1>1. Len(jobs) \in Nat /\ jobs \in Table(Len(jobs)) /\ DOMAIN jobs = 1..Len(jobs) /\ n \in Nat
    BY JobsTable DEF Bound
<1>2. /\ jobs' \in Seq(JobRows(n)) /\ Len(jobs') = n /\ DOMAIN jobs' = 1..n
      /\ Progress(jobs, jobs')
    BY <1>1, TableIsSeq DEF OneJobCreated
<1>3. TypeOK'
    <2>1. controls' \in [Tasks -> Seq(ControlRows(n))]
        <3>1. \A u \in Tasks : controls'[u] \in Seq(ControlRows(n))
            BY <1>1, RowsGrow, SeqMonotonic DEF OneJobCreated, InboxesKept
        <3> QED
            BY <3>1 DEF OneJobCreated, InboxesKept
    <2>2. /\ daemon' \in {"up", "recovering", "down"} /\ interrupted' \subseteq Tasks
          /\ cut' \subseteq Tasks /\ crashes' \in Nat
        BY DEF Bound, TypeOK, OneJobCreated
    <2> QED
        BY <1>2, <2>1, <2>2 DEF TypeOK, JobRows, TaskRows, ControlRows, OneJobCreated
<1>4. ASSUME NEW j \in DOMAIN jobs PROVE jobs[j].task \in Tasks
    BY BoundRow
<1>5. TasksAreBound'
    <2>1. \A u \in Tasks : task'[u].state = "none" <=> task'[u].workdir = NoWorktree
        BY DEF Bound, TasksAreBound, OneJobCreated
    <2>2. \A u \in interrupted' : task'[u].state # "none"
        BY DEF Bound, TasksAreBound, OneJobCreated, TypeOK
    <2>3. ASSUME NEW j \in DOMAIN jobs'
          PROVE  /\ task'[jobs'[j].task].state # "none"
                 /\ jobs'[j].state \in PendingStates => jobs'[j].cwd = task'[jobs'[j].task].workdir
        <3>1. CASE j = n
            BY <3>1 DEF OneJobCreated
        <3>2. CASE j \in DOMAIN jobs
            <4>1. /\ jobs'[j].task = jobs[j].task /\ jobs'[j].cwd = jobs[j].cwd
                  /\ jobs'[j].state \in PendingStates => jobs[j].state \in PendingStates
                BY <1>2, <3>2 DEF Progress
            <4>2. CASE jobs[j].task = t
                BY <3>2, <4>1, <4>2 DEF OneJobCreated, JobsOf
            <4>3. CASE jobs[j].task # t
                BY <1>4, <3>2, <4>1, <4>3 DEF OneJobCreated, Bound, TasksAreBound
            <4> QED
                BY <4>2, <4>3
        <3> QED
            BY <1>1, <1>2, <3>1, <3>2
    <2> QED
        BY <2>1, <2>2, <2>3 DEF TasksAreBound
<1>6. OwnershipFollowsTask'
    <2> SUFFICES ASSUME NEW w \in Worktrees, owner'[w] # NoTask
                 PROVE  task'[owner'[w]].workdir = w /\ owner'[w] \notin ReadOnly
        BY DEF OwnershipFollowsTask
    <2>1. CASE owner'[w] = owner[w] /\ (owner[w] = t => w = task'[t].workdir)
        <3>1. owner[w] \in Tasks /\ task[owner[w]].workdir = w /\ owner[w] \notin ReadOnly
            BY <2>1 DEF Bound, TypeOK, OwnershipFollowsTask
        <3> QED
            BY <2>1, <3>1 DEF OneJobCreated
    <2>2. CASE owner'[w] = t /\ t \notin ReadOnly /\ w = task'[t].workdir
        BY <2>2
    <2> QED
        BY <2>1, <2>2 DEF OneJobCreated
<1> QED
    BY <1>3, <1>5, <1>6 DEF Bound

LEMMA BoundStep == Bound /\ [Next]_vars => Bound'
<1> SUFFICES ASSUME Bound, [Next]_vars PROVE Bound'
    OBVIOUS
<1>1. CASE Next
    BY <1>1, EveryStep, KeptIsBound, CreatedIsBound
<1>2. CASE UNCHANGED vars
    BY <1>2 DEF vars, Bound, TypeOK, TasksAreBound, OwnershipFollowsTask
<1> QED
    BY <1>1, <1>2

LEMMA AlwaysBound == Spec => []Bound
BY BoundStart, BoundStep, PTL DEF Spec

\* The tables stay what they say they are.
THEOREM TablesTyped == Spec => []TypeOK
BY AlwaysBound, PTL DEF Bound

\* A worktree is owned by nobody but the writing task that is bound to it,
\* through claims in vain, rebinds, cancellations, crashes and recoveries.
THEOREM OwnersHoldTheirTree == Spec => []OwnershipFollowsTask
BY AlwaysBound, PTL DEF Bound

-----------------------------------------------------------------------------
(* The inbox *)

Recorded(t, kind) ==
    [controls EXCEPT ![t] = Append(@, [kind |-> kind, delivered |-> NoJob, acked |-> NoJob])]

\* What a step does to the inboxes.
InboxStep ==
    \/ controls' = controls
    \/ \E t \in Tasks, kind \in ControlKinds : controls' = Recorded(t, kind)
    \/ \E t \in Tasks, j \in DOMAIN jobs : controls' = Delivered(t, j)
    \/ \E t \in Tasks, j \in DOMAIN jobs : \E ids :
          MayAcknowledge(t, j, ids) /\ controls' = Acknowledged(t, j, ids)

LEMMA InboxSteps ==
    ASSUME Bound, Next
    PROVE  InboxStep
<1> USE DEF InboxStep
<1>1. ASSUME NEW t \in Tasks,
             \/ CreateMessage(t) \/ CancelTask(t) \/ RecoverTask(t)
             \/ \E w \in Worktrees : CreateRoom(t, w) \/ ResumeTask(t, w)
             \/ \E kind \in ControlKinds : CreateControl(t, kind)
             \/ \E j \in JobsOf(t) :
                    Checkpoint(t, j) \/ \E ids \in SUBSET DOMAIN controls[t] : Acknowledge(t, j, ids)
      PROVE  InboxStep
    <2>1. CASE \/ CreateMessage(t) \/ CancelTask(t) \/ RecoverTask(t)
               \/ \E w \in Worktrees : CreateRoom(t, w) \/ ResumeTask(t, w)
        BY <2>1 DEF CreateMessage, CancelTask, RecoverTask, CreateRoom, ResumeTask, Unchanged
    <2>2. ASSUME NEW kind \in ControlKinds, CreateControl(t, kind) PROVE InboxStep
        BY <2>2 DEF CreateControl, Recorded
    <2>3. ASSUME NEW j \in JobsOf(t), Checkpoint(t, j) PROVE InboxStep
        BY <2>3 DEF Checkpoint, JobsOf
    <2>4. ASSUME NEW j \in JobsOf(t), NEW ids, Acknowledge(t, j, ids) PROVE InboxStep
        BY <2>4 DEF Acknowledge, JobsOf
    <2> QED
        BY <1>1, <2>1, <2>2, <2>3, <2>4
<1>2. ASSUME NEW j \in DOMAIN jobs,
             \/ CreateHandoff(j) \/ RetryJob(j) \/ CancelJob(j)
             \/ DropContinuation(j) \/ ClaimInVain(j) \/ Dispatch(j)
             \/ LaunchCommand(j) \/ CommandExits(j) \/ FailOrStop(j) \/ FailUnexpected(j)
             \/ Release(j) \/ SettleExecution(j)
      PROVE  InboxStep
    <2>1. CASE Dispatch(j)
        BY <2>1, BoundRow DEF Dispatch
    <2>2. CASE ~Dispatch(j)
        BY <1>2, <2>2 DEF CreateHandoff, RetryJob, CancelJob, DropContinuation, ClaimInVain,
           LaunchCommand, CommandExits, FailOrStop, FailUnexpected, Release, SettleExecution,
           Unchanged
    <2> QED
        BY <2>1, <2>2
<1>3. ASSUME NEW j \in DOMAIN jobs, NEW ids, NEW open, NEW idle,
             \/ \E outcome \in Outcomes :
                    Continue(j, outcome, ids, idle, open) \/ Yield(j, outcome, ids, open)
             \/ \E claim \in {"completed", NoClaim} : EnterGates(j, claim, idle, open)
             \/ PassGates(j, ids)
      PROVE  InboxStep
    BY <1>3, BoundRow DEF Continue, Yield, EnterGates, PassGates, Unchanged
<1>4. ASSUME \/ \E gone \in SUBSET DOMAIN jobs : RecoverJobs(gone)
             \/ Crash \/ Started
      PROVE  InboxStep
    BY <1>4 DEF RecoverJobs, Crash, Started
<1> QED
    BY <1>1, <1>2, <1>3, <1>4 DEF Next

LEMMA RecordedRows ==
    ASSUME TypeOK, NEW t \in Tasks, NEW kind \in ControlKinds
    PROVE  LET n == Len(controls[t]) + 1 IN
           /\ \A u \in Tasks \ {t} : Recorded(t, kind)[u] = controls[u]
           /\ DOMAIN Recorded(t, kind)[t] = 1..n
           /\ \A i \in DOMAIN controls[t] : Recorded(t, kind)[t][i] = controls[t][i]
           /\ Recorded(t, kind)[t][n] = [kind |-> kind, delivered |-> NoJob, acked |-> NoJob]
<1> DEFINE row == [kind |-> kind, delivered |-> NoJob, acked |-> NoJob]
           inbox == Append(controls[t], row)
<1>1. controls[t] \in Seq(ControlRows(Len(jobs))) /\ row \in ControlRows(Len(jobs))
    <2>1. NoJob \in 0..Len(jobs)
        BY JobsTable DEF NoJob
    <2>2. row \in ControlRows(Len(jobs))
        BY <2>1 DEF ControlRows
    <2> QED
        BY <2>2, InboxSeq
<1>2. Recorded(t, kind) = [controls EXCEPT ![t] = inbox]
    BY DEF Recorded
<1>3. controls \in [Tasks -> Seq(ControlRows(Len(jobs)))]
    BY DEF TypeOK, ControlRows
<1> HIDE DEF row
<1>4. /\ DOMAIN inbox = 1..(Len(controls[t]) + 1)
      /\ \A i \in 1..Len(controls[t]) : inbox[i] = controls[t][i]
      /\ inbox[Len(controls[t]) + 1] = row
    BY <1>1
<1> HIDE DEF inbox
<1> QED
    BY <1>2, <1>3, <1>4, InboxSeq DEF row

\* One inbox in order; ControlsInOrder says it of all.
InOrder(inbox) ==
    \A i \in DOMAIN inbox :
        /\ inbox[i].acked # NoJob => inbox[i].acked = inbox[i].delivered
        /\ \A k \in 1..(i - 1) :
            /\ inbox[i].acked # NoJob => inbox[k].acked # NoJob
            /\ inbox[i].delivered # NoJob => inbox[k].delivered # NoJob

\* The three things a step may do to one inbox.
Extended(old, new) ==
    /\ DOMAIN new = 1..(Len(old) + 1)
    /\ \A i \in DOMAIN old : new[i] = old[i]
    /\ new[Len(old) + 1].acked = NoJob /\ new[Len(old) + 1].delivered = NoJob

Handed(old, new, j) ==
    /\ DOMAIN new = DOMAIN old
    /\ \A i \in DOMAIN old :
          /\ new[i].kind = old[i].kind /\ new[i].acked = old[i].acked
          /\ new[i].delivered = IF old[i].acked = NoJob THEN j ELSE old[i].delivered

Answered(old, new, j, ids) ==
    /\ DOMAIN new = DOMAIN old
    /\ \A i \in DOMAIN old :
          /\ new[i].kind = old[i].kind /\ new[i].delivered = old[i].delivered
          /\ new[i].acked = IF i \in ids /\ old[i].acked = NoJob THEN j ELSE old[i].acked

LEMMA ExtendedInOrder ==
    ASSUME NEW old, NEW new, Len(old) \in Nat, DOMAIN old = 1..Len(old), InOrder(old),
           Extended(old, new)
    PROVE  InOrder(new)
<1> DEFINE n == Len(old)
<1>1. /\ n \in Nat /\ DOMAIN old = 1..n /\ DOMAIN new = 1..(n + 1)
      /\ \A i \in 1..n : new[i] = old[i]
      /\ new[n + 1].acked = NoJob /\ new[n + 1].delivered = NoJob
    BY DEF Extended
<1> HIDE DEF n
<1> SUFFICES ASSUME NEW i \in 1..(n + 1)
             PROVE  /\ new[i].acked # NoJob => new[i].acked = new[i].delivered
                    /\ \A k \in 1..(i - 1) :
                        /\ new[i].acked # NoJob => new[k].acked # NoJob
                        /\ new[i].delivered # NoJob => new[k].delivered # NoJob
    BY <1>1 DEF InOrder
<1>2. CASE i = n + 1
    BY <1>1, <1>2
<1>3. CASE i \in 1..n
    BY <1>1, <1>3 DEF InOrder
<1> QED
    BY <1>1, <1>2, <1>3

LEMMA HandedInOrder ==
    ASSUME NEW old, NEW new, Len(old) \in Nat, DOMAIN old = 1..Len(old), InOrder(old),
           NEW j, j # NoJob, Handed(old, new, j)
    PROVE  InOrder(new)
<1> DEFINE n == Len(old)
<1>1. n \in Nat /\ DOMAIN old = 1..n /\ DOMAIN new = 1..n
    BY DEF Handed
<1>2. \A i \in 1..n :
          /\ new[i].acked = old[i].acked
          /\ new[i].delivered = IF old[i].acked = NoJob THEN j ELSE old[i].delivered
    BY <1>1 DEF Handed
<1> HIDE DEF n
<1>3. ASSUME NEW i \in 1..n
      PROVE  /\ new[i].acked # NoJob => new[i].acked = new[i].delivered
             /\ new[i].delivered # NoJob
    BY <1>1, <1>2, <1>3 DEF InOrder
<1>4. ASSUME NEW i \in 1..n, NEW k \in 1..(i - 1)
      PROVE  k \in 1..n /\ (new[i].acked # NoJob => new[k].acked # NoJob)
    <2>1. k \in 1..n
        BY <1>1, <1>4
    <2>2. old[i].acked # NoJob => old[k].acked # NoJob
        BY <1>1, <1>4 DEF InOrder
    <2> QED
        BY <1>2, <2>1, <2>2
<1> QED
    BY <1>1, <1>3, <1>4 DEF InOrder

LEMMA AnsweredInOrder ==
    ASSUME NEW old, NEW new, Len(old) \in Nat, DOMAIN old = 1..Len(old), InOrder(old),
           NEW j, j # NoJob, NEW ids, Answered(old, new, j, ids),
           \A i \in ids : /\ old[i].delivered = j
                         /\ \A k \in 1..(i - 1) : old[k].acked # NoJob \/ k \in ids
    PROVE  InOrder(new)
<1> DEFINE n == Len(old)
<1>1. n \in Nat /\ DOMAIN old = 1..n /\ DOMAIN new = 1..n
    BY DEF Answered
<1>2. \A i \in 1..n :
          /\ new[i].delivered = old[i].delivered
          /\ new[i].acked = IF i \in ids /\ old[i].acked = NoJob THEN j ELSE old[i].acked
    BY <1>1 DEF Answered
<1> HIDE DEF n
<1>3. ASSUME NEW i \in 1..n
      PROVE  new[i].acked # NoJob => new[i].acked = new[i].delivered
    BY <1>1, <1>2, <1>3 DEF InOrder
<1>4. ASSUME NEW i \in 1..n, NEW k \in 1..(i - 1)
      PROVE  /\ new[i].acked # NoJob => new[k].acked # NoJob
             /\ new[i].delivered # NoJob => new[k].delivered # NoJob
    <2>1. k \in 1..n
        BY <1>1, <1>4
    <2>2. /\ old[i].acked # NoJob => old[k].acked # NoJob
          /\ old[i].delivered # NoJob => old[k].delivered # NoJob
        BY <1>1, <1>4 DEF InOrder
    <2> QED
        BY <1>2, <1>4, <2>1, <2>2
<1> QED
    BY <1>1, <1>3, <1>4 DEF InOrder

LEMMA MarkedFields ==
    ASSUME NEW n, NEW row \in ControlRows(n), NEW j
    PROVE  /\ [row EXCEPT !.delivered = j].acked = row.acked
           /\ [row EXCEPT !.delivered = j].delivered = j
           /\ [row EXCEPT !.delivered = j].kind = row.kind
           /\ [row EXCEPT !.acked = j].acked = j
           /\ [row EXCEPT !.acked = j].delivered = row.delivered
           /\ [row EXCEPT !.acked = j].kind = row.kind
BY DEF ControlRows

LEMMA ExtendedBox ==
    ASSUME TypeOK, NEW t \in Tasks, NEW kind \in ControlKinds
    PROVE  Extended(controls[t], Recorded(t, kind)[t])
<1> DEFINE n == Len(controls[t]) + 1
           new == Recorded(t, kind)[t]
<1>1. /\ DOMAIN new = 1..n
      /\ \A i \in DOMAIN controls[t] : new[i] = controls[t][i]
      /\ new[n] = [kind |-> kind, delivered |-> NoJob, acked |-> NoJob]
    BY RecordedRows
<1> HIDE DEF new, n
<1>2. new[n].acked = NoJob /\ new[n].delivered = NoJob
    BY <1>1
<1>3. n = Len(controls[t]) + 1
    BY DEF n
<1>4. Extended(controls[t], new)
    BY <1>1, <1>2, <1>3 DEF Extended
<1> QED
    BY <1>4 DEF new

LEMMA HandedBox ==
    ASSUME TypeOK, NEW t \in Tasks, NEW j \in DOMAIN jobs
    PROVE  Handed(controls[t], Delivered(t, j)[t], j)
<1> DEFINE old == controls[t]
           new == [i \in DOMAIN old |->
                      IF old[i].acked = NoJob THEN [old[i] EXCEPT !.delivered = j] ELSE old[i]]
<1>1. \A i \in DOMAIN old : old[i] \in ControlRows(Len(jobs))
    BY InboxSeq
<1>2. Delivered(t, j)[t] = new
    BY DEF Delivered, TypeOK
<1> HIDE DEF old
<1>3. Handed(old, new, j)
    BY <1>1, MarkedFields DEF Handed
<1> QED
    BY <1>2, <1>3 DEF old

LEMMA AnsweredBox ==
    ASSUME TypeOK, NEW t \in Tasks, NEW j \in DOMAIN jobs, NEW ids
    PROVE  Answered(controls[t], Acknowledged(t, j, ids)[t], j, ids)
<1> DEFINE old == controls[t]
           new == [i \in DOMAIN old |->
                      IF i \in ids /\ old[i].acked = NoJob
                      THEN [old[i] EXCEPT !.acked = j] ELSE old[i]]
<1>1. \A i \in DOMAIN old : old[i] \in ControlRows(Len(jobs))
    BY InboxSeq
<1>2. Acknowledged(t, j, ids)[t] = new
    BY DEF Acknowledged, TypeOK
<1> HIDE DEF old
<1>3. Answered(old, new, j, ids)
    BY <1>1, MarkedFields DEF Answered
<1> QED
    BY <1>2, <1>3 DEF old

LEMMA OtherBoxes ==
    ASSUME TypeOK, NEW t \in Tasks, NEW u \in Tasks \ {t}
    PROVE  /\ \A kind : Recorded(t, kind)[u] = controls[u]
           /\ \A j : Delivered(t, j)[u] = controls[u]
           /\ \A j, ids : Acknowledged(t, j, ids)[u] = controls[u]
BY DEF TypeOK, Recorded, Delivered, Acknowledged

LEMMA OrderIsKept ==
    ASSUME Bound, InboxStep, NEW u \in Tasks, InOrder(controls[u])
    PROVE  InOrder(controls'[u])
<1>1. Len(controls[u]) \in Nat /\ DOMAIN controls[u] = 1..Len(controls[u]) /\ TypeOK
    BY InboxSeq DEF Bound
<1>2. CASE controls'[u] = controls[u]
    BY <1>2
<1>3. ASSUME NEW kind \in ControlKinds, controls' = Recorded(u, kind)
      PROVE  InOrder(controls'[u])
    BY <1>1, <1>3, ExtendedBox, ExtendedInOrder
<1>4. ASSUME NEW j \in DOMAIN jobs, controls' = Delivered(u, j)
      PROVE  InOrder(controls'[u])
    <2>1. j # NoJob
        BY BoundRow DEF NoJob
    <2> QED
        BY <1>1, <1>4, <2>1, HandedBox, HandedInOrder
<1>5. ASSUME NEW j \in DOMAIN jobs, NEW ids, MayAcknowledge(u, j, ids),
             controls' = Acknowledged(u, j, ids)
      PROVE  InOrder(controls'[u])
    <2>1. j # NoJob
        BY BoundRow DEF NoJob
    <2>2. \A i \in ids : /\ controls[u][i].delivered = j
                        /\ \A k \in 1..(i - 1) : controls[u][k].acked # NoJob \/ k \in ids
        BY <1>5 DEF MayAcknowledge
    <2>3. Answered(controls[u], controls'[u], j, ids)
        BY <1>1, <1>5, AnsweredBox
    <2> QED
        BY <1>1, <2>1, <2>2, <2>3, AnsweredInOrder
<1>6. ASSUME NEW t \in Tasks, t # u,
             \/ \E kind \in ControlKinds : controls' = Recorded(t, kind)
             \/ \E j \in DOMAIN jobs : controls' = Delivered(t, j)
             \/ \E j \in DOMAIN jobs : \E ids : controls' = Acknowledged(t, j, ids)
      PROVE  controls'[u] = controls[u]
    BY <1>1, <1>6, OtherBoxes
<1> QED
    BY <1>2, <1>3, <1>4, <1>5, <1>6 DEF InboxStep

LEMMA OrderStep == Bound /\ ControlsInOrder /\ [Next]_vars => ControlsInOrder'
<1> SUFFICES ASSUME Bound, ControlsInOrder, [Next]_vars PROVE ControlsInOrder'
    OBVIOUS
<1>1. \A t \in Tasks : InOrder(controls[t])
    BY DEF ControlsInOrder, InOrder
<1>2. \A t \in Tasks : InOrder(controls'[t])
    <2>1. CASE Next
        BY <1>1, <2>1, InboxSteps, OrderIsKept
    <2>2. CASE UNCHANGED vars
        BY <1>1, <2>2 DEF vars
    <2> QED
        BY <2>1, <2>2
<1> QED
    BY <1>2 DEF ControlsInOrder, InOrder

\* Whatever the order of checkpoints, acknowledgments, new controls and jobs,
\* controls are delivered and acknowledged in the order they were recorded.
THEOREM InboxIsOrdered == Spec => []ControlsInOrder
<1>1. Init => ControlsInOrder
    BY DEF Init, ControlsInOrder
<1> QED
    BY <1>1, AlwaysBound, OrderStep, PTL DEF Spec

-----------------------------------------------------------------------------
(* Instructions *)

\* No instruction is lost, and an answered one stays answered.
NoneForgotten(old, new) ==
    \A i \in DOMAIN new : new[i].kind = "instruction" =>
        /\ i \in DOMAIN old /\ old[i].kind = "instruction"
        /\ old[i].acked # NoJob => new[i].acked # NoJob

AllAnswered(inbox) ==
    \A i \in DOMAIN inbox : inbox[i].kind = "instruction" => inbox[i].acked # NoJob

\* A task is completed before and after, or by a job that answers its instructions.
Completes(t) ==
    task'[t].state = "completed" =>
        \/ task[t].state = "completed" /\ NoneForgotten(controls[t], controls'[t])
        \/ AllAnswered(controls'[t])

LEMMA NoneIsForgotten ==
    ASSUME Bound, NEW u \in Tasks,
           \/ controls' = controls
           \/ \E t \in Tasks, j \in DOMAIN jobs :
                 \/ controls' = Delivered(t, j)
                 \/ \E ids : controls' = Acknowledged(t, j, ids)
    PROVE  NoneForgotten(controls[u], controls'[u])
<1>1. TypeOK
    BY DEF Bound
<1>2. CASE controls'[u] = controls[u]
    BY <1>2 DEF NoneForgotten
<1>3. ASSUME NEW j \in DOMAIN jobs, controls' = Delivered(u, j)
      PROVE  NoneForgotten(controls[u], controls'[u])
    <2>1. Handed(controls[u], controls'[u], j)
        BY <1>1, <1>3, HandedBox
    <2> QED
        BY <2>1 DEF Handed, NoneForgotten
<1>4. ASSUME NEW j \in DOMAIN jobs, NEW ids, controls' = Acknowledged(u, j, ids)
      PROVE  NoneForgotten(controls[u], controls'[u])
    <2>1. Answered(controls[u], controls'[u], j, ids)
        BY <1>1, <1>4, AnsweredBox
    <2>2. j # NoJob
        BY BoundRow DEF NoJob
    <2> QED
        BY <2>1, <2>2 DEF Answered, NoneForgotten
<1>5. ASSUME NEW t \in Tasks, t # u,
             \/ \E j \in DOMAIN jobs : controls' = Delivered(t, j)
             \/ \E j \in DOMAIN jobs : \E ids : controls' = Acknowledged(t, j, ids)
      PROVE  controls'[u] = controls[u]
    BY <1>1, <1>5, OtherBoxes
<1> QED
    BY <1>2, <1>3, <1>4, <1>5

LEMMA WritesState ==
    ASSUME Bound, NEW t, NEW state, NEW u \in Tasks,
           \/ task' = WithState(t, state) \/ SetState(t, state) \/ SetStateAndRelease(t, state)
    PROVE  /\ u # t => task'[u] = task[u]
           /\ u = t => task'[u].state = state
<1>1. task \in [Tasks -> TaskRows(Len(jobs))] /\ task' = WithState(t, state)
    BY DEF Bound, TypeOK, TaskRows, SetState, SetStateAndRelease
<1> QED
    BY <1>1 DEF WithState, TaskRows

\* What a job reports as completed has no instruction pending.
LEMMA HonestOutcome ==
    ASSUME NEW t, NEW j, NEW outcome, NEW ids
    PROVE  /\ FinalOutcome(t, j, outcome, ids, TRUE) # "completed"
           /\ PendingInstruction(t, ids) =>
                 FinalOutcome(t, j, outcome, ids, FALSE) # "completed"
BY DEF FinalOutcome

LEMMA ControlCompletes ==
    ASSUME Bound, NEW t \in Tasks, NEW kind \in ControlKinds, CreateControl(t, kind),
           NEW u \in Tasks
    PROVE  Completes(u)
<1>1. TypeOK /\ controls' = Recorded(t, kind)
    BY DEF Bound, CreateControl, Recorded
<1>2. CASE u # t
    <2>1. controls'[u] = controls[u]
        BY <1>1, <1>2, OtherBoxes
    <2>2. task'[u] = task[u]
        BY <1>2, WritesState DEF CreateControl
    <2> QED
        BY <2>1, <2>2 DEF Completes, NoneForgotten
<1>3. CASE u = t /\ task[t].state = "completed" /\ kind # "instruction"
    <2>1. /\ Len(controls[t]) \in Nat /\ DOMAIN controls[t] = 1..Len(controls[t])
          /\ DOMAIN controls'[t] = 1..(Len(controls[t]) + 1)
          /\ \A i \in DOMAIN controls[t] : controls'[t][i] = controls[t][i]
          /\ controls'[t][Len(controls[t]) + 1].kind = kind
        <3> DEFINE n == Len(controls[t]) + 1
                   new == Recorded(t, kind)[t]
        <3>1. /\ DOMAIN new = 1..n /\ \A i \in DOMAIN controls[t] : new[i] = controls[t][i]
              /\ new[n] = [kind |-> kind, delivered |-> NoJob, acked |-> NoJob]
            BY <1>1, RecordedRows
        <3> HIDE DEF new, n
        <3>2. new[n].kind = kind
            BY <3>1
        <3>3. controls'[t] = new /\ n = Len(controls[t]) + 1
            BY <1>1 DEF new, n
        <3>4. Len(controls[t]) \in Nat /\ DOMAIN controls[t] = 1..Len(controls[t])
            BY <1>1, InboxSeq
        <3> QED
            BY <3>1, <3>2, <3>3, <3>4
    <2>2. NoneForgotten(controls[t], controls'[t])
        BY <1>3, <2>1 DEF NoneForgotten
    <2> QED
        BY <1>3, <2>2 DEF Completes
<1>4. CASE u = t /\ ~(task[t].state = "completed" /\ kind # "instruction")
    <2>1. CASE task[t].state = "completed" /\ kind = "instruction"
        <3>1. SetState(t, "checkpointed")
            BY <2>1 DEF CreateControl
        <3>2. task'[t].state = "checkpointed"
            BY <3>1, WritesState
        <3> QED
            BY <1>4, <3>2 DEF Completes
    <2>2. CASE ~(task[t].state = "completed" /\ kind = "instruction")
        <3>1. task' = task
            BY <2>2 DEF CreateControl
        <3> QED
            BY <1>4, <2>2, <3>1 DEF Completes
    <2> QED
        BY <2>1, <2>2
<1> QED
    BY <1>2, <1>3, <1>4

LEMMA ReportCompletes ==
    ASSUME Bound, NEW j \in DOMAIN jobs, NEW ids \in SUBSET DOMAIN controls[jobs[j].task],
           NEW idle, NEW open,
           \/ \E outcome \in Outcomes :
                  Continue(j, outcome, ids, idle, open) \/ Yield(j, outcome, ids, open)
           \/ PassGates(j, ids),
           NEW u \in Tasks
    PROVE  Completes(u)
<1> DEFINE t == jobs[j].task
<1>1. TypeOK /\ t \in Tasks /\ controls' = Acknowledged(t, j, ids) /\ j # NoJob
    BY BoundRow DEF Bound, Continue, Yield, PassGates, NoJob
<1>2. NoneForgotten(controls[u], controls'[u])
    BY <1>1, NoneIsForgotten
<1>3. \E final : /\ \A v \in Tasks \ {t} : task'[v] = task[v]
                 /\ task'[t].state = final
                 /\ PendingInstruction(t, ids) => final # "completed"
    <2>1. ASSUME NEW outcome \in Outcomes, Continue(j, outcome, ids, idle, open)
          PROVE  /\ \A v \in Tasks \ {t} : task'[v] = task[v]
                 /\ task'[t].state # "completed"
        <3> DEFINE final == FinalOutcome(t, j, outcome, ids, TRUE)
        <3>1. task' = [task EXCEPT ![t].state = final, ![t].latest = Len(jobs) + 1]
            BY <2>1 DEF Continue
        <3>2. final # "completed" /\ task \in [Tasks -> TaskRows(Len(jobs))]
            BY HonestOutcome DEF Bound, TypeOK, TaskRows
        <3> HIDE DEF final
        <3> QED
            BY <1>1, <3>1, <3>2 DEF TaskRows
    <2>2. ASSUME NEW outcome, task' = WithState(t, FinalOutcome(t, j, outcome, ids, FALSE))
          PROVE  /\ \A v \in Tasks \ {t} : task'[v] = task[v]
                 /\ PendingInstruction(t, ids) => task'[t].state # "completed"
        <3> DEFINE final == FinalOutcome(t, j, outcome, ids, FALSE)
        <3>1. PendingInstruction(t, ids) => final # "completed"
            BY HonestOutcome
        <3>2. task' = WithState(t, final)
            BY <2>2
        <3>3. task \in [Tasks -> TaskRows(Len(jobs))]
            BY DEF Bound, TypeOK, TaskRows
        <3> HIDE DEF final
        <3> QED
            BY <1>1, <3>1, <3>2, <3>3 DEF WithState, TaskRows
    <2>3. ASSUME NEW outcome \in Outcomes, Yield(j, outcome, ids, open)
          PROVE  task' = WithState(t, FinalOutcome(t, j, outcome, ids, FALSE))
        BY <2>3 DEF Yield, SetState
    <2>4. ASSUME PassGates(j, ids)
          PROVE  \E outcome : task' = WithState(t, FinalOutcome(t, j, outcome, ids, FALSE))
        BY <2>4 DEF PassGates, SetState
    <2> QED
        BY <2>1, <2>2, <2>3, <2>4
<1>4. CASE u # t \/ PendingInstruction(t, ids)
    BY <1>1, <1>2, <1>3, <1>4 DEF Completes
<1>5. CASE u = t /\ ~PendingInstruction(t, ids)
    <2>1. Answered(controls[t], controls'[t], j, ids)
        BY <1>1, AnsweredBox
    <2>2. AllAnswered(controls'[t])
        BY <1>1, <1>5, <2>1 DEF Answered, AllAnswered, PendingInstruction
    <2> QED
        BY <1>5, <2>2 DEF Completes
<1> QED
    BY <1>4, <1>5

LEMMA CompletesSame ==
    ASSUME Bound, NEW u \in Tasks, task'[u] = task[u] \/ task'[u].state # "completed",
           \/ controls' = controls
           \/ \E t \in Tasks, j \in DOMAIN jobs :
                 \/ controls' = Delivered(t, j)
                 \/ \E ids : controls' = Acknowledged(t, j, ids)
    PROVE  Completes(u)
BY NoneIsForgotten DEF Completes

\* Steps that write a task write another state than completed.
LEMMA QuietTasks ==
    ASSUME Bound, NEW u \in Tasks,
           \/ task' = task
           \/ \E t \in Tasks, state \in TaskStates \ {"completed"} : task' = WithState(t, state)
    PROVE  task'[u] = task[u] \/ task'[u].state # "completed"
<1>1. ASSUME NEW t \in Tasks, NEW state \in TaskStates \ {"completed"}, task' = WithState(t, state)
      PROVE  task'[u] = task[u] \/ task'[u].state # "completed"
    <2>1. task \in [Tasks -> TaskRows(Len(jobs))]
        BY DEF Bound, TypeOK, TaskRows
    <2> QED
        BY <1>1, <2>1 DEF WithState, TaskRows
<1> QED
    BY <1>1

LEMMA CreatedCompletes ==
    ASSUME Bound, NEW u \in Tasks,
           \/ \E t \in Tasks : \/ CreateMessage(t)
                             \/ \E w \in Worktrees : CreateRoom(t, w) \/ ResumeTask(t, w)
           \/ \E j \in DOMAIN jobs : CreateHandoff(j) \/ RetryJob(j)
    PROVE  Completes(u)
<1>1. controls' = controls
    BY DEF CreateMessage, CreateRoom, ResumeTask, CreateHandoff, RetryJob, Unchanged
<1>2. task \in [Tasks -> TaskRows(Len(jobs))]
    BY DEF Bound, TypeOK, TaskRows
<1>3. ASSUME NEW t \in Tasks, NEW w, task' = Queued(t, w)
      PROVE  task'[u] = task[u] \/ task'[u].state # "completed"
    BY <1>2, <1>3 DEF Queued
<1>4. ASSUME NEW t \in Tasks, NEW w, ResumeTask(t, w)
      PROVE  task'[u] = task[u] \/ task'[u].state # "completed"
    BY <1>2, <1>4 DEF ResumeTask
<1>5. ASSUME NEW t \in Tasks, CreateMessage(t) \/ \E w \in Worktrees : CreateRoom(t, w)
      PROVE  \E w : task' = Queued(t, w)
    BY <1>5 DEF CreateMessage, CreateRoom, CreateJob
<1>6. ASSUME NEW j \in DOMAIN jobs, CreateHandoff(j) \/ RetryJob(j)
      PROVE  \E t \in Tasks : \E w : task' = Queued(t, w)
    BY <1>6, BoundRow DEF CreateHandoff, RetryJob, CreateJob
<1>7. task'[u] = task[u] \/ task'[u].state # "completed"
    BY <1>3, <1>4, <1>5, <1>6
<1> QED
    BY <1>1, <1>7, CompletesSame

LEMMA OthersComplete ==
    ASSUME Bound, NEW u \in Tasks,
           \/ \E t \in Tasks :
                 \/ CancelTask(t) \/ RecoverTask(t)
                 \/ \E j \in JobsOf(t) : Checkpoint(t, j) \/ \E ids : Acknowledge(t, j, ids)
           \/ \E j \in DOMAIN jobs :
                 \/ CancelJob(j) \/ DropContinuation(j) \/ ClaimInVain(j) \/ Dispatch(j)
                 \/ LaunchCommand(j) \/ CommandExits(j) \/ FailOrStop(j) \/ FailUnexpected(j)
                 \/ Release(j) \/ SettleExecution(j)
                 \/ \E claim, idle, open : EnterGates(j, claim, idle, open)
           \/ \E gone : RecoverJobs(gone)
           \/ Crash \/ Started
    PROVE  Completes(u)
<1> USE DEF TaskStates
<1>1. ASSUME NEW t \in Tasks, CancelTask(t) \/ RecoverTask(t) PROVE Completes(u)
    <2>1. controls' = controls /\ \E state \in TaskStates \ {"completed"} : task' = WithState(t, state)
        BY <1>1 DEF CancelTask, RecoverTask, SetState, Unchanged
    <2> QED
        BY <2>1, QuietTasks, CompletesSame
<1>2. ASSUME NEW t \in Tasks, NEW j \in JobsOf(t),
             Checkpoint(t, j) \/ \E ids : Acknowledge(t, j, ids)
      PROVE  Completes(u)
    <2>1. j \in DOMAIN jobs /\ task' = task
        BY <1>2 DEF Checkpoint, Acknowledge, JobsOf, Unchanged
    <2>2. controls' = Delivered(t, j) \/ \E ids : controls' = Acknowledged(t, j, ids)
        BY <1>2 DEF Checkpoint, Acknowledge
    <2> QED
        BY <2>1, <2>2, CompletesSame
<1>3. ASSUME NEW j \in DOMAIN jobs, Dispatch(j) PROVE Completes(u)
    <2>1. /\ jobs[j].task \in Tasks /\ task' = WithState(jobs[j].task, "working")
          /\ controls' = Delivered(jobs[j].task, j)
        BY <1>3, BoundRow DEF Dispatch
    <2> QED
        BY <2>1, QuietTasks, CompletesSame
<1>4. ASSUME NEW j \in DOMAIN jobs,
             CancelJob(j) \/ DropContinuation(j) \/ FailOrStop(j) \/ FailUnexpected(j)
      PROVE  Completes(u)
    <2>1. /\ controls' = controls /\ jobs[j].task \in Tasks
          /\ \/ task' = task
             \/ \E state \in TaskStates \ {"completed"} : task' = WithState(jobs[j].task, state)
        BY <1>4, BoundRow DEF CancelJob, DropContinuation, FailOrStop, FailUnexpected,
           SetState, SetStateAndRelease, Unchanged
    <2> QED
        BY <2>1, QuietTasks, CompletesSame
<1>5. ASSUME \/ \E j \in DOMAIN jobs :
                    \/ ClaimInVain(j) \/ LaunchCommand(j) \/ CommandExits(j)
                    \/ Release(j) \/ SettleExecution(j)
                    \/ \E claim, idle, open : EnterGates(j, claim, idle, open)
             \/ \E gone : RecoverJobs(gone)
             \/ Crash \/ Started
      PROVE  Completes(u)
    <2>1. controls' = controls /\ task' = task
        BY <1>5 DEF ClaimInVain, LaunchCommand, CommandExits, Release, SettleExecution,
           EnterGates, RecoverJobs, Crash, Started, Unchanged
    <2> QED
        BY <2>1, CompletesSame
<1> QED
    BY <1>1, <1>2, <1>3, <1>4, <1>5

LEMMA EveryTaskCompletes ==
    ASSUME Bound, Next, NEW u \in Tasks
    PROVE  Completes(u)
<1>1. ASSUME NEW t \in Tasks,
             \/ CreateMessage(t) \/ CancelTask(t) \/ RecoverTask(t)
             \/ \E w \in Worktrees : CreateRoom(t, w) \/ ResumeTask(t, w)
             \/ \E kind \in ControlKinds : CreateControl(t, kind)
             \/ \E j \in JobsOf(t) :
                    Checkpoint(t, j) \/ \E ids \in SUBSET DOMAIN controls[t] : Acknowledge(t, j, ids)
      PROVE  Completes(u)
    BY <1>1, CreatedCompletes, OthersComplete, ControlCompletes
<1>2. ASSUME NEW j \in DOMAIN jobs,
             \/ CreateHandoff(j) \/ RetryJob(j) \/ CancelJob(j)
             \/ DropContinuation(j) \/ ClaimInVain(j) \/ Dispatch(j)
             \/ LaunchCommand(j) \/ CommandExits(j) \/ FailOrStop(j) \/ FailUnexpected(j)
             \/ Release(j) \/ SettleExecution(j)
      PROVE  Completes(u)
    BY <1>2, CreatedCompletes, OthersComplete
<1>3. ASSUME NEW j \in DOMAIN jobs, NEW ids \in SUBSET DOMAIN controls[jobs[j].task],
             NEW open, NEW idle,
             \/ \E outcome \in Outcomes :
                    Continue(j, outcome, ids, idle, open) \/ Yield(j, outcome, ids, open)
             \/ \E claim \in {"completed", NoClaim} : EnterGates(j, claim, idle, open)
             \/ PassGates(j, ids)
      PROVE  Completes(u)
    BY <1>3, ReportCompletes, OthersComplete
<1>4. ASSUME \/ \E gone \in SUBSET DOMAIN jobs : RecoverJobs(gone)
             \/ Crash \/ Started
      PROVE  Completes(u)
    BY <1>4, OthersComplete
<1> QED
    BY <1>1, <1>2, <1>3, <1>4 DEF Next

LEMMA InstructionStep ==
    Bound /\ InstructionsReachWork /\ [Next]_vars => InstructionsReachWork'
<1> SUFFICES ASSUME Bound, InstructionsReachWork, [Next]_vars,
                    NEW t \in Tasks, task'[t].state = "completed"
             PROVE  AllAnswered(controls'[t])
    BY DEF InstructionsReachWork, AllAnswered
<1>1. CASE UNCHANGED vars
    BY <1>1 DEF vars, InstructionsReachWork, AllAnswered
<1>2. CASE Next
    <2>1. Completes(t)
        BY <1>2, EveryTaskCompletes
    <2>2. CASE task[t].state = "completed" /\ NoneForgotten(controls[t], controls'[t])
        BY <2>2 DEF InstructionsReachWork, NoneForgotten, AllAnswered
    <2> QED
        BY <2>1, <2>2 DEF Completes
<1> QED
    BY <1>1, <1>2

\* No instruction is left behind: whatever arrives while the gates of a job run, a
\* task is completed only when every instruction was acknowledged.
THEOREM NoInstructionIsLost == Spec => []InstructionsReachWork
<1>1. Init => InstructionsReachWork
    BY DEF Init, InstructionsReachWork
<1> QED
    BY <1>1, AlwaysBound, InstructionStep, PTL DEF Spec

-----------------------------------------------------------------------------
(* Work and the executions of a task *)

\* What every step but Dispatch does to a job: none becomes busy or takes resources.
CalmRow(j) ==
    /\ jobs'[j].task = jobs[j].task
    /\ Busy(jobs', j) => Busy(jobs, j) /\ jobs'[j].lock
    /\ jobs'[j].lock => jobs[j].lock
    /\ jobs'[j].place = "finally" => jobs'[j].state \in TerminalJobStates

\* A task becomes quiet only when none of its jobs stays busy.
CalmTask(t) ==
    task'[t].state \in Quiet =>
        task[t].state \in Quiet \/ \A j \in JobsOf(t) : ~Busy(jobs', j)

WorkTask(t) ==
    task'[t].state = "working" =>
        \/ \E j \in DOMAIN jobs' : jobs'[j].task = t /\ jobs'[j].state \in PendingStates
        \/ t \in interrupted' \cup cut'

Calm ==
    /\ DOMAIN jobs \subseteq DOMAIN jobs'
    /\ \A j \in DOMAIN jobs : CalmRow(j)
    /\ \A j \in DOMAIN jobs' \ DOMAIN jobs :
          ~Busy(jobs', j) /\ ~jobs'[j].lock /\ jobs'[j].place # "finally"
    /\ \A t \in Tasks : CalmTask(t) /\ WorkTask(t)

Held == Bound /\ HeldAlone /\ AllMarked /\ WorkingHasExecution

LEMMA CalmIsHeld ==
    ASSUME Held, Calm
    PROVE  HeldAlone' /\ WorkingHasExecution'
<1>1. ASSUME NEW j \in DOMAIN jobs'
      PROVE  /\ Busy(jobs', j) => jobs'[j].lock /\ task'[jobs'[j].task].state \notin Quiet
             /\ jobs'[j].place = "finally" => jobs'[j].state \in TerminalJobStates
    <2>1. CASE j \in DOMAIN jobs
        <3>1. CalmRow(j) /\ jobs[j].task \in Tasks /\ j \in JobsOf(jobs[j].task)
            BY <2>1, BoundRow DEF Calm, Held, JobsOf
        <3>2. CalmTask(jobs[j].task)
            BY <3>1 DEF Calm
        <3> QED
            BY <2>1, <3>1, <3>2 DEF CalmRow, CalmTask, Held, HeldAlone
    <2> QED
        BY <1>1, <2>1 DEF Calm
<1>2. ASSUME NEW j \in DOMAIN jobs', NEW k \in DOMAIN jobs',
             jobs'[j].lock, jobs'[k].lock, jobs'[j].task = jobs'[k].task
      PROVE  j = k
    BY <1>2 DEF Calm, CalmRow, Held, HeldAlone
<1>3. HeldAlone'
    BY <1>1, <1>2 DEF HeldAlone, Busy
<1>4. WorkingHasExecution'
    BY DEF Calm, WorkTask, WorkingHasExecution, InStates, JobsOf
<1> QED
    BY <1>3, <1>4

\* A task whose state stays and whose pending jobs stay pending.
LEMMA SameWork ==
    ASSUME Held, NEW t \in Tasks, task'[t].state = task[t].state,
           t \in interrupted \cup cut => t \in interrupted' \cup cut',
           DOMAIN jobs \subseteq DOMAIN jobs',
           \A j \in JobsOf(t) : /\ jobs'[j].task = t
                                /\ jobs[j].state \in PendingStates => jobs'[j].state \in PendingStates
    PROVE  CalmTask(t) /\ WorkTask(t)
BY DEF Held, WorkingHasExecution, CalmTask, WorkTask, InStates, JobsOf

\* Only job j changes, and of it neither the task nor whether it is pending.
OnlyRow(j) ==
    /\ DOMAIN jobs' = DOMAIN jobs
    /\ \A k \in DOMAIN jobs \ {j} : jobs'[k] = jobs[k]
    /\ jobs'[j].task = jobs[j].task

LEMMA StillRow ==
    ASSUME Held, NEW j \in DOMAIN jobs, jobs'[j] = jobs[j]
    PROVE  CalmRow(j)
BY DEF CalmRow, Busy, Held, HeldAlone

LEMMA RowStep ==
    ASSUME Held, NEW j \in DOMAIN jobs, NEW row \in JobRows(Len(jobs)),
           row.task = jobs[j].task, jobs' = [jobs EXCEPT ![j] = row]
    PROVE  OnlyRow(j) /\ jobs'[j] = row
BY JobsTable DEF OnlyRow, Held, Bound, Table

LEMMA UntouchedTasks ==
    ASSUME Held, UNCHANGED task, UNCHANGED <<interrupted, cut>>, NEW j \in DOMAIN jobs,
           OnlyRow(j), CalmRow(j), jobs[j].state \in PendingStates => jobs'[j].state \in PendingStates
    PROVE  Calm
<1>1. \A k \in DOMAIN jobs : CalmRow(k)
    BY StillRow DEF OnlyRow
<1>2. ASSUME NEW t \in Tasks PROVE CalmTask(t) /\ WorkTask(t)
    BY SameWork DEF OnlyRow, JobsOf
<1> QED
    BY <1>1, <1>2 DEF Calm, OnlyRow

LEMMA UntouchedJobs ==
    ASSUME Held, UNCHANGED <<jobs, task, interrupted, cut>>
    PROVE  Calm
<1>1. \A k \in DOMAIN jobs : CalmRow(k)
    BY StillRow
<1>2. ASSUME NEW t \in Tasks PROVE CalmTask(t) /\ WorkTask(t)
    BY SameWork DEF JobsOf
<1> QED
    BY <1>1, <1>2 DEF Calm

\* A job that stays: its commands start and end, it enters the gates, it releases
\* its resources.
LEMMA RunningCalm ==
    ASSUME Held, NEW j \in DOMAIN jobs,
           \/ LaunchCommand(j) \/ CommandExits(j) \/ Release(j) \/ SettleExecution(j)
           \/ \E claim \in {"completed", NoClaim}, idle, open \in BOOLEAN :
                 EnterGates(j, claim, idle, open)
    PROVE  Calm
<1>1. jobs[j] \in JobRows(Len(jobs))
    BY BoundRow DEF Held
<1>2. UNCHANGED task /\ UNCHANGED <<interrupted, cut>>
    BY DEF LaunchCommand, CommandExits, Release, SettleExecution, EnterGates, Unchanged
<1>3. OnlyRow(j) /\ CalmRow(j) /\ jobs'[j].state = jobs[j].state
    <2>1. CASE LaunchCommand(j)
        <3> DEFINE row == [jobs[j] EXCEPT !.execution = "open"]
        <3>1. /\ row \in JobRows(Len(jobs)) /\ row.task = jobs[j].task /\ row.state = jobs[j].state
              /\ row.lock = jobs[j].lock /\ row.place = jobs[j].place
            BY <1>1 DEF JobRows
        <3>2. OnlyRow(j) /\ jobs'[j] = row
            BY <2>1, <3>1, RowStep DEF LaunchCommand
        <3> HIDE DEF row
        <3>3. Busy(jobs, j) /\ jobs[j].lock
            BY <2>1 DEF LaunchCommand, Busy, Held, HeldAlone
        <3> QED
            BY <3>1, <3>2, <3>3 DEF CalmRow, Held, HeldAlone
    <2>2. CASE CommandExits(j)
        <3> DEFINE row == [jobs[j] EXCEPT !.execution = "settled"]
        <3>1. /\ row \in JobRows(Len(jobs)) /\ row.task = jobs[j].task /\ row.state = jobs[j].state
              /\ row.lock = jobs[j].lock /\ row.place = jobs[j].place /\ row.execution = "settled"
            BY <1>1 DEF JobRows
        <3>2. OnlyRow(j) /\ jobs'[j] = row
            BY <2>2, <3>1, RowStep DEF CommandExits
        <3> HIDE DEF row
        <3> QED
            BY <3>1, <3>2 DEF CalmRow, Held, HeldAlone, Busy
    <2>3. CASE Release(j)
        <3> DEFINE row == [jobs[j] EXCEPT !.place = "none", !.lock = jobs[j].execution = "open"]
        <3>1. /\ row \in JobRows(Len(jobs)) /\ row.task = jobs[j].task /\ row.state = jobs[j].state
              /\ row.lock = (jobs[j].execution = "open") /\ row.place = "none"
              /\ row.execution = jobs[j].execution
            BY <1>1 DEF JobRows
        <3>2. jobs' = [jobs EXCEPT ![j] = row]
            BY <2>3 DEF Release
        <3>3. OnlyRow(j) /\ jobs'[j] = row
            BY <3>1, <3>2, RowStep
        <3> HIDE DEF row
        <3>4. jobs[j].state \in TerminalJobStates
            BY <2>3 DEF Release, Runs, Held, HeldAlone
        <3> QED
            BY <3>1, <3>3, <3>4 DEF CalmRow, Held, HeldAlone, Busy, TerminalJobStates
    <2>4. CASE SettleExecution(j)
        <3> DEFINE row == [jobs[j] EXCEPT !.execution = "settled", !.lock = FALSE]
        <3>1. /\ row \in JobRows(Len(jobs)) /\ row.task = jobs[j].task /\ row.state = jobs[j].state
              /\ row.lock = FALSE /\ row.place = jobs[j].place /\ row.execution = "settled"
            BY <1>1 DEF JobRows
        <3>2. OnlyRow(j) /\ jobs'[j] = row
            BY <2>4, <3>1, RowStep DEF SettleExecution
        <3> HIDE DEF row
        <3>3. jobs[j].state \in TerminalJobStates
            BY <2>4 DEF SettleExecution
        <3> QED
            BY <3>1, <3>2, <3>3 DEF CalmRow, Busy, TerminalJobStates
    <2>5. ASSUME NEW claim \in {"completed", NoClaim}, NEW idle, NEW open,
                 EnterGates(j, claim, idle, open)
          PROVE  OnlyRow(j) /\ CalmRow(j) /\ jobs'[j].state = jobs[j].state
        <3> DEFINE row == [jobs[j] EXCEPT !.place = "gates", !.claim = claim]
        <3>1. /\ row \in JobRows(Len(jobs)) /\ row.task = jobs[j].task /\ row.state = jobs[j].state
              /\ row.lock = jobs[j].lock /\ row.place = "gates" /\ row.execution = jobs[j].execution
            BY <1>1 DEF JobRows, TaskStates
        <3>2. jobs' = [jobs EXCEPT ![j] = row]
            BY <2>5 DEF EnterGates
        <3>3. OnlyRow(j) /\ jobs'[j] = row
            BY <3>1, <3>2, RowStep
        <3> HIDE DEF row
        <3> QED
            BY <3>1, <3>3 DEF CalmRow, Held, HeldAlone, Busy
    <2> QED
        BY <2>1, <2>2, <2>3, <2>4, <2>5
<1> QED
    BY <1>2, <1>3, UntouchedTasks

\* A job of t ends; its execution is settled if the task is quiet then, and another
\* is queued if the task goes on working.
Ended(t, j, state) ==
    /\ OnlyRow(j)
    /\ jobs'[j].state \in TerminalJobStates /\ jobs'[j].lock = jobs[j].lock
    /\ jobs'[j].execution = jobs[j].execution
    /\ task' = WithState(t, state)
    /\ state \in Quiet => Busy(jobs, j) /\ jobs[j].execution # "open"
    /\ state = "working" => \E k \in JobsOf(t) \ {j} : jobs[k].state = "queued"

LEMMA OtherTasks ==
    ASSUME Held, NEW t \in Tasks, NEW state \in TaskStates, task' = WithState(t, state)
    PROVE  task'[t].state = state /\ \A u \in Tasks \ {t} : task'[u].state = task[u].state
<1>1. task \in [Tasks -> TaskRows(Len(jobs))]
    BY DEF Held, Bound, TypeOK, TaskRows
<1> QED
    BY <1>1 DEF WithState, TaskRows

\* No other job of the task of a busy one is busy.
LEMMA BusyAlone ==
    ASSUME Held, NEW j \in DOMAIN jobs, Busy(jobs, j),
           NEW k \in JobsOf(jobs[j].task) \ {j}
    PROVE  ~Busy(jobs, k)
BY DEF Held, HeldAlone, JobsOf

LEMMA EndedCalm ==
    ASSUME Held, NEW j \in DOMAIN jobs, NEW state \in TaskStates,
           Ended(jobs[j].task, j, state), UNCHANGED <<interrupted, cut>>
    PROVE  Calm
<1> DEFINE t == jobs[j].task
<1>1. t \in Tasks /\ jobs[j].lock \in BOOLEAN
    BY BoundRow DEF Held, JobRows
<1>2. task'[t].state = state /\ \A u \in Tasks \ {t} : task'[u].state = task[u].state
    BY <1>1, OtherTasks DEF Ended
<1>3. ASSUME NEW k \in DOMAIN jobs PROVE CalmRow(k)
    <2>1. CASE k = j
        <3>1. jobs'[j].state \notin {"running", "cancel_requested"}
            BY DEF Ended, TerminalJobStates
        <3> QED
            BY <2>1, <3>1 DEF Ended, OnlyRow, CalmRow, Busy, Held, HeldAlone
    <2> QED
        BY <2>1, StillRow DEF Ended, OnlyRow
<1>4. ASSUME NEW u \in Tasks PROVE CalmTask(u) /\ WorkTask(u)
    <2>1. CASE u = t
        <3>1. ASSUME state \in Quiet, NEW k \in JobsOf(t) PROVE ~Busy(jobs', k)
            <4>1. CASE k = j
                BY <3>1, <4>1 DEF Ended, Busy, TerminalJobStates
            <4>2. CASE k # j
                <5>1. ~Busy(jobs, k) /\ k \in DOMAIN jobs
                    BY <3>1, <4>2, BusyAlone DEF Ended, JobsOf
                <5>2. jobs'[k] = jobs[k]
                    BY <4>2, <5>1 DEF Ended, OnlyRow
                <5> QED
                    BY <5>1, <5>2 DEF Busy
            <4> QED
                BY <4>1, <4>2
        <3>2. ASSUME state = "working" PROVE WorkTask(t)
            <4>1. PICK k \in JobsOf(t) \ {j} : jobs[k].state = "queued"
                BY <3>2 DEF Ended
            <4>2. k \in DOMAIN jobs' /\ jobs'[k] = jobs[k] /\ jobs[k].task = t
                BY <4>1 DEF Ended, OnlyRow, JobsOf
            <4> QED
                BY <4>1, <4>2 DEF WorkTask, PendingStates
        <3> QED
            BY <1>2, <2>1, <3>1, <3>2 DEF CalmTask, WorkTask
    <2>2. CASE u # t
        <3>1. \A k \in JobsOf(u) : k \in DOMAIN jobs /\ k # j /\ jobs'[k] = jobs[k] /\ jobs[k].task = u
            BY <2>2 DEF Ended, OnlyRow, JobsOf
        <3> QED
            BY <1>2, <2>2, <3>1, SameWork DEF Ended, OnlyRow
    <2> QED
        BY <2>1, <2>2
<1> QED
    BY <1>3, <1>4 DEF Calm, Ended, OnlyRow

\* finish() records a task as working only when another job of it is queued.
LEMMA HonestlyWorking ==
    ASSUME NEW t, NEW j, NEW outcome, NEW ids, FinalOutcome(t, j, outcome, ids, FALSE) = "working"
    PROVE  \E k \in JobsOf(t) \ {j} : jobs[k].state = "queued"
BY DEF FinalOutcome, InStates, JobsOf

LEMMA EndedRow ==
    ASSUME Held, NEW j \in DOMAIN jobs, NEW state \in TerminalJobStates,
           NEW claim \in TaskStates \cup {NoClaim},
           jobs' = [EndJob(jobs, j, state) EXCEPT ![j].claim = claim] \/ jobs' = EndJob(jobs, j, state)
    PROVE  /\ OnlyRow(j) /\ jobs'[j].state = state /\ jobs'[j].lock = jobs[j].lock
           /\ jobs'[j].execution = jobs[j].execution
<1>1. jobs[j] \in JobRows(Len(jobs)) /\ jobs \in Table(Len(jobs)) /\ DOMAIN jobs = 1..Len(jobs)
    BY BoundRow, JobsTable DEF Held, Bound
<1> DEFINE row == [jobs[j] EXCEPT !.state = state, !.place = "finally", !.claim = claim]
           old == [jobs[j] EXCEPT !.state = state, !.place = "finally"]
<1>2. /\ row \in JobRows(Len(jobs)) /\ row.task = jobs[j].task /\ row.state = state
      /\ row.lock = jobs[j].lock /\ row.execution = jobs[j].execution
      /\ old \in JobRows(Len(jobs)) /\ old.task = jobs[j].task /\ old.state = state
      /\ old.lock = jobs[j].lock /\ old.execution = jobs[j].execution
    BY <1>1 DEF JobRows
<1>3. jobs' = [jobs EXCEPT ![j] = row] \/ jobs' = [jobs EXCEPT ![j] = old]
    BY <1>1 DEF EndJob, Table, JobRows
<1> HIDE DEF row, old
<1> QED
    BY <1>2, <1>3, RowStep

LEMMA ReportCalm ==
    ASSUME Held, NEW j \in DOMAIN jobs, NEW ids,
           \/ \E outcome \in Outcomes, open \in BOOLEAN : Yield(j, outcome, ids, open)
           \/ PassGates(j, ids)
    PROVE  Calm
<1>1. UNCHANGED <<interrupted, cut>>
    BY DEF Yield, PassGates, Unchanged
<1>2. Busy(jobs, j) /\ jobs[j].execution # "open"
    BY DEF Yield, PassGates, Reports, Busy
<1>3. ASSUME NEW outcome \in Outcomes, NEW open, Yield(j, outcome, ids, open) PROVE Calm
    <2> DEFINE final == FinalOutcome(jobs[j].task, j, outcome, ids, FALSE)
    <2>1. final \in TaskStates
        BY OutcomeType DEF Held, TaskStates
    <2>2. task' = WithState(jobs[j].task, final)
        BY <1>3 DEF Yield, SetState
    <2>3. final = "working" => \E k \in JobsOf(jobs[j].task) \ {j} : jobs[k].state = "queued"
        BY HonestlyWorking
    <2> HIDE DEF final
    <2>4. jobs' = [EndJob(jobs, j, "succeeded") EXCEPT ![j].claim = outcome]
        BY <1>3 DEF Yield, Succeeded
    <2>5. outcome \in TaskStates
        BY DEF TaskStates
    <2>6. Ended(jobs[j].task, j, final)
        BY <1>2, <2>2, <2>3, <2>4, <2>5, EndedRow DEF Ended, TerminalJobStates
    <2> QED
        BY <1>1, <2>1, <2>6, EndedCalm
<1>4. CASE PassGates(j, ids)
    <2> DEFINE reported == IF jobs[j].claim = NoClaim THEN "unknown" ELSE "completed"
               final == FinalOutcome(jobs[j].task, j, reported, ids, FALSE)
    <2>1. final \in TaskStates
        <3>1. reported \in TaskStates
            BY DEF TaskStates
        <3> QED
            BY <3>1, OutcomeType DEF Held
    <2>2. task' = WithState(jobs[j].task, final)
        BY <1>4 DEF PassGates, SetState
    <2> HIDE DEF reported
    <2>3. final = "working" => \E k \in JobsOf(jobs[j].task) \ {j} : jobs[k].state = "queued"
        BY HonestlyWorking
    <2> HIDE DEF final
    <2>4. jobs' = EndJob(jobs, j, "succeeded")
        BY <1>4 DEF PassGates
    <2>5. Ended(jobs[j].task, j, final)
        BY <1>2, <2>2, <2>3, <2>4, EndedRow DEF Ended, TerminalJobStates
    <2> QED
        BY <1>1, <2>1, <2>5, EndedCalm
<1> QED
    BY <1>3, <1>4

LEMMA DropCalm ==
    ASSUME Held, NEW j \in DOMAIN jobs, DropContinuation(j)
    PROVE  Calm
<1> DEFINE state == IF jobs[jobs[j].waits].state = "cancelled" THEN "cancelled" ELSE "blocked"
           row == [jobs[j] EXCEPT !.state = "cancelled"]
<1>1. jobs[j] \in JobRows(Len(jobs))
    BY BoundRow DEF Held
<1>2. /\ row \in JobRows(Len(jobs)) /\ row.task = jobs[j].task /\ row.state = "cancelled"
      /\ row.lock = jobs[j].lock /\ row.execution = jobs[j].execution
    BY <1>1 DEF JobRows, TerminalJobStates
<1>3. jobs' = [jobs EXCEPT ![j] = row]
    BY <1>1 DEF DropContinuation, TransitionJob
<1>4. OnlyRow(j) /\ jobs'[j] = row
    BY <1>2, <1>3, RowStep
<1>5. task' = WithState(jobs[j].task, state) /\ UNCHANGED <<interrupted, cut>>
    BY DEF DropContinuation, SetStateAndRelease, Unchanged
<1> HIDE DEF row
<1>6. state \in TaskStates /\ state \notin Quiet /\ state # "working"
    BY DEF TaskStates, Quiet
<1> HIDE DEF state
<1>7. Ended(jobs[j].task, j, state)
    BY <1>2, <1>4, <1>5, <1>6 DEF Ended, TerminalJobStates
<1> QED
    BY <1>5, <1>6, <1>7, EndedCalm

\* A row that only forgets where its runner stands
LEMMA ForgottenRow ==
    ASSUME NEW n \in Nat, NEW js \in Table(n), NEW j \in 1..n
    PROVE  /\ Forgotten(js)[j].task = js[j].task /\ Forgotten(js)[j].state = js[j].state
           /\ Forgotten(js)[j].lock = js[j].lock /\ Forgotten(js)[j].execution = js[j].execution
           /\ Forgotten(js)[j].place = "none"
BY DEF Forgotten, Table, JobRows

LEMMA FailureCalm ==
    ASSUME Held, NEW j \in DOMAIN jobs, FailOrStop(j) \/ FailUnexpected(j)
    PROVE  Calm
<1> DEFINE t == jobs[j].task
           state == IF jobs[j].state = "cancel_requested" THEN "cancelled" ELSE "failed"
           ended == [EndJob(jobs, j, state) EXCEPT ![j].claim = NoClaim]
<1>1. state \in TerminalJobStates /\ NoClaim \in TaskStates \cup {NoClaim}
    BY DEF TerminalJobStates
<1>2. t \in Tasks /\ Len(jobs) \in Nat /\ jobs \in Table(Len(jobs)) /\ DOMAIN jobs = 1..Len(jobs)
    BY BoundRow, JobsTable DEF Held, Bound
<1>3. ASSUME jobs' = ended, NEW final \in {"cancelled", "blocked"}, SetStateAndRelease(t, final),
             UNCHANGED <<interrupted, cut>>
      PROVE  Calm
    <2>1. /\ OnlyRow(j) /\ jobs'[j].state = state /\ jobs'[j].lock = jobs[j].lock
          /\ jobs'[j].execution = jobs[j].execution
        BY <1>1, <1>3, EndedRow
    <2> HIDE DEF state, ended
    <2>2. final \in TaskStates /\ final \notin Quiet /\ final # "working" /\ task' = WithState(t, final)
        BY <1>3 DEF TaskStates, Quiet, SetStateAndRelease
    <2>3. Ended(t, j, final)
        BY <1>1, <2>1, <2>2 DEF Ended
    <2> QED
        BY <1>3, <2>2, <2>3, EndedCalm
<1>4. CASE FailOrStop(j)
    BY <1>3, <1>4 DEF FailOrStop, Unchanged
<1>5. CASE FailUnexpected(j) /\ jobs' = ended /\ SetStateAndRelease(t, "blocked")
           /\ UNCHANGED <<daemon, cut, crashes>>
    BY <1>3, <1>5 DEF FailUnexpected
<1>6. CASE FailUnexpected(j) /\ jobs' = Forgotten(ended) /\ cut' = cut \cup {t} /\ UNCHANGED task
    <2> DEFINE row == [jobs[j] EXCEPT !.state = state, !.place = "finally", !.claim = NoClaim]
    <2>1. jobs[j] \in JobRows(Len(jobs))
        BY BoundRow DEF Held
    <2>2. /\ row \in JobRows(Len(jobs)) /\ row.task = jobs[j].task /\ row.state = state
          /\ row.lock = jobs[j].lock /\ row.execution = jobs[j].execution
        BY <1>1, <2>1 DEF JobRows
    <2>3. ended = [jobs EXCEPT ![j] = row]
        BY <1>2, <2>1 DEF EndJob, Table, JobRows
    <2>4. ended \in Table(Len(jobs))
        BY <1>2, <2>2, <2>3 DEF Table
    <2> HIDE DEF row, ended, state
    <2>5. DOMAIN jobs' = DOMAIN jobs
        BY <1>2, <1>6, <2>4 DEF Forgotten, Table
    <2>6. ASSUME NEW k \in DOMAIN jobs
          PROVE  /\ jobs'[k].task = jobs[k].task /\ jobs'[k].lock = jobs[k].lock
                 /\ jobs'[k].execution = jobs[k].execution /\ jobs'[k].place = "none"
                 /\ k # j => jobs'[k].state = jobs[k].state
                 /\ k = j => jobs'[k].state = state
        <3>1. /\ jobs'[k].task = ended[k].task /\ jobs'[k].lock = ended[k].lock
              /\ jobs'[k].execution = ended[k].execution /\ jobs'[k].place = "none"
              /\ jobs'[k].state = ended[k].state
            BY <1>2, <1>6, <2>4, ForgottenRow
        <3>2. ended[k] = IF k = j THEN row ELSE jobs[k]
            BY <1>2, <2>3 DEF Table
        <3> QED
            BY <2>2, <3>1, <3>2
    <2>7. ASSUME NEW k \in DOMAIN jobs PROVE CalmRow(k)
        BY <1>1, <2>6 DEF CalmRow, Busy, TerminalJobStates, Held, HeldAlone
    <2>8. ASSUME NEW u \in Tasks PROVE CalmTask(u) /\ WorkTask(u)
        <3>1. CASE u = t
            BY <1>6, <3>1 DEF CalmTask, WorkTask
        <3>2. CASE u # t
            <4>1. \A k \in JobsOf(u) : k \in DOMAIN jobs /\ k # j /\ jobs[k].task = u
                BY <3>2 DEF JobsOf
            <4> QED
                BY <1>6, <2>5, <2>6, <4>1, SameWork DEF FailUnexpected
        <3> QED
            BY <3>1, <3>2
    <2> QED
        BY <2>5, <2>7, <2>8 DEF Calm
<1> QED
    BY <1>4, <1>5, <1>6 DEF FailUnexpected

LEMMA CrashCalm ==
    ASSUME Held, Crash
    PROVE  Calm
<1>1. Len(jobs) \in Nat /\ jobs \in Table(Len(jobs)) /\ DOMAIN jobs = 1..Len(jobs)
    BY JobsTable DEF Held, Bound
<1>2. DOMAIN jobs' = DOMAIN jobs
    BY DEF Crash, Forgotten
<1>3. ASSUME NEW k \in DOMAIN jobs
      PROVE  /\ jobs'[k].task = jobs[k].task /\ jobs'[k].lock = jobs[k].lock
             /\ jobs'[k].execution = jobs[k].execution /\ jobs'[k].place = "none"
             /\ jobs'[k].state = jobs[k].state
    BY <1>1, ForgottenRow DEF Crash
<1>4. ASSUME NEW k \in DOMAIN jobs PROVE CalmRow(k)
    BY <1>3 DEF CalmRow, Busy, Held, HeldAlone
<1>5. ASSUME NEW u \in Tasks PROVE CalmTask(u) /\ WorkTask(u)
    BY <1>2, <1>3, SameWork DEF JobsOf, Crash
<1> QED
    BY <1>2, <1>4, <1>5 DEF Calm

-----------------------------------------------------------------------------
(* Cancellation *)

\* Cancelling pending jobs, of task t or of nobody else.
LEMMA CancelledRow ==
    ASSUME Held, NEW S, \A j \in S \cap DOMAIN jobs : jobs[j].state \in PendingStates,
           jobs' = CancelQueued(jobs, S)
    PROVE  /\ DOMAIN jobs' = DOMAIN jobs
           /\ \A k \in DOMAIN jobs : CalmRow(k)
           /\ \A k \in DOMAIN jobs \ S : jobs'[k] = jobs[k]
           /\ \A k \in DOMAIN jobs \cap S : jobs[k].state # "queued" => jobs'[k].state = "cancel_requested"
<1>1. DOMAIN jobs' = DOMAIN jobs /\ \A k \in DOMAIN jobs \ S : jobs'[k] = jobs[k]
    BY DEF CancelQueued
<1>2. ASSUME NEW k \in DOMAIN jobs, k \in S
      PROVE  CalmRow(k) /\ (jobs[k].state # "queued" => jobs'[k].state = "cancel_requested")
    <2>1. jobs[k] \in JobRows(Len(jobs)) /\ jobs[k].state \in PendingStates
        BY <1>2, BoundRow DEF Held
    <2> DEFINE state == IF jobs[k].state = "queued" THEN "cancelled" ELSE "cancel_requested"
    <2>2. jobs'[k] = [jobs[k] EXCEPT !.state = state]
        BY <1>2, <2>1 DEF CancelQueued, JobRows
    <2>3. /\ jobs'[k].task = jobs[k].task /\ jobs'[k].lock = jobs[k].lock
          /\ jobs'[k].execution = jobs[k].execution /\ jobs'[k].place = jobs[k].place
          /\ jobs'[k].state = state
        BY <2>1, <2>2 DEF JobRows
    <2>4. jobs[k].place # "finally"
        BY <2>1 DEF Held, HeldAlone, PendingStates, TerminalJobStates
    <2> QED
        BY <2>1, <2>3, <2>4 DEF CalmRow, Busy, Held, HeldAlone, PendingStates
<1> QED
    BY <1>1, <1>2, StillRow

\* A task is cancelled, or marked interrupted, and jobs of it with it.
LEMMA TaskCancelled ==
    ASSUME Held, NEW t \in Tasks, NEW S, S \subseteq InStates(t, PendingStates),
           jobs' = CancelQueued(jobs, S),
           NEW state \in {"cancelled", "unknown"}, task' = WithState(t, state),
           \A u \in Tasks \ {t} : u \in interrupted \cup cut => u \in interrupted' \cup cut'
    PROVE  Calm
<1>1. /\ DOMAIN jobs' = DOMAIN jobs
      /\ \A k \in DOMAIN jobs : CalmRow(k)
      /\ \A k \in DOMAIN jobs \ S : jobs'[k] = jobs[k]
    <2>1. \A j \in S \cap DOMAIN jobs : jobs[j].state \in PendingStates
        BY DEF InStates
    <2> QED
        BY <2>1, CancelledRow
<1>2. task'[t].state = state /\ \A u \in Tasks \ {t} : task'[u].state = task[u].state
    BY OtherTasks DEF TaskStates
<1>3. ASSUME NEW u \in Tasks PROVE CalmTask(u) /\ WorkTask(u)
    <2>1. CASE u = t
        BY <1>2, <2>1 DEF CalmTask, WorkTask, Quiet
    <2>2. CASE u # t
        <3>1. \A k \in JobsOf(u) : k \in DOMAIN jobs \ S /\ jobs[k].task = u
            BY <2>2 DEF JobsOf, InStates
        <3> QED
            BY <1>1, <1>2, <2>2, <3>1, SameWork
    <2> QED
        BY <2>1, <2>2
<1> QED
    BY <1>1, <1>3 DEF Calm

LEMMA CancelCalm ==
    ASSUME Held,
           \/ \E j \in DOMAIN jobs : CancelJob(j)
           \/ \E t \in Tasks : CancelTask(t) \/ RecoverTask(t)
    PROVE  Calm
<1>1. ASSUME NEW t \in Tasks, CancelTask(t) PROVE Calm
    BY <1>1, TaskCancelled DEF CancelTask, SetState, Unchanged
<1>2. ASSUME NEW t \in Tasks, RecoverTask(t) PROVE Calm
    <2>1. InStates(t, {"queued"}) \subseteq InStates(t, PendingStates)
        BY DEF InStates, PendingStates
    <2> QED
        BY <1>2, <2>1, TaskCancelled DEF RecoverTask
<1>3. ASSUME NEW j \in DOMAIN jobs, CancelJob(j) PROVE Calm
    <2> DEFINE t == jobs[j].task
    <2>1. t \in Tasks /\ jobs[j].state \in PendingStates /\ j \in InStates(t, PendingStates)
        BY <1>3, BoundRow DEF CancelJob, PendingStates, InStates, JobsOf, Held
    <2>2. jobs' = CancelQueued(jobs, {j}) /\ UNCHANGED <<interrupted, cut>>
        BY <1>3 DEF CancelJob, Unchanged
    <2>3. CASE jobs[j].state = "queued" /\ OnlyPending(t, j)
        BY <1>3, <2>1, <2>2, <2>3, TaskCancelled DEF CancelJob, SetState
    <2>4. CASE ~(jobs[j].state = "queued" /\ OnlyPending(t, j))
        <3>1. UNCHANGED task
            BY <1>3, <2>4 DEF CancelJob
        <3>2. /\ DOMAIN jobs' = DOMAIN jobs
              /\ \A k \in DOMAIN jobs : CalmRow(k)
              /\ \A k \in DOMAIN jobs \ {j} : jobs'[k] = jobs[k]
              /\ jobs[j].state # "queued" => jobs'[j].state = "cancel_requested"
            BY <2>1, <2>2, CancelledRow
        <3>3. ASSUME NEW u \in Tasks PROVE CalmTask(u) /\ WorkTask(u)
            <4>1. CASE u # t \/ jobs[j].state # "queued"
                <5>1. \A k \in JobsOf(u) : /\ jobs'[k].task = u
                                           /\ jobs[k].state \in PendingStates => jobs'[k].state \in PendingStates
                    BY <3>2, <4>1 DEF JobsOf, CalmRow, PendingStates
                <5>2. /\ task'[u].state = task[u].state /\ DOMAIN jobs \subseteq DOMAIN jobs'
                      /\ u \in interrupted \cup cut => u \in interrupted' \cup cut'
                    BY <2>2, <3>1, <3>2
                <5> QED
                    BY <5>1, <5>2, SameWork
            <4>2. CASE u = t /\ jobs[j].state = "queued"
                <5>1. PICK k \in InStates(t, PendingStates) : k # j
                    BY <2>1, <2>4, <4>2 DEF OnlyPending
                <5>2. k \in DOMAIN jobs' /\ jobs'[k].task = t /\ jobs'[k].state \in PendingStates
                    BY <3>2, <5>1 DEF InStates, JobsOf
                <5> QED
                    BY <3>1, <4>2, <5>2 DEF CalmTask, WorkTask
            <4> QED
                BY <4>1, <4>2
        <3> QED
            BY <3>2, <3>3 DEF Calm
    <2> QED
        BY <2>3, <2>4
<1> QED
    BY <1>1, <1>2, <1>3

-----------------------------------------------------------------------------
(* New jobs, controls, and start() *)

\* A queued job is added to js, which the table was changed to before.
LEMMA AddedRow ==
    ASSUME Held, NEW js \in Table(Len(jobs)), NEW t \in Tasks, NEW w \in Worktrees,
           NEW floor \in BOOLEAN, NEW waits \in 0..Len(jobs),
           jobs' = Append(js, NewJob(t, w, waits, floor))
    PROVE  /\ DOMAIN jobs \subseteq DOMAIN jobs'
           /\ \A k \in DOMAIN jobs : jobs'[k] = js[k]
           /\ \A k \in DOMAIN jobs' \ DOMAIN jobs :
                 ~Busy(jobs', k) /\ ~jobs'[k].lock /\ jobs'[k].place # "finally"
           /\ \E k \in DOMAIN jobs' : jobs'[k].task = t /\ jobs'[k].state = "queued"
<1> DEFINE row == NewJob(t, w, waits, floor)
           n == Len(jobs)
<1>1. n \in Nat /\ DOMAIN jobs = 1..n
    BY JobsTable DEF Held, Bound
<1>2. row \in JobRows(n) /\ row.task = t
    BY NewRow DEF Held
<1>3. row.state = "queued" /\ row.lock = FALSE /\ row.execution = "none" /\ row.place = "none"
    BY DEF NewJob
<1> HIDE DEF row
<1>4. /\ Append(js, row) \in Table(n + 1)
      /\ \A k \in 1..n : Append(js, row)[k] = js[k]
      /\ Append(js, row)[n + 1] = row
    BY <1>1, <1>2, Appended, Zenon
<1>5. jobs' = Append(js, row)
    BY DEF row
<1>6. DOMAIN jobs' = 1..(n + 1) /\ (\A k \in 1..n : jobs'[k] = js[k]) /\ jobs'[n + 1] = row
    BY <1>4, <1>5 DEF Table
<1> HIDE DEF n
<1> QED
    BY <1>1, <1>2, <1>3, <1>6 DEF Busy

\* The task of the new job works; nothing else changes.
LEMMA QueuedCalm ==
    ASSUME Held, NEW t \in Tasks, NEW w \in Worktrees, NEW waits \in 0..Len(jobs),
           NEW floor \in BOOLEAN, jobs' = Append(jobs, NewJob(t, w, waits, floor)),
           task'[t].state = "working", \A u \in Tasks \ {t} : task'[u] = task[u],
           UNCHANGED <<interrupted, cut>>
    PROVE  Calm
<1>1. jobs \in Table(Len(jobs))
    BY JobsTable DEF Held, Bound
<1>2. /\ DOMAIN jobs \subseteq DOMAIN jobs'
      /\ \A k \in DOMAIN jobs : jobs'[k] = jobs[k]
      /\ \A k \in DOMAIN jobs' \ DOMAIN jobs :
            ~Busy(jobs', k) /\ ~jobs'[k].lock /\ jobs'[k].place # "finally"
      /\ \E k \in DOMAIN jobs' : jobs'[k].task = t /\ jobs'[k].state = "queued"
    BY <1>1, AddedRow
<1>3. ASSUME NEW u \in Tasks PROVE CalmTask(u) /\ WorkTask(u)
    <2>1. CASE u = t
        BY <1>2, <2>1 DEF CalmTask, WorkTask, Quiet, PendingStates
    <2>2. CASE u # t
        <3>1. \A k \in JobsOf(u) : k \in DOMAIN jobs /\ jobs[k].task = u /\ jobs'[k] = jobs[k]
            BY <1>2 DEF JobsOf
        <3> QED
            BY <1>2, <2>2, <3>1, SameWork
    <2> QED
        BY <2>1, <2>2
<1> QED
    BY <1>2, <1>3, StillRow DEF Calm

LEMMA RequestCalm ==
    ASSUME Held,
           \/ \E t \in Tasks : CreateMessage(t) \/ \E w \in Worktrees : CreateRoom(t, w) \/ ResumeTask(t, w)
           \/ \E j \in DOMAIN jobs : CreateHandoff(j) \/ RetryJob(j)
    PROVE  Calm
<1>1. /\ Len(jobs) \in Nat /\ DOMAIN jobs = 1..Len(jobs) /\ NoJob \in 0..Len(jobs)
      /\ task \in [Tasks -> TaskRows(Len(jobs))]
    BY JobsTable DEF Held, Bound, NoJob, TypeOK, TaskRows
<1>2. ASSUME NEW t \in Tasks, NEW w \in Worktrees, NEW waits \in 0..Len(jobs),
             CreateJob(t, w, waits), UNCHANGED <<interrupted, cut>>
      PROVE  Calm
    BY <1>1, <1>2, QueuedCalm DEF CreateJob, Queued
<1>3. ASSUME NEW t \in Tasks, CreateMessage(t) PROVE Calm
    <2> DEFINE prior == Newest(JobsOf(t))
               waits == IF jobs[prior].state \in PendingStates THEN prior ELSE NoJob
    <2>1. prior \in JobsOf(t)
        BY <1>1, <1>3, NewestIsLast DEF CreateMessage, JobsOf
    <2>2. waits \in 0..Len(jobs) /\ jobs[prior].cwd \in Worktrees
        BY <1>1, <2>1, BoundRow DEF JobsOf, JobRows, Held
    <2>3. CreateJob(t, jobs[prior].cwd, waits) /\ UNCHANGED <<interrupted, cut>>
        BY <1>3 DEF CreateMessage, Unchanged
    <2> QED
        BY <1>2, <2>2, <2>3
<1>4. ASSUME NEW t \in Tasks, NEW w \in Worktrees, CreateRoom(t, w) PROVE Calm
    BY <1>1, <1>2, <1>4 DEF CreateRoom, Unchanged
<1>5. ASSUME NEW j \in DOMAIN jobs, CreateHandoff(j) \/ RetryJob(j) PROVE Calm
    <2>1. jobs[j].task \in Tasks /\ jobs[j].cwd \in Worktrees
        BY BoundRow DEF JobRows, Held
    <2> QED
        BY <1>1, <1>2, <1>5, <2>1 DEF CreateHandoff, RetryJob, Unchanged
<1>6. ASSUME NEW t \in Tasks, NEW w \in Worktrees, ResumeTask(t, w) PROVE Calm
    BY <1>1, <1>6, QueuedCalm DEF ResumeTask, Unchanged
<1> QED
    BY <1>3, <1>4, <1>5, <1>6

\* The floor queues a continuation in the place of the job that claimed.
LEMMA FloorCalm ==
    ASSUME Held, NEW j \in DOMAIN jobs, NEW outcome \in Outcomes, NEW ids,
           NEW idle, NEW open, Continue(j, outcome, ids, idle, open)
    PROVE  Calm
<1> DEFINE t == jobs[j].task
           w == jobs[j].cwd
           js == Succeeded(j, outcome)
           row == [jobs[j] EXCEPT !.state = "succeeded", !.place = "finally", !.claim = outcome]
<1>1. /\ Len(jobs) \in Nat /\ jobs \in Table(Len(jobs)) /\ DOMAIN jobs = 1..Len(jobs)
      /\ NoJob \in 0..Len(jobs) /\ outcome \in TaskStates
    BY JobsTable DEF Held, Bound, NoJob, TaskStates
<1>2. t \in Tasks /\ w \in Worktrees /\ jobs[j] \in JobRows(Len(jobs))
    BY BoundRow DEF Held, JobRows
<1>3. /\ jobs' = Append(js, NewJob(t, w, NoJob, TRUE))
      /\ task' = [task EXCEPT ![t].state = FinalOutcome(t, j, outcome, ids, TRUE),
                              ![t].latest = Len(jobs) + 1]
      /\ UNCHANGED <<interrupted, cut>>
    BY DEF Continue, Unchanged
<1>4. Busy(jobs, j) /\ jobs[j].execution # "open"
    BY DEF Continue, Reports, Busy
<1>5. \A u \in Tasks \ {t} : task'[u] = task[u]
    BY <1>3 DEF Held, Bound, TypeOK
<1>6. /\ row \in JobRows(Len(jobs)) /\ row.task = t /\ row.state = "succeeded"
      /\ row.lock = jobs[j].lock /\ row.execution = jobs[j].execution
    BY <1>1, <1>2 DEF JobRows, TerminalJobStates
<1>7. js = [jobs EXCEPT ![j] = row]
    BY <1>1, <1>2 DEF Succeeded, EndJob, Table, JobRows
<1>8. js \in Table(Len(jobs))
    BY <1>1, <1>6, <1>7 DEF Table
<1> HIDE DEF js, row
<1>9. /\ DOMAIN jobs \subseteq DOMAIN jobs'
      /\ \A k \in DOMAIN jobs : jobs'[k] = js[k]
      /\ \A k \in DOMAIN jobs' \ DOMAIN jobs :
            ~Busy(jobs', k) /\ ~jobs'[k].lock /\ jobs'[k].place # "finally"
      /\ \E k \in DOMAIN jobs' : jobs'[k].task = t /\ jobs'[k].state = "queued"
    <2>1. ASSUME NEW ks, ks = js, NEW u, u = t, NEW v, v = w, NEW floor, floor = TRUE
          PROVE  /\ DOMAIN jobs \subseteq DOMAIN jobs'
                 /\ \A k \in DOMAIN jobs : jobs'[k] = ks[k]
                 /\ \A k \in DOMAIN jobs' \ DOMAIN jobs :
                       ~Busy(jobs', k) /\ ~jobs'[k].lock /\ jobs'[k].place # "finally"
                 /\ \E k \in DOMAIN jobs' : jobs'[k].task = u /\ jobs'[k].state = "queued"
        <3>1. /\ ks \in Table(Len(jobs)) /\ u \in Tasks /\ v \in Worktrees /\ floor \in BOOLEAN
              /\ NoJob \in 0..Len(jobs) /\ jobs' = Append(ks, NewJob(u, v, NoJob, floor))
            BY <1>1, <1>2, <1>3, <1>8, <2>1
        <3> QED
            BY <3>1, AddedRow
    <2> QED
        BY <2>1
<1>10. jobs'[j] = row /\ \A k \in DOMAIN jobs \ {j} : jobs'[k] = jobs[k]
    BY <1>1, <1>7, <1>9 DEF Table
<1>11. ASSUME NEW k \in DOMAIN jobs PROVE CalmRow(k)
    <2>1. CASE k = j
        BY <1>4, <1>6, <1>10, <2>1 DEF CalmRow, Busy, TerminalJobStates
    <2> QED
        BY <1>10, <2>1, StillRow
<1>12. ASSUME NEW u \in Tasks PROVE CalmTask(u) /\ WorkTask(u)
    <2>1. CASE u = t
        <3>1. ASSUME NEW k \in JobsOf(t) PROVE ~Busy(jobs', k)
            <4>1. CASE k = j
                BY <1>4, <1>6, <1>10, <4>1 DEF Busy
            <4>2. CASE k # j
                <5>1. ~Busy(jobs, k) /\ k \in DOMAIN jobs
                    BY <1>4, <3>1, <4>2, BusyAlone DEF JobsOf
                <5> QED
                    BY <1>10, <4>2, <5>1 DEF Busy
            <4> QED
                BY <4>1, <4>2
        <3> QED
            BY <1>9, <2>1, <3>1 DEF CalmTask, WorkTask, PendingStates
    <2>2. CASE u # t
        <3>1. \A k \in JobsOf(u) : k \in DOMAIN jobs /\ jobs[k].task = u /\ jobs'[k] = jobs[k]
            BY <1>10, <2>2 DEF JobsOf
        <3> QED
            BY <1>3, <1>5, <1>9, <2>2, <3>1, SameWork
    <2> QED
        BY <2>1, <2>2
<1> QED
    BY <1>9, <1>11, <1>12 DEF Calm

\* Controls, a claim in vain and the end of start() touch no job.
LEMMA ControlCalm ==
    ASSUME Held,
           \/ \E t \in Tasks : \/ \E kind \in ControlKinds : CreateControl(t, kind)
                               \/ \E j \in JobsOf(t) : Checkpoint(t, j) \/ \E ids : Acknowledge(t, j, ids)
           \/ \E j \in DOMAIN jobs : ClaimInVain(j)
           \/ Started
    PROVE  Calm
<1>1. CASE UNCHANGED <<jobs, task, interrupted, cut>>
    BY <1>1, UntouchedJobs
<1>2. ASSUME NEW t \in Tasks, task[t].state = "completed", task' = WithState(t, "checkpointed"),
             UNCHANGED <<jobs, interrupted, cut>>
      PROVE  Calm
    <2>1. task'[t].state = "checkpointed" /\ \A u \in Tasks \ {t} : task'[u].state = task[u].state
        BY <1>2, OtherTasks DEF TaskStates
    <2>2. ASSUME NEW u \in Tasks PROVE CalmTask(u) /\ WorkTask(u)
        <3>1. CASE u = t
            BY <1>2, <2>1, <3>1 DEF CalmTask, WorkTask, Quiet
        <3>2. CASE u # t
            BY <1>2, <2>1, <3>2, SameWork DEF JobsOf
        <3> QED
            BY <3>1, <3>2
    <2> QED
        BY <1>2, <2>2, StillRow DEF Calm
<1>3. ASSUME NEW t \in Tasks, NEW kind \in ControlKinds, CreateControl(t, kind) PROVE Calm
    BY <1>1, <1>2, <1>3 DEF CreateControl, SetState, Unchanged
<1>4. CASE \/ \E t \in Tasks : \E j \in JobsOf(t) : Checkpoint(t, j) \/ \E ids : Acknowledge(t, j, ids)
           \/ \E j \in DOMAIN jobs : ClaimInVain(j)
           \/ Started
    BY <1>1, <1>4 DEF Checkpoint, Acknowledge, ClaimInVain, Started, Unchanged
<1> QED
    BY <1>3, <1>4

LEMMA RecoverCalm ==
    ASSUME Held, NEW gone, RecoverJobs(gone)
    PROVE  Calm
<1> DEFINE active == {j \in DOMAIN jobs : jobs[j].state \in {"running", "cancel_requested"}}
<1>1. /\ interrupted' = {jobs[j].task : j \in active} /\ UNCHANGED <<task, cut>>
      /\ interrupted = {}
    BY DEF RecoverJobs, Held, AllMarked
<1>2. DOMAIN jobs' = DOMAIN jobs
    BY DEF RecoverJobs
<1>3. ASSUME NEW j \in active PROVE CalmRow(j)
    <2>1. jobs[j] \in JobRows(Len(jobs)) /\ j \in DOMAIN jobs
        BY BoundRow DEF Held
    <2> DEFINE execution == IF jobs[j].execution = "none" THEN "open"
                            ELSE IF j \in gone THEN "settled" ELSE jobs[j].execution
               state == IF jobs[j].state = "running" THEN "failed" ELSE "cancelled"
               lock == execution = "open"
               row == [jobs[j] EXCEPT !.state = state, !.claim = NoClaim,
                          !.execution = execution, !.lock = lock, !.place = "none"]
    <2>2. execution \in {"none", "open", "settled"} /\ state \in {"failed", "cancelled"}
        BY <2>1 DEF JobRows
    <2>3. jobs'[j] = row
        BY <1>3 DEF RecoverJobs
    <2>4. lock <=> execution = "open"
        OBVIOUS
    <2> HIDE DEF execution, state, lock
    <2>5. /\ row.task = jobs[j].task /\ row.state = state /\ row.execution = execution
          /\ row.lock = lock /\ row.place = "none"
        BY <2>1 DEF JobRows
    <2> HIDE DEF row
    <2>6. Busy(jobs, j) /\ jobs[j].lock
        BY <1>3 DEF Busy, Held, HeldAlone
    <2> QED
        BY <2>2, <2>3, <2>4, <2>5, <2>6 DEF CalmRow, Busy
<1>4. ASSUME NEW j \in DOMAIN jobs \ active PROVE jobs'[j] = jobs[j] /\ CalmRow(j)
    <2>1. jobs'[j] = jobs[j]
        BY <1>4 DEF RecoverJobs
    <2> QED
        BY <1>4, <2>1, StillRow
<1>5. ASSUME NEW t \in Tasks PROVE CalmTask(t) /\ WorkTask(t)
    <2>1. CASE \E j \in active : jobs[j].task = t
        BY <1>1, <2>1 DEF CalmTask, WorkTask
    <2>2. CASE ~\E j \in active : jobs[j].task = t
        <3>1. \A j \in JobsOf(t) : jobs'[j] = jobs[j] /\ jobs[j].task = t
            BY <1>4, <2>2 DEF JobsOf
        <3> QED
            BY <1>1, <1>2, <3>1, SameWork
    <2> QED
        BY <2>1, <2>2
<1> QED
    BY <1>2, <1>3, <1>4, <1>5 DEF Calm

-----------------------------------------------------------------------------
(* Every step *)

LEMMA DispatchHeld ==
    ASSUME Held, NEW j \in DOMAIN jobs, Dispatch(j)
    PROVE  HeldAlone' /\ WorkingHasExecution'
<1> DEFINE t == jobs[j].task
           row == [jobs[j] EXCEPT !.state = "running", !.lock = TRUE, !.place = "provider"]
<1>1. jobs[j] \in JobRows(Len(jobs)) /\ t \in Tasks
    BY BoundRow DEF Held
<1>2. /\ row \in JobRows(Len(jobs)) /\ row.task = t /\ row.state = "running"
      /\ row.lock = TRUE /\ row.place = "provider"
    BY <1>1 DEF JobRows, PendingStates
<1>3. jobs' = [jobs EXCEPT ![j] = row] /\ task' = WithState(t, "working")
      /\ UNCHANGED <<interrupted, cut>>
    BY DEF Dispatch, Unchanged
<1>4. OnlyRow(j) /\ jobs'[j] = row
    BY <1>2, <1>3, RowStep
<1> HIDE DEF row
<1>5. \A k \in DOMAIN jobs : jobs[k].lock => jobs[k].task # t
    BY DEF Dispatch, ResourcesFree
<1>6. task'[t].state = "working" /\ \A u \in Tasks \ {t} : task'[u].state = task[u].state
    BY <1>1, <1>3, OtherTasks DEF TaskStates
<1>7. ASSUME NEW k \in DOMAIN jobs'
      PROVE  /\ Busy(jobs', k) => jobs'[k].lock /\ task'[jobs'[k].task].state \notin Quiet
             /\ jobs'[k].place = "finally" => jobs'[k].state \in TerminalJobStates
    <2>1. CASE k = j
        BY <1>2, <1>4, <1>6, <2>1 DEF OnlyRow, Quiet
    <2>2. CASE k # j
        <3>1. jobs'[k] = jobs[k] /\ k \in DOMAIN jobs /\ jobs[k].task \in Tasks
            BY <1>4, <2>2, BoundRow DEF OnlyRow, Held
        <3>2. /\ Busy(jobs, k) => jobs[k].lock /\ task[jobs[k].task].state \notin Quiet
              /\ jobs[k].place = "finally" => jobs[k].state \in TerminalJobStates
            BY <3>1 DEF Held, HeldAlone
        <3> QED
            BY <1>6, <3>1, <3>2 DEF Busy, Quiet
    <2> QED
        BY <2>1, <2>2
<1>8. ASSUME NEW i \in DOMAIN jobs', NEW k \in DOMAIN jobs',
             jobs'[i].lock, jobs'[k].lock, jobs'[i].task = jobs'[k].task
      PROVE  i = k
    BY <1>2, <1>4, <1>5, <1>8 DEF OnlyRow, Held, HeldAlone
<1>9. HeldAlone'
    BY <1>7, <1>8 DEF HeldAlone, Busy
<1>10. ASSUME NEW u \in Tasks, task'[u].state = "working"
       PROVE  \/ \E k \in DOMAIN jobs' : jobs'[k].task = u /\ jobs'[k].state \in PendingStates
              \/ u \in interrupted' \cup cut'
    <2>1. CASE u = t
        BY <1>2, <1>4, <2>1 DEF OnlyRow, PendingStates
    <2>2. CASE u # t
        <3>1. \/ \E k \in DOMAIN jobs : jobs[k].task = u /\ jobs[k].state \in PendingStates
              \/ u \in interrupted \cup cut
            BY <1>6, <1>10, <2>2 DEF Held, WorkingHasExecution, InStates, JobsOf
        <3> QED
            BY <1>3, <1>4, <2>2, <3>1 DEF OnlyRow
    <2> QED
        BY <2>1, <2>2
<1>11. WorkingHasExecution'
    BY <1>10 DEF WorkingHasExecution, InStates, JobsOf
<1> QED
    BY <1>9, <1>11

LEMMA CalmSteps ==
    ASSUME Held, Next
    PROVE  Calm \/ \E j \in DOMAIN jobs : Dispatch(j)
<1> SUFFICES ASSUME \A j \in DOMAIN jobs : ~Dispatch(j) PROVE Calm
    OBVIOUS
<1>1. ASSUME NEW t \in Tasks,
             \/ CreateMessage(t) \/ CancelTask(t) \/ RecoverTask(t)
             \/ \E w \in Worktrees : CreateRoom(t, w) \/ ResumeTask(t, w)
             \/ \E kind \in ControlKinds : CreateControl(t, kind)
             \/ \E j \in JobsOf(t) :
                    Checkpoint(t, j) \/ \E ids \in SUBSET DOMAIN controls[t] : Acknowledge(t, j, ids)
      PROVE  Calm
    BY <1>1, RequestCalm, CancelCalm, ControlCalm
<1>2. ASSUME NEW j \in DOMAIN jobs,
             \/ CreateHandoff(j) \/ RetryJob(j) \/ CancelJob(j)
             \/ DropContinuation(j) \/ ClaimInVain(j)
             \/ LaunchCommand(j) \/ CommandExits(j) \/ FailOrStop(j) \/ FailUnexpected(j)
             \/ Release(j) \/ SettleExecution(j)
      PROVE  Calm
    BY <1>2, RequestCalm, CancelCalm, DropCalm, ControlCalm, RunningCalm, FailureCalm
<1>3. ASSUME NEW j \in DOMAIN jobs, NEW ids, NEW open \in BOOLEAN, NEW idle \in BOOLEAN,
             \/ \E outcome \in Outcomes :
                    Continue(j, outcome, ids, idle, open) \/ Yield(j, outcome, ids, open)
             \/ \E claim \in {"completed", NoClaim} : EnterGates(j, claim, idle, open)
             \/ PassGates(j, ids)
      PROVE  Calm
    <2>1. ASSUME NEW outcome \in Outcomes, Continue(j, outcome, ids, idle, open) PROVE Calm
        BY <2>1, FloorCalm
    <2>2. ASSUME NEW claim \in {"completed", NoClaim}, EnterGates(j, claim, idle, open) PROVE Calm
        BY <2>2, RunningCalm
    <2>3. ASSUME NEW outcome \in Outcomes, Yield(j, outcome, ids, open) PROVE Calm
        BY <2>3, ReportCalm
    <2>4. CASE PassGates(j, ids)
        BY <2>4, ReportCalm
    <2> QED
        BY <1>3, <2>1, <2>2, <2>3, <2>4
<1>4. ASSUME \/ \E gone \in SUBSET DOMAIN jobs : RecoverJobs(gone)
             \/ Crash \/ Started
      PROVE  Calm
    BY <1>4, RecoverCalm, CrashCalm, ControlCalm
<1> QED
    BY <1>1, <1>2, <1>3, <1>4 DEF Next

LEMMA MarkedKept ==
    ASSUME Held, Next
    PROVE  AllMarked'
<1> USE DEF Held, AllMarked
<1>1. CASE UNCHANGED <<daemon, interrupted>>
    BY <1>1
<1>2. ASSUME NEW t \in Tasks, RecoverTask(t) PROVE AllMarked'
    BY <1>2 DEF RecoverTask
<1>3. CASE Crash \/ Started
    BY <1>3 DEF Crash, Started
<1>4. ASSUME NEW gone, RecoverJobs(gone) PROVE AllMarked'
    BY <1>4 DEF RecoverJobs
<1>5. ASSUME NEW j \in DOMAIN jobs, FailUnexpected(j) PROVE AllMarked'
    BY <1>5 DEF FailUnexpected
<1>6. ASSUME NEW t \in Tasks,
             \/ CreateMessage(t) \/ CancelTask(t)
             \/ \E w \in Worktrees : CreateRoom(t, w) \/ ResumeTask(t, w)
             \/ \E kind \in ControlKinds : CreateControl(t, kind)
             \/ \E j \in JobsOf(t) :
                    Checkpoint(t, j) \/ \E ids \in SUBSET DOMAIN controls[t] : Acknowledge(t, j, ids)
      PROVE  UNCHANGED <<daemon, interrupted>>
    BY <1>6 DEF CreateMessage, CancelTask, CreateRoom, ResumeTask, CreateControl, Checkpoint,
       Acknowledge, Unchanged
<1>7. ASSUME NEW j \in DOMAIN jobs,
             \/ CreateHandoff(j) \/ RetryJob(j) \/ CancelJob(j)
             \/ DropContinuation(j) \/ ClaimInVain(j) \/ Dispatch(j)
             \/ LaunchCommand(j) \/ CommandExits(j) \/ FailOrStop(j)
             \/ Release(j) \/ SettleExecution(j)
      PROVE  UNCHANGED <<daemon, interrupted>>
    BY <1>7 DEF CreateHandoff, RetryJob, CancelJob, DropContinuation, ClaimInVain, Dispatch,
       LaunchCommand, CommandExits, FailOrStop, Release, SettleExecution, Unchanged
<1>8. ASSUME NEW j \in DOMAIN jobs, NEW ids, NEW open, NEW idle,
             \/ \E outcome \in Outcomes :
                    Continue(j, outcome, ids, idle, open) \/ Yield(j, outcome, ids, open)
             \/ \E claim \in {"completed", NoClaim} : EnterGates(j, claim, idle, open)
             \/ PassGates(j, ids)
      PROVE  UNCHANGED <<daemon, interrupted>>
    BY <1>8 DEF Continue, Yield, EnterGates, PassGates, Unchanged
<1> QED
    BY <1>1, <1>2, <1>3, <1>4, <1>5, <1>6, <1>7, <1>8 DEF Next

LEMMA HeldStep == Held /\ [Next]_vars => Held'
<1> SUFFICES ASSUME Held, [Next]_vars PROVE Held'
    OBVIOUS
<1>1. Bound'
    BY BoundStep DEF Held
<1>2. CASE Next
    <2>1. HeldAlone' /\ WorkingHasExecution'
        BY <1>2, CalmSteps, CalmIsHeld, DispatchHeld
    <2> QED
        BY <1>1, <1>2, <2>1, MarkedKept DEF Held
<1>3. CASE UNCHANGED vars
    <2>1. Calm /\ AllMarked'
        BY <1>3, UntouchedJobs DEF vars, Held, AllMarked
    <2> QED
        BY <1>1, <2>1, CalmIsHeld DEF Held
<1> QED
    BY <1>2, <1>3

LEMMA HeldStart == Init => Held
<1> SUFFICES ASSUME Init PROVE Held
    OBVIOUS
<1>1. Bound
    BY BoundStart
<1>2. DOMAIN jobs = {}
    BY DEF Init
<1>3. \A t \in Tasks : task[t].state = "none"
    BY DEF Init
<1> QED
    BY <1>1, <1>2, <1>3 DEF Init, Held, HeldAlone, AllMarked, WorkingHasExecution

LEMMA AlwaysHeld == Spec => []Held
BY HeldStart, HeldStep, PTL DEF Spec

\* The invariant that a task is worked on rests on: one job at a time holds the
\* resources of a task, and start() marks every interrupted task.
THEOREM CoordinationAlways == Spec => []CoordinationInv
<1>1. Held => CoordinationInv
    BY DEF Held, Bound, CoordinationInv
<1> QED
    BY <1>1, AlwaysHeld, PTL

\* Nobody waits for work that will not come: a working task has a job that is
\* queued or runs, after every end, cancellation, continuation and recovery.
THEOREM WorkComes == Spec => []WorkingHasExecution
<1>1. Held => WorkingHasExecution
    BY DEF Held
<1> QED
    BY <1>1, AlwaysHeld, PTL

-----------------------------------------------------------------------------
(* A checkpoint keeps its worktree *)

\* No step takes the tree of a task and leaves the task checkpointed, except a move.
Keeps ==
    \A w \in Worktrees :
        owner[w] # NoTask /\ owner'[w] # owner[w] =>
            \/ task'[owner[w]].state \notin {"checkpointed", "awaiting_decision"}
            \/ \E v \in Worktrees : owner'[v] = owner[w]

LEMMA SameOwnersKeep ==
    ASSUME UNCHANGED owner
    PROVE  Keeps
BY DEF Keeps

LEMMA DisownedKeeps ==
    ASSUME Held, NEW t \in Tasks, owner' \in {owner, Disowned(t)},
           owner' = owner \/ task'[t].state \notin {"checkpointed", "awaiting_decision"}
    PROVE  Keeps
BY DEF Keeps, Disowned, Held, Bound, TypeOK

LEMMA SetStateKeeps ==
    ASSUME Held, NEW t \in Tasks, NEW state \in TaskStates,
           \/ SetState(t, state)
           \/ SetStateAndRelease(t, state) /\ state \in {"blocked", "cancelled"}
    PROVE  Keeps
<1>1. task'[t].state = state
    BY OtherTasks DEF SetState, SetStateAndRelease
<1>2. owner' \in {owner, Disowned(t)}
    BY DEF SetState, SetStateAndRelease, OwnerAfter
<1>3. owner' = owner \/ state \notin {"checkpointed", "awaiting_decision"}
    BY DEF SetState, SetStateAndRelease, OwnerAfter
<1> QED
    BY <1>1, <1>2, <1>3, DisownedKeeps

LEMMA ClaimKeeps ==
    ASSUME Held, NEW j \in DOMAIN jobs, Claim(j)
    PROVE  Keeps
<1>1. owner \in [Worktrees -> Tasks \cup {NoTask}]
    BY DEF Held, Bound, TypeOK
<1> QED
    BY <1>1 DEF Claim, Keeps

LEMMA ResumeKeeps ==
    ASSUME Held, NEW t \in Tasks, NEW w \in Worktrees, ResumeTask(t, w)
    PROVE  Keeps
<1>1. owner \in [Worktrees -> Tasks \cup {NoTask}] /\ task \in [Tasks -> TaskRows(Len(jobs))]
    BY DEF Held, Bound, TypeOK, TaskRows
<1>2. task'[t].state = "working"
    BY <1>1 DEF ResumeTask
<1>3. CASE w = task[t].workdir
    BY <1>3, SameOwnersKeep DEF ResumeTask
<1>4. CASE w # task[t].workdir
    <2>1. owner[w] \in {NoTask, t} /\ owner' = [Disowned(t) EXCEPT ![w] = IF t \in ReadOnly THEN @ ELSE t]
        BY <1>4 DEF ResumeTask, Rebind
    <2>2. ASSUME NEW v \in Worktrees, owner'[v] # owner[v], owner[v] # NoTask PROVE owner[v] = t
        BY <1>1, <2>1, <2>2 DEF Disowned
    <2> QED
        BY <1>2, <2>2 DEF Keeps
<1> QED
    BY <1>3, <1>4

LEMMA SettleKeeps ==
    ASSUME Held, NEW j \in DOMAIN jobs, SettleExecution(j)
    PROVE  Keeps
<1>1. jobs[j].task \in Tasks /\ task' = task /\ owner' \in {owner, Disowned(jobs[j].task)}
    BY BoundRow DEF SettleExecution, Unchanged, Held
<1>2. task[jobs[j].task].state \notin Quiet
    BY DEF SettleExecution, Busy, Held, HeldAlone
<1> QED
    BY <1>1, <1>2, DisownedKeeps DEF Quiet

LEMMA FinalKeeps ==
    ASSUME Held, NEW j \in DOMAIN jobs, NEW ids, NEW idle, NEW open,
           \/ \E outcome \in Outcomes : Continue(j, outcome, ids, idle, open) \/ Yield(j, outcome, ids, open)
           \/ PassGates(j, ids)
    PROVE  Keeps
<1>1. jobs[j].task \in Tasks
    BY BoundRow DEF Held
<1>2. ASSUME NEW outcome \in Outcomes, Yield(j, outcome, ids, open) PROVE Keeps
    <2>1. FinalOutcome(jobs[j].task, j, outcome, ids, FALSE) \in TaskStates
        BY OutcomeType DEF Held, TaskStates
    <2> QED
        BY <1>1, <1>2, <2>1, SetStateKeeps DEF Yield
<1>3. CASE PassGates(j, ids)
    <2>1. PICK reported \in TaskStates :
             SetState(jobs[j].task, FinalOutcome(jobs[j].task, j, reported, ids, FALSE))
        <3>1. (IF jobs[j].claim = NoClaim THEN "unknown" ELSE "completed") \in TaskStates
            BY DEF TaskStates
        <3> QED
            BY <1>3, <3>1 DEF PassGates
    <2>2. FinalOutcome(jobs[j].task, j, reported, ids, FALSE) \in TaskStates
        BY OutcomeType DEF Held
    <2> QED
        BY <1>1, <2>1, <2>2, SetStateKeeps
<1>4. ASSUME NEW outcome \in Outcomes, Continue(j, outcome, ids, idle, open) PROVE Keeps
    <2>1. owner' = OwnerAfter(jobs[j].task, task'[jobs[j].task].state, FALSE)
        BY <1>4 DEF Continue
    <2> QED
        BY <1>1, <2>1, DisownedKeeps DEF OwnerAfter
<1> QED
    BY <1>2, <1>3, <1>4

LEMMA StepKeeps ==
    ASSUME Held, Next
    PROVE  Keeps
<1> USE DEF Unchanged
<1>1. ASSUME NEW t \in Tasks,
             \/ CreateMessage(t) \/ RecoverTask(t)
             \/ \E w \in Worktrees : CreateRoom(t, w)
             \/ \E j \in JobsOf(t) :
                    Checkpoint(t, j) \/ \E ids \in SUBSET DOMAIN controls[t] : Acknowledge(t, j, ids)
      PROVE  Keeps
    BY <1>1, SameOwnersKeep DEF CreateMessage, RecoverTask, CreateRoom, Checkpoint, Acknowledge, OwnerAfter
<1>2. ASSUME NEW t \in Tasks, CancelTask(t) PROVE Keeps
    BY <1>2, SetStateKeeps DEF CancelTask, TaskStates
<1>3. ASSUME NEW t \in Tasks, NEW kind, CreateControl(t, kind) PROVE Keeps
    BY <1>3, SetStateKeeps, SameOwnersKeep DEF CreateControl, TaskStates
<1>4. ASSUME NEW j \in DOMAIN jobs,
             \/ CreateHandoff(j) \/ RetryJob(j)
             \/ LaunchCommand(j) \/ CommandExits(j) \/ Release(j)
             \/ \E claim, idle, open : EnterGates(j, claim, idle, open)
      PROVE  Keeps
    BY <1>4, SameOwnersKeep DEF CreateHandoff, RetryJob, LaunchCommand, CommandExits, Release, EnterGates
<1>5. ASSUME NEW j \in DOMAIN jobs, ClaimInVain(j) \/ Dispatch(j) PROVE Keeps
    BY <1>5, ClaimKeeps DEF ClaimInVain, Dispatch
<1>6. ASSUME NEW j \in DOMAIN jobs,
             DropContinuation(j) \/ FailOrStop(j) \/ FailUnexpected(j) \/ CancelJob(j)
      PROVE  Keeps
    <2>1. jobs[j].task \in Tasks /\ {"blocked", "cancelled"} \subseteq TaskStates
        BY BoundRow DEF Held, TaskStates
    <2>2. \/ UNCHANGED owner
          \/ \E state \in {"blocked", "cancelled"} : \/ SetState(jobs[j].task, state)
                                                    \/ SetStateAndRelease(jobs[j].task, state)
        BY <1>6 DEF DropContinuation, FailOrStop, FailUnexpected, CancelJob
    <2> QED
        BY <2>1, <2>2, SameOwnersKeep, SetStateKeeps
<1>7. ASSUME \/ \E gone \in SUBSET DOMAIN jobs : RecoverJobs(gone)
             \/ Crash \/ Started
      PROVE  Keeps
    BY <1>7, SameOwnersKeep DEF RecoverJobs, Crash, Started
<1> QED
    BY <1>1, <1>2, <1>3, <1>4, <1>5, <1>6, <1>7, ResumeKeeps, SettleKeeps, FinalKeeps DEF Next

\* An explicit checkpoint keeps its worktree: only a move takes the tree of a task
\* that is checkpointed or waits for a decision.
THEOREM CheckpointsKeepTheirTree == Spec => CheckpointKeepsWorktree
<1>1. Held /\ [Next]_vars => [Keeps]_vars
    BY StepKeeps
<1>2. [Keeps]_vars =>
      [\A w \in Worktrees :
         owner[w] # NoTask /\ owner'[w] # owner[w] =>
             \/ task'[owner[w]].state \notin {"checkpointed", "awaiting_decision"}
             \/ \E v \in Worktrees : owner'[v] = owner[w]]_vars
    BY DEF Keeps
<1> QED
    BY <1>1, <1>2, AlwaysHeld, PTL DEF Spec, CheckpointKeepsWorktree

-----------------------------------------------------------------------------
(* The floor *)

Paid == Held /\ JobsAreTimely /\ ClaimsPay

\* What a step may do to row x of a job: not its identity, not a claim that counts.
Ages(x, y) ==
    /\ y.task = x.task /\ y.after = x.after /\ y.floor = x.floor
    /\ x.state = "succeeded" => y.state = "succeeded" /\ y.claim = x.claim
    /\ y.state \in PendingStates => x.state \in PendingStates
    /\ y.place \in {"provider", "gates"} => y.state \in {"running", "cancel_requested"}

\* Row x stands where its state lets it stand.
InPlace(x) == x.place \in {"provider", "gates"} => x.state \in {"running", "cancel_requested"}

\* A row that stays, ages.
LEMMA SameAges ==
    ASSUME NEW x, InPlace(x)
    PROVE  Ages(x, x)
BY DEF InPlace, Ages

\* A row that ends before it succeeded, ages.
LEMMA EndAges ==
    ASSUME NEW n, NEW x \in JobRows(n), NEW state \in TerminalJobStates, NEW claim,
           x.state \in PendingStates
    PROVE  Ages(x, [[x EXCEPT !.state = state, !.place = "finally"] EXCEPT !.claim = claim])
BY DEF Ages, JobRows, PendingStates, TerminalJobStates

\* A row that forgets where its runner stood, ages.
LEMMA ForgottenAges ==
    ASSUME NEW n, NEW x, NEW y \in JobRows(n), Ages(x, y)
    PROVE  Ages(x, [y EXCEPT !.place = "none"])
BY DEF Ages, JobRows

\* A cancelled row ages, and so does one that is asked to stop.
LEMMA CancelAges ==
    ASSUME NEW n, NEW x \in JobRows(n), InPlace(x), x.state \in PendingStates
    PROVE  Ages(x, [x EXCEPT !.state = IF @ = "queued" THEN "cancelled" ELSE "cancel_requested"])
BY DEF Ages, JobRows, InPlace, PendingStates, TerminalJobStates

\* The rows of all jobs age.
AllAge == \A i \in DOMAIN jobs : Ages(jobs[i], jobs'[i])

\* The facts about one row that the steps use.
LEMMA PaidRow ==
    ASSUME Paid, NEW i \in DOMAIN jobs
    PROVE  /\ jobs[i] \in JobRows(Len(jobs)) /\ InPlace(jobs[i]) /\ Len(jobs) \in Nat
           /\ jobs[i].task \in Tasks /\ jobs \in [1..Len(jobs) -> JobRows(Len(jobs))]
           /\ DOMAIN jobs = 1..Len(jobs)
BY BoundRow, JobsTable DEF Paid, Held, Bound, JobsAreTimely, InPlace, Table

\* A step that keeps the table, or rewrites one of its rows.
LEMMA OneRowAges ==
    ASSUME Paid, NEW j \in DOMAIN jobs, NEW row, Ages(jobs[j], row),
           jobs' = [jobs EXCEPT ![j] = row]
    PROVE  AllAge
BY PaidRow, SameAges DEF AllAge

\* A step that leaves the table alone.
LEMMA SameTableAges ==
    ASSUME Paid, UNCHANGED jobs
    PROVE  AllAge
BY PaidRow, SameAges DEF AllAge

\* A step that cancels pending jobs.
LEMMA CancelledAges ==
    ASSUME Paid, NEW S, \A i \in S : jobs[i].state \in PendingStates,
           jobs' = CancelQueued(jobs, S)
    PROVE  AllAge
<1> SUFFICES ASSUME NEW i \in DOMAIN jobs PROVE Ages(jobs[i], jobs'[i])
    BY DEF AllAge
<1>1. jobs[i] \in JobRows(Len(jobs)) /\ InPlace(jobs[i])
    BY PaidRow
<1>2. jobs'[i] = IF i \in S
                 THEN [jobs[i] EXCEPT !.state = IF @ = "queued" THEN "cancelled" ELSE "cancel_requested"]
                 ELSE jobs[i]
    BY DEF CancelQueued
<1> QED
    BY <1>1, <1>2, SameAges, CancelAges

\* Dispatch, and the commands of a running job.
LEMMA RunnerAges ==
    ASSUME Paid, NEW j \in DOMAIN jobs,
           \/ DropContinuation(j) \/ ClaimInVain(j) \/ Dispatch(j)
           \/ LaunchCommand(j) \/ CommandExits(j) \/ Release(j) \/ SettleExecution(j)
           \/ \E claim, idle, open : EnterGates(j, claim, idle, open)
    PROVE  AllAge
<1>1. jobs[j] \in JobRows(Len(jobs)) /\ InPlace(jobs[j])
    BY PaidRow
<1>2. CASE DropContinuation(j)
    <2>1. jobs' = [jobs EXCEPT ![j] = [jobs[j] EXCEPT !.state = "cancelled"]]
        BY <1>2 DEF DropContinuation, TransitionJob
    <2>2. Ages(jobs[j], [jobs[j] EXCEPT !.state = "cancelled"])
        BY <1>1, <1>2 DEF DropContinuation, Looks, Ages, JobRows, InPlace, PendingStates
    <2> QED BY <2>1, <2>2, OneRowAges
<1>3. CASE ClaimInVain(j)
    BY <1>3, SameTableAges DEF ClaimInVain, Unchanged
<1>4. CASE Dispatch(j)
    <2> DEFINE row == [jobs[j] EXCEPT !.state = "running", !.lock = TRUE, !.place = "provider"]
    <2>1. jobs' = [jobs EXCEPT ![j] = row]
        BY <1>4 DEF Dispatch
    <2>2. Ages(jobs[j], row)
        BY <1>1, <1>4 DEF Dispatch, Looks, Ages, JobRows, InPlace, PendingStates
    <2> QED BY <2>1, <2>2, OneRowAges
<1>5. CASE LaunchCommand(j) \/ CommandExits(j)
    <2>1. PICK e : jobs' = [jobs EXCEPT ![j] = [jobs[j] EXCEPT !.execution = e]]
        BY <1>5 DEF LaunchCommand, CommandExits
    <2>2. Ages(jobs[j], [jobs[j] EXCEPT !.execution = e])
        BY <1>1 DEF Ages, JobRows, InPlace, PendingStates
    <2> QED BY <2>1, <2>2, OneRowAges
<1>6. CASE Release(j)
    <2> DEFINE row == [jobs[j] EXCEPT !.place = "none", !.lock = jobs[j].execution = "open"]
    <2>1. jobs' = [jobs EXCEPT ![j] = row]
        BY <1>6 DEF Release
    <2>2. Ages(jobs[j], row)
        BY <1>1 DEF Ages, JobRows, InPlace, PendingStates
    <2> QED BY <2>1, <2>2, OneRowAges
<1>7. CASE SettleExecution(j)
    <2> DEFINE row == [jobs[j] EXCEPT !.execution = "settled", !.lock = FALSE]
    <2>1. jobs' = [jobs EXCEPT ![j] = row]
        BY <1>7 DEF SettleExecution
    <2>2. Ages(jobs[j], row)
        BY <1>1 DEF Ages, JobRows, InPlace, PendingStates
    <2> QED BY <2>1, <2>2, OneRowAges
<1>8. ASSUME NEW claim, NEW idle, NEW open, EnterGates(j, claim, idle, open) PROVE AllAge
    <2> DEFINE row == [jobs[j] EXCEPT !.place = "gates", !.claim = claim]
    <2>1. jobs' = [jobs EXCEPT ![j] = row] /\ jobs[j].state = "running"
        BY <1>8 DEF EnterGates, Reports
    <2>2. Ages(jobs[j], row)
        BY <1>1, <2>1 DEF Ages, JobRows, InPlace, PendingStates
    <2> QED BY <2>1, <2>2, OneRowAges
<1> QED
    BY <1>2, <1>3, <1>4, <1>5, <1>6, <1>7, <1>8

\* The ends of a running job.
LEMMA EndsAge ==
    ASSUME Paid, NEW j \in DOMAIN jobs, NEW ids,
           \/ \E outcome \in Outcomes, open \in BOOLEAN : Yield(j, outcome, ids, open)
           \/ PassGates(j, ids)
           \/ FailOrStop(j) \/ FailUnexpected(j)
    PROVE  AllAge
<1>1. jobs[j] \in JobRows(Len(jobs)) /\ InPlace(jobs[j]) /\ jobs \in [1..Len(jobs) -> JobRows(Len(jobs))]
    BY PaidRow
<1> DEFINE RowAtEnd(state, claim) ==
               [[jobs[j] EXCEPT !.state = state, !.place = "finally"] EXCEPT !.claim = claim]
<1>2. ASSUME NEW state, NEW claim
      PROVE  [EndJob(jobs, j, state) EXCEPT ![j].claim = claim] = [jobs EXCEPT ![j] = RowAtEnd(state, claim)]
    BY <1>1 DEF EndJob, JobRows
<1>3. ASSUME NEW state PROVE EndJob(jobs, j, state) = [jobs EXCEPT ![j] = RowAtEnd(state, jobs[j].claim)]
    BY <1>1 DEF EndJob, JobRows
<1>4. ASSUME NEW state \in TerminalJobStates, NEW claim, jobs[j].state \in PendingStates
      PROVE  Ages(jobs[j], RowAtEnd(state, claim))
    BY <1>1, <1>4, EndAges
<1>5. jobs[j].state \in PendingStates
    BY <1>1 DEF Yield, Reports, PassGates, FailOrStop, FailUnexpected, InPlace, PendingStates
<1>6. ASSUME NEW outcome, NEW open, Yield(j, outcome, ids, open) PROVE AllAge
    <2>1. jobs' = [jobs EXCEPT ![j] = RowAtEnd("succeeded", outcome)]
        BY <1>2, <1>6 DEF Yield, Succeeded
    <2> QED BY <1>4, <1>5, <2>1, OneRowAges DEF TerminalJobStates
<1>7. CASE PassGates(j, ids)
    <2>1. jobs' = [jobs EXCEPT ![j] = RowAtEnd("succeeded", jobs[j].claim)]
        BY <1>3, <1>7 DEF PassGates
    <2> QED BY <1>4, <1>5, <2>1, OneRowAges DEF TerminalJobStates
<1>8. CASE FailOrStop(j) \/ FailUnexpected(j)
    <2>1. PICK state \in TerminalJobStates :
             \/ jobs' = [EndJob(jobs, j, state) EXCEPT ![j].claim = NoClaim]
             \/ jobs' = Forgotten([EndJob(jobs, j, state) EXCEPT ![j].claim = NoClaim])
        BY <1>8 DEF FailOrStop, FailUnexpected, TerminalJobStates
    <2> DEFINE ended == [jobs EXCEPT ![j] = RowAtEnd(state, NoClaim)]
    <2>2. jobs' = ended \/ jobs' = Forgotten(ended)
        BY <1>2, <2>1
    <2>3. \A i \in DOMAIN jobs : Ages(jobs[i], ended[i]) /\ ended[i] \in JobRows(Len(jobs))
        <3>1. RowAtEnd(state, NoClaim) \in JobRows(Len(jobs))
            BY <1>1 DEF JobRows, TerminalJobStates
        <3> QED BY <1>1, <1>4, <1>5, <3>1, PaidRow, SameAges
    <2>4. \A i \in DOMAIN jobs : Forgotten(ended)[i] = [ended[i] EXCEPT !.place = "none"]
        BY DEF Forgotten
    <2> HIDE DEF ended
    <2>5. ASSUME NEW i \in DOMAIN jobs PROVE Ages(jobs[i], [ended[i] EXCEPT !.place = "none"])
        BY <2>3, ForgottenAges
    <2> QED
        BY <2>2, <2>3, <2>4, <2>5 DEF AllAge
<1> QED
    BY <1>6, <1>7, <1>8

\* Jobs can be counted.
LEMMA JobsCounted ==
    ASSUME NEW n \in Nat, NEW S, S \subseteq 1..n
    PROVE  IsFiniteSet(S) /\ Cardinality(S) \in Nat
<1>1. IsFiniteSet(1..n)
    BY FS_Interval
<1> QED
    BY <1>1, FS_Subset, FS_CardinalityType

\* More jobs count for no less.
LEMMA UpToGrows ==
    ASSUME NEW n \in Nat, NEW T, IsFiniteSet(T), NEW S, S \subseteq T, NEW k \in Nat
    PROVE  /\ UpTo(k, S) \in Nat /\ UpTo(k, T) \in Nat
           /\ UpTo(k, S) <= UpTo(k, T) /\ UpTo(k, S) <= k
<1>1. Cardinality(S) \in Nat /\ Cardinality(T) \in Nat /\ Cardinality(S) <= Cardinality(T)
    BY FS_Subset, FS_CardinalityType
<1> QED
    BY <1>1 DEF UpTo

\* One more job below the limit counts.
LEMMA UpToAdds ==
    ASSUME NEW S, IsFiniteSet(S), NEW x, x \notin S, NEW k \in Nat, Cardinality(S) < k
    PROVE  UpTo(k, S \cup {x}) = UpTo(k, S) + 1
<1>1. Cardinality(S) \in Nat /\ Cardinality(S \cup {x}) = Cardinality(S) + 1
    BY FS_AddElement, FS_CardinalityType
<1> QED
    BY <1>1 DEF UpTo

\* No step forgets a control.
LengthsKept == \A u \in Tasks : Len(controls'[u]) = Len(controls[u])

\* At most one job is new, and it knows the newest control.
JobsAdded ==
    LET n == Len(jobs) + 1 IN
    \/ DOMAIN jobs' = DOMAIN jobs
    \/ /\ DOMAIN jobs' = 1..n
       /\ jobs'[n].place = "none" /\ jobs'[n].task \in Tasks
       /\ jobs'[n].after = Len(controls[jobs'[n].task])

\* No continuation is among the new jobs.
NoContinuation ==
    \A i \in DOMAIN jobs' \ DOMAIN jobs : ~jobs'[i].floor

LEMMA StaysTimely ==
    ASSUME Paid, AllAge, JobsAdded, \A u \in Tasks : Len(controls'[u]) \in Nat,
           \A u \in Tasks : Len(controls[u]) <= Len(controls'[u])
    PROVE  JobsAreTimely'
<1> SUFFICES ASSUME NEW i \in DOMAIN jobs'
             PROVE  /\ jobs'[i].after <= Len(controls'[jobs'[i].task])
                    /\ InPlace(jobs'[i])
    BY DEF JobsAreTimely, InPlace
<1>1. CASE i \in DOMAIN jobs
    <2>1. Ages(jobs[i], jobs'[i]) /\ jobs[i].task \in Tasks /\ jobs[i] \in JobRows(Len(jobs))
        BY <1>1, PaidRow DEF AllAge
    <2>2. jobs[i].after <= Len(controls[jobs[i].task]) /\ jobs[i].after \in Nat
        BY <1>1, <2>1 DEF Paid, JobsAreTimely, JobRows
    <2>3. Len(controls[jobs[i].task]) \in Nat
        BY <2>1, InboxSeq DEF Paid, Held, Bound
    <2> QED BY <2>1, <2>2, <2>3 DEF Ages, InPlace
<1>2. CASE i \notin DOMAIN jobs
    <2>1. jobs'[i].place = "none" /\ jobs'[i].task \in Tasks /\ jobs'[i].after = Len(controls[jobs'[i].task])
        BY <1>2, JobsTable DEF JobsAdded, Paid, Held, Bound
    <2> QED BY <2>1 DEF InPlace
<1> QED BY <1>1, <1>2

\* How the sets that are counted move while no control is recorded.
LEMMA CountedSets ==
    ASSUME Paid, AllAge, JobsAdded, NEW t \in Tasks, Len(controls'[t]) = Len(controls[t])
    PROVE  /\ Continuations(t) \subseteq Continuations(t)'
           /\ \A i \in Continuations(t)' : i \in Continuations(t) \/ i \notin DOMAIN jobs
           /\ \A o : Claims(t, o) \subseteq Claims(t, o)'
           /\ Outdated(t)' \subseteq Outdated(t)
<1>1. /\ \A i \in DOMAIN jobs : Ages(jobs[i], jobs'[i])
      /\ DOMAIN jobs \subseteq DOMAIN jobs'
      /\ Len(controls'[t]) = Len(controls[t]) /\ Len(controls[t]) \in Nat
    BY JobsTable, InboxSeq DEF AllAge, JobsAdded, Paid, Held, Bound
<1>2. \A i \in DOMAIN jobs : i \in Recent(t)' <=> i \in Recent(t)
    BY <1>1 DEF Recent, JobsOf, Ages
<1>3. /\ Continuations(t) \subseteq Continuations(t)'
      /\ \A i \in Continuations(t)' : i \in Continuations(t) \/ i \notin DOMAIN jobs
    BY <1>1, <1>2 DEF Continuations, Recent, JobsOf, Ages
<1>4. \A o : Claims(t, o) \subseteq Claims(t, o)'
    BY <1>1, <1>2 DEF Claims, Recent, JobsOf, Ages
<1>5. ASSUME NEW i \in Outdated(t)' PROVE i \in Outdated(t)
    <2>1. i \in DOMAIN jobs' /\ jobs'[i].task = t /\ jobs'[i].state \in PendingStates
          /\ jobs'[i].after < Len(controls[t])
        BY <1>1, <1>5 DEF Outdated, InStates, JobsOf
    <2>2. i \in DOMAIN jobs
        BY <1>1, <2>1, JobsTable DEF JobsAdded, Paid, Held, Bound
    <2> QED BY <1>1, <2>1, <2>2 DEF Outdated, InStates, JobsOf, Ages
<1> QED BY <1>3, <1>4, <1>5

\* The jobs of a task that are counted, now and after a step, are finitely many.
LEMMA CountedFinite ==
    ASSUME Paid, Bound', NEW t
    PROVE  /\ IsFiniteSet(Continuations(t)) /\ IsFiniteSet(Continuations(t)')
           /\ \A o : IsFiniteSet(Claims(t, o)) /\ IsFiniteSet(Claims(t, o)')
<1>1. PICK n \in Nat : DOMAIN jobs = 1..n
    BY JobsTable DEF Paid, Held, Bound
<1>2. PICK m \in Nat : DOMAIN jobs' = 1..m
    BY DEF Bound, TypeOK
<1>3. Continuations(t) \subseteq 1..n /\ \A o : Claims(t, o) \subseteq 1..n
    BY <1>1 DEF Continuations, Claims, Recent, JobsOf
<1>4. Continuations(t)' \subseteq 1..m /\ \A o : Claims(t, o)' \subseteq 1..m
    BY <1>2 DEF Continuations, Claims, Recent, JobsOf
<1> QED BY <1>3, <1>4, JobsCounted

\* Task t has paid for its continuations.
Pays(t) == Cardinality(Continuations(t)) <=
    UpTo(2, Claims(t, "blocked")) + UpTo(1, Claims(t, "completed")) + LateAnswers(t)

\* What may be added, and what is added to.
LEMMA PaysNumbers ==
    ASSUME Paid, Bound', NEW t
    PROVE  /\ Cardinality(Continuations(t)) \in Nat /\ Cardinality(Continuations(t)') \in Nat
           /\ UpTo(2, Claims(t, "blocked")) \in Nat /\ UpTo(2, Claims(t, "blocked")') \in Nat
           /\ UpTo(1, Claims(t, "completed")) \in Nat /\ UpTo(1, Claims(t, "completed")') \in Nat
           /\ LateAnswers(t) \in {0, 1} /\ LateAnswers(t)' \in {0, 1}
<1>1. /\ IsFiniteSet(Continuations(t)) /\ IsFiniteSet(Continuations(t)')
      /\ IsFiniteSet(Claims(t, "blocked")) /\ IsFiniteSet(Claims(t, "blocked")')
      /\ IsFiniteSet(Claims(t, "completed")) /\ IsFiniteSet(Claims(t, "completed")')
    BY CountedFinite
<1>2. LateAnswers(t) \in {0, 1} /\ LateAnswers(t)' \in {0, 1}
    BY DEF LateAnswers
<1> QED BY <1>1, <1>2, FS_CardinalityType DEF UpTo

\* A step that adds no continuation of the task, and records no control of it: nothing more
\* is due, and no claim is lost.
LEMMA NothingDue ==
    ASSUME Paid, Bound', AllAge, JobsAdded, NEW t \in Tasks,
           Len(controls'[t]) = Len(controls[t]),
           \A i \in DOMAIN jobs' \ DOMAIN jobs : jobs'[i].floor => jobs'[i].task # t
    PROVE  Pays(t)'
<1>1. Continuations(t)' = Continuations(t)
    BY CountedSets DEF Continuations, Recent, JobsOf
<1>2. /\ UpTo(2, Claims(t, "blocked")) <= UpTo(2, Claims(t, "blocked")')
      /\ UpTo(1, Claims(t, "completed")) <= UpTo(1, Claims(t, "completed")')
    BY CountedSets, CountedFinite, UpToGrows
<1>3. LateAnswers(t) <= LateAnswers(t)'
    <2>1. controls'[t] = <<>> <=> controls[t] = <<>>
        BY EmptySeq, InboxSeq DEF Paid, Held, Bound, TypeOK
    <2> QED BY <2>1, CountedSets DEF LateAnswers
<1>4. Pays(t)
    BY DEF Paid, ClaimsPay, Pays
<1> QED BY <1>1, <1>2, <1>3, <1>4, PaysNumbers DEF Pays

\* A step that creates no continuation and records no control.
LEMMA NothingToPay ==
    ASSUME Paid, Bound', AllAge, LengthsKept, JobsAdded, NoContinuation
    PROVE  ClaimsPay' /\ JobsAreTimely'
<1>1. ASSUME NEW t \in Tasks PROVE Pays(t)'
    BY NothingDue DEF LengthsKept, NoContinuation
<1>2. \A u \in Tasks : Len(controls[u]) \in Nat /\ Len(controls'[u]) = Len(controls[u])
    BY InboxSeq DEF LengthsKept, Paid, Held, Bound
<1>3. JobsAreTimely'
    BY <1>2, StaysTimely
<1> QED BY <1>1, <1>3 DEF ClaimsPay, Pays

\* The newest control makes every continuation an old one.
LEMMA ControlPays ==
    ASSUME Paid, Bound', NEW t \in Tasks, NEW kind \in ControlKinds, CreateControl(t, kind)
    PROVE  ClaimsPay' /\ JobsAreTimely'
<1>1. jobs' = jobs /\ AllAge /\ JobsAdded
    BY SameTableAges DEF CreateControl, Unchanged, JobsAdded
<1>2. controls' = Recorded(t, kind)
    BY DEF CreateControl, Recorded
<1>3. TypeOK /\ \A u \in Tasks : Len(controls[u]) \in Nat /\ DOMAIN controls'[u] = 1..Len(controls'[u])
                                /\ Len(controls'[u]) \in Nat
    <2>1. TypeOK /\ \A u \in Tasks : Len(controls[u]) \in Nat
        BY InboxSeq DEF Paid, Held, Bound
    <2>2. \A u \in Tasks : controls'[u] \in Seq(ControlRows(Len(jobs')))
        BY DEF Bound, TypeOK, ControlRows
    <2> QED BY <2>1, <2>2, LenProperties
<1>4. \A u \in Tasks \ {t} : controls'[u] = controls[u]
    BY <1>2, <1>3, RecordedRows
<1>5. Len(controls'[t]) = Len(controls[t]) + 1
    <2>1. DOMAIN controls'[t] = 1..(Len(controls[t]) + 1)
        BY <1>2, <1>3, RecordedRows
    <2>2. Len(controls'[t]) \in Nat /\ Len(controls[t]) \in Nat
          /\ 1..Len(controls'[t]) = 1..(Len(controls[t]) + 1)
        BY <1>3, <2>1
    <2> QED BY <2>2
<1>6. JobsAreTimely'
    BY <1>1, <1>3, <1>4, <1>5, StaysTimely
<1>7. ASSUME NEW u \in Tasks, u # t PROVE Pays(u)'
    BY <1>1, <1>4, <1>7, NothingDue
<1>8. Pays(t)'
    <2>1. \A i \in DOMAIN jobs : jobs[i].task = t => jobs[i].after \in Nat /\ jobs[i].after <= Len(controls[t])
        BY PaidRow DEF Paid, JobsAreTimely, JobRows
    <2>2. Recent(t)' = {}
        BY <1>1, <1>3, <1>5, <2>1 DEF Recent, JobsOf
    <2>3. Cardinality(Continuations(t)') = 0
        BY <2>2, FS_EmptySet DEF Continuations
    <2> QED BY <2>3, PaysNumbers DEF Pays
<1> QED BY <1>6, <1>7, <1>8 DEF ClaimsPay, Pays

\* Whoever reports has no other pending job of its task to wait for.
LEMMA ReporterIsLast ==
    ASSUME Paid, NEW j \in DOMAIN jobs, NEW outcome \in Outcomes, NEW ids, NEW idle, NEW open,
           Continue(j, outcome, ids, idle, open)
    PROVE  InStates(jobs[j].task, PendingStates) = {j}
<1>1. jobs[j].state = "running" /\ InStates(jobs[j].task, {"queued"}) \ {j} = {}
    BY DEF Continue, Reports, Doubted, CanContinue
<1>2. ASSUME NEW i \in InStates(jobs[j].task, PendingStates), i # j PROVE FALSE
    <2>1. i \in DOMAIN jobs /\ jobs[i].task = jobs[j].task /\ jobs[i].state \in {"running", "cancel_requested"}
        BY <1>1, <1>2 DEF InStates, JobsOf, PendingStates
    <2>2. jobs[i].lock /\ jobs[j].lock
        BY <1>1, <2>1 DEF Paid, Held, HeldAlone, Busy
    <2> QED BY <1>2, <2>1, <2>2 DEF Paid, Held, HeldAlone
<1> QED BY <1>1, <1>2 DEF InStates, JobsOf, PendingStates

\* What a continuation does to the tables.
LEMMA ContinueTables ==
    ASSUME Paid, NEW j \in DOMAIN jobs, NEW outcome \in Outcomes, NEW ids, NEW idle, NEW open,
           Continue(j, outcome, ids, idle, open), NEW t \in Tasks, t = jobs[j].task
    PROVE  LET n == Len(jobs) + 1 IN
           /\ AllAge /\ LengthsKept /\ JobsAdded
           /\ DOMAIN jobs' = 1..n /\ n \notin DOMAIN jobs
           /\ jobs'[n].task = t /\ jobs'[n].floor
           /\ jobs'[n].after = Len(controls[t])
           /\ jobs'[j].state = "succeeded" /\ jobs'[j].claim = outcome
<1> DEFINE row == [[jobs[j] EXCEPT !.state = "succeeded", !.place = "finally"] EXCEPT !.claim = outcome]
           js == [jobs EXCEPT ![j] = row]
           new == NewJob(t, jobs[j].cwd, NoJob, TRUE)
<1>1. /\ jobs \in [1..Len(jobs) -> JobRows(Len(jobs))] /\ Len(jobs) \in Nat /\ DOMAIN jobs = 1..Len(jobs)
      /\ jobs[j] \in JobRows(Len(jobs)) /\ jobs[j].cwd \in Worktrees /\ NoJob \in 0..Len(jobs)
    <2>1. /\ jobs \in [1..Len(jobs) -> JobRows(Len(jobs))] /\ Len(jobs) \in Nat /\ DOMAIN jobs = 1..Len(jobs)
          /\ jobs[j] \in JobRows(Len(jobs))
        BY PaidRow
    <2> QED BY <2>1 DEF JobRows, NoJob
<1>2. jobs' = Append(js, new) /\ controls' = Acknowledged(t, j, ids) /\ jobs[j].state = "running"
    <2>1. Succeeded(j, outcome) = js
        BY <1>1 DEF Succeeded, EndJob, JobRows
    <2> QED BY <2>1 DEF Continue, Reports
<1>3. row \in JobRows(Len(jobs)) /\ outcome \in TaskStates
    BY <1>1 DEF JobRows, TerminalJobStates, TaskStates
<1>4. js \in Table(Len(jobs))
    BY <1>1, <1>3, Z3 DEF Table
<1>5. new \in JobRows(Len(jobs))
    BY <1>1, NewRow DEF Paid, Held
<1> HIDE DEF new, js
<1>6a. js[j] = row /\ \A i \in DOMAIN jobs : i # j => js[i] = jobs[i]
    BY <1>1 DEF js
<1>6. /\ jobs' \in Table(Len(jobs) + 1)
      /\ \A i \in 1..Len(jobs) : jobs'[i] = js[i]
      /\ jobs'[Len(jobs) + 1] = new
    <2>1. Len(jobs) \in Nat
        BY <1>1
    <2> QED BY ONLY <2>1, <1>2, <1>4, <1>5, Appended
<1>7. Ages(jobs[j], row)
    <2>1. jobs[j].state \in PendingStates /\ "succeeded" \in TerminalJobStates
        BY <1>2 DEF TerminalJobStates, PendingStates
    <2> QED BY <1>1, <2>1, EndAges
<1>8. AllAge
    BY <1>1, <1>6, <1>6a, <1>7, PaidRow, SameAges DEF AllAge
<1>9. LengthsKept
    <2>1. TypeOK /\ Acknowledged(t, j, ids) \in [Tasks -> Seq(ControlRows(Len(jobs)))]
        BY <1>1, AcknowledgedType DEF Paid, Held, Bound
    <2>2. \A u \in Tasks : DOMAIN controls'[u] = DOMAIN controls[u]
        BY <1>1, <1>2, <2>1, AcknowledgedType
    <2>3. \A u \in Tasks : controls'[u] \in Seq(ControlRows(Len(jobs))) /\ controls[u] \in Seq(ControlRows(Len(jobs)))
        BY <1>2, <2>1, InboxSeq
    <2> QED BY <2>2, <2>3, LenProperties DEF LengthsKept
<1>10. DOMAIN jobs' = 1..(Len(jobs) + 1)
    BY <1>6 DEF Table
<1>11. /\ new.task = t /\ new.floor /\ new.after = Len(controls[t]) /\ new.place = "none"
    BY DEF NewJob, new
<1>12. JobsAdded
    BY <1>1, <1>6, <1>10, <1>11 DEF JobsAdded
<1>13. row.state = "succeeded" /\ row.claim = outcome /\ js[j] = row
    BY <1>1, <1>6a DEF JobRows
<1>14. jobs'[j].state = "succeeded" /\ jobs'[j].claim = outcome
    BY <1>1, <1>6, <1>13
<1> QED
    BY <1>1, <1>6, <1>8, <1>9, <1>10, <1>11, <1>12, <1>14

\* A continuation is paid for by the claim that asks for it, or is the one that answers
\* the newest control.
LEMMA ContinuePays ==
    ASSUME Paid, Bound', NEW j \in DOMAIN jobs, NEW outcome \in Outcomes, NEW ids, NEW idle, NEW open,
           Continue(j, outcome, ids, idle, open), NEW t \in Tasks, t = jobs[j].task,
           NEW n \in Nat, n = Len(jobs) + 1
    PROVE  ClaimsPay' /\ JobsAreTimely'
<1>1. /\ AllAge /\ LengthsKept /\ JobsAdded
      /\ DOMAIN jobs' = 1..n /\ n \notin DOMAIN jobs
      /\ jobs'[n].task = t /\ jobs'[n].floor /\ jobs'[n].after = Len(controls[t])
      /\ jobs'[j].state = "succeeded" /\ jobs'[j].claim = outcome
    BY ContinueTables
<1>2. t = jobs[j].task /\ n = Len(jobs) + 1 /\ Len(jobs) \in Nat /\ DOMAIN jobs = 1..Len(jobs) /\ jobs[j] \in JobRows(Len(jobs))
    BY PaidRow
<1>3. \A u \in Tasks : Len(controls[u]) \in Nat /\ Len(controls'[u]) = Len(controls[u])
    BY <1>1, InboxSeq DEF LengthsKept, Paid, Held, Bound
<1>4. JobsAreTimely'
    BY <1>1, <1>3, StaysTimely
<1>5. ASSUME NEW u \in Tasks, u # t PROVE Pays(u)'
    BY <1>1, <1>2, <1>3, <1>5, NothingDue
<1>6. /\ Continuations(t) \subseteq Continuations(t)'
      /\ \A i \in Continuations(t)' : i \in Continuations(t) \/ i \notin DOMAIN jobs
      /\ \A o : Claims(t, o) \subseteq Claims(t, o)'
      /\ Outdated(t)' \subseteq Outdated(t)
    BY <1>1, <1>2, <1>3, CountedSets
<1>7. Cardinality(Continuations(t)') = Cardinality(Continuations(t)) + 1
    <2>1. n \in Continuations(t)' /\ n \notin Continuations(t)
        BY <1>1, <1>2, <1>3 DEF Continuations, Recent, JobsOf
    <2>2. \A i \in Continuations(t)' : i \in DOMAIN jobs \/ i = n
        BY <1>1, <1>2 DEF Continuations, Recent, JobsOf
    <2>3. Continuations(t)' = Continuations(t) \cup {n}
        BY <1>6, <2>1, <2>2
    <2> QED BY <2>1, <2>3, CountedFinite, FS_AddElement
<1>8. Outdated(t) \subseteq {j} /\ Outdated(t)' = {}
    <2>1. Outdated(t) \subseteq {j}
        BY <1>2, ReporterIsLast DEF Outdated
    <2>2. j \notin Outdated(t)'
        BY <1>1 DEF Outdated, InStates, PendingStates
    <2> QED BY <1>6, <2>1, <2>2
<1>9. controls'[t] = <<>> <=> controls[t] = <<>>
    BY <1>2, <1>3, EmptySeq, InboxSeq DEF Paid, Held, Bound, TypeOK
<1>10. /\ UpTo(2, Claims(t, "blocked")) <= UpTo(2, Claims(t, "blocked")')
       /\ UpTo(1, Claims(t, "completed")) <= UpTo(1, Claims(t, "completed")')
    BY <1>6, CountedFinite, UpToGrows
<1>11. jobs[j].after \in Nat /\ jobs[j].after <= Len(controls[t]) /\ jobs[j].state = "running"
       /\ Len(controls[t]) \in Nat
    BY <1>2, <1>3 DEF Paid, JobsAreTimely, JobRows, Continue, Reports
<1>12. Pays(t)
    BY <1>2 DEF Paid, ClaimsPay, Pays
<1>16. /\ Cardinality(Continuations(t)) \in Nat /\ Cardinality(Continuations(t)') \in Nat
       /\ UpTo(2, Claims(t, "blocked")) \in Nat /\ UpTo(2, Claims(t, "blocked")') \in Nat
       /\ UpTo(1, Claims(t, "completed")) \in Nat /\ UpTo(1, Claims(t, "completed")') \in Nat
       /\ LateAnswers(t) \in {0, 1} /\ LateAnswers(t)' \in {0, 1}
    BY PaysNumbers
<1>13. ASSUME jobs[j].after < Len(controls[t]) PROVE Pays(t)'
    <2>1. controls[t] # <<>>
        BY <1>2, <1>11, <1>13, EmptySeq
    <2>2. j \in Outdated(t)
        BY <1>2, <1>11, <1>13 DEF Outdated, InStates, JobsOf, PendingStates
    <2>3. LateAnswers(t) = 0 /\ LateAnswers(t)' = 1
        BY <1>8, <1>9, <2>1, <2>2 DEF LateAnswers
    <2> QED BY <1>7, <1>10, <1>12, <2>3, <1>16 DEF Pays
<1>14. ASSUME jobs[j].after = Len(controls[t]) PROVE Pays(t)'
    <2>1. j \notin Outdated(t)
        BY <1>11, <1>14 DEF Outdated
    <2>2. LateAnswers(t)' = LateAnswers(t)
        BY <1>8, <1>9, <2>1 DEF LateAnswers
    <2>3. j \notin Claims(t, outcome) /\ j \in Claims(t, outcome)'
        BY <1>1, <1>2, <1>3, <1>11, <1>14 DEF Claims, Recent, JobsOf, AllAge, Ages
    <2>4. PriorClaimCount(t, j, outcome) = Cardinality(Claims(t, outcome))
        <3>1. {k \in InStates(t, {"succeeded"}) \ {j} :
                 jobs[k].claim = outcome /\ jobs[k].after = Len(controls[t])} = Claims(t, outcome)
            BY <1>11 DEF Claims, Recent, InStates, JobsOf
        <3> QED BY <3>1 DEF PriorClaimCount
    <2>5. Claims(t, outcome) \cup {j} \subseteq Claims(t, outcome)' /\ IsFiniteSet(Claims(t, outcome)')
          /\ IsFiniteSet(Claims(t, outcome)) /\ Cardinality(Claims(t, outcome)) \in Nat
        BY <1>6, <2>3, CountedFinite, FS_CardinalityType
    <2>6. \/ outcome = "blocked" /\ Cardinality(Claims(t, outcome)) < 2
          \/ outcome = "completed" /\ Cardinality(Claims(t, outcome)) < 1
        BY <1>2, <2>4, <2>5 DEF Continue, Doubted
    <2>7. ASSUME NEW k \in Nat, Cardinality(Claims(t, outcome)) < k
          PROVE  UpTo(k, Claims(t, outcome)) + 1 <= UpTo(k, Claims(t, outcome)')
        <3>1. UpTo(k, Claims(t, outcome) \cup {j}) = UpTo(k, Claims(t, outcome)) + 1
            BY <2>3, <2>5, <2>7, UpToAdds
        <3>2. UpTo(k, Claims(t, outcome) \cup {j}) <= UpTo(k, Claims(t, outcome)')
            BY <2>5, <2>7, UpToGrows
        <3> QED BY <3>1, <3>2
    <2>8. CASE outcome = "blocked"
        <3>1. UpTo(2, Claims(t, "blocked")) + 1 <= UpTo(2, Claims(t, "blocked")')
            BY <2>6, <2>7, <2>8
        <3> QED BY <1>7, <1>10, <1>12, <2>2, <3>1, <1>16 DEF Pays
    <2>9. CASE outcome = "completed"
        <3>1. UpTo(1, Claims(t, "completed")) + 1 <= UpTo(1, Claims(t, "completed")')
            BY <2>6, <2>7, <2>9
        <3> QED BY <1>7, <1>10, <1>12, <2>2, <3>1, <1>16 DEF Pays
    <2> QED BY <2>6, <2>8, <2>9
<1>15. Pays(t)'
    BY <1>11, <1>13, <1>14
<1> QED BY <1>4, <1>5, <1>15 DEF ClaimsPay, Pays

\* A request adds one job, which is no continuation.
LEMMA RequestAges ==
    ASSUME Paid, Bound',
           \/ \E t \in Tasks : \/ CreateMessage(t)
                               \/ \E w \in Worktrees : CreateRoom(t, w) \/ ResumeTask(t, w)
           \/ \E j \in DOMAIN jobs : CreateHandoff(j) \/ RetryJob(j)
    PROVE  AllAge /\ LengthsKept /\ JobsAdded /\ NoContinuation
<1>1. /\ jobs \in Table(Len(jobs)) /\ Len(jobs) \in Nat /\ DOMAIN jobs = 1..Len(jobs)
    BY JobsTable DEF Paid, Held, Bound
<1>2. PICK t, w, waits : jobs' = Append(jobs, NewJob(t, w, waits, FALSE))
    BY DEF CreateMessage, CreateRoom, CreateHandoff, RetryJob, CreateJob, ResumeTask
<1>3. controls' = controls
    BY DEF CreateMessage, CreateRoom, CreateHandoff, RetryJob, ResumeTask, Unchanged
<1> DEFINE new == NewJob(t, w, waits, FALSE)
           n == Len(jobs) + 1
<1>4. DOMAIN jobs' = 1..n /\ (\A i \in 1..Len(jobs) : jobs'[i] = jobs[i]) /\ jobs'[n] = new
    <2> HIDE DEF new
    <2>1. jobs \in Seq(JobRows(Len(jobs)) \cup {new})
        BY <1>1, TableIsSeq, SeqMonotonic
    <2>2. jobs' = Append(jobs, new)
        BY <1>2 DEF new
    <2>3. new \in JobRows(Len(jobs)) \cup {new}
        OBVIOUS
    <2> QED BY <1>1, <2>1, <2>2, <2>3, AppendProperties
<1>5. ~new.floor /\ new.place = "none" /\ new.task = t /\ new.after = Len(controls[t])
    BY DEF NewJob
<1> HIDE DEF new, n
<1>6. t \in Tasks
    <2>1. n \in DOMAIN jobs'
        BY <1>1, <1>4 DEF n
    <2>2. \A i \in DOMAIN jobs' : jobs'[i].task \in Tasks
        <3>1. jobs' \in Seq(JobRows(Len(jobs')))
            BY DEF Bound, TypeOK, JobRows
        <3>2. \A i \in DOMAIN jobs' : jobs'[i] \in JobRows(Len(jobs'))
            BY <3>1, ElementOfSeq, LenProperties
        <3> QED BY <3>2 DEF JobRows
    <2> QED BY <1>4, <1>5, <2>1, <2>2
<1>7. JobsAdded
    BY <1>4, <1>5, <1>6 DEF JobsAdded, n
<1>8. NoContinuation
    BY <1>1, <1>4, <1>5 DEF NoContinuation, n
<1>9. AllAge
    BY <1>1, <1>4, PaidRow, SameAges DEF AllAge
<1> QED BY <1>3, <1>7, <1>8, <1>9 DEF LengthsKept

\* A crash, and what start() makes of it.
LEMMA RestartAges ==
    ASSUME Paid,
           \/ Crash \/ Started
           \/ \E gone \in SUBSET DOMAIN jobs : RecoverJobs(gone)
           \/ \E t \in Tasks : RecoverTask(t)
    PROVE  AllAge
<1>1. CASE Crash
    <2> SUFFICES ASSUME NEW i \in DOMAIN jobs PROVE Ages(jobs[i], jobs'[i])
        BY DEF AllAge
    <2>1. jobs[i] \in JobRows(Len(jobs)) /\ Ages(jobs[i], jobs[i])
        BY PaidRow, SameAges
    <2>2. jobs'[i] = [jobs[i] EXCEPT !.place = "none"]
        BY <1>1 DEF Crash, Forgotten
    <2> QED BY <2>1, <2>2, ForgottenAges
<1>2. CASE Started
    BY <1>2, SameTableAges DEF Started
<1>3. ASSUME NEW gone, RecoverJobs(gone) PROVE AllAge
    <2> SUFFICES ASSUME NEW i \in DOMAIN jobs PROVE Ages(jobs[i], jobs'[i])
        BY DEF AllAge
    <2>1. jobs[i] \in JobRows(Len(jobs)) /\ Ages(jobs[i], jobs[i])
        BY PaidRow, SameAges
    <2>2. CASE jobs[i].state \notin {"running", "cancel_requested"}
        <3>1. jobs'[i] = jobs[i]
            BY <1>3, <2>2 DEF RecoverJobs
        <3> QED BY <2>1, <3>1
    <2>3. CASE jobs[i].state \in {"running", "cancel_requested"}
        <3>1. /\ jobs'[i].task = jobs[i].task /\ jobs'[i].after = jobs[i].after
              /\ jobs'[i].floor = jobs[i].floor /\ jobs'[i].place = "none"
              /\ jobs'[i].state \in {"failed", "cancelled"}
            BY <1>3, <2>1, <2>3 DEF RecoverJobs, JobRows
        <3> QED BY <2>3, <3>1 DEF Ages, PendingStates
    <2> QED BY <2>2, <2>3
<1>4. ASSUME NEW t \in Tasks, RecoverTask(t) PROVE AllAge
    <2>1. \A i \in InStates(t, {"queued"}) : jobs[i].state \in PendingStates
        BY DEF InStates, PendingStates
    <2> QED BY <1>4, <2>1, CancelledAges DEF RecoverTask
<1> QED BY <1>1, <1>2, <1>3, <1>4

\* The steps that create no job and record no control.
Works ==
    \/ \E t \in Tasks : CancelTask(t) \/ RecoverTask(t)
    \/ \E t \in Tasks : \E j \in JobsOf(t) :
           Checkpoint(t, j) \/ \E ids \in SUBSET DOMAIN controls[t] : Acknowledge(t, j, ids)
    \/ \E j \in DOMAIN jobs :
           \/ CancelJob(j) \/ DropContinuation(j) \/ ClaimInVain(j) \/ Dispatch(j)
           \/ LaunchCommand(j) \/ CommandExits(j) \/ FailOrStop(j) \/ FailUnexpected(j)
           \/ Release(j) \/ SettleExecution(j)
    \/ \E j \in DOMAIN jobs :
           \E ids \in SUBSET DOMAIN controls[jobs[j].task], open, idle \in BOOLEAN :
               \/ \E outcome \in Outcomes : Yield(j, outcome, ids, open)
               \/ \E claim \in {"completed", NoClaim} : EnterGates(j, claim, idle, open)
               \/ PassGates(j, ids)
    \/ \E gone \in SUBSET DOMAIN jobs : RecoverJobs(gone)
    \/ Crash \/ Started

LEMMA WorksAge ==
    ASSUME Paid, Works
    PROVE  AllAge
<1>1. ASSUME NEW t \in Tasks, CancelTask(t) PROVE AllAge
    <2>1. \A i \in InStates(t, PendingStates) : jobs[i].state \in PendingStates
        BY DEF InStates
    <2> QED BY <1>1, <2>1, CancelledAges DEF CancelTask
<1>2. ASSUME NEW j \in DOMAIN jobs, CancelJob(j) PROVE AllAge
    <2>1. \A i \in {j} : jobs[i].state \in PendingStates
        BY <1>2 DEF CancelJob, PendingStates
    <2> QED BY <1>2, <2>1, CancelledAges DEF CancelJob
<1>3. ASSUME NEW t \in Tasks, NEW j, NEW ids, Checkpoint(t, j) \/ Acknowledge(t, j, ids) PROVE AllAge
    BY <1>3, SameTableAges DEF Checkpoint, Acknowledge, Unchanged
<1>4. ASSUME NEW j \in DOMAIN jobs, NEW ids,
             \/ \E outcome \in Outcomes, open \in BOOLEAN : Yield(j, outcome, ids, open)
             \/ \E claim, idle, open : EnterGates(j, claim, idle, open)
             \/ PassGates(j, ids)
      PROVE  AllAge
    BY <1>4, RunnerAges, EndsAge
<1>5. ASSUME NEW j \in DOMAIN jobs,
             \/ DropContinuation(j) \/ ClaimInVain(j) \/ Dispatch(j)
             \/ LaunchCommand(j) \/ CommandExits(j) \/ FailOrStop(j) \/ FailUnexpected(j)
             \/ Release(j) \/ SettleExecution(j)
      PROVE  AllAge
    BY <1>5, RunnerAges, EndsAge
<1> QED
    BY <1>1, <1>2, <1>3, <1>4, <1>5, RestartAges DEF Works

LEMMA WorksKeep ==
    ASSUME Paid, Works
    PROVE  NoJobCreated
<1>1. Bound
    BY DEF Paid, Held
<1>2. ASSUME NEW j \in DOMAIN jobs, NEW ids,
             \/ \E outcome \in Outcomes, open \in BOOLEAN : Yield(j, outcome, ids, open)
             \/ \E claim \in {"completed", NoClaim}, idle, open \in BOOLEAN :
                   EnterGates(j, claim, idle, open)
             \/ PassGates(j, ids)
      PROVE  NoJobCreated
    BY <1>1, <1>2, RunningKept, ReportKept
<1>3. ASSUME NEW j \in DOMAIN jobs,
             \/ DropContinuation(j) \/ ClaimInVain(j) \/ Dispatch(j)
             \/ LaunchCommand(j) \/ CommandExits(j) \/ FailOrStop(j) \/ FailUnexpected(j)
             \/ Release(j) \/ SettleExecution(j)
      PROVE  NoJobCreated
    BY <1>1, <1>3, PassKept, RunningKept, FailureKept, SettleKept
<1> QED
    BY <1>1, <1>2, <1>3, InboxKept, CancelKept, RestartKept, RecoverKept DEF Works

LEMMA WorksRecordNothing ==
    ASSUME Paid, Works
    PROVE  LengthsKept
<1> DEFINE Marks == \/ UNCHANGED controls
                    \/ \E t \in Tasks, j \in DOMAIN jobs : \E ids :
                          controls' = Delivered(t, j) \/ controls' = Acknowledged(t, j, ids)
<1>1. Marks
    <2>1. ASSUME NEW t \in Tasks, NEW j \in JobsOf(t), NEW ids, Checkpoint(t, j) \/ Acknowledge(t, j, ids)
          PROVE  Marks
        BY <2>1 DEF Checkpoint, Acknowledge, JobsOf
    <2>2. ASSUME NEW j \in DOMAIN jobs, Dispatch(j)
          PROVE  Marks
        BY <2>2, PaidRow DEF Dispatch
    <2>3. ASSUME NEW j \in DOMAIN jobs, NEW ids,
                 (\E outcome \in Outcomes, open \in BOOLEAN : Yield(j, outcome, ids, open)) \/ PassGates(j, ids)
          PROVE  Marks
        BY <2>3, PaidRow DEF Yield, PassGates
    <2>4. ASSUME \/ \E t \in Tasks : CancelTask(t) \/ RecoverTask(t)
                 \/ \E j \in DOMAIN jobs :
                        \/ CancelJob(j) \/ DropContinuation(j) \/ ClaimInVain(j)
                        \/ LaunchCommand(j) \/ CommandExits(j) \/ FailOrStop(j) \/ FailUnexpected(j)
                        \/ Release(j) \/ SettleExecution(j)
                 \/ \E j \in DOMAIN jobs : \E claim, idle, open : EnterGates(j, claim, idle, open)
                 \/ \E gone \in SUBSET DOMAIN jobs : RecoverJobs(gone)
                 \/ Crash \/ Started
          PROVE  Marks
        BY <2>4 DEF CancelTask, RecoverTask, CancelJob, DropContinuation, ClaimInVain, LaunchCommand,
           CommandExits, FailOrStop, FailUnexpected, Release, SettleExecution, EnterGates, RecoverJobs,
           Crash, Started, Unchanged
    <2> HIDE DEF Marks
    <2> QED
        BY <2>1, <2>2, <2>3, <2>4 DEF Works
<1>2. TypeOK
    BY DEF Paid, Held, Bound
<1>3. ASSUME NEW t \in Tasks, NEW j \in DOMAIN jobs, NEW ids,
             controls' = Delivered(t, j) \/ controls' = Acknowledged(t, j, ids), NEW u \in Tasks
      PROVE  Len(controls'[u]) = Len(controls[u])
    <2>1. controls' \in [Tasks -> Seq(ControlRows(Len(jobs)))]
        BY <1>2, <1>3, DeliveredType, AcknowledgedType
    <2>3. DOMAIN controls'[u] = DOMAIN controls[u]
        <3>1. CASE controls' = Delivered(t, j)
            <4>1. /\ \A v \in Tasks \ {t} : Delivered(t, j)[v] = controls[v]
                  /\ DOMAIN Delivered(t, j)[t] = DOMAIN controls[t]
                BY <1>2, DeliveredType
            <4> QED BY <3>1, <4>1
        <3>2. CASE controls' = Acknowledged(t, j, ids)
            BY <1>2, <1>3, <3>2, AcknowledgedType
        <3> QED BY <1>3, <3>1, <3>2
    <2>2. controls[u] \in Seq(ControlRows(Len(jobs)))
        BY <1>2, InboxSeq
    <2> QED BY <2>1, <2>2, <2>3, LenProperties
<1> QED BY <1>1, <1>3 DEF LengthsKept

\* Every step keeps what the bound on continuations rests on.
LEMMA PaidStep == Paid /\ [Next]_vars => Paid'
<1> SUFFICES ASSUME Paid, [Next]_vars PROVE Paid'
    OBVIOUS
<1>1. Held' /\ Bound'
    BY HeldStep DEF Paid, Held
<1>2. CASE Works
    <2>1. DOMAIN jobs' = DOMAIN jobs
        BY <1>2, WorksKeep, JobsTable DEF NoJobCreated, JobsKept, Table, Paid, Held, Bound
    <2>2. JobsAdded /\ NoContinuation
        BY <2>1 DEF JobsAdded, NoContinuation
    <2> QED
        BY <1>1, <1>2, <2>2, WorksAge, WorksRecordNothing, NothingToPay DEF Paid
<1>3. CASE \/ \E t \in Tasks : \/ CreateMessage(t)
                               \/ \E w \in Worktrees : CreateRoom(t, w) \/ ResumeTask(t, w)
           \/ \E j \in DOMAIN jobs : CreateHandoff(j) \/ RetryJob(j)
    BY <1>1, <1>3, RequestAges, NothingToPay DEF Paid
<1>4. ASSUME NEW t \in Tasks, NEW kind \in ControlKinds, CreateControl(t, kind) PROVE Paid'
    BY <1>1, <1>4, ControlPays DEF Paid
<1>5. ASSUME NEW j \in DOMAIN jobs, NEW outcome \in Outcomes, NEW ids, NEW idle, NEW open,
             Continue(j, outcome, ids, idle, open)
      PROVE  Paid'
    <2>1. jobs[j].task \in Tasks /\ Len(jobs) + 1 \in Nat
        BY PaidRow
    <2> QED BY <1>1, <1>5, <2>1, ContinuePays DEF Paid
<1>6. CASE UNCHANGED vars
    <2>1. AllAge /\ LengthsKept /\ JobsAdded /\ NoContinuation
        BY <1>6, SameTableAges DEF vars, LengthsKept, JobsAdded, NoContinuation
    <2> QED BY <1>1, <2>1, NothingToPay DEF Paid
<1>7. Next => \/ Works
              \/ \E t \in Tasks : \/ CreateMessage(t)
                                  \/ \E w \in Worktrees : CreateRoom(t, w) \/ ResumeTask(t, w)
              \/ \E j \in DOMAIN jobs : CreateHandoff(j) \/ RetryJob(j)
              \/ \E t \in Tasks, kind \in ControlKinds : CreateControl(t, kind)
              \/ \E j \in DOMAIN jobs, outcome \in Outcomes : \E ids, idle, open :
                    Continue(j, outcome, ids, idle, open)
    BY DEF Next, Works
<1> QED
    BY <1>2, <1>3, <1>4, <1>5, <1>6, <1>7

LEMMA PaidStart == Init => Paid
<1> SUFFICES ASSUME Init PROVE Paid
    OBVIOUS
<1>1. Held
    BY HeldStart
<1>2. DOMAIN jobs = {}
    BY DEF Init
<1>3. ASSUME NEW t \in Tasks PROVE Pays(t)
    <2>1. Continuations(t) = {} /\ Claims(t, "blocked") = {} /\ Claims(t, "completed") = {}
        BY <1>2 DEF Continuations, Claims, Recent, JobsOf
    <2>2. Cardinality({}) = 0
        BY FS_EmptySet
    <2>3. UpTo(2, {}) = 0 /\ UpTo(1, {}) = 0 /\ LateAnswers(t) \in {0, 1}
        BY <2>2 DEF UpTo, LateAnswers
    <2> QED BY <2>1, <2>2, <2>3 DEF Pays
<1> QED BY <1>1, <1>2, <1>3 DEF Paid, JobsAreTimely, ClaimsPay, Pays

LEMMA AlwaysPaid == Spec => []Paid
BY PaidStart, PaidStep, PTL DEF Spec

\* Each continuation since the newest control has a counted claim behind it, but for the
\* one that a job older than the control may ask for.
THEOREM FloorAlways == Spec => []FloorInv
<1>1. Paid => FloorInv
    BY DEF Paid, Held, Bound, FloorInv, CoordinationInv
<1> QED
    BY <1>1, AlwaysPaid, PTL

\* The goal floor gives up: however many requests, crashes and controls there are, a task
\* gets at most three continuations between two controls, and one that answers the newest.
THEOREM FloorGivesUp == Spec => []FloorIsBounded
<1>1. Paid => FloorIsBounded
    <2> SUFFICES ASSUME Paid, NEW t \in Tasks
                 PROVE  Cardinality(Continuations(t)) <= (IF controls[t] = <<>> THEN 3 ELSE 4)
        BY DEF FloorIsBounded, Continuations, Recent, JobsOf
    <2>1. PICK n \in Nat : DOMAIN jobs = 1..n
        BY JobsTable DEF Paid, Held, Bound
    <2>2. Continuations(t) \subseteq 1..n /\ \A o : Claims(t, o) \subseteq 1..n
        BY <2>1 DEF Continuations, Claims, Recent, JobsOf
    <2>3. /\ Cardinality(Continuations(t)) \in Nat
          /\ UpTo(2, Claims(t, "blocked")) \in Nat /\ UpTo(2, Claims(t, "blocked")) <= 2
          /\ UpTo(1, Claims(t, "completed")) \in Nat /\ UpTo(1, Claims(t, "completed")) <= 1
        BY <2>2, JobsCounted DEF UpTo
    <2>4. Pays(t)
        BY DEF Paid, ClaimsPay, Pays
    <2>5. LateAnswers(t) <= (IF controls[t] = <<>> THEN 0 ELSE 1) /\ LateAnswers(t) \in Nat
        BY DEF LateAnswers
    <2> QED BY <2>3, <2>4, <2>5 DEF Pays
<1> QED
    BY <1>1, AlwaysPaid, PTL

=============================================================================
