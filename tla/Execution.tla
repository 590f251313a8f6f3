------------------------------ MODULE Execution ------------------------------
(***************************************************************************)
(* How dovskyd runs a job's commands: the dispatch pass, the command       *)
(* runner, the durable execution lease, the canonical application, the     *)
(* resource locks, operator reconciliation, shutdown, crash and recovery.  *)
(*                                                                         *)
(* Three parties touch the state.  The DAEMON is one Node.js process:      *)
(* between two awaits its code runs to completion, so an action is one     *)
(* such stretch, split only where a second SQLite commit makes a crash     *)
(* visible.  The DATABASE survives the daemon.  The HOST runs the systemd  *)
(* scope of a command, which also survives the daemon.                     *)
(*                                                                         *)
(* Left to other modules: whether the task of a queued job is paused or    *)
(* owned elsewhere, predecessors, rollouts, reviews; every job here has    *)
(* passed those gates when the pass reaches it.  Draining is a pass that   *)
(* is never requested.                                                     *)
(***************************************************************************)
EXTENDS Integers, FiniteSets

CONSTANTS
    NumJobs,        \* jobs, numbered in the order they were admitted
    Resources,      \* worktree, provider-state, task and session resources
    Needs,          \* Needs[j]: the resources job j reserves
    Worktree,       \* Worktree[j]: the worktree resource of job j
    Writers,        \* work jobs of a writable workflow: their delta is applied
    TaskResources,  \* the task resources: a job that needs one works for that task
    GateCommands,   \* GateCommands[j]: most gate, proof and bench commands of a job
    Installs,       \* jobs whose commands first install missing dependencies
    MaxActive,      \* config.maxActive
    CleanupMayFail, \* BOOLEAN: disposing a sandbox may throw
    MaxRevision,    \* bound: MaxRevision[j], where operators stop reconciling
    MaxRestarts     \* bound: crashes and shutdowns

Jobs == 1..NumJobs
NoJob == 0

ASSUME ExecutionAssumption ==
    /\ NumJobs \in Nat
    /\ Needs \in [Jobs -> SUBSET Resources]
    /\ Worktree \in [Jobs -> Resources]
    /\ \A j \in Jobs : Worktree[j] \in Needs[j]
    /\ Writers \subseteq Jobs
    /\ TaskResources \subseteq Resources
    /\ GateCommands \in [Jobs -> Nat]
    /\ Installs \subseteq Jobs
    /\ MaxActive \in Nat
    /\ CleanupMayFail \in BOOLEAN
    /\ MaxRevision \in [Jobs -> Nat]
    /\ MaxRestarts \in Nat

VARIABLES
    \* durable: the SQLite database
    jobState,     \* jobs.state
    attempt,      \* number of the unfinished provider attempt, or 0
    application,  \* sandbox_json.application.state of the job
    lease,        \* the newest execution lease of the job (older ones are exited)
    lock,         \* resource_locks: the job holding a resource, or NoJob
    \* memory of the daemon process
    daemon,       \* "up", "stopping" (stop() ran), "down" or "recovering" (start() runs)
    interrupted,  \* start(): the jobs it found interrupted
    sched,        \* schedule(): "idle", "pending" (setImmediate) or "passing"
    cursor,       \* next job the pass looks at
    avail,        \* slots the pass may still fill
    runner,       \* where runJob/runProvider/runCommand of the job stands
    gateCommands, \* commands after the provider begun so far
    install,      \* installation for the command: "none", "running", "done"
    outcome,      \* what the command that is closing will return
    late,         \* late-completion handler of a retained command
    term,         \* revision captured by a pending operator termination
    \* the host
    scope,        \* systemd scope of the newest lease
    restarts,
    \* history
    behind,       \* jobs that a recovery found queued behind an interrupted one
    cut           \* those of them that a crash of start() left in the queue

durable == <<jobState, attempt, application, lease, lock>>
passVars == <<sched, cursor, avail>>
progress == <<gateCommands, install, outcome>>
watchers == <<late, term>>
\* Written by starting, stopping and crashing alone.
process == <<daemon, interrupted, behind, cut>>
memory == <<process, passVars, runner, progress, watchers>>
host == <<scope, restarts>>
vars == <<durable, memory, host>>

JobStates == {"queued", "starting", "running", "cancel_requested",
              "succeeded", "failed", "cancelled"}
TerminalJobStates == {"succeeded", "failed", "cancelled"}
ActiveJobStates == {"starting", "running", "cancel_requested"}
OpenLeaseStates == {"prepared", "running", "reconcile_required"}

\* Where a job stands while runProvider works on it.
WorkingPlaces == {"setup", "launching", "enrolling", "abortingBlind",
                  "abortingKnown", "executing", "expired", "extracting",
                  "applying", "closing"}
NoRevision == -1

\* unit: the launch intent names a scope; known: its gate has an identity.
Leases == [state : OpenLeaseStates \cup {"none", "exited"},
           rev : Nat, unit : BOOLEAN, known : BOOLEAN]

NoLease == [state |-> "none", rev |-> 0, unit |-> FALSE, known |-> FALSE]
NoLate == [phase |-> "none", rev |-> NoRevision]

TypeOK ==
    /\ jobState \in [Jobs -> JobStates]
    /\ attempt \in [Jobs -> 0..2]
    /\ application \in [Jobs -> {"none", "pending", "complete"}]
    /\ lease \in [Jobs -> Leases]
    /\ lock \in [Resources -> Jobs \cup {NoJob}]
    /\ daemon \in {"up", "stopping", "down", "recovering"}
    /\ sched \in {"idle", "pending", "passing"}
    /\ cursor \in Nat
    /\ avail \in Int
    /\ runner \in [Jobs -> WorkingPlaces \cup {"idle", "acquired", "begin", "finally"}]
    /\ gateCommands \in [Jobs -> Nat]
    /\ install \in [Jobs -> {"none", "running", "done"}]
    /\ outcome \in [Jobs -> {"ok", "fail", "expired", "throw"}]
    /\ late \in [Jobs -> [phase : {"none", "watching", "settling", "disposing"},
                          rev : Int]]
    /\ term \in [Jobs -> Int]
    /\ interrupted \subseteq Jobs /\ behind \subseteq Jobs /\ cut \subseteq Jobs
    /\ scope \in [Jobs -> {"none", "starting", "gated", "live", "gone"}]
    /\ restarts \in Nat

Init ==
    /\ jobState = [j \in Jobs |-> "queued"]
    /\ attempt = [j \in Jobs |-> 0]
    /\ application = [j \in Jobs |-> "none"]
    /\ lease = [j \in Jobs |-> NoLease]
    /\ lock = [r \in Resources |-> NoJob]
    /\ daemon = "up"
    /\ interrupted = {} /\ behind = {} /\ cut = {}
    /\ sched = "pending"
    /\ cursor = 1
    /\ avail = 0
    /\ runner = [j \in Jobs |-> "idle"]
    /\ gateCommands = [j \in Jobs |-> 0]
    /\ install = [j \in Jobs |-> "none"]
    /\ outcome = [j \in Jobs |-> "ok"]
    /\ late = [j \in Jobs |-> NoLate]
    /\ term = [j \in Jobs |-> NoRevision]
    /\ scope = [j \in Jobs |-> "none"]
    /\ restarts = 0

-----------------------------------------------------------------------------
(* Operators on the durable state *)

\* hasUnresolvedExecution: an open lease or a pending canonical application.
Fenced(l, a) == l.state \in OpenLeaseStates \/ a = "pending"
Unresolved(j) == Fenced(lease[j], application[j])

Terminal(j) == jobState[j] \in TerminalJobStates

\* Mutant: only the lease fences the locks, not the pending application.
LocksAfterReleaseIgnoringApplication(j, l, a) ==
    IF l.state \in OpenLeaseStates THEN lock
    ELSE [r \in Resources |-> IF lock[r] = j THEN NoJob ELSE lock[r]]

\* releaseResources: refused while the execution is unresolved.
LocksAfterRelease(j, l, a) ==
    IF Fenced(l, a) THEN lock
    ELSE [r \in Resources |-> IF lock[r] = j THEN NoJob ELSE lock[r]]

\* Mutant: executions left in quarantine take no slot.
CountActiveJobsOnly == Cardinality({j \in Jobs : jobState[j] \in ActiveJobStates})

\* countActive: active jobs and jobs with an open lease.
CountActive ==
    Cardinality({j \in Jobs : \/ jobState[j] \in ActiveJobStates
                              \/ lease[j].state \in OpenLeaseStates})

\* recordLeaseObservation once its revision test has passed.
Recorded(l, observation) ==
    IF l.state = "exited" THEN l
    ELSE [l EXCEPT !.state = IF observation = "absent" THEN "exited"
                             ELSE "reconcile_required",
                   !.rev = @ + 1]

\* observeLease: what looking at the host may answer.
Observed(j) ==
    IF lease[j].state = "prepared" /\ ~lease[j].unit THEN {"absent"}
    ELSE IF ~lease[j].known THEN {"unverifiable"}
    ELSE IF scope[j] = "gone" THEN {"absent", "unverifiable"}
    ELSE {"alive", "unverifiable"}

-----------------------------------------------------------------------------
(* The event loop *)

\* start() is over and the database still open.
Serving == daemon \in {"up", "stopping"}

\* No stretch of code that has already begun is still on the stack.
Quiet == \A i \in Jobs : runner[i] \notin {"acquired", "begin", "applying"}
Free == Serving /\ sched # "passing" /\ Quiet

\* schedule(): remembered only while the daemon runs and no pass is due.
Wake == sched' = IF daemon = "up" /\ sched = "idle" THEN "pending" ELSE sched

Goto(j, place) == runner' = [runner EXCEPT ![j] = place]
SetJob(j, state) == jobState' = [jobState EXCEPT ![j] = state]
SetLease(j, l) == lease' = [lease EXCEPT ![j] = l]
SetOutcome(j, value) == outcome' = [outcome EXCEPT ![j] = value]
Close(j, value) == Goto(j, "closing") /\ SetOutcome(j, value)

-----------------------------------------------------------------------------
(* The dispatch pass: schedule() *)

Available(j) == \A r \in Needs[j] : lock[r] \in {NoJob, j}

InPass(j) ==
    /\ Serving /\ sched = "passing" /\ Quiet
    /\ cursor = j /\ avail >= 1

PassBegins ==
    /\ Free /\ sched = "pending"
    /\ IF daemon = "up" /\ CountActive < MaxActive
       THEN sched' = "passing" /\ cursor' = 1 /\ avail' = MaxActive - CountActive
       ELSE sched' = "idle" /\ UNCHANGED <<cursor, avail>>
    /\ UNCHANGED <<durable, process, runner, progress, watchers, host>>

PassSkips(j) ==
    /\ InPass(j)
    /\ jobState[j] # "queued" \/ ~Available(j)
    /\ cursor' = cursor + 1
    /\ UNCHANGED <<durable, process, sched, avail, runner, progress, watchers,
                   host>>

\* reserveProviderState or the workflow lookup throws: failUnexpected.
PassRejects(j) ==
    /\ InPass(j)
    /\ jobState[j] = "queued"
    /\ SetJob(j, "failed")
    /\ lock' = LocksAfterRelease(j, lease[j], application[j])
    /\ cursor' = cursor + 1
    /\ UNCHANGED <<attempt, application, lease, process, sched, avail, runner,
                   progress, watchers, host>>

\* acquireResources: all or nothing, in a transaction of its own.
Acquire(j) ==
    /\ InPass(j)
    /\ jobState[j] = "queued" /\ Available(j)
    /\ lock' = [r \in Resources |-> IF r \in Needs[j] THEN j ELSE lock[r]]
    /\ Goto(j, "acquired")
    /\ UNCHANGED <<jobState, attempt, application, lease, process, passVars,
                   progress, watchers, host>>

MarkStarting(j) ==
    /\ Serving /\ runner[j] = "acquired"
    /\ SetJob(j, "starting")
    /\ Goto(j, "begin")
    /\ avail' = avail - 1
    /\ UNCHANGED <<attempt, application, lease, lock, process, sched, cursor,
                   progress, watchers, host>>

\* runJob and runProvider up to their first await; the pass then moves on.
RunJob(j) ==
    /\ Serving /\ runner[j] = "begin"
    /\ cursor' = cursor + 1
    /\ \/ /\ SetJob(j, "running")
          /\ attempt' = [attempt EXCEPT ![j] = 1]
          /\ Goto(j, "setup")
       \/ /\ SetJob(j, "failed")       \* provider removed, tree moved, no turn
          /\ Goto(j, "finally")
          /\ UNCHANGED attempt
    /\ UNCHANGED <<application, lease, lock, process, sched, avail, progress,
                   watchers, host>>

PassEnds ==
    /\ Serving /\ sched = "passing" /\ Quiet
    /\ cursor > NumJobs \/ avail < 1
    /\ sched' = "idle" /\ cursor' = 1 /\ avail' = 0
    /\ UNCHANGED <<durable, process, runner, progress, watchers, host>>

-----------------------------------------------------------------------------
(* runCommand: from preparation to a released gate *)

commandFrame == <<jobState, attempt, application, lock, process, passVars,
                  gateCommands, install, term, restarts>>

Installing(j) == install[j] = "running"

\* prepareEvaluationDependencies finds a cache miss: an installation runs as a
\* command of its own, under a lease of its own, before the command it is for.
BeginInstall(j) ==
    /\ Free /\ runner[j] = "setup"
    /\ j \in Installs /\ install[j] = "none"
    /\ install' = [install EXCEPT ![j] = "running"]
    /\ UNCHANGED <<durable, process, passVars, runner, gateCommands, outcome,
                   watchers, host>>

\* Sandbox checks, dependency planning or preparation throw before any lease.
SetupFails(j) ==
    /\ Free /\ runner[j] = "setup"
    /\ Close(j, "throw")
    /\ UNCHANGED <<commandFrame, lease, late, scope>>

MayPrepare(j) == ~Unresolved(j)

\* prepareExecutionLease; a job already cancelled or a stopping daemon goes no
\* further and records that nothing was launched.
Prepare(j) ==
    /\ Free /\ runner[j] = "setup"
    /\ IF ~MayPrepare(j)
       THEN Close(j, "throw") /\ UNCHANGED <<lease, scope>>
       ELSE /\ scope' = [scope EXCEPT ![j] = "none"]
            /\ IF jobState[j] = "cancel_requested" \/ daemon = "stopping"
               THEN /\ SetLease(j, [NoLease EXCEPT !.state = "exited",
                                                   !.rev = lease[j].rev + 2])
                    /\ Close(j, "throw")
               ELSE /\ SetLease(j, [NoLease EXCEPT !.state = "prepared",
                                                   !.rev = lease[j].rev + 1])
                    /\ Goto(j, "launching") /\ UNCHANGED outcome
    /\ UNCHANGED <<commandFrame, late>>

\* Nothing was spawned: the sandbox refused, the daemon is stopping, or the
\* lease is no longer prepared.
LaunchRefused(j) ==
    /\ Free /\ runner[j] = "launching"
    /\ SetLease(j, Recorded(lease[j], "absent"))
    /\ Close(j, "throw")
    /\ UNCHANGED <<commandFrame, late, scope>>

MayLaunch(j) == daemon = "up" /\ lease[j].state = "prepared"

\* onScopeStarting commits the launch intent, then systemd-run is spawned.
ScopeStarting(j) ==
    /\ Free /\ runner[j] = "launching"
    /\ MayLaunch(j)
    /\ SetLease(j, [lease[j] EXCEPT !.state = "reconcile_required", !.unit = TRUE,
                                    !.rev = @ + 1])
    /\ scope' = [scope EXCEPT ![j] = "starting"]
    /\ Goto(j, "enrolling")
    /\ UNCHANGED <<commandFrame, outcome, late>>

\* Mutant: enrollment does not ask whether the job was cancelled meanwhile.
MayEnrollCancelled(j) ==
    /\ daemon = "up"
    /\ lease[j].state = "reconcile_required" /\ ~lease[j].known

\* onEnrolled and enrollScopedExecutionLease; RunningChild.cancelled is set by
\* the same calls that move the job to cancel_requested.
MayEnroll(j) ==
    /\ daemon = "up"
    /\ jobState[j] \in {"starting", "running"}
    /\ lease[j].state = "reconcile_required" /\ ~lease[j].known

\* The identity is committed, then the gate is released; if the gate changed
\* in between it is never released.
Enroll(j) ==
    /\ Free /\ runner[j] = "enrolling" /\ scope[j] = "gated"
    /\ MayEnroll(j)
    /\ SetLease(j, [lease[j] EXCEPT !.state = "running", !.known = TRUE,
                                    !.rev = @ + 1])
    /\ \/ Goto(j, "executing") /\ scope' = [scope EXCEPT ![j] = "live"]
       \/ Goto(j, "abortingKnown") /\ UNCHANGED scope
    /\ UNCHANGED <<commandFrame, outcome, late>>

EnrollRefused(j) ==
    /\ Free /\ runner[j] = "enrolling" /\ scope[j] = "gated"
    /\ ~MayEnroll(j)
    /\ Goto(j, "abortingKnown")
    /\ UNCHANGED <<commandFrame, lease, outcome, late, scope>>

\* Startup timeout, broken handshake, failed verification: the candidate
\* identity is known only if the gate had reported.
StartupFails(j) ==
    /\ Free /\ runner[j] = "enrolling"
    /\ \/ Goto(j, "abortingBlind")
       \/ scope[j] \in {"gated", "gone"} /\ Goto(j, "abortingKnown")
    /\ UNCHANGED <<commandFrame, lease, outcome, late, scope>>

\* recordFailedScopeEnrollment
WithIdentity(l) == IF l.known THEN l ELSE [l EXCEPT !.known = TRUE, !.rev = @ + 1]

\* Mutant: a blind startup failure counts as a command that never launched.
AbortObservationTrusting(j) ==
    IF runner[j] = "abortingKnown" /\ scope[j] # "gone" THEN {"unverifiable"}
    ELSE {"absent", "unverifiable"}

\* cleanupStartup confirms absence only for an enrollment it can look up.
AbortObservation(j) ==
    IF runner[j] = "abortingKnown" /\ scope[j] = "gone"
    THEN {"absent", "unverifiable"} ELSE {"unverifiable"}

AbortSettles(j) ==
    /\ Free /\ runner[j] \in {"abortingBlind", "abortingKnown"}
    /\ \E observation \in AbortObservation(j) :
          SetLease(j, Recorded(IF runner[j] = "abortingKnown"
                               THEN WithIdentity(lease[j]) ELSE lease[j], observation))
    /\ Close(j, "throw")
    /\ UNCHANGED <<commandFrame, late, scope>>

-----------------------------------------------------------------------------
(* runCommand: a released command until its scope is absent or given up on *)

\* The command deadline or the stall watchdog; both only ask for termination.
Expire(j) ==
    /\ Free /\ runner[j] = "executing"
    /\ Goto(j, "expired")
    /\ UNCHANGED <<commandFrame, lease, outcome, late, scope>>

\* Only the delta of a live job's clean provider command reaches the tree.
Applies(j) ==
    /\ j \in Writers /\ gateCommands[j] = 0 /\ ~Installing(j)
    /\ runner[j] = "executing" /\ jobState[j] = "running"

\* Completion: the scope is absent.  An output failure is a failure that
\* extracts nothing; a nonzero exit code still has its delta applied.
CommandReturns(j) ==
    /\ Free /\ runner[j] \in {"executing", "expired"} /\ scope[j] = "gone"
    /\ SetLease(j, Recorded(lease[j], "absent"))
    /\ \/ /\ Applies(j)
          /\ \E result \in {"ok", "fail"} : SetOutcome(j, result)
          /\ Goto(j, "extracting")
       \/ IF runner[j] = "expired" THEN Close(j, "expired")
          ELSE IF Applies(j) THEN Close(j, "fail")
          ELSE \E result \in {"ok", "fail"} : Close(j, result)
    /\ UNCHANGED <<commandFrame, late, scope>>

\* Mutant: a command that outlives its deadline is waited for.
MayGiveUpCancelled(j) == jobState[j] = "cancel_requested" /\ ~Installing(j)

\* Mutant: an installation is given up on like the command it is for.
MayGiveUpInstalling(j) == runner[j] = "expired" \/ jobState[j] = "cancel_requested"

\* An installation is awaited for as long as anything of it lives.
MayGiveUp(j) ==
    (runner[j] = "expired" \/ jobState[j] = "cancel_requested") /\ ~Installing(j)

\* Cancelled or expired and not complete within COMMAND_KILL_GRACE_MS: the
\* command is retained, and a handler waits for its completion.
CommandRetained(j) ==
    /\ Free /\ runner[j] \in {"executing", "expired"}
    /\ MayGiveUp(j)
    /\ \E observation \in Observed(j) : SetLease(j, Recorded(lease[j], observation))
    /\ late' = [late EXCEPT ![j] = [NoLate EXCEPT !.phase = "watching"]]
    /\ Close(j, "expired")
    /\ UNCHANGED <<commandFrame, scope>>

ExtractFails(j) ==
    /\ Free /\ runner[j] = "extracting"
    /\ Close(j, "throw")
    /\ UNCHANGED <<commandFrame, lease, late, scope>>

\* Mutant: the job is not read again after the extraction was awaited.
MayApplyStale(j) == ~Unresolved(j) /\ lock[Worktree[j]] = j

MayApply(j) ==
    /\ jobState[j] = "running"
    /\ ~Unresolved(j)
    /\ lock[Worktree[j]] = j

\* beginCanonicalApplication, after an await on the extraction.
BeginApplication(j) ==
    /\ Free /\ runner[j] = "extracting"
    /\ IF MayApply(j)
       THEN /\ application' = [application EXCEPT ![j] = "pending"]
            /\ Goto(j, "applying") /\ UNCHANGED outcome
       ELSE Close(j, "throw") /\ UNCHANGED application
    /\ UNCHANGED <<jobState, attempt, lease, lock, process, passVars,
                   gateCommands, install, watchers, host>>

\* applyDelta and completeCanonicalApplication; a failure leaves it pending.
EndApplication(j) ==
    /\ Serving /\ runner[j] = "applying"
    /\ \/ /\ application' = [application EXCEPT ![j] = "complete"]
          /\ Goto(j, "closing") /\ UNCHANGED outcome
       \/ Close(j, "throw") /\ UNCHANGED application
    /\ UNCHANGED <<jobState, attempt, lease, lock, process, passVars,
                   gateCommands, install, watchers, host>>

-----------------------------------------------------------------------------
(* Back in runProvider, after runCommand closed the job's socket *)

\* isolated.dispose() in the finally block throws over the result.
DisposeFails(j) ==
    /\ CleanupMayFail
    /\ Free /\ runner[j] = "closing" /\ outcome[j] # "throw"
    /\ late[j].phase = "none"
    /\ SetOutcome(j, "throw")
    /\ UNCHANGED <<durable, process, passVars, runner, gateCommands, install,
                   watchers, host>>

Finish(j, state) ==
    /\ SetJob(j, state)
    /\ Goto(j, "finally")
    /\ SetOutcome(j, "ok")
    /\ attempt' = [attempt EXCEPT ![j] = 0]
    /\ gateCommands' = [gateCommands EXCEPT ![j] = 0]
    /\ install' = [install EXCEPT ![j] = "none"]

Returning(j) == Free /\ runner[j] = "closing" /\ ~Installing(j)

\* The caller of an installation goes on, or fails with it.
InstallReturns(j) ==
    /\ Free /\ runner[j] = "closing" /\ Installing(j)
    /\ IF outcome[j] = "ok"
       THEN /\ install' = [install EXCEPT ![j] = "done"]
            /\ Goto(j, "setup") /\ UNCHANGED outcome
       ELSE /\ install' = [install EXCEPT ![j] = "none"]
            /\ Close(j, "throw")
    /\ UNCHANGED <<durable, process, passVars, gateCommands, watchers, host>>

\* failUnexpected
ReturnsByThrow(j) ==
    /\ Returning(j) /\ outcome[j] = "throw"
    /\ Finish(j, IF jobState[j] = "cancel_requested" THEN "cancelled" ELSE "failed")

ReturnsCancelled(j) ==
    /\ Returning(j) /\ outcome[j] # "throw"
    /\ jobState[j] = "cancel_requested"
    /\ Finish(j, "cancelled")

\* A failed command, or any refusal of a result: protocol, model, gate.
ReturnsFailed(j) ==
    /\ Returning(j) /\ outcome[j] # "throw"
    /\ jobState[j] = "running"
    /\ Finish(j, "failed")

\* safeRetry: once, for a retryable provider failure that left nothing behind.
MayRetry(j) ==
    /\ jobState[j] = "running"
    /\ outcome[j] = "fail" /\ gateCommands[j] = 0 /\ attempt[j] = 1
    /\ ~Unresolved(j)

Retries(j) ==
    /\ Returning(j) /\ MayRetry(j)
    /\ attempt' = [attempt EXCEPT ![j] = 2]
    /\ Goto(j, "setup")
    /\ SetOutcome(j, "ok")
    /\ install' = [install EXCEPT ![j] = "none"]
    /\ UNCHANGED <<jobState, gateCommands>>

\* A failing gate command may be what a red proof asked for, or one to repeat
\* on the start commit; a failing provider is not gone on with.
MayContinue(j) ==
    /\ jobState[j] = "running"
    /\ outcome[j] = "ok" \/ (outcome[j] = "fail" /\ gateCommands[j] > 0)

\* runGates, benchBroken, redProof and runEvaluation run one command each time.
NextGateCommand(j) ==
    /\ Returning(j) /\ MayContinue(j)
    /\ gateCommands[j] < GateCommands[j]
    /\ gateCommands' = [gateCommands EXCEPT ![j] = @ + 1]
    /\ Goto(j, "setup")
    /\ SetOutcome(j, "ok")
    /\ install' = [install EXCEPT ![j] = "none"]
    /\ UNCHANGED <<jobState, attempt>>

\* Gates that a recorded pass answers, and those of a checkpoint, do not run.
Succeeds(j) ==
    /\ Returning(j) /\ MayContinue(j)
    /\ Finish(j, "succeeded")

Return(j) ==
    /\ \/ ReturnsByThrow(j) \/ ReturnsCancelled(j) \/ ReturnsFailed(j)
       \/ Retries(j) \/ NextGateCommand(j) \/ Succeeds(j)
    /\ UNCHANGED <<application, lease, lock, process, passVars, watchers, host>>

\* Mutant: the locks are given back but nobody looks at the queue again.
FinallySilent(j) ==
    /\ Free /\ runner[j] = "finally"
    /\ lock' = LocksAfterRelease(j, lease[j], application[j])
    /\ Goto(j, "idle")
    /\ UNCHANGED <<jobState, attempt, application, lease, process, passVars,
                   progress, watchers, host>>

\* The finally block of the dispatch pass.
Finally(j) ==
    /\ Free /\ runner[j] = "finally"
    /\ lock' = LocksAfterRelease(j, lease[j], application[j])
    /\ Wake
    /\ Goto(j, "idle")
    /\ UNCHANGED <<jobState, attempt, application, lease, process, cursor, avail,
                   progress, watchers, host>>

-----------------------------------------------------------------------------
(* Late completion of a retained command *)

lateFrame == <<jobState, attempt, application, process, cursor, avail, runner,
               progress, term, host>>

\* The handler reads the lease, then awaits an observation.
LateCompletes(j) ==
    /\ Free /\ late[j].phase = "watching" /\ scope[j] = "gone"
    /\ late' = [late EXCEPT ![j] = [phase |-> "settling", rev |-> lease[j].rev]]
    /\ UNCHANGED <<lateFrame, lease, lock, sched>>

LateRecords(j) ==
    /\ Free /\ late[j].phase = "settling"
    /\ IF lease[j].rev # late[j].rev
       THEN late' = [late EXCEPT ![j] = NoLate] /\ UNCHANGED lease
       ELSE /\ SetLease(j, Recorded(lease[j], "absent"))
            /\ late' = [late EXCEPT ![j] = [NoLate EXCEPT !.phase = "disposing"]]
    /\ UNCHANGED <<lateFrame, lock, sched>>

LateReleases(j) ==
    /\ Free /\ late[j].phase = "disposing"
    /\ late' = [late EXCEPT ![j] = NoLate]
    /\ \/ /\ lock' = LocksAfterRelease(j, lease[j], application[j])
          /\ Wake
       \/ CleanupMayFail /\ UNCHANGED <<lock, sched>>
    /\ UNCHANGED <<lateFrame, lease>>

-----------------------------------------------------------------------------
(* Operators *)

operatorFrame == <<attempt, application, process, cursor, avail, runner, progress,
                   late, host>>

Cancelled(j) == IF jobState[j] = "queued" THEN "cancelled" ELSE "cancel_requested"

\* cancelJob: a second request, or one for a finished job, changes nothing.
Cancel(j) ==
    /\ Free /\ daemon = "up"
    /\ jobState[j] \in {"queued", "starting", "running"}
    /\ SetJob(j, Cancelled(j))
    /\ UNCHANGED <<operatorFrame, lease, lock, term, sched>>

\* Mutant: a settled lease gives the locks back while the job still runs.
MaySettleLocksAnyState(j) == TRUE

MaySettleLocks(j) == Terminal(j)

\* The end of reconcileExecutionLease and of reconcileExecution.
Reconciled(j, l) ==
    /\ SetLease(j, l)
    /\ lock' = IF l.state = "exited" /\ MaySettleLocks(j)
               THEN LocksAfterRelease(j, l, application[j]) ELSE lock
    /\ IF l.state = "exited" THEN Wake ELSE UNCHANGED sched

Inspect(j) ==
    /\ Free /\ daemon = "up"
    /\ lease[j].state \in OpenLeaseStates /\ lease[j].rev < MaxRevision[j]
    /\ \E observation \in Observed(j) :
          Reconciled(j, Recorded(lease[j], observation))
    /\ UNCHANGED <<operatorFrame, jobState, term>>

\* A lease that has exited is returned as it is; only the scheduler is woken.
InspectExited(j) ==
    /\ Free /\ daemon = "up"
    /\ lease[j].state = "exited"
    /\ Wake
    /\ UNCHANGED <<operatorFrame, jobState, lease, lock, term>>

\* SIGTERM to an identity-verified live scope, then an await.
Terminate(j) ==
    /\ Free /\ daemon = "up"
    /\ term[j] = NoRevision
    /\ lease[j].state \in OpenLeaseStates /\ lease[j].rev < MaxRevision[j]
    /\ "alive" \in Observed(j)
    /\ term' = [term EXCEPT ![j] = lease[j].rev]
    /\ UNCHANGED <<operatorFrame, jobState, lease, lock, sched>>

RevisionHolds(j) == lease[j].rev = term[j]

\* The signal failed, the revision moved, or a fresh observation is recorded.
TerminateReturns(j) ==
    /\ Free /\ term[j] # NoRevision
    /\ term' = [term EXCEPT ![j] = NoRevision]
    /\ \/ UNCHANGED <<lease, lock, sched>>
       \/ /\ RevisionHolds(j)
          /\ \E observation \in Observed(j) :
                Reconciled(j, Recorded(lease[j], observation))
    /\ UNCHANGED <<operatorFrame, jobState>>

-----------------------------------------------------------------------------
(* The daemon process *)

\* The command is in the daemon's active map.
HasChild(j) == runner[j] \in {"launching", "enrolling", "abortingBlind",
                              "abortingKnown", "executing", "expired", "extracting"}

\* stop(): active children are cancelled, nothing new is admitted.
Stop ==
    /\ Free /\ daemon = "up" /\ restarts < MaxRestarts
    /\ daemon' = "stopping"
    /\ jobState' = [j \in Jobs |->
          IF HasChild(j) /\ jobState[j] \in {"starting", "running"}
          THEN "cancel_requested" ELSE jobState[j]]
    /\ UNCHANGED <<attempt, application, lease, lock, interrupted, behind, cut,
                   passVars, runner, progress, watchers, host>>

\* A crash at any commit, or close() after stop() gave up waiting.
Halt ==
    /\ daemon # "down" /\ restarts < MaxRestarts
    /\ daemon' = "down" /\ restarts' = restarts + 1
    /\ interrupted' = {}
    /\ cut' = IF daemon = "recovering"
              THEN cut \cup {j \in behind : jobState[j] = "queued"} ELSE cut
    /\ sched' = "idle" /\ cursor' = 1 /\ avail' = 0
    /\ runner' = [j \in Jobs |-> "idle"]
    /\ gateCommands' = [j \in Jobs |-> 0]
    /\ install' = [j \in Jobs |-> "none"]
    /\ outcome' = [j \in Jobs |-> "ok"]
    /\ late' = [j \in Jobs |-> NoLate]
    /\ term' = [j \in Jobs |-> NoRevision]
    /\ UNCHANGED <<durable, scope, behind>>

Interrupted(j) == jobState[j] \in ActiveJobStates

\* An unfinished attempt or a reservation shows that the job was dispatched.
HasEvidence(j) == attempt[j] > 0 \/ \E r \in Resources : lock[r] = j

\* An interrupted job without any recorded lease gets a legacy one.
RecoveredLease(j, observation) ==
    IF ~Interrupted(j) THEN lease[j]
    ELSE IF lease[j].state # "none" THEN Recorded(lease[j], observation)
    ELSE IF jobState[j] # "cancel_requested" \/ HasEvidence(j)
    THEN [NoLease EXCEPT !.state = "reconcile_required", !.rev = 1]
    ELSE NoLease

\* Mutant: recovery fails every job that is no longer queued.
RecoveredStateOfAll(j) ==
    IF jobState[j] = "queued" THEN "queued"
    ELSE IF jobState[j] = "cancel_requested" THEN "cancelled" ELSE "failed"

\* Mutant: recovery forgets that the job was being cancelled.
RecoveredStateFailed(j) == IF ~Interrupted(j) THEN jobState[j] ELSE "failed"

RecoveredState(j) ==
    IF ~Interrupted(j) THEN jobState[j]
    ELSE IF jobState[j] = "cancel_requested" THEN "cancelled" ELSE "failed"

RecoveredHolder(r, leases) ==
    IF lock[r] # NoJob /\ Interrupted(lock[r])
                       /\ ~Fenced(leases[lock[r]], application[lock[r]])
    THEN NoJob ELSE lock[r]

SameTask(i, j) == Needs[i] \cap Needs[j] \cap TaskResources # {}

FoundBehind ==
    {j \in Jobs : jobState[j] = "queued" /\ \E i \in Jobs : Interrupted(i) /\ SameTask(i, j)}

\* start() reads which jobs are interrupted, for their tasks, and then commits
\* recoverInterruptedJobs, one transaction about all of them.
Recover ==
    /\ daemon = "down"
    /\ \E seen \in [Jobs -> {"alive", "absent", "unverifiable"}] :
          /\ \A j \in Jobs : seen[j] \in Observed(j)
          /\ LET leases == [j \in Jobs |-> RecoveredLease(j, seen[j])] IN
             /\ lease' = leases
             /\ lock' = [r \in Resources |-> RecoveredHolder(r, leases)]
    /\ jobState' = [j \in Jobs |-> RecoveredState(j)]
    /\ attempt' = [j \in Jobs |-> IF Interrupted(j) THEN 0 ELSE attempt[j]]
    /\ daemon' = "recovering"
    /\ interrupted' = {j \in Jobs : Interrupted(j)}
    /\ behind' = behind \cup FoundBehind
    /\ cut' = cut \ FoundBehind
    /\ UNCHANGED <<application, passVars, runner, progress, watchers, host>>

recoveryFrame == <<attempt, application, lease, lock, behind, cut, cursor, avail,
                   runner, progress, watchers, host>>

\* Mutant: what is queued behind an interrupted job is dispatched again.
QuarantinedDependentNever(j) == FALSE

\* Queued for a task one of whose jobs was interrupted.
QuarantinedDependent(j) ==
    jobState[j] = "queued" /\ \E i \in interrupted : SameTask(i, j)

Withdrawing == \E j \in Jobs : jobState[j] = "cancel_requested"

\* The loop over the dependents: two commits for each, and a crash between any.
RequestDependent(j) ==
    /\ daemon = "recovering" /\ ~Withdrawing
    /\ QuarantinedDependent(j)
    /\ SetJob(j, "cancel_requested")
    /\ UNCHANGED <<recoveryFrame, daemon, interrupted, sched>>

CancelDependent(j) ==
    /\ daemon = "recovering"
    /\ jobState[j] = "cancel_requested"
    /\ SetJob(j, "cancelled")
    /\ UNCHANGED <<recoveryFrame, daemon, interrupted, sched>>

\* Nothing is left to cancel: the daemon serves, and the first pass is due.
Started ==
    /\ daemon = "recovering" /\ ~Withdrawing
    /\ \A j \in Jobs : ~QuarantinedDependent(j)
    /\ daemon' = "up" /\ sched' = "pending" /\ interrupted' = {}
    /\ UNCHANGED <<recoveryFrame, jobState>>

\* start(): synchronous, so nothing of this process runs between its commits.
Start ==
    \/ Recover \/ Started
    \/ \E j \in Jobs : RequestDependent(j) \/ CancelDependent(j)

-----------------------------------------------------------------------------
(* The host: a scope outlives the daemon; a gate that is not released ends *)

GateReady(j) ==
    /\ scope[j] = "starting"
    /\ scope' = [scope EXCEPT ![j] = "gated"]
    /\ UNCHANGED <<durable, memory, restarts>>

ScopeEnds(j) ==
    /\ scope[j] \in {"starting", "gated", "live"}
    /\ scope' = [scope EXCEPT ![j] = "gone"]
    /\ UNCHANGED <<durable, memory, restarts>>

-----------------------------------------------------------------------------

PassStep ==
    \/ PassBegins \/ PassEnds
    \/ \E j \in Jobs : \/ PassSkips(j) \/ PassRejects(j) \/ Acquire(j)
                       \/ MarkStarting(j) \/ RunJob(j)

RunnerStep(j) ==
    \/ BeginInstall(j) \/ InstallReturns(j) \/ SetupFails(j)
    \/ Prepare(j) \/ LaunchRefused(j) \/ ScopeStarting(j)
    \/ Enroll(j) \/ EnrollRefused(j) \/ StartupFails(j) \/ AbortSettles(j)
    \/ Expire(j) \/ CommandReturns(j) \/ CommandRetained(j)
    \/ ExtractFails(j) \/ BeginApplication(j) \/ EndApplication(j)
    \/ DisposeFails(j) \/ Return(j) \/ Finally(j)

LateStep(j) == LateCompletes(j) \/ LateRecords(j) \/ LateReleases(j)

OperatorStep(j) ==
    \/ Cancel(j) \/ Inspect(j) \/ InspectExited(j)
    \/ Terminate(j) \/ TerminateReturns(j)

HostStep(j) == GateReady(j) \/ ScopeEnds(j)

Next ==
    \/ PassStep \/ Stop \/ Halt \/ Start
    \/ \E j \in Jobs : \/ RunnerStep(j) \/ LateStep(j)
                       \/ OperatorStep(j) \/ HostStep(j)

\* The event loop runs every callback that stays or keeps becoming ready; a
\* daemon that is shutting down exits; the next one is started, by systemd after
\* a crash and by the operator after a stop.  Nothing is assumed of commands:
\* one may ignore every signal and run for ever.
Fairness ==
    /\ SF_vars(PassStep)
    /\ WF_vars(daemon = "stopping" /\ Halt)
    /\ WF_vars(Start)
    /\ \A j \in Jobs : SF_vars(RunnerStep(j)) /\ SF_vars(LateStep(j))

Spec == Init /\ [][Next]_vars

FairSpec == Spec /\ Fairness

-----------------------------------------------------------------------------
(* Properties *)

Holds(j) == \A r \in Needs[j] : lock[r] = j

\* A command may be running, or may still come to run, in the job's scope.
MayBeAlive(j) == scope[j] \in {"starting", "gated", "live"}

Hazard(j) == MayBeAlive(j) \/ application[j] = "pending"

\* Whatever is cancelled, retained, reconciled, crashed or restarted, a job
\* keeps every resource it reserved while a process of it may be alive or its
\* canonical application is unfinished.
ReservationsFenceExecution == \A j \in Jobs : Hazard(j) => Holds(j)

Fence == INSTANCE Reservation WITH
            holder <- lock, hazard <- [j \in Jobs |-> Hazard(j)]

\* The whole daemon implements the plain reservation protocol: each of its
\* steps reserves, acts, settles, releases or changes nothing of it.
ImplementsReservation == Fence!Spec

\* An exited lease is proof: nothing of its command is alive or can still
\* start, whichever of the runner, the late handler, an operator or the
\* recovery settled it.
ExitedMeansGone ==
    \A j \in Jobs : lease[j].state \in {"none", "exited"} => ~MayBeAlive(j)

\* A runner has taken the job up, in this process or in one before it.
InFlight(j) ==
    \/ jobState[j] \in {"starting", "running"}
    \/ jobState[j] = "cancel_requested" /\ attempt[j] > 0

\* Quarantined executions left by earlier daemons count: commands that may be
\* alive and jobs in flight never exceed config.maxActive together.
CapacityBound ==
    Cardinality({j \in Jobs : MayBeAlive(j) \/ InFlight(j)}) <= MaxActive

\* A job is never finished behind the back of its runner: only the runner's
\* own return, or a restart, ends a dispatched job.
RunnerOwnsItsJob ==
    \A j \in Jobs : runner[j] \notin {"idle", "acquired", "finally"}
                       => jobState[j] \in ActiveJobStates

\* README: terminal states are immutable.  Recovery, the runner's error path,
\* cancellation and shutdown all write job states.
TerminalStatesAreFinal ==
    [][\A j \in Jobs : Terminal(j) => jobState'[j] = jobState[j]]_vars

\* The gate of a command opens only for a live job and an identity that is
\* already durable, so a crash or a cancel can never leave an unknown command.
GateOpensOnlyEnrolled ==
    [][\A j \in Jobs : scope[j] # "live" /\ scope'[j] = "live" =>
          /\ jobState[j] \in {"starting", "running"}
          /\ lease'[j].state = "running" /\ lease'[j].known /\ Holds(j)]_vars

\* The canonical tree is written only for a job nobody cancelled, whose command
\* is gone and was not given up on, under its own worktree reservation.
AppliesOnlyCleanDelta ==
    [][\A j \in Jobs : application[j] # "pending" /\ application'[j] = "pending" =>
          /\ jobState[j] = "running" /\ scope[j] = "gone"
          /\ late[j].phase = "none" /\ lock[Worktree[j]] = j]_vars

\* No installation lives for ever: the code waits for one without a limit.
InstallsEnd == \A j \in Jobs : []<>~(Installing(j) /\ MayBeAlive(j))

\* A cancel request is honoured: neither a late success, nor a failure, nor a
\* crash and the recovery after it give the job another end.
CancelledJobsEnd ==
    InstallsEnd => \A j \in Jobs :
        jobState[j] = "cancel_requested" ~> jobState[j] = "cancelled"

\* A dispatched job ends, across crashes and however its command behaves,
\* unless that is an installation.
DispatchedJobsEnd ==
    InstallsEnd => \A j \in Jobs : jobState[j] \in ActiveJobStates ~> Terminal(j)

\* What a recovery found queued behind an interrupted job of its task is never
\* dispatched: it waits for start() to withdraw it and is withdrawn before the
\* daemon serves, however often start() is cut, unless a crash of start() left
\* it in the queue after the interrupted job had been settled.
DependentsAreNotResumed ==
    \A j \in behind \ cut :
       \/ jobState[j] = "cancelled"
       \/ jobState[j] = "cancel_requested" /\ ~Serving
       \/ jobState[j] = "queued" /\ daemon = "recovering"

\* task-coordination.md: queued dependent executions are cancelled on restart,
\* not blindly resumed.
DependentsAreCancelledOnRestart ==
    \A j \in behind : Serving => jobState[j] = "cancelled"

Quarantined(j) == Terminal(j) /\ Unresolved(j)

\* A queued job leaves the queue unless an execution is left in quarantine.
QueueDrains ==
    \A j \in Jobs : jobState[j] = "queued"
                       ~> (jobState[j] # "queued" \/ \E i \in Jobs : Quarantined(i))

\* database.ts: a running job still owns canonical application and gates after
\* command completion.
RunningJobKeepsReservations ==
    \A j \in Jobs : jobState[j] = "running" => Holds(j)
=============================================================================
