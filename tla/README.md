# A TLA+ model of dovskyd

Dovsky runs coding agents ("providers") for an operator. Its daemon, `dovskyd`,
is one Node.js process over one SQLite database: it queues jobs, reserves the
worktree each one writes, runs the provider and the gates of the job in systemd
scopes, applies what the provider wrote to the canonical tree, and survives
crashes without ever letting two writers into one worktree. Around that it keeps
long-lived tasks that several jobs serve, reviews what a job did and answers a
refutation with a correction, an escalation or competing rollouts, publishes
accepted work as pull requests and releases, and learns which tier of model a
room needs. This directory models these parts, model-checks them on small
instances, and proves every safety and action property that the passing runs
check for every instance.

    tlc -config ExecutionJob.cfg MCExecution      # any run of the table below
    tlc -config Rollouts.cfg MCRollouts
    tlapm ExecutionProofs.tla                     # the proofs; likewise ReleaseProofs,
    tlapm CanonicalProofs.tla                     # ReleaseSafety, CoordinationProofs,
                                                  # PullRequestProofs, RolloutProofs,
                                                  # RoutingProofs

## 1. The system

| component | state it keeps | operations | interacts with | hard because | correct when |
|---|---|---|---|---|---|
| dispatch pass (`schedule`, `daemon.ts`) | `scheduling`, the page and the free slots of one pass | one pass over the queue, reserve, start | reservations, runner, coordination | edge triggered; ignores requests while it runs; a crash between its commits | no queued job is forgotten, `maxActive` holds |
| command runner (`runProvider`, `runCommand`) | `active` map, one promise chain per job | provider attempt, one retry, gates, installation, application | leases, scope, sandbox | a dozen awaits, each followed by state read before it | only a live job's clean delta reaches the tree |
| execution leases (`database.ts`) | `execution_leases` | prepare, intent, enroll, observe, reconcile | runner, operators, recovery, host | compare-and-set by revision between four writers | an exited lease is proof of absence |
| resource reservations (`database.ts`) | `resource_locks` | acquire, release | everyone | five callers of release | held while anything may still write |
| recovery and shutdown (`start`, `stop`, `recoverInterruptedJobs`) | none of its own | restart, drain, close | all durable state | a crash at any commit | terminal stays terminal, quarantine is kept |
| execution lifecycle (`execution-lifecycle.ts`) | deadline, escalation, polling timers | terminate, complete | scope, runner | deadline against completion | completion implies absence |
| mutations (`mutate`, `withIdempotency`) | `operations` | run once per key | every RPC | retry of a call that half happened | the same key acts once |
| coordination (`coordination.ts`) | tasks, controls, ownership | control, checkpoint, acknowledge, finish, claim, rebind, cancel | dispatch, runner, recovery | instructions racing results; a pass, a runner, operators and recovery all write the task | no control is lost, a working task has work, ownership follows the task |
| reviews, correction rounds | verdicts, review outcome | request, finalize, continue | runner, rollouts | late and repeated reviews, a crash between a verdict and its answer | every review is answered, once |
| rollout groups, promotion | groups, candidates, winner | open, settle, pause, cancel, promote | reviews, runner, canonical delta | partial failure among candidates, a tree that moves | what is promoted is what was reviewed, a group settles |
| canonical delta (`job-delta.ts`) | trees, `application.state` | capture, diff, intent, apply, complete | runner, promotion, operator | the operator edits without a lock; files are replaced one by one | no edit and no application is undone |
| dependency cache (`evaluation-tree.ts`) | cache entries, guard directories, dependency-origin rows | look up, wait, populate, publish | runner | populations racing, a crash under the guard, lock files that change | a command sees the dependencies of its lock file |
| pull requests (`github.ts`) | `pull_requests`, an operation row, a branch and its worktree | create, status, reap | GitHub, people, acceptance | requests that half happened or arrive late, other people's changes | one pull request of the pushed head, a final state stays |
| releases (`releases.ts`) | candidates, authorizations, operations, targets | register, grant, revoke, prepare, execute, reconcile, retry, cancel, recover | scope, operators, the remote target | four awaits per dispatch, commands that outlive their deadline and their daemon, answers that come late | one unresolved operation per target, no effect repeated, nothing done on a withdrawn permission |
| routing and bandit (`database.ts`, `bandit.ts`) | policy, ledger, arms, grades | observe, grade, evolve, recheck, pin, reset | runner, reviews, operator | grades of three sources in any order, changed later | one reward per job, promotions rest on evidence |
| quota, sandbox, RPC, reads, CLI, import | files, sockets, readings | I/O | | | left to tests; see section 8 |

## 2. Modules

| module | what it is |
|---|---|
| `Execution` | the dispatch pass, runner, leases, application, locks, operators, shutdown, crash, recovery and the host's scopes: one state machine, because the properties are about their interleavings; its properties are stated at its end |
| `Reservation` | the abstract promise of `resource_locks`: reserve all or nothing, act only under the reservation, release only when the hazard is over |
| `ExecutionInvariant` | the inductive invariants of `Execution`: `RecordsAgree`, also checked by TLC, and `SlotsAreCounted` of the dispatch pass |
| `MCExecution` | instances for TLC |
| `ExecutionProofs` | type correctness, the invariant and what follows from it, three action properties of `Execution`, that it implements `Reservation`, and `CapacityBound`, proved |
| `Releases` | release candidates, grants, operations and target ownership, with the executors of several daemon processes, the scopes and the effects on the target; independent of `Execution`, with which it shares no state |
| `ReleaseInvariant` | `OwnershipInv` and `ReleaseInv`, which adds attempts, scopes and effects: the inductive invariants of the proofs |
| `MCReleases` | instances for TLC |
| `ReleaseProofs` | type correctness, target ownership, proof before mutation and two action properties, proved |
| `ReleaseSafety` | fenced commands, "not applied" as proof and at most one effect, proved |
| `Coordination` | logical tasks: jobs that serve them, control inbox, acknowledgements, outcomes, goal floor, worktree ownership, cancellation, recovery |
| `CoordinationInvariant` | its properties, and the inductive invariants `CoordinationInv` and `FloorInv` of the last three proofs |
| `CoordinationProofs` | its types, worktree ownership, the order of the inbox, that no instruction is lost, that a working task has work, that a checkpoint keeps its tree and that the goal floor gives up, proved |
| `Rollouts` | reviews, correction and escalation rounds, rollout groups, promotion, in one task |
| `RolloutsInvariant`, `RolloutProofs` | its inductive invariant, and its types, the three invariants and the action property of its run, proved |
| `Canonical` | working trees, deltas and their application, installed and cached dependencies |
| `CanonicalInvariant`, `CanonicalProofs` | its inductive invariant, and the three safety properties of its run, proved |
| `PullRequests` | one job's pull request: operation ledger, row, branch, GitHub and people |
| `PullRequestsInvariant`, `PullRequestProofs` | its inductive invariant, and the safety and action properties of its run, proved |
| `Routing` | what is learned from outcomes and grades, legacy policy and bandit |
| `RoutingInvariant`, `RoutingProofs` | its inductive invariant, and its types and both properties of its run, proved |
| `MCCoordination`, `MCRollouts`, `MCCanonical`, `MCPullRequests`, `MCRouting` | instances for TLC |

How they fit together. `Execution` is what happens to the commands of jobs; the
other modules see of it what their code sees. `Coordination` and `Rollouts` take
over its interface: an execution is `open` until its lease has exited, an
unresolved one keeps the task's worktree, and recovery settles or quarantines it
(`Coordination`'s `LaunchCommand`, `CommandExits`, `SettleExecution`; `Rollouts`'
`Resolve`). `Rollouts` takes from `Coordination` the one task its jobs belong to
(state, paused, owned); both model `setState`, `canReleaseTaskOwnership` and
cancellation, and `Rollouts` adds the clause about active groups. `Canonical`
opens up two steps of `Execution`, `BeginApplication` to `EndApplication` and the
preparation of a command, and the promotion that `Rollouts` treats as one step.
`Routing` receives the grades that `Rollouts`' verdicts give. `PullRequests` and
`Releases` start from accepted work and share no tables with the rest.

### How Execution corresponds to the code

The daemon is single threaded: between two awaits its code is one atomic step,
so an action is such a stretch. It is split only where a stretch commits twice
to SQLite and a crash can fall between (`Acquire`, `MarkStarting`, `RunJob`;
`BeginApplication`, `EndApplication`; in `start()`, `Recover`, then `RequestDependent`
and `CancelDependent` for each dependent, and `Started`). The guard `Free` says that no
such split stretch is on the stack, so that the parts still run without interleaving with
other callbacks, while `Halt` may cut them anywhere.

| variable | code |
|---|---|
| `jobState`, `attempt` | `jobs.state`, the unfinished row of `attempts` |
| `application` | `sandbox_json.application.state` |
| `lease` | the newest row of `execution_leases` of the job: state, revision (never reset: a new lease continues the count, which keeps revisions of different leases apart as lease ids do), whether a launch intent and an identity are recorded |
| `lock` | `resource_locks` |
| `daemon` | `up`; `stopping` after `stop()`; `down` between `close()` or a crash and the next start; `recovering` in `start()`, from the commit of `recoverInterruptedJobs` until it serves |
| `interrupted` | the interrupted jobs whose tasks `start()` collected before that commit |
| `behind`, `cut` | history: jobs a recovery found queued behind an interrupted one; those of them that a crash of `start()` left in the queue |
| `sched`, `cursor`, `avail` | `scheduling`, the index and `available` of the pass |
| `runner` | the await at which the job's promise chain stands |
| `gateCommands`, `install`, `outcome` | progress of the chain: commands after the provider, the installation being run for a command, what the closing command returns |
| `late` | the `completion.then` handler of a retained command and the revision it read |
| `term` | the revision an operator's terminate captured before awaiting `systemctl kill` |
| `scope` | the systemd scope on the host, which survives the daemon; `starting` includes a request systemd has not acted on yet |

The data of a command is reduced to success, failure, expiry or an exception;
exit codes, output and verdicts decide between these and nothing else. A gate
command stands for a quality command, the verify command, the red proof, a
bench re-run or an evaluation arm: all go through `gateCommand`. The action
`Return` therefore allows the runner, after any successful command, to fail the
job (a gate refused the result), run another command or succeed. The observation
of a scope may answer `unverifiable` at any time, as `observeScope` does when it
cannot read `/proc` or the cgroup.

### How Releases corresponds to the code

`ReleaseService` keeps its records in SQLite and an executor per operation in
flight in memory. Between two awaits nothing else of the process runs, but every
SQLite commit is an action of its own, since a crash, or the transactions of
another daemon process, can fall between two commits. `Busy` marks the points
inside such a stretch.

| variable | code |
|---|---|
| `registered`, `grant`, `ops`, `target` | `release_candidates`, `release_authorizations`, `release_operations`, `release_targets` |
| `ops[o].token`, `target[t].token` | `ownerToken`, `owner_token`: random identifiers in the code, counted here so that a new one is one never used before |
| `ops[o].unit` | `execution`: absent, a launch intent (`scope_unit` without a pid), a full enrolment |
| `ops[o].result` | `commandResult`: none, returned in time, `timedOut` |
| `serving` | the process whose socket accepts requests; a process that shuts down closes it first (`server.close()`), and its executors go on until `process.exit` |
| `exec[p][o]` | the await at which the executor of `o` in process `p` stands (`active` when not idle), and the operation record it holds from before that await |
| `scope[o][k]` | the systemd scope of attempt `k`: requested, gated, running its command, gone |
| `intact` | candidates that `verifyCandidate` accepts |
| `applied` | the remote target: the attempts that took effect |

An operation is its semantic key, so preparing one again is a stutter. Files,
hashes and command lines are reduced to whether they still agree. The adapter is
trusted, as in the code (`ReleaseAdapter` is local configuration): `Truthful` says
that it never reports a state of the target that is not so, nor `settled` while a
command can still change the target; it may always be uncertain, fail, or answer
with something that is no readback. A command takes effect only while its scope
exists; requests that it leaves behind in a network are what `settled` is for.

### How Coordination corresponds to the code

| variable | code |
|---|---|
| `jobs` | `jobs`, oldest first: task, worktree, state, predecessor, whether it is a goal-floor continuation, the claim the provider reported, whether it holds its resources, its execution, and the place its runner stands at |
| `task`, `owner` | `tasks` (with `latest_job_id` and `workdir`), `task_ownership` |
| `controls` | `task_controls`, by sequence: kind, the job each was delivered to and acknowledged by |
| `daemon`, `interrupted` | `recovering` inside `start()`, between the commit of `recoverInterruptedJobs` and the loop over the interrupted tasks, one commit each |
| `cut` | history: tasks whose two commits a crash separated |

A finished provider is one action that parses its result, records the outcome,
perhaps continues by the goal floor and, for a writer, enters the gates; the
gates' end is another, because controls can arrive between.

### How Rollouts corresponds to the code

| variable | code |
|---|---|
| `jobs` | `jobs` with `review_*`, `rollout_*`, `error_code`; content numbers of the tree it was based on and produced |
| `groups` | `rollout_groups`: state, worker, reviewer, winner, promotion, budget |
| `task`, `tree` | the task of the room; the content of its canonical worktree |
| `declined` | reviewers with a `rollout.skipped` event |
| `settling` | the rest of the stretch that ended a job: `settleRolloutForJob` and the release of the task run after the transaction of `finishJob`, and only a crash can separate them |
| `failing` | in `start()`: reviews that a crash left without a verdict |

### How Canonical corresponds to the code

| variable | code |
|---|---|
| `tree`, `modules` | a working tree (source file and `package-lock.json`), the lock its `node_modules` was installed from; a command that mounts the project's sees the live one |
| `invalid` | dependency-origin rows: `canonicalDependenciesAllowed` is false |
| `replaced` | history: commands whose bound installation the operator replaced |
| `cache`, `guard` | published cache directories, `.guard` directories |
| `job` | the await at which the runner stands; baseline, final content, files still to write, mounted dependencies, `application.state` |
| `owner` | the reservation of the tree |

### How PullRequests corresponds to the code

| variable | code |
|---|---|
| `row`, `op` | `pull_requests` of the job; the operation of key `pr:<job>` |
| `calls` | the await at which each request stands and the pull request it probed |
| `remote` | the branch and its pull requests on GitHub |
| `strays` | requests of a dead daemon that may still arrive |
| `accepted`, `worktree` | the job's acceptance; `pr-worktrees/<job>` |
| `landed` | history: the daemon's heads that became the branch |

### How Routing corresponds to the code

| variable | code |
|---|---|
| `jobs` | state, tier, retry parent, outcome, failure cause, grade with its source, completeness of the evidence |
| `policy` | the row of `routing_policy` with `evidence_job_ids` as pairs |
| `ledger`, `arms` | `routing_rewards`, a set of rows whose `rowid` is their place in the order of insertion; `routing_arms`, an arm being its prior and the rewards replayed on it |
| `given`, `reset` | history: the last accepted grade of each source; jobs whose reward the operator cleared |

Operators below `Mutant:` comments are not used by the specification. Each is a
plausible bug, and the run named with it in `PROJECT.json` fails when the
operator takes its neighbour's place.

## 3. Runs

Deadlock checking is off because the system does come to rest: every job or
operation settled, the budget of disturbances used up.

| run | instance | checks | shows |
|---|---|---|---|
| `ExecutionJob` | 1 writer, 1 gate command, perhaps an installation before each, 2 restarts, failing cleanup, fair | `ExitedMeansGone`, `RecordsAgree`; `TerminalStatesAreFinal`, `AppliesOnlyCleanDelta`, `GateOpensOnlyEnrolled`, `CancelledJobsEnd`, `DispatchedJobsEnd` | the life of one job, with every party that touches it, and that it ends |
| `ExecutionLocks` | 2 jobs of one task on one worktree, one a writer, `maxActive` 2, 2 restarts | `ReservationsFenceExecution`, `DependentsAreNotResumed`; `ImplementsReservation` | reservations under contention; what a restart withdraws, with a crash between any two commits of `start()` |
| `ExecutionQueue` | 2 unrelated jobs, `maxActive` 1, 1 restart, fair | `CapacityBound`; `QueueDrains` | retention and quarantine count against capacity; progress of the queue |
| `ReleasesRace` | 2 operations on one target under one grant, 2 processes, 2 attempts, 2 starts | `TargetsAreFenced`, `CommandsAreFenced`, `NotAppliedIsProof`, `AtMostOneEffect`; `OutcomesAreFinal` | the fence of a target and what a retry rests on |
| `ReleasesProof` | a verification and a deployment of one candidate that may drift, 1 process, expiring grants, fair | `MutationFollowsVerification`; `DispatchIsPermitted`, `ExecutionIsObserved` | what a dispatch rests on, and that none stays executing |
| `CoordinationTasks` | 3 tasks, one read-only, 2 worktrees; budgets of 2 jobs with a crash, 2 jobs with a control, 1 job with 2 controls, 1 job with its continuations and a control | `ControlsInOrder`, `InstructionsReachWork`, `WorkingHasExecution`, `OwnershipFollowsTask`, `FloorIsBounded`; `CheckpointKeepsWorktree` | the bookkeeping of tasks |
| `PullRequests` | 2 requests at a time that may be repeated; budgets of 3 human acts, 2 failures with 2 crashes, or one of each; fair | `PublishedIsPushed`, `AnswerIsRow`; `PublishedIsFinal`, `RetriesPublish` | publication through lost, late and foreign requests |
| `Rollouts` | 4 first requests (2 corrections and 2 rollouts, 1 and 1 on the top rung, 1 and 1 below it, 1 correction), 2 slots; a disturbance at a time and the pairs that meet in the code; fair | `AnsweredOnce`, `GroupReservesTask`, `ReviewIsAnswered`; `PromotedIsReviewed`, `GroupSettles` | what follows a finished job |
| `Canonical` | a direct job, a candidate and its promotion, 2 locks, with and without network, 2 edits, 1 upgrade, 1 crash | `MountsMatchLock`, `ChangesSurvive`, `GuardHasHolder` | what reaches a tree and what its commands see |
| `Routing` | 5 setups: two failures with their retries, two jobs with an operator's orders, 1 or 2 jobs under the bandit, a candidate with its promotion | `LedgerIsAuthoritative`, `PromotionsRestOnEvidence` | what is learned follows the grades that count |
| `LateRelease` | 1 job | `RunningJobKeepsReservations`, violated | a disagreement between a comment and the code, section 6 |
| `RestartCut` | 2 jobs of one task, 2 restarts | `DependentsAreCancelledOnRestart`, violated | a disagreement between a document and the code, section 6 |

Each module has a type invariant. `TypeOK` of `Execution`, `Releases`,
`Coordination`, `Canonical` and `PullRequests` is proved; that of the other modules
holds in the same instances, whose runs do not list it: it says less than their
other properties.

Bounds. `MaxRestarts` caps crashes and shutdowns: one suffices to meet a lease,
lock or application of an earlier daemon, two to be interrupted while recovering
jobs that were already recovered, or in the middle of `start()`. `MaxRevision` caps
operator reconciliations, the only loop besides retries; it is per job, so that the
reconciled job of a pair is always the first, and the bound lets operators act on its
first command, which is an installation or, if the cache has what it needs, the
provider. Two jobs are enough for contention, since every lock
conflict is between a holder and one that waits; `cursor` still orders them.
One gate command is enough for "a later command of the job": its preparation
already meets everything a previous command may have left. The proofs remove
all of these bounds for the safety invariants they cover.

In `Releases`, `MaxAttempts` caps dispatches and `MaxStarts` starts. A late
answer about one attempt can only meet the next one; a third process or
operation would meet the same fence as the second. `ReleasesRace` permutes
processes and operations, which its instance does not tell apart.

`Coordination`, `Rollouts` and `PullRequests` bound what people and the host do
by *budgets*: an execution stays within one of several vectors, so that every
pair of disturbances that meet in the code meets in some execution without the
product of all of them. `Rollouts`' counters of rounds are the code's (at most 2
corrections, 3 rollouts; 2 reach the group, its pruning and its budget).
`FloorIsBounded` needs five continuations to be allowed where the code stops at
four. In `Canonical`, three jobs are all the kinds that touch a tree; the file
order of an application is free. In `Routing` two pairs of failure and fix make
a promotion (`PromotePairs` 2, as in the code), so four jobs are the least that
can gain and lose one; ids of retries, which the code compares by `MIN`, are
represented by the order of creation.

Fairness (`FairSpec` of `Execution`). Node runs every callback that is ready: strong fairness of
each job's runner and late handler and of the dispatch pass, because another
callback's stretch disables `Free` for a moment again and again without starving
the event loop's queue. The awaits a runner stands at all end: startup,
extraction and dispose are bounded by timeouts or are file operations, the
command by its deadline, which `Expire` stands for. A stopping daemon exits
(`stop()` gives up after its grace), and `start()`, once begun, goes through its
commits. The next daemon is started: by systemd after a
crash (`Restart=on-failure` in `deploy/systemd`), by whoever stopped it after a
stop; the liveness properties speak of a daemon that is. Nothing else is assumed of
operators or of the host: a command may ignore every signal and live for ever. Only an
installation is awaited without a limit, on purpose (`daemon.ts:4538`):
`CancelledJobsEnd` and `DispatchedJobsEnd` have the premise `InstallsEnd`, that none
lives for ever. `ExecutionQueue` has no installation, no failing cleanup and jobs of
different worktrees, see section 6.

Fairness of `Releases`: every await of an executor ends. A command of
`createCommandReleaseAdapter` has a deadline, after which `handle.result`
resolves without ending the command; readback and preflight have deadlines of at
most 30 seconds; starting has one as well. A process that serves nobody is
started again. `ReleasesProof` has one process: under systemd the next one starts
when the last has exited. With two, an operation that a process in shutdown
dispatches after its successor has recovered stays `executing`, when the first
exits, until the next start. No fairness is assumed of operators, and none of
the scope: no property promises that an operation is ever settled.

Fairness of `Rollouts`: the pass starts jobs, commands end or meet their
deadline, settlement is the rest of a stretch that already runs, the service
manager starts the daemon again. Each is weak fairness of the class and not of a
particular job, since jobs and groups are finitely many. Nothing is assumed of
operators: `GroupSettles` excepts paused groups and unresolved executions.

Fairness of `PullRequests`: the daemon's own steps and those of `git`, which runs
under a timeout of 30 seconds (`git.ts:14`), end. `gh` has no deadline
(`defaultRunner`, `github.ts:153-168`), so nothing is assumed of a request that waits
for it (`AwaitsGh`): it may hang for ever. A creation that hangs keeps the job in
`activePullRequests`, and every repetition is refused until a restart.
`RetriesPublish` therefore has the premise `GhReturns`, that no request waits for
`gh` for ever; a hang that a restart ends satisfies it. The reaper is strongly fair, because it is a daily timer against requests of seconds.
The operator repeats a call that was not answered (strong fairness of
`StartCreate`): the code retries nothing by itself, so without the repetition
`RetriesPublish` would promise what only the caller can bring about.

## 4. Properties

* `ReservationsFenceExecution`, `ImplementsReservation`: the reason the locks
  exist. The second says that each step of the daemon is a step of `Reservation`
  or leaves it alone, under `holder <- lock` and
  `hazard <- a scope may be alive or an application is pending`.
* `ExitedMeansGone`: whichever of the four writers of a lease settles it, nothing
  is alive.
* `RecordsAgree`: the five records about a job agree; section 5.
* `GateOpensOnlyEnrolled`, `AppliesOnlyCleanDelta`: the two irrevocable effects,
  starting a command and writing the canonical tree, at the moment they happen.
* `TerminalStatesAreFinal`, `CancelledJobsEnd`: job states are
  written by the pass, the runner, its error path, cancellation, shutdown and
  recovery; they end once, as asked.
* `CapacityBound`, `QueueDrains`, `DispatchedJobsEnd`,
  `DependentsAreNotResumed`: scheduling, and what a restart may resume. The last one
  excepts the dependents that a crash of `start()` hid from the next one (`cut`): each
  is withdrawn before the daemon serves, or was cut; section 6.

Of releases:

* `TargetsAreFenced`, `CommandsAreFenced`: the row of a target names its one
  unresolved operation under the current token, and every command that can work
  on the target belongs to that operation. Four handlers and recovery write this
  row, each after reading it before an await.
* `AtMostOneEffect`, `NotAppliedIsProof`: what a retry rests on. Both are about
  the target, not the records: an effect that comes after its deadline counts.
* `OutcomesAreFinal`: an outcome is recorded once, and a cancellation stands.
* `MutationFollowsVerification`, `DispatchIsPermitted`: evidence and permission
  at the moment of the dispatch, not of the request.
* `ExecutionIsObserved`: the liveness of the executor.

Of tasks and what follows a job:

* `ControlsInOrder`, `InstructionsReachWork`: an instruction may arrive before,
  while and after the provider works, be delivered by any checkpoint, wait for
  the gates, and be rebound to another job; it is neither skipped nor completed
  over.
* `WorkingHasExecution`, `OwnershipFollowsTask`, `CheckpointKeepsWorktree`: five
  writers of the task's state, two tables, and a release condition that depends
  on other jobs' executions.
* `FloorIsBounded`: the count of continuations survives retries and handoffs.
* `AnsweredOnce`, `ReviewIsAnswered`: at least and at most one answer to each
  review, though settlement is repeated by `start()` and cut by crashes.
* `GroupReservesTask`, `PromotedIsReviewed`, `GroupSettles`: a group against
  follow-ups, edits, pauses, cancellations and restarts.

Of trees, publication and learning:

* `ChangesSurvive`: no edit of the operator and no completed application is
  undone. Excepted are edits made to the same file in the very window in which it
  is being replaced (`raced`), which the code cannot notice without a lock.
* `MountsMatchLock`: the lock a command sees is the lock its dependencies were
  installed from, after applications, promotions, and upgrades that precede the
  command. The project's installation is bound live (`sandbox.ts:260-278`), so the
  property is about the installation as it is at each moment of the command; it
  excepts commands under which the operator reinstalled it (`replaced`), section 6.
* `GuardHasHolder`: one population per key; a guard left by a dead daemon is the
  known exception and keeps its key busy.
* `PublishedIsPushed`, `PublishedIsFinal`, `AnswerIsRow`, `RetriesPublish`: row,
  ledger and GitHub agree whatever was lost, late or done by others; the last one
  unless `gh` hangs for ever.
* `LedgerIsAuthoritative`: stated against a definition of what each job *owes*
  (`Owed`), not against the updates that produce it.
* `PromotionsRestOnEvidence`: the pairs behind a learned tier still count after
  any regrade, except that a reviewer may take a failure back; section 6.

## 5. Proofs

`ExecutionProofs` proves `Spec => []TypeOK`, action by action, `Spec => []RecordsAgree` and, from it, `[]ReservationsFenceExecution`,
`[]ExitedMeansGone` and `[]RunnerOwnsItsJob`, for every number of jobs, resources,
gate commands and restarts, every assignment of needs and every `maxActive`. The
only assumptions are `ExecutionAssumption`: the constants have their types and a
job needs its own worktree.

`ReservationsFenceExecution` is not inductive: it does not say why a release
during a pending application cannot happen, or why an exited lease may give the
locks back although the scope variable belongs to the host. `RecordsAgree`
strengthens it with what each party relies on:

* `JobFollowsRunner`: the runner's place fixes what `jobs.state` can be;
* `LeaseFollowsScope`: a lease that records no launch, or its end, is right about
  the host;
* `LeaseFollowsRunner`: which lease a command at each place may find;
* `LateFollowsRunner`: a retained command is the last one of its job, so the
  late handler never speaks of an earlier lease;
* `TerminationFollowsLease`: an operator's terminate is about a prepared lease;
* `TracesOfDispatch`: what a dispatch leaves behind, which `start()` takes as evidence
  that a command may have run: a queued job has no attempt, and reservations come all
  or none;
* `HoldsWhatItNeeds`: who still owes the locks: an unresolved execution, a runner
  that may yet prepare or apply something, or an interrupted job without a lease.

The induction has one lemma per group of actions; most touch one job and leave
the records of the others alone, which `ExecutionProofs` states once. Actions
that release locks are shown to release only a job that owes nothing.

Its second half takes the action properties from the same invariant, one group of
actions at a time: `TerminalStatesAreFinal`, `GateOpensOnlyEnrolled` and
`AppliesOnlyCleanDelta` are steps out of states that `RecordsAgree` describes.
`[]DependentsAreNotResumed` is an invariant that does not say why: `DependentsAreFound`
adds that what is still queued behind an interrupted job, and was not cut, has an
interrupted job of its task among those `start()` goes through, so that the daemon
cannot serve before it is withdrawn. It also proves the refinement `ImplementsReservation`, that is
`Spec => Fence!Spec`: `RecordsAgree` gives each reserving step the free locks, each
hazardous step its reservation, and each releasing step a job without hazard, which
are the guards of `Reservation`; all other steps leave the mapped variables alone.

Last comes `CapacityBound`. The daemon counts once per pass, before it
reserves anything, and then goes by that number; the commands it counted may end,
be retained or be cancelled meanwhile. `SlotsAreCounted` says what the number is worth
at each moment of the pass: what is active (`Taken`), and the slots still free, fit into
`maxActive`, and what the pass has acquired but not started is among them. The
induction shows for every other action that the set of active jobs does not grow,
from `RecordsAgree` and the finiteness of the jobs.

`CoordinationProofs` proves `[]TypeOK`, `[]OwnershipFollowsTask`, `[]ControlsInOrder`,
`[]InstructionsReachWork`, `[]WorkingHasExecution`, `CheckpointKeepsWorktree` and
`[]FloorIsBounded` for any number of tasks, jobs, controls, crashes and worktrees, any queue limit and any budget (`CoordinationAssumption`: types only).
Ownership needs `TasksAreBound`: a task has a tree from its first job on, and this is
the tree of all its pending jobs, so that a claim takes the tree the task is bound to and
a rebind finds no job that could claim the old one. Two descriptions of a step
carry the induction: `NoJobCreated` (tables keep their shape, no task moves, a tree is
kept, given up or taken by a pending job) and `OneJobCreated` (one row more, whose
task may move). `ControlsInOrder` is inductive with the types: a step extends, hands
out or answers one inbox. `InstructionsReachWork` follows since every step that
writes `completed` is `finish`, which looks at the unanswered instructions in the same
transaction, and an instruction for a completed task reopens it.

`WorkingHasExecution` and `CheckpointKeepsWorktree` rest on `HeldAlone`: one job at a time
holds the resources of a task, every job that runs or has an open execution is that one,
and its task is neither checkpointed nor completed nor waiting. So when a job reports,
no other job of its task is running, and when an execution that outlived its job is
settled, the worktree it gives up is not that of a checkpoint. `AllMarked` adds that
`start()` has marked every interrupted task before the daemon is up. The induction says
in `Calm` what every step but a dispatch does: no job becomes busy or takes resources, a
task becomes quiet only when none of its jobs stays busy, and one that goes on working
has a pending job or was cut by a crash. The dispatch is proved on its own.

`FloorIsBounded` counts the continuations the daemon queues after the newest control, and
the code stops them by counting *claims*: how often jobs since then ended with the same
unproven outcome. `FloorInv` relates the two counts. `ClaimsPay` says that every
continuation has a counted claim behind it, at most two of one kind and one of the other,
and that one more may come from a job which is older than the control: its continuation is
new, but its claim is not counted. That allowance is spent once (`LateAnswers`), since a job
is only continued when no other job of its task is pending: of the older ones it is the last
(`ReporterIsLast`, which also needs `HeldAlone`). `JobsAreTimely`
keeps jobs and controls in step. The sets counted are subsets of the finite table of jobs, so
a step that adds one member to one of them is settled by the library's facts about
cardinality; no induction over the history is needed.

`ReleaseProofs` proves `OwnershipInv` inductive, and from it `[]TypeOK`,
`[]TargetsAreFenced`, `[]MutationFollowsVerification`, `OutcomesAreFinal` and
`DispatchIsPermitted`, for any number of operations, targets, grants, processes,
attempts and starts. The assumptions are `ReleaseAssumption`: the constants have
their types, and `Free` is not an owner. `OwnershipInv` adds to the types
`OwnerAgrees` (target rows and unresolved operations determine each other, token
included), `UnpreparedIsNew`, `VerifiedIsApplied` (also of an answer that is about
to be recorded) and `ProofAgrees` (a dispatched mutation has a *verified*
operation behind it, which nothing can undo). It needs no fact about scopes: the
two central lemmas, `TakenAgrees` and `GivenUpAgrees`, are about any step that
takes or gives up a target.

`ReleaseSafety` proves `[]ReleaseInv`, and from it `[]CommandsAreFenced`,
`[]NotAppliedIsProof` and `[]AtMostOneEffect`, from the same assumptions. None of the
three is inductive: they do not say why a superseded executor cannot open a gate, or
why an answer is still true when it is recorded. `ReleaseInv` says, per operation:

* `TokensAgree`, `OneExecutor`: owner tokens only grow; under the current token at
  most one process works for an executing operation, and every dispatch has its
  attempt, hence its scope, for itself;
* `ScopeFollowsExecutor`: how far each executor has brought its scope; whoever waits
  at an unopened gate is on the newest attempt of an operation in flight;
* `RecordFollowsScope`: what `scope_unit` and the recorded result say of the scope,
  and that nothing runs beyond the newest attempt or outside `InFlight`;
* `EffectsAgree`: only the newest attempt can have an effect, and an operation that is
  prepared, not applied or cancelled has none;
* `AnswerHolds`: what an observer read of the record under the current token is still
  in it, and an answer "not applied" it has not recorded yet is still true.

Everything is about one operation at a time, so a step is proved for its own operation
and carried over to the others by `UntouchedKept`. Four descriptions of a step cover
most actions: `Moves` (an executor moves), `Notes` (the attempt in flight is noted),
`Continued` and `Settled` (the operation stays in flight, or leaves it). The one trust
in it is that of `ReadBack`: an adapter reports "settled" only when nothing that
survives can change the target (`Truthful`).

`CanonicalProofs` proves `[]CanonicalInv` and from it `[]TypeOK`, `[]MountsMatchLock`,
`[]ChangesSurvive` and `[]GuardHasHolder`, for any jobs, trees, lock contents, edits,
upgrades and crashes. `CanonicalAssumption` says which tree a job works on and which it
shows its commands: they differ just for rollout candidates, each of which has a
private tree of its own (`rollout-worktrees/<id>`) and is not itself a promotion.
`ChangesSurvive` alone is not inductive: it does not say why a file about to be
replaced is replaced by a content with everything that must survive. `CanonicalInv`
adds:

* `ActiveOwns`: a job that works holds its tree, so at most one job writes it;
* `WriteKeeps`: the source a delta is about to write contains what must survive
  (`Lasting`), which `Intent` gains by comparing the tree with the baseline, and which
  an edit cannot lose without falling into the write;
* `JobsAgree`: the result of a job extends its baseline by its change, and a lock it is
  about to write is already recorded as invalid;
* `PromotionsFollow`, `PromotionExtends`: a promotion waits for its candidate, whose
  content descends from the baseline the promotion will be compared with. This holds
  through every step of the candidate, in a tree nobody else writes;
* `InstallationAgrees`, `EntriesAgree`: what an installation or an entry was made for.
  An installation a command is bound to stays the one it was prepared with until the
  operator replaces it, since only `Upgrade` installs (`StillRemembers`);
* `GuardsAgree`: a guard and the job that populates under it determine each other.

`JobStep` states once what a step that moves one job and no tree has to show; the
edits, upgrades, openings, file replacements and crashes are proved on their own.

`PullRequestProofs` proves `[]PullRequestsInv` and from it `[]TypeOK`,
`[]PublishedIsPushed`, `[]AnswerIsRow` and `PublishedIsFinal`, for any number of requests,
commits, pull requests, failures, crashes and human acts. The invariant follows a head
from the commit that made it: `HeadsAgree` says that a head the row, a request or a
stray push knows of, and that GitHub has or had, was pushed by the daemon, since nobody
else can make it; `Fits` says what a request may remember at each await, given that
everything else may move while it waits; `OneCreation` is `activePullRequests`.

`RolloutProofs` proves `[]RolloutsInv` and from it `[]TypeOK`, `[]GroupReservesTask`,
`[]ReviewIsAnswered`, `[]AnsweredOnce` and `PromotedIsReviewed`, for any first request and
follow-ups, any number of slots and rungs, and any budget of edits, cancellations, pauses,
refusals, unresolved executions and crashes (`RolloutsAssumption`: types, and the
limits of 2 corrections and 3 rollouts). No property is inductive: that a group is alone
when it opens rests on the order in which jobs start, and that a refutation is answered
once on who may have continued the room since. `RolloutsInv` says of the two tables:

* `Lineage`: what kind of job each job comes from, and what its group says of it; a
  group belongs to a refuted worker and its promotion to its winner;
* `Progress`: a review is of a finished job, a candidate has at most one review, a
  promotion has the approval it rests on and, once applied, the winner's content;
* `InOrder`: foreground jobs leave the queue in the order in which they were created,
  so whoever is admitted after a finished worker waits behind nobody older;
* `Reserved`: an active group is the only one, its task owns the worktree, and after its
  worker nothing but its promotion was created;
* `AnsweredInTurn`: corrections, escalations and groups are unique per job, and the
  retry of a reviewer comes right after the reviewer it replaces, which makes "no more
  retries than reviewers" an injection;
* `Answered`: the latest review of a job is answered, or is *still to be*: everything
  while the daemon is down, what `start()` collected (`LeftBehind`) or what the current
  stretch is about to settle (`Awaited`) once it is up. `ReviewIsAnswered` is the case in
  which nothing is left.

Most steps are described by how the tables change, whatever the cause: `Grows` (rows
keep their identity, jobs are appended under conditions) and `Ripens` (groups move on).
Each conjunct is shown once to survive a step so described, and an action has only to show
that its step is one.

`RoutingProofs` proves `[]RoutingInv` and from it `[]TypeOK`, `[]LedgerIsAuthoritative` and
`[]PromotionsRestOnEvidence`, for any number of jobs, tiers, grades and orders, both modes and
every threshold of the policy. `RoutingAssumption` gives the constants their types and
asks for at least one pair behind a promotion. Neither property is inductive: the ledger is
written from the row of a job, while `Owed` is stated over all grades that were ever given.
`RoutingInv` adds:

* `GradesAgree`: the row of a finished job shows the highest grade that was given, whatever
  the order, and its cause and completeness are those of that grade (`RowKeeps`); a job that
  is not finished has no grade;
* `RowsAgree`: each row of the ledger is the only one of a finished job, at its tier, and no
  two rows share a place, so that replacing a reward keeps the order of the replay;
* `PromotionsFollow`: the candidate whose grade a promotion passes on was done before it and
  is not itself a promotion;
* `EvidenceIsDone`: the pairs behind a promotion are of finished jobs, of which there are
  finitely many, and under the bandit there are none.

Three lemmas carry the induction. `OwedIsValue`: what a job is owed is the value
`updateRoutingReward` computes from its row, unless only an agent graded it. `LedgerStep`: a
step that settles the reward of one job leaves the others' rows and arms right.
`RelearnedIsSound`: a grade that is not outranked leaves a policy that rests on its evidence,
because an agent or a reviewer cannot take a pair away and a human's grade is followed by the
check. The proof carries `Settled`, the ledger's part of the property without cardinalities.

Only model-checked: liveness (`CancelledJobsEnd`, `DispatchedJobsEnd`, `QueueDrains`,
`ExecutionIsObserved`, `GroupSettles`, `RetriesPublish`), which this prover cannot
do (neither `ENABLED` nor fairness).

## 6. Where code and text disagree

* `LateRelease`: the late handler (`daemon.ts:4567`) releases the locks of a job
  that is still `running`, while `runCommand` awaits `jobServer.close()`;
  `database.ts:776` says a running job still owns them. The retained job applies
  nothing later, so `ReservationsFenceExecution` still holds.
* Locks nobody releases: if dispose fails after the lease has exited, the comment
  at `daemon.ts:4570` ("Unknown cleanup retains storage and ownership for explicit
  reconciliation") leaves the job to an operator, but `reconcileExecutionLease`
  returns an exited lease at once (`database.ts:956`), `reconcileExecution` then
  releases only task ownership (`daemon.ts:1496-1500`), and the locks stay. A
  crash between `finishJob` and `releaseResources` (`daemon.ts:2806-2810`), and the
  cancellation of a queued job that a crash caught between its reservation and its
  start, end the same way. `ExecutionQueue` therefore uses jobs of different
  worktrees: on one worktree `QueueDrains` fails for this reason.
* A crash between dispatch and the first lease is taken for an execution of an old
  daemon (`database.ts:1029-1030`) and quarantined for ever, although
  `docs/architecture.md:58` says that no command executes before its lease is stored.
* `RestartCut`: a crash in `start()` between the commit of `recoverInterruptedJobs`
  (`daemon.ts:1146`) and the loop over interrupted tasks (`daemon.ts:1148-1159`) leaves
  their queued dependents and a task in `working`; `docs/task-coordination.md:53-55`
  says that dependents are cancelled. The next start sees no active job of the task,
  so the dependents are free to be dispatched once the reservation of the task is
  back. `cut` in `Execution` excepts them from `DependentsAreNotResumed`; `cut` in
  `Coordination` excepts these tasks, and those whose failure `failUnexpected`
  records in a second commit.
* Cancelling a queued follow-up while an earlier job of the task runs and a third
  waits for the follow-up sets the task to `cancelled` in the pass
  (`daemon.ts:2775-2788`) while work goes on; `cancelJob` itself (`daemon.ts:2325`)
  looks for other jobs first.
* `docs/github-pr.md:91` says acceptance is checked again immediately before the
  dispatch; the code reads it before it awaits the probe (`daemon.ts:3291-3311`).
* A rollout group that ends without a promotion leaves its task `blocked` and owner
  of the worktree (`daemon.ts:3907`), since only cancelled groups release it
  (`daemon.ts:3893`); `coordination.ts:158-160` speaks against indefinite
  reservations.
* A promotion that fails while its group is paused: resuming sets the group to
  `promoting` but settles only `running` ones (`daemon.ts:1406-1408`), so the group
  stays until a restart or a cancellation. `GroupSettles` excepts it as `Stranded`.
* `docs/architecture.md:48` counts a reviewer's refutation as a capability failure
  only if evidence was complete *and* it is the first of the root job; the code
  (`database.ts:1839`) looks only at the evidence.
* A reviewer who takes a failure back leaves the promotion that rests on it; only a
  human's regrade rechecks. Switching the bandit on or off across a restart leaves
  the other mode's promotions or ledger unrechecked, and the legacy policy evolves
  over a pin.
* The dependencies of the project are bind-mounted from its live `node_modules`
  (`evaluation-tree.ts:146-147`, `sandbox.ts:260-278`), and `sandbox.ts:137` looks again
  only at the lock of the private tree. An operator who reinstalls between the plan
  (`daemon.ts:4351`) and the end of the command therefore changes what it sees.
  No document promises otherwise; `MountsMatchLock` excepts it.
* A `gh` that hangs blocks the pull request of its job until a restart, see *Fairness*
  in section 3. No document promises otherwise.
* After 14 days the reaper removes the operation of a pull request but not always
  its row; a repeated call is then answered `IDEMPOTENCY_CONFLICT`.
* Nothing completes a pending application after a crash, and its tree stays
  reserved; a guard directory left by a crash keeps its cache key busy
  (`evaluation-tree.ts:185`); unresolved leases hold slots until an operator acts;
  a dispose that fails skips `schedule()`, and queued jobs wait for another event.

What the models simplify beyond section 2:

* `Canonical`: an operator's upgrade changes lock file and installation in one step. The
  `raced` window begins when the files are being written; in the code it begins with
  the file reads of the last identity check, slightly earlier.
* `Rollouts`: `Continue` leaves out a worker without a provider thread
  (`worker.threadId === null`, `daemon.ts:4052`), which gets no correction round and climbs the ladder at once.
  `Recover` is one step where `start()` commits the recovery and the withdrawal of
  dependents separately; its properties do not depend on what lies between, which
  `Execution` models.
* `Routing`: `Promote` and `PassesOn` ask for a completed candidate. One that reported a
  partial outcome can be reviewed and promoted as well (`daemon.ts:3066`, `3941`); its
  promotion grades it, but such a job is owed nothing.

## 7. Plan

In order of what the rest of the system rests on:

1. Done: `Execution`, `Reservation`, the invariant, the first proofs.
2. Done: `Releases`, its invariant and the first proofs.
3. Done: `Coordination`, `Rollouts`, `Canonical`, `PullRequests`, `Routing`.
4. Done: the action properties of `Execution`, its refinement of `Reservation`,
   `CapacityBound`, the proofs about `Coordination`, and `ReleaseInv` with what follows
   from it; `FloorInv`; the inductive invariants of `Canonical`, `PullRequests`, `Rollouts`
   and `Routing`.
5. Then, models: the second half of `mutate` (operations that stay pending when
   `reconcileExecution` throws), the timers of `execution-lifecycle.ts`, an abstract
   specification of tasks that `Coordination` and `Rollouts` both implement.

## 8. Not modelled

File contents beyond two files per tree, bubblewrap arguments, provider
protocols, prompts and their refinement, the text of verdicts, SQL schema and
migrations, RPC framing, read views with the cursors of event consumers, provider
quota readings, the command line client, the legacy import and the evaluation
scripts: pure I/O, parsing, rendering, or records nothing waits for. Leases of
daemons before scopes (`inspectProcessGroup`) are treated as unverifiable.
Sampling of arms and the ranking of rollout candidates are free choices. The
operator is assumed to reinstall when changing a lock file. One daemon process
serves at a time, except in `Releases`, whose executors nothing in `stop()` waits
for; one provider serves every room of `Coordination`, and one task is the whole
world of `Rollouts`.
