--------------------------- MODULE ExecutionProofs ---------------------------
(***************************************************************************)
(* TLAPS proofs about Execution, for every number of jobs, every set of    *)
(* resources and every value of the bounds: its types, that the records    *)
(* about a job agree, so its locks fence it, an exited lease is proof, and *)
(* its runner is the only one to finish it; what no step may do: reopen a  *)
(* finished job, open a gate nobody could identify, write the canonical    *)
(* tree for a command that is not over, or resume what waited for an       *)
(* interrupted job; that every step is one of Reservation, and that what   *)
(* may be running never exceeds config.maxActive.                          *)
(***************************************************************************)
EXTENDS ExecutionInvariant, FiniteSetTheorems, TLAPS

USE ExecutionAssumption
USE DEF process, Serving

-----------------------------------------------------------------------------
(* Type correctness *)

LEMMA RecordedType ==
    ASSUME NEW l \in Leases, NEW observation
    PROVE  Recorded(l, observation) \in Leases
<1> DEFINE s == IF observation = "absent" THEN "exited" ELSE "reconcile_required"
<1>1. s \in OpenLeaseStates \cup {"none", "exited"}
    BY DEF OpenLeaseStates
<1>2. l.rev + 1 \in Nat
    BY DEF Leases
<1>3. [l EXCEPT !.state = s, !.rev = l.rev + 1] \in Leases
    <2> HIDE DEF s
    <2> QED BY <1>1, <1>2 DEF Leases
<1> QED
    BY <1>3 DEF Recorded

LEMMA ReleaseType ==
    ASSUME lock \in [Resources -> Jobs \cup {NoJob}], NEW j, NEW l, NEW a
    PROVE  LocksAfterRelease(j, l, a) \in [Resources -> Jobs \cup {NoJob}]
BY DEF LocksAfterRelease

LEMMA CountActiveType == CountActive \in Nat
<1>1. IsFiniteSet(Jobs)
    BY FS_Interval DEF Jobs
<1>2. IsFiniteSet({j \in Jobs : \/ jobState[j] \in ActiveJobStates
                                \/ lease[j].state \in OpenLeaseStates})
    BY <1>1, FS_Subset
<1> QED
    BY <1>2, FS_CardinalityType DEF CountActive

Places == WorkingPlaces \cup {"idle", "acquired", "begin", "finally"}
Outcomes == {"ok", "fail", "expired", "throw"}

LEMMA GotoType ==
    ASSUME TypeOK, NEW j \in Jobs, NEW place \in Places, Goto(j, place)
    PROVE  runner' \in [Jobs -> Places]
BY DEF TypeOK, Places, Goto

LEMMA CloseType ==
    ASSUME TypeOK, NEW j \in Jobs, NEW value \in Outcomes, Close(j, value)
    PROVE  runner' \in [Jobs -> Places] /\ outcome' \in [Jobs -> Outcomes]
BY GotoType DEF TypeOK, Places, Outcomes, WorkingPlaces, Close, SetOutcome

LEMMA SetLeaseType ==
    ASSUME TypeOK, NEW j \in Jobs, NEW l \in Leases, SetLease(j, l)
    PROVE  lease' \in [Jobs -> Leases]
BY DEF TypeOK, SetLease

LEMMA LeaseType ==
    ASSUME TypeOK, NEW j \in Jobs
    PROVE  lease[j] \in Leases /\ lease[j].rev + 1 \in Nat
BY DEF TypeOK, Leases

LEMMA TypeInit == Init => TypeOK
BY DEF Init, TypeOK, JobStates, Leases, NoLease, NoLate, NoRevision, Jobs

LEMMA TypePass == TypeOK /\ PassStep => TypeOK'
<1> SUFFICES ASSUME TypeOK, PassStep PROVE TypeOK'
    OBVIOUS
<1> USE DEF TypeOK, JobStates, progress, watchers, host, durable, passVars
<1>1. CASE PassBegins
    BY <1>1, CountActiveType DEF PassBegins
<1>2. CASE PassEnds
    BY <1>2 DEF PassEnds
<1>3. ASSUME NEW j \in Jobs, PassSkips(j) PROVE TypeOK'
    BY <1>3 DEF PassSkips
<1>4. ASSUME NEW j \in Jobs, PassRejects(j) PROVE TypeOK'
    BY <1>4, ReleaseType DEF PassRejects, SetJob
<1>5. ASSUME NEW j \in Jobs, Acquire(j) PROVE TypeOK'
    BY <1>5 DEF Acquire, Goto
<1>6. ASSUME NEW j \in Jobs, MarkStarting(j) PROVE TypeOK'
    BY <1>6 DEF MarkStarting, SetJob, Goto
<1>7. ASSUME NEW j \in Jobs, RunJob(j) PROVE TypeOK'
    <2>1. jobState' \in [Jobs -> JobStates]
        BY <1>7 DEF RunJob, SetJob
    <2>3. attempt' \in [Jobs -> 0..2]
        <3>1. attempt' = [attempt EXCEPT ![j] = 1] \/ attempt' = attempt
            BY <1>7 DEF RunJob
        <3> QED
            BY <3>1
    <2>4. cursor' \in Nat
        BY <1>7 DEF RunJob
    <2>2. runner' \in [Jobs -> Places]
        BY <1>7, GotoType DEF RunJob, Places, WorkingPlaces
    <2> QED
        BY <1>7, <2>1, <2>2, <2>3, <2>4 DEF RunJob, Places
<1> QED
    BY <1>1, <1>2, <1>3, <1>4, <1>5, <1>6, <1>7 DEF PassStep

LEMMA TypeInstall ==
    ASSUME TypeOK, NEW j \in Jobs, BeginInstall(j) \/ InstallReturns(j)
    PROVE  TypeOK'
<1> USE DEF TypeOK, watchers, host, durable, passVars
<1>1. CASE BeginInstall(j)
    BY <1>1 DEF BeginInstall
<1>2. CASE InstallReturns(j)
    <2>1. /\ install' \in [Jobs -> {"none", "running", "done"}]
          /\ runner' \in [Jobs -> WorkingPlaces \cup {"idle", "acquired", "begin",
                                                     "finally"}]
          /\ outcome' \in [Jobs -> {"ok", "fail", "expired", "throw"}]
        BY <1>2 DEF InstallReturns, Close, Goto, SetOutcome, WorkingPlaces
    <2> QED
        BY <1>2, <2>1 DEF InstallReturns
<1> QED
    BY <1>1, <1>2

\* The part of the state that a step of runCommand may change.
CommandTypeOK ==
    /\ runner \in [Jobs -> Places]
    /\ outcome \in [Jobs -> Outcomes]
    /\ lease \in [Jobs -> Leases]
    /\ late \in [Jobs -> [phase : {"none", "watching", "settling", "disposing"},
                          rev : Int]]
    /\ scope \in [Jobs -> {"none", "starting", "gated", "live", "gone"}]

LEMMA CommandType ==
    ASSUME TypeOK, CommandTypeOK', UNCHANGED commandFrame
    PROVE  TypeOK'
BY DEF TypeOK, CommandTypeOK, Places, Outcomes, commandFrame, passVars

LEMMA TypeLaunch ==
    ASSUME TypeOK, NEW j \in Jobs,
           \/ SetupFails(j) \/ Prepare(j) \/ LaunchRefused(j) \/ ScopeStarting(j)
           \/ Enroll(j) \/ EnrollRefused(j) \/ StartupFails(j) \/ AbortSettles(j)
    PROVE  TypeOK'
<1>1. CASE SetupFails(j)
    BY <1>1, CloseType, CommandType DEF SetupFails, CommandTypeOK, TypeOK, Outcomes
<1>2. CASE Prepare(j)
    <2>1. /\ runner' \in [Jobs -> Places]
          /\ outcome' \in [Jobs -> Outcomes]
        BY <1>2, CloseType, GotoType DEF Prepare, TypeOK, Outcomes, Places, WorkingPlaces
    <2>2. lease' \in [Jobs -> Leases]
        <3>1. lease[j].rev + 1 \in Nat /\ lease[j].rev + 2 \in Nat
            BY DEF TypeOK, Leases
        <3>2. /\ [NoLease EXCEPT !.state = "exited", !.rev = lease[j].rev + 2] \in Leases
              /\ [NoLease EXCEPT !.state = "prepared", !.rev = lease[j].rev + 1] \in Leases
            BY <3>1 DEF NoLease, Leases, OpenLeaseStates
        <3> QED
            BY <1>2, <3>2, SetLeaseType DEF Prepare, TypeOK
    <2>3. scope' \in [Jobs -> {"none", "starting", "gated", "live", "gone"}]
        BY <1>2 DEF Prepare, TypeOK
    <2> QED
        BY <1>2, <2>1, <2>2, <2>3, CommandType DEF Prepare, CommandTypeOK, TypeOK
<1>3. CASE LaunchRefused(j)
    <2>1. lease' \in [Jobs -> Leases]
        BY <1>3, RecordedType, SetLeaseType DEF LaunchRefused, TypeOK
    <2> QED
        BY <1>3, <2>1, CloseType, CommandType
           DEF LaunchRefused, CommandTypeOK, TypeOK, Outcomes
<1>4. CASE ScopeStarting(j)
    <2>1. lease' \in [Jobs -> Leases]
        <3>1. [lease[j] EXCEPT !.state = "reconcile_required", !.unit = TRUE,
                               !.rev = @ + 1] \in Leases
            BY LeaseType DEF Leases, OpenLeaseStates
        <3> QED
            BY <1>4, <3>1, SetLeaseType DEF ScopeStarting
    <2>2. runner' \in [Jobs -> Places]
        BY <1>4, GotoType DEF ScopeStarting, Places, WorkingPlaces
    <2>3. scope' \in [Jobs -> {"none", "starting", "gated", "live", "gone"}]
        BY <1>4 DEF ScopeStarting, TypeOK
    <2> QED
        BY <1>4, <2>1, <2>2, <2>3, CommandType
           DEF ScopeStarting, CommandTypeOK, TypeOK, Outcomes
<1>5. CASE Enroll(j)
    <2>1. lease' \in [Jobs -> Leases]
        <3>1. [lease[j] EXCEPT !.state = "running", !.known = TRUE, !.rev = @ + 1]
                 \in Leases
            BY LeaseType DEF Leases, OpenLeaseStates
        <3> QED
            BY <1>5, <3>1, SetLeaseType DEF Enroll
    <2>2. runner' \in [Jobs -> Places]
        BY <1>5, GotoType DEF Enroll, Places, WorkingPlaces
    <2>3. scope' \in [Jobs -> {"none", "starting", "gated", "live", "gone"}]
        BY <1>5 DEF Enroll, TypeOK, commandFrame
    <2> QED
        BY <1>5, <2>1, <2>2, <2>3, CommandType DEF Enroll, CommandTypeOK, TypeOK, Outcomes
<1>6. CASE EnrollRefused(j) \/ StartupFails(j)
    <2>1. runner' \in [Jobs -> Places]
        BY <1>6, GotoType DEF EnrollRefused, StartupFails, Places, WorkingPlaces
    <2> QED
        BY <1>6, <2>1, CommandType
           DEF EnrollRefused, StartupFails, CommandTypeOK, TypeOK, Outcomes
<1>7. CASE AbortSettles(j)
    <2>1. WithIdentity(lease[j]) \in Leases /\ lease[j] \in Leases
        <3>1. [lease[j] EXCEPT !.known = TRUE, !.rev = @ + 1] \in Leases
            BY LeaseType DEF Leases
        <3> QED
            BY <3>1, LeaseType DEF WithIdentity
    <2>2. lease' \in [Jobs -> Leases]
        BY <1>7, <2>1, RecordedType, SetLeaseType DEF AbortSettles
    <2> QED
        BY <1>7, <2>2, CloseType, CommandType
           DEF AbortSettles, CommandTypeOK, TypeOK, Outcomes
<1> QED
    BY <1>1, <1>2, <1>3, <1>4, <1>5, <1>6, <1>7

LEMMA TypeResult ==
    ASSUME TypeOK, NEW j \in Jobs,
           Expire(j) \/ CommandReturns(j) \/ CommandRetained(j) \/ ExtractFails(j)
    PROVE  TypeOK'
<1>1. CASE Expire(j) \/ ExtractFails(j)
    <2>1. /\ runner' \in [Jobs -> Places]
          /\ outcome' \in [Jobs -> Outcomes]
        BY <1>1, GotoType, CloseType
           DEF Expire, ExtractFails, TypeOK, Places, WorkingPlaces, Outcomes
    <2> QED
        BY <1>1, <2>1, CommandType DEF Expire, ExtractFails, CommandTypeOK, TypeOK
<1>2. CASE CommandReturns(j)
    <2>1. lease' \in [Jobs -> Leases]
        BY <1>2, RecordedType, SetLeaseType DEF CommandReturns, TypeOK
    <2>2. /\ runner' \in [Jobs -> Places]
          /\ outcome' \in [Jobs -> Outcomes]
        <3>1. CASE /\ \E result \in {"ok", "fail"} : SetOutcome(j, result)
                   /\ Goto(j, "extracting")
            BY <3>1, GotoType DEF TypeOK, SetOutcome, Places, WorkingPlaces, Outcomes
        <3>2. CASE \E result \in {"ok", "fail", "expired"} : Close(j, result)
            BY <3>2, CloseType DEF Outcomes
        <3> QED
            BY <1>2, <3>1, <3>2 DEF CommandReturns
    <2> QED
        BY <1>2, <2>1, <2>2, CommandType DEF CommandReturns, CommandTypeOK, TypeOK
<1>3. CASE CommandRetained(j)
    <2>1. lease' \in [Jobs -> Leases]
        BY <1>3, RecordedType, SetLeaseType DEF CommandRetained, TypeOK
    <2>2. late' \in [Jobs -> [phase : {"none", "watching", "settling", "disposing"},
                             rev : Int]]
        BY <1>3 DEF CommandRetained, TypeOK, NoLate, NoRevision
    <2> QED
        BY <1>3, <2>1, <2>2, CloseType, CommandType
           DEF CommandRetained, CommandTypeOK, TypeOK, Outcomes
<1> QED
    BY <1>1, <1>2, <1>3

LEMMA TypeApplication ==
    ASSUME TypeOK, NEW j \in Jobs, BeginApplication(j) \/ EndApplication(j)
    PROVE  TypeOK'
<1>1. /\ application' \in [Jobs -> {"none", "pending", "complete"}]
      /\ runner' \in [Jobs -> WorkingPlaces \cup {"idle", "acquired", "begin",
                                                 "finally"}]
      /\ outcome' \in [Jobs -> {"ok", "fail", "expired", "throw"}]
    BY DEF TypeOK, BeginApplication, EndApplication, Close, Goto, SetOutcome,
           WorkingPlaces
<1> QED
    BY <1>1 DEF TypeOK, BeginApplication, EndApplication, passVars, watchers, host

LEMMA TypeReturn ==
    ASSUME TypeOK, NEW j \in Jobs, DisposeFails(j) \/ Return(j)
    PROVE  TypeOK'
<1> USE DEF TypeOK, watchers, host, durable, passVars, Goto, SetJob, SetOutcome
<1>1. CASE DisposeFails(j)
    BY <1>1 DEF DisposeFails
<1>2. ASSUME NEW state \in TerminalJobStates, Finish(j, state),
             UNCHANGED <<application, lease, lock, process, passVars, watchers, host>>
      PROVE  TypeOK'
    BY <1>2 DEF Finish, TerminalJobStates, JobStates
<1>3. CASE Return(j)
    <2>1. UNCHANGED <<application, lease, lock, process, passVars, watchers, host>>
        BY <1>3 DEF Return
    <2>2. CASE ReturnsByThrow(j) \/ ReturnsCancelled(j) \/ ReturnsFailed(j) \/ Succeeds(j)
        BY <1>2, <2>1, <2>2 DEF ReturnsByThrow, ReturnsCancelled, ReturnsFailed,
                                Succeeds, TerminalJobStates
    <2>3. CASE Retries(j)
        BY <2>1, <2>3 DEF Retries, WorkingPlaces
    <2>4. CASE NextGateCommand(j)
        BY <2>1, <2>4 DEF NextGateCommand, WorkingPlaces
    <2> QED
        BY <1>3, <2>2, <2>3, <2>4 DEF Return
<1> QED
    BY <1>1, <1>3

LEMMA TypeFinally ==
    ASSUME TypeOK, NEW j \in Jobs, Finally(j)
    PROVE  TypeOK'
BY ReleaseType DEF TypeOK, Finally, Wake, Goto, progress, watchers, host

LEMMA TypeLate ==
    ASSUME TypeOK, NEW j \in Jobs, LateStep(j)
    PROVE  TypeOK'
<1> USE DEF TypeOK, lateFrame, progress, host
<1>1. CASE LateCompletes(j)
    BY <1>1 DEF LateCompletes, Leases
<1>2. CASE LateRecords(j)
    <2>1. lease' \in [Jobs -> Leases]
        BY <1>2, RecordedType, SetLeaseType DEF LateRecords
    <2>2. late' \in [Jobs -> [phase : {"none", "watching", "settling", "disposing"},
                             rev : Int]]
        <3>1. NoLate \in [phase : {"none", "watching", "settling", "disposing"},
                          rev : Int]
            BY DEF NoLate, NoRevision
        <3>2. [NoLate EXCEPT !.phase = "disposing"]
                 \in [phase : {"none", "watching", "settling", "disposing"}, rev : Int]
            BY DEF NoLate, NoRevision
        <3>3. \/ late' = [late EXCEPT ![j] = NoLate]
              \/ late' = [late EXCEPT ![j] = [NoLate EXCEPT !.phase = "disposing"]]
            BY <1>2 DEF LateRecords
        <3> QED
            BY <3>1, <3>2, <3>3
    <2> QED
        BY <1>2, <2>1, <2>2 DEF LateRecords
<1>3. CASE LateReleases(j)
    BY <1>3, ReleaseType DEF LateReleases, Wake, NoLate, NoRevision
<1> QED
    BY <1>1, <1>2, <1>3 DEF LateStep

LEMMA TypeReconciled ==
    ASSUME TypeOK, NEW j \in Jobs, NEW observation,
           Reconciled(j, Recorded(lease[j], observation))
    PROVE  /\ lease' \in [Jobs -> Leases]
           /\ lock' \in [Resources -> Jobs \cup {NoJob}]
           /\ sched' \in {"idle", "pending", "passing"}
BY RecordedType, ReleaseType DEF TypeOK, Reconciled, SetLease, Wake

LEMMA TypeOperator ==
    ASSUME TypeOK, NEW j \in Jobs, OperatorStep(j)
    PROVE  TypeOK'
<1>1. CASE Cancel(j)
    BY <1>1 DEF Cancel, Cancelled, SetJob, TypeOK, JobStates, operatorFrame, progress, host
<1>2. CASE Inspect(j)
    BY <1>2, TypeReconciled DEF Inspect, TypeOK, operatorFrame, progress, host
<1>3. CASE InspectExited(j)
    BY <1>3 DEF InspectExited, Wake, TypeOK, operatorFrame, progress, host
<1>4. CASE Terminate(j)
    BY <1>4 DEF Terminate, TypeOK, Leases, operatorFrame, progress, host
<1>5. CASE TerminateReturns(j)
    <2>1. term' \in [Jobs -> Int]
        BY <1>5 DEF TerminateReturns, TypeOK, NoRevision
    <2>2. /\ lease' \in [Jobs -> Leases]
          /\ lock' \in [Resources -> Jobs \cup {NoJob}]
          /\ sched' \in {"idle", "pending", "passing"}
        BY <1>5, TypeReconciled DEF TerminateReturns, TypeOK
    <2> QED
        BY <1>5, <2>1, <2>2 DEF TerminateReturns, TypeOK, operatorFrame, progress, host
<1> QED
    BY <1>1, <1>2, <1>3, <1>4, <1>5 DEF OperatorStep

LEMMA RecoveredLeaseType ==
    ASSUME TypeOK, NEW j \in Jobs, NEW observation
    PROVE  RecoveredLease(j, observation) \in Leases
BY RecordedType DEF TypeOK, RecoveredLease, Leases, NoLease, OpenLeaseStates

LEMMA TypeDaemon == TypeOK /\ (Stop \/ Halt \/ Start) => TypeOK'
<1> SUFFICES ASSUME TypeOK, Stop \/ Halt \/ Start PROVE TypeOK'
    OBVIOUS
<1>1. CASE Stop
    BY <1>1 DEF Stop, TypeOK, JobStates, passVars, progress, watchers, host
<1>2. CASE Halt
    BY <1>2 DEF Halt, TypeOK, NoLate, NoRevision, durable
<1>3. CASE Recover
    <2>1. lease' \in [Jobs -> Leases]
        BY <1>3, RecoveredLeaseType DEF Recover
    <2>2. lock' \in [Resources -> Jobs \cup {NoJob}]
        BY <1>3 DEF Recover, TypeOK, RecoveredHolder
    <2>3. jobState' \in [Jobs -> JobStates]
        BY <1>3 DEF Recover, TypeOK, RecoveredState, JobStates
    <2>4. attempt' \in [Jobs -> 0..2]
        BY <1>3 DEF Recover, TypeOK
    <2>5. interrupted' \subseteq Jobs /\ behind' \subseteq Jobs /\ cut' \subseteq Jobs
        BY <1>3 DEF Recover, TypeOK, FoundBehind
    <2> QED
        BY <1>3, <2>1, <2>2, <2>3, <2>4, <2>5
           DEF Recover, TypeOK, passVars, progress, watchers, host
<1>4. CASE Started \/ \E j \in Jobs : RequestDependent(j) \/ CancelDependent(j)
    BY <1>4 DEF Started, RequestDependent, CancelDependent, SetJob, TypeOK, JobStates,
                recoveryFrame, progress, watchers, host
<1> QED
    BY <1>1, <1>2, <1>3, <1>4 DEF Start

LEMMA TypeHost ==
    ASSUME TypeOK, NEW j \in Jobs, HostStep(j)
    PROVE  TypeOK'
BY DEF TypeOK, HostStep, GateReady, ScopeEnds, durable, memory, passVars, progress,
       watchers

LEMMA TypeStutter == TypeOK /\ UNCHANGED vars => TypeOK'
BY DEF TypeOK, vars, durable, memory, passVars, progress, watchers, host

LEMMA TypeRunner ==
    ASSUME TypeOK, NEW j \in Jobs, RunnerStep(j)
    PROVE  TypeOK'
BY TypeInstall, TypeLaunch, TypeResult, TypeApplication, TypeReturn, TypeFinally DEF RunnerStep

LEMMA TypeStep == TypeOK /\ [Next]_vars => TypeOK'
BY TypePass, TypeRunner, TypeLate, TypeOperator, TypeDaemon, TypeHost, TypeStutter
   DEF Next

\* Every variable keeps its type: in particular every resource has at most one
\* holder and every job exactly one newest lease, under every interleaving.
THEOREM TypeCorrect == Spec => []TypeOK
BY TypeInit, TypeStep, PTL DEF Spec


-----------------------------------------------------------------------------
(* Locks *)

LEMMA ReleaseKeepsOthers ==
    ASSUME NEW i \in Jobs, NEW j \in Jobs, i # j, NEW l, NEW a,
           lock' = LocksAfterRelease(j, l, a), Holds(i)
    PROVE  Holds(i)'
BY DEF Holds, LocksAfterRelease

LEMMA ReleaseRefused ==
    ASSUME NEW i \in Jobs, NEW j, NEW l, NEW a, Fenced(l, a),
           lock' = LocksAfterRelease(j, l, a), Holds(i)
    PROVE  Holds(i)'
BY DEF Holds, LocksAfterRelease

LEMMA SameLocks ==
    ASSUME NEW i \in Jobs, UNCHANGED lock, Holds(i)
    PROVE  Holds(i)'
BY DEF Holds

-----------------------------------------------------------------------------
(* Steps about one job *)

\* All that Coherent(i) says, as a step sees it.
Untouched(i) ==
    /\ UNCHANGED <<jobState[i], attempt[i], application[i], lease[i], runner[i],
                   install[i], outcome[i], late[i], term[i], scope[i], daemon>>
    /\ Holds(i) => Holds(i)'

LEMMA UntouchedCoherent ==
    ASSUME NEW i \in Jobs, Coherent(i), Untouched(i)
    PROVE  Coherent(i)'
<1>1. Terminal(i)' = Terminal(i)
    BY DEF Untouched, Terminal
<1>2. MayBeAlive(i)' = MayBeAlive(i) /\ Installing(i)' = Installing(i)
    BY DEF Untouched, MayBeAlive, Installing
<1>3. Unresolved(i)' = Unresolved(i)
    BY DEF Untouched, Unresolved, Fenced
<1> QED
    BY <1>1, <1>2, <1>3
       DEF Untouched, InFlight, Coherent, JobFollowsRunner, LeaseFollowsScope,
           LeaseFollowsRunner, LateFollowsRunner, TerminationFollowsLease,
           HoldsWhatItNeeds, Owning

LEMMA OneJob ==
    ASSUME RecordsAgree, NEW j \in Jobs, Coherent(j)',
           \A i \in Jobs \ {j} : Untouched(i)
    PROVE  RecordsAgree'
BY UntouchedCoherent DEF RecordsAgree

\* What the assignments of a step make of the job they are about.
LEMMA After ==
    ASSUME TypeOK, NEW j \in Jobs, NEW x
    PROVE  /\ Goto(j, x) => runner'[j] = x
           /\ SetOutcome(j, x) => outcome'[j] = x
           /\ Close(j, x) => runner'[j] = "closing" /\ outcome'[j] = x
           /\ SetLease(j, x) => lease'[j] = x
           /\ SetJob(j, x) => jobState'[j] = x
BY DEF TypeOK, Goto, SetOutcome, Close, SetLease, SetJob

\* runCommand and runProvider write nothing about another job.
RunnerWrites(j) ==
    \A i \in Jobs \ {j} :
       UNCHANGED <<jobState[i], attempt[i], application[i], lease[i], runner[i],
                   install[i], outcome[i], late[i], term[i], scope[i]>>

LEMMA LaunchWrites ==
    ASSUME TypeOK, NEW j \in Jobs,
           \/ SetupFails(j) \/ Prepare(j) \/ LaunchRefused(j) \/ ScopeStarting(j)
           \/ Enroll(j) \/ EnrollRefused(j) \/ StartupFails(j) \/ AbortSettles(j)
    PROVE  RunnerWrites(j) /\ UNCHANGED <<lock, process>>
BY DEF RunnerWrites, TypeOK, SetupFails, Prepare, LaunchRefused, ScopeStarting,
       Enroll, EnrollRefused, StartupFails, AbortSettles, commandFrame,
       Close, Goto, SetOutcome, SetLease

LEMMA ResultWrites ==
    ASSUME TypeOK, NEW j \in Jobs,
           \/ Expire(j) \/ CommandReturns(j) \/ CommandRetained(j) \/ ExtractFails(j)
           \/ BeginApplication(j) \/ EndApplication(j)
    PROVE  RunnerWrites(j) /\ UNCHANGED <<lock, process>>
<1> USE DEF RunnerWrites, TypeOK, commandFrame, watchers, host, Close, Goto,
            SetOutcome, SetLease
<1>1. CASE Expire(j) \/ ExtractFails(j)
    BY <1>1 DEF Expire, ExtractFails
<1>2. CASE CommandReturns(j)
    BY <1>2 DEF CommandReturns
<1>3. CASE CommandRetained(j)
    BY <1>3 DEF CommandRetained
<1>4. CASE BeginApplication(j)
    BY <1>4 DEF BeginApplication
<1>5. CASE EndApplication(j)
    BY <1>5 DEF EndApplication
<1> QED
    BY <1>1, <1>2, <1>3, <1>4, <1>5

LEMMA ReturnWrites ==
    ASSUME TypeOK, NEW j \in Jobs,
           BeginInstall(j) \/ InstallReturns(j) \/ DisposeFails(j) \/ Return(j)
    PROVE  RunnerWrites(j) /\ UNCHANGED <<lock, process>>
BY DEF RunnerWrites, TypeOK, BeginInstall, InstallReturns, DisposeFails, Return,
       ReturnsByThrow, ReturnsCancelled, ReturnsFailed, Retries, NextGateCommand,
       Succeeds, Finish, durable, watchers, host, Close, Goto, SetOutcome, SetJob

LEMMA RunnerElsewhere ==
    ASSUME NEW j \in Jobs, RunnerWrites(j), UNCHANGED <<lock, process>>
    PROVE  \A i \in Jobs \ {j} : Untouched(i)
BY SameLocks DEF RunnerWrites, Untouched

USE DEF Coherent, JobFollowsRunner, LeaseFollowsScope, LeaseFollowsRunner,
        LateFollowsRunner, TerminationFollowsLease, HoldsWhatItNeeds, Owning,
        WorkingPlaces, Terminal,
        MayBeAlive, Installing, Unresolved, Fenced, Interrupted, InFlight,
        TerminalJobStates, ActiveJobStates, OpenLeaseStates

LEMMA BeginInstallCoherent ==
    ASSUME TypeOK, NEW j \in Jobs, Coherent(j), BeginInstall(j)
    PROVE  Coherent(j)'
<1>1. runner[j] = "setup" /\ UNCHANGED <<durable, process, runner, outcome, watchers, host>>
    BY DEF BeginInstall
<1> QED
    BY <1>1, SameLocks DEF durable, watchers, host

LEMMA InstallReturnsCoherent ==
    ASSUME TypeOK, NEW j \in Jobs, Coherent(j), InstallReturns(j)
    PROVE  Coherent(j)'
<1>1. /\ runner[j] = "closing" /\ Installing(j)
      /\ UNCHANGED <<durable, process, watchers, host>>
    BY DEF InstallReturns
<1>2. CASE outcome[j] = "ok"
    <2>1. runner'[j] = "setup" /\ UNCHANGED outcome
        BY <1>2, After DEF InstallReturns
    <2> QED
        BY <1>1, <1>2, <2>1, SameLocks DEF durable, watchers, host
<1>3. CASE outcome[j] # "ok"
    <2>1. runner'[j] = "closing" /\ outcome'[j] = "throw"
        BY <1>3, After DEF InstallReturns
    <2> QED
        BY <1>1, <1>3, <2>1, SameLocks DEF durable, watchers, host
<1> QED
    BY <1>2, <1>3

LEMMA SetupFailsCoherent ==
    ASSUME TypeOK, NEW j \in Jobs, Coherent(j), SetupFails(j)
    PROVE  Coherent(j)'
<1>1. /\ runner[j] = "setup" /\ runner'[j] = "closing" /\ outcome'[j] = "throw"
      /\ UNCHANGED <<commandFrame, lease, late, scope>>
    BY After DEF SetupFails
<1> QED
    BY <1>1, SameLocks DEF commandFrame

LEMMA PrepareCoherent ==
    ASSUME TypeOK, NEW j \in Jobs, Coherent(j), Prepare(j)
    PROVE  Coherent(j)'
<1>1. /\ runner[j] = "setup" /\ Serving
      /\ UNCHANGED <<jobState, application, lock, process, install, late, term>>
    BY DEF Prepare, Free, commandFrame
<1>2. CASE ~MayPrepare(j)
    <2>1. runner'[j] = "closing" /\ outcome'[j] = "throw" /\ UNCHANGED <<lease, scope>>
        BY <1>2, After DEF Prepare
    <2> QED
        BY <1>1, <2>1, SameLocks
<1>3. CASE MayPrepare(j) /\ (jobState[j] = "cancel_requested" \/ daemon = "stopping")
    <2>1. /\ runner'[j] = "closing" /\ outcome'[j] = "throw" /\ scope'[j] = "none"
        BY <1>3, After DEF Prepare, TypeOK
    <2>2. lease'[j] = [NoLease EXCEPT !.state = "exited", !.rev = lease[j].rev + 2]
        BY <1>3, After DEF Prepare
    <2>3. lease'[j].state = "exited"
        BY <2>2 DEF NoLease
    <2> QED
        BY <1>1, <1>3, <2>1, <2>3, SameLocks DEF MayPrepare
<1>4. CASE MayPrepare(j) /\ ~(jobState[j] = "cancel_requested" \/ daemon = "stopping")
    <2>1. runner'[j] = "launching" /\ scope'[j] = "none"
        BY <1>4, After DEF Prepare, TypeOK
    <2>2. lease'[j] = [NoLease EXCEPT !.state = "prepared", !.rev = lease[j].rev + 1]
        BY <1>4, After DEF Prepare
    <2>3. lease'[j].state = "prepared" /\ ~lease'[j].unit /\ ~lease'[j].known
        BY <2>2 DEF NoLease
    <2> QED
        BY <1>1, <1>4, <2>1, <2>3, SameLocks DEF MayPrepare
<1> QED
    BY <1>2, <1>3, <1>4

LEMMA LaunchRefusedCoherent ==
    ASSUME TypeOK, NEW j \in Jobs, Coherent(j), LaunchRefused(j)
    PROVE  Coherent(j)'
<1>1. /\ runner[j] = "launching" /\ runner'[j] = "closing" /\ outcome'[j] = "throw"
      /\ lease'[j] = Recorded(lease[j], "absent")
      /\ UNCHANGED <<commandFrame, late, scope>>
    BY After DEF LaunchRefused
<1>2. lease'[j].state = "exited"
    BY <1>1, LeaseType DEF Recorded, Leases
<1> QED
    BY <1>1, <1>2, SameLocks DEF commandFrame

LEMMA ScopeStartingCoherent ==
    ASSUME TypeOK, NEW j \in Jobs, Coherent(j), ScopeStarting(j)
    PROVE  Coherent(j)'
<1>1. /\ runner[j] = "launching" /\ runner'[j] = "enrolling"
      /\ lease[j].state = "prepared" /\ scope'[j] = "starting"
      /\ UNCHANGED <<commandFrame, outcome, late>>
    BY After DEF ScopeStarting, MayLaunch, TypeOK
<1>2. lease'[j] = [lease[j] EXCEPT !.state = "reconcile_required", !.unit = TRUE,
                                   !.rev = @ + 1]
    BY After DEF ScopeStarting
<1>3. /\ lease'[j].state = "reconcile_required" /\ lease'[j].unit
      /\ lease'[j].known = lease[j].known
    BY <1>2, LeaseType DEF Leases
<1> QED
    BY <1>1, <1>3, SameLocks DEF commandFrame

LEMMA EnrollCoherent ==
    ASSUME TypeOK, NEW j \in Jobs, Coherent(j), Enroll(j)
    PROVE  Coherent(j)'
<1>1. /\ runner[j] = "enrolling" /\ Serving
      /\ runner'[j] \in {"executing", "abortingKnown"}
      /\ UNCHANGED <<commandFrame, outcome, late>>
    BY After DEF Enroll, Free
<1>2. lease'[j] = [lease[j] EXCEPT !.state = "running", !.known = TRUE, !.rev = @ + 1]
    BY After DEF Enroll
<1>3. /\ lease'[j].state = "running" /\ lease'[j].known
      /\ lease'[j].unit = lease[j].unit
    BY <1>2, LeaseType DEF Leases
<1> QED
    BY <1>1, <1>3, SameLocks DEF commandFrame

LEMMA EnrollmentFailsCoherent ==
    ASSUME TypeOK, NEW j \in Jobs, Coherent(j), EnrollRefused(j) \/ StartupFails(j)
    PROVE  Coherent(j)'
<1>1. /\ runner[j] = "enrolling" /\ Serving
      /\ runner'[j] \in {"abortingBlind", "abortingKnown"}
      /\ UNCHANGED <<commandFrame, lease, outcome, late, scope>>
    BY After DEF EnrollRefused, StartupFails, Free
<1> QED
    BY <1>1, SameLocks DEF commandFrame

\* What an observation makes of a lease.
LEMMA RecordedFacts ==
    ASSUME NEW l \in Leases, NEW observation
    PROVE  /\ Recorded(l, observation).unit = l.unit
           /\ Recorded(l, observation).known = l.known
           /\ l.state = "exited" => Recorded(l, observation) = l
           /\ l.state # "exited" => Recorded(l, observation).state =
                 IF observation = "absent" THEN "exited" ELSE "reconcile_required"
BY DEF Recorded, Leases

LEMMA AbortSettlesCoherent ==
    ASSUME TypeOK, NEW j \in Jobs, Coherent(j), AbortSettles(j)
    PROVE  Coherent(j)'
<1> DEFINE l == IF runner[j] = "abortingKnown" THEN WithIdentity(lease[j]) ELSE lease[j]
<1>1. /\ runner[j] \in {"abortingBlind", "abortingKnown"}
      /\ runner'[j] = "closing" /\ outcome'[j] = "throw"
      /\ UNCHANGED <<commandFrame, late, scope>>
    BY After DEF AbortSettles
<1>2. PICK observation \in AbortObservation(j) : SetLease(j, Recorded(l, observation))
    BY DEF AbortSettles
<1>3. l \in Leases /\ l.state = lease[j].state
    <2>1. [lease[j] EXCEPT !.known = TRUE, !.rev = @ + 1] \in Leases
        BY LeaseType DEF Leases
    <2> QED
        BY <2>1, LeaseType DEF WithIdentity, Leases
<1> HIDE DEF l
<1>4. lease'[j] = Recorded(l, observation)
    BY <1>2, After
<1>5. observation = "absent" => scope[j] = "gone"
    BY DEF AbortObservation
<1>6. \/ lease'[j].state = "exited" /\ ~MayBeAlive(j)
      \/ lease'[j].state = "reconcile_required"
    BY <1>1, <1>3, <1>4, <1>5, RecordedFacts
<1> QED
    BY <1>1, <1>6, SameLocks DEF commandFrame

LEMMA ExpireCoherent ==
    ASSUME TypeOK, NEW j \in Jobs, Coherent(j), Expire(j)
    PROVE  Coherent(j)'
<1>1. /\ runner[j] = "executing" /\ runner'[j] = "expired"
      /\ UNCHANGED <<commandFrame, lease, outcome, late, scope>>
    BY After DEF Expire
<1> QED
    BY <1>1, SameLocks DEF commandFrame

LEMMA CommandReturnsCoherent ==
    ASSUME TypeOK, NEW j \in Jobs, Coherent(j), CommandReturns(j)
    PROVE  Coherent(j)'
<1>1. /\ runner[j] \in {"executing", "expired"} /\ scope[j] = "gone"
      /\ UNCHANGED <<commandFrame, late, scope>>
    BY DEF CommandReturns
<1>2. runner'[j] \in {"extracting", "closing"}
    BY After DEF CommandReturns
<1>3. lease'[j] = Recorded(lease[j], "absent")
    BY After DEF CommandReturns
<1>4. lease'[j].state = "exited"
    BY <1>3, LeaseType, RecordedFacts
<1> QED
    BY <1>1, <1>2, <1>4, SameLocks DEF commandFrame

LEMMA CommandRetainedCoherent ==
    ASSUME TypeOK, NEW j \in Jobs, Coherent(j), CommandRetained(j)
    PROVE  Coherent(j)'
<1>1. /\ runner[j] \in {"executing", "expired"} /\ Serving /\ ~Installing(j)
      /\ runner'[j] = "closing" /\ outcome'[j] = "expired"
      /\ late'[j].phase = "watching"
      /\ UNCHANGED <<commandFrame, scope>>
    BY After DEF CommandRetained, MayGiveUp, Free, NoLate, TypeOK
<1>2. PICK observation \in Observed(j) : lease'[j] = Recorded(lease[j], observation)
    BY After DEF CommandRetained
<1>3. \/ lease'[j].state = "exited" /\ ~MayBeAlive(j)
      \/ lease'[j].state = "reconcile_required"
    BY <1>2, LeaseType, RecordedFacts DEF Observed
<1> QED
    BY <1>1, <1>3, SameLocks DEF commandFrame

LEMMA ExtractFailsCoherent ==
    ASSUME TypeOK, NEW j \in Jobs, Coherent(j), ExtractFails(j)
    PROVE  Coherent(j)'
<1>1. /\ runner[j] = "extracting" /\ runner'[j] = "closing" /\ outcome'[j] = "throw"
      /\ UNCHANGED <<commandFrame, lease, late, scope>>
    BY After DEF ExtractFails
<1> QED
    BY <1>1, SameLocks DEF commandFrame

LEMMA BeginApplicationCoherent ==
    ASSUME TypeOK, NEW j \in Jobs, Coherent(j), BeginApplication(j)
    PROVE  Coherent(j)'
<1>1. /\ runner[j] = "extracting"
      /\ UNCHANGED <<jobState, lease, lock, process, install, watchers, host>>
    BY DEF BeginApplication
<1>2. \/ runner'[j] = "applying" /\ UNCHANGED outcome
      \/ runner'[j] = "closing" /\ outcome'[j] = "throw" /\ UNCHANGED application
    BY After DEF BeginApplication
<1> QED
    BY <1>1, <1>2, SameLocks DEF watchers, host

LEMMA EndApplicationCoherent ==
    ASSUME TypeOK, NEW j \in Jobs, Coherent(j), EndApplication(j)
    PROVE  Coherent(j)'
<1>1. /\ runner[j] = "applying" /\ runner'[j] = "closing"
      /\ UNCHANGED <<jobState, lease, lock, process, install, watchers, host>>
    BY After DEF EndApplication
<1> QED
    BY <1>1, SameLocks DEF watchers, host

LEMMA DisposeFailsCoherent ==
    ASSUME TypeOK, NEW j \in Jobs, Coherent(j), DisposeFails(j)
    PROVE  Coherent(j)'
<1>1. /\ runner[j] = "closing" /\ outcome'[j] = "throw" /\ late[j].phase = "none"
      /\ UNCHANGED <<durable, process, runner, install, watchers, host>>
    BY After DEF DisposeFails
<1> QED
    BY <1>1, SameLocks DEF durable, watchers, host

LEMMA ReturnCoherent ==
    ASSUME TypeOK, NEW j \in Jobs, Coherent(j), Return(j)
    PROVE  Coherent(j)'
<1>1. /\ runner[j] = "closing" /\ ~Installing(j) /\ Serving
      /\ UNCHANGED <<application, lease, lock, process, watchers, host>>
    BY DEF Return, Returning, ReturnsByThrow, ReturnsCancelled, ReturnsFailed, Retries,
           NextGateCommand, Succeeds, Free
<1>2. ASSUME NEW state \in TerminalJobStates, Finish(j, state) PROVE Coherent(j)'
    <2>1. jobState'[j] = state /\ runner'[j] = "finally"
        BY <1>2, After DEF Finish
    <2> QED
        BY <1>1, <2>1, SameLocks DEF watchers, host
<1>3. CASE ReturnsByThrow(j) \/ ReturnsCancelled(j) \/ ReturnsFailed(j) \/ Succeeds(j)
    BY <1>2, <1>3 DEF ReturnsByThrow, ReturnsCancelled, ReturnsFailed, Succeeds
<1>4. CASE Retries(j) \/ NextGateCommand(j)
    <2>1. /\ outcome[j] \in {"ok", "fail"} /\ runner'[j] = "setup"
          /\ UNCHANGED jobState
        BY <1>4, After DEF Retries, NextGateCommand, MayRetry, MayContinue
    <2> QED
        BY <1>1, <2>1, SameLocks DEF watchers, host
<1> QED
    BY <1>3, <1>4 DEF Return

LEMMA RunnerCoherent ==
    ASSUME TypeOK, RecordsAgree, NEW j \in Jobs, RunnerStep(j), ~Finally(j)
    PROVE  RecordsAgree'
<1>1. Coherent(j)
    BY DEF RecordsAgree
<1>2. RunnerWrites(j) /\ UNCHANGED <<lock, process>>
    BY LaunchWrites, ResultWrites, ReturnWrites DEF RunnerStep
<1>3. Coherent(j)'
    <2> HIDE DEF Coherent
    <2> QED
        BY <1>1, BeginInstallCoherent, InstallReturnsCoherent, SetupFailsCoherent,
           PrepareCoherent, LaunchRefusedCoherent, ScopeStartingCoherent,
           EnrollCoherent, EnrollmentFailsCoherent, AbortSettlesCoherent,
           ExpireCoherent, CommandReturnsCoherent, CommandRetainedCoherent,
           ExtractFailsCoherent, BeginApplicationCoherent, EndApplicationCoherent,
           DisposeFailsCoherent, ReturnCoherent
           DEF RunnerStep
<1> QED
    BY <1>2, <1>3, RunnerElsewhere, OneJob

\* Giving back the locks of a job whose records allow it.
LEMMA ReleaseElsewhere ==
    ASSUME NEW j \in Jobs, RunnerWrites(j), UNCHANGED daemon,
           \/ UNCHANGED lock
           \/ \E l, a : lock' = LocksAfterRelease(j, l, a)
    PROVE  \A i \in Jobs \ {j} : Untouched(i)
BY SameLocks, ReleaseKeepsOthers DEF RunnerWrites, Untouched

LEMMA FinallyCoherent ==
    ASSUME TypeOK, RecordsAgree, NEW j \in Jobs, Finally(j)
    PROVE  RecordsAgree'
<1>1. /\ Coherent(j) /\ runner[j] = "finally" /\ runner'[j] = "idle" /\ Serving
      /\ lock' = LocksAfterRelease(j, lease[j], application[j])
      /\ UNCHANGED <<jobState, application, lease, process, progress, watchers, host>>
    BY After DEF Finally, RecordsAgree, Free
<1>2. RunnerWrites(j)
    BY <1>1 DEF RunnerWrites, Finally, Goto, TypeOK, progress, watchers, host
<1>3. Coherent(j)'
    BY <1>1, ReleaseRefused DEF progress, watchers, host
<1> QED
    BY <1>1, <1>2, <1>3, ReleaseElsewhere, OneJob

LEMMA LateCoherent ==
    ASSUME TypeOK, RecordsAgree, NEW j \in Jobs, LateStep(j)
    PROVE  RecordsAgree'
<1>1. /\ Coherent(j) /\ Serving /\ late[j].phase # "none"
      /\ UNCHANGED lateFrame
    BY DEF LateStep, LateCompletes, LateRecords, LateReleases, RecordsAgree, Free
<1>2. CASE LateCompletes(j)
    <2>1. /\ late'[j].phase = "settling" /\ scope[j] = "gone"
          /\ UNCHANGED <<lease, lock>>
        BY <1>2 DEF LateCompletes, TypeOK
    <2>2. RunnerWrites(j)
        BY <1>1, <1>2 DEF LateCompletes, RunnerWrites, TypeOK, lateFrame, progress, host
    <2>3. Coherent(j)'
        BY <1>1, <2>1, SameLocks DEF lateFrame, progress, host
    <2> QED
        BY <1>1, <2>1, <2>2, <2>3, ReleaseElsewhere, OneJob DEF lateFrame
<1>3. CASE LateRecords(j)
    <2>1. /\ UNCHANGED lock /\ late[j].phase = "settling"
          /\ \/ late'[j] = NoLate /\ UNCHANGED lease
             \/ /\ late'[j] = [NoLate EXCEPT !.phase = "disposing"]
                /\ lease'[j] = Recorded(lease[j], "absent")
        BY <1>3, After DEF LateRecords, TypeOK
    <2>2. RunnerWrites(j)
        BY <1>1, <1>3 DEF LateRecords, SetLease, RunnerWrites, TypeOK, lateFrame, progress,
                          host
    <2>3. ASSUME late'[j] = NoLate /\ UNCHANGED lease
          PROVE  Coherent(j)'
        BY <1>1, <2>1, <2>3, SameLocks DEF NoLate, lateFrame, progress, host
    <2>4. ASSUME /\ late'[j] = [NoLate EXCEPT !.phase = "disposing"]
                 /\ lease'[j] = Recorded(lease[j], "absent")
          PROVE  Coherent(j)'
        <3>1. late'[j].phase = "disposing" /\ lease'[j].state = "exited"
            BY <2>4, LeaseType, RecordedFacts DEF NoLate
        <3> QED
            BY <1>1, <2>1, <3>1, SameLocks DEF lateFrame, progress, host
    <2>5. Coherent(j)'
        BY <2>1, <2>3, <2>4
    <2> QED
        BY <1>1, <2>1, <2>2, <2>5, ReleaseElsewhere, OneJob DEF lateFrame
<1>4. CASE LateReleases(j)
    <2>1. /\ late[j].phase = "disposing" /\ late'[j].phase = "none" /\ UNCHANGED lease
          /\ \/ lock' = LocksAfterRelease(j, lease[j], application[j])
             \/ UNCHANGED lock
        BY <1>4 DEF LateReleases, NoLate, TypeOK
    <2>2. RunnerWrites(j)
        BY <1>1, <1>4 DEF LateReleases, RunnerWrites, TypeOK, lateFrame, progress, host
    <2>3. Unresolved(j) /\ Holds(j) => Holds(j)'
        BY <2>1, ReleaseRefused, SameLocks
    <2>4. Coherent(j)'
        BY <1>1, <2>1, <2>3 DEF lateFrame, progress, host
    <2> QED
        BY <1>1, <2>1, <2>2, <2>4, ReleaseElsewhere, OneJob DEF lateFrame
<1> QED
    BY <1>2, <1>3, <1>4 DEF LateStep

\* The commit of an observation by an operator's request.
LEMMA ReconciledCoherent ==
    ASSUME TypeOK, RecordsAgree, NEW j \in Jobs, NEW observation \in Observed(j),
           Reconciled(j, Recorded(lease[j], observation)), lease[j].state # "none",
           UNCHANGED <<jobState, attempt, application, runner, install, outcome, late,
                       scope, process>>,
           term' \in {term, [term EXCEPT ![j] = NoRevision]}
    PROVE  RecordsAgree'
<1>1. Coherent(j) /\ lease'[j] = Recorded(lease[j], observation)
    BY After DEF RecordsAgree, Reconciled
<1>2. lease'[j].unit = lease[j].unit /\ lease'[j].known = lease[j].known
    BY <1>1, LeaseType, RecordedFacts
<1>3. \/ lease'[j].state = "exited" /\ ~MayBeAlive(j)
      \/ /\ lease'[j].state = "reconcile_required"
         /\ lease[j].state \in {"running", "reconcile_required"}
    BY <1>1, LeaseType, RecordedFacts DEF Observed, Leases
<1>4. ~lease[j].known /\ lease[j].unit /\ lease[j].state # "exited"
         => lease'[j].state = "reconcile_required"
    BY <1>1, LeaseType, RecordedFacts DEF Observed
<1>5. term'[j] \in {term[j], NoRevision}
    BY DEF TypeOK
<1>6. \/ UNCHANGED lock
      \/ /\ lease'[j].state = "exited" /\ Terminal(j)
         /\ lock' = LocksAfterRelease(j, lease'[j], application[j])
    BY <1>1 DEF Reconciled, MaySettleLocks
<1>7. Coherent(j)'
    <2>1. CASE UNCHANGED lock
        BY <1>1, <1>2, <1>3, <1>4, <1>5, <2>1, SameLocks
    <2>2. CASE /\ lease'[j].state = "exited" /\ Terminal(j)
               /\ lock' = LocksAfterRelease(j, lease'[j], application[j])
        BY <1>1, <1>2, <1>3, <1>4, <1>5, <2>2, ReleaseRefused
    <2> QED
        BY <1>6, <2>1, <2>2
<1>8. RunnerWrites(j)
    BY DEF RunnerWrites, Reconciled, SetLease, TypeOK
<1> QED
    BY <1>6, <1>7, <1>8, ReleaseElsewhere, OneJob

LEMMA OperatorCoherent ==
    ASSUME TypeOK, RecordsAgree, NEW j \in Jobs, OperatorStep(j)
    PROVE  RecordsAgree'
<1>1. CASE Cancel(j)
    <2>1. /\ Coherent(j) /\ daemon = "up" /\ runner[j] \notin {"acquired", "begin"}
          /\ jobState[j] \in {"queued", "starting", "running"}
          /\ jobState'[j] = Cancelled(j)
          /\ UNCHANGED <<attempt, application, lease, runner, install, outcome, late,
                         term, scope, process, lock>>
        BY <1>1, After DEF Cancel, RecordsAgree, Free, Quiet, operatorFrame, progress, host
    <2>2. RunnerWrites(j)
        BY <1>1, <2>1 DEF Cancel, RunnerWrites, SetJob, TypeOK
    <2>3. Coherent(j)'
        BY <2>1, SameLocks DEF Cancelled
    <2> QED
        BY <2>1, <2>2, <2>3, RunnerElsewhere, OneJob
<1>2. CASE Inspect(j)
    BY <1>2, ReconciledCoherent DEF Inspect, operatorFrame, progress, host
<1>3. CASE InspectExited(j)
    <2>1. UNCHANGED <<jobState, attempt, application, lease, runner, install, outcome,
                      late, term, scope, process, lock>>
        BY <1>3 DEF InspectExited, operatorFrame, progress, host
    <2> QED
        BY <2>1, SameLocks, UntouchedCoherent DEF Untouched, RecordsAgree
<1>4. CASE Terminate(j) \/ (TerminateReturns(j) /\ UNCHANGED <<lease, lock>>)
    <2>1. /\ Coherent(j) /\ Serving
          /\ UNCHANGED <<jobState, attempt, application, lease, runner, install, outcome,
                         late, scope, process, lock>>
          /\ lease[j].state # "none" \/ term'[j] = NoRevision
        BY <1>4 DEF Terminate, TerminateReturns, Free, RecordsAgree, operatorFrame,
                    progress, host, TypeOK
    <2>2. RunnerWrites(j)
        BY <1>4, <2>1 DEF Terminate, TerminateReturns, RunnerWrites, TypeOK
    <2>3. Coherent(j)'
        BY <2>1, SameLocks
    <2> QED
        BY <2>1, <2>2, <2>3, RunnerElsewhere, OneJob
<1>5. CASE TerminateReturns(j) /\ ~UNCHANGED <<lease, lock>>
    <2>1. PICK observation \in Observed(j) : Reconciled(j, Recorded(lease[j], observation))
        BY <1>5 DEF TerminateReturns
    <2>2. lease[j].state # "none"
        BY <1>5 DEF TerminateReturns, RecordsAgree
    <2> QED
        BY <1>5, <2>1, <2>2, ReconciledCoherent
           DEF TerminateReturns, operatorFrame, progress, host
<1> QED
    BY <1>1, <1>2, <1>3, <1>4, <1>5 DEF OperatorStep

LEMMA HostCoherent ==
    ASSUME TypeOK, RecordsAgree, NEW j \in Jobs, HostStep(j)
    PROVE  RecordsAgree'
<1>1. /\ Coherent(j) /\ UNCHANGED <<durable, memory>>
      /\ scope[j] \in {"starting", "gated", "live"} /\ scope'[j] \in {"gated", "gone"}
    BY DEF HostStep, GateReady, ScopeEnds, RecordsAgree, TypeOK
<1>2. RunnerWrites(j)
    BY <1>1 DEF RunnerWrites, HostStep, GateReady, ScopeEnds, TypeOK, durable, memory,
                progress, watchers
<1>3. Coherent(j)'
    BY <1>1, SameLocks DEF durable, memory, progress, watchers
<1> QED
    BY <1>1, <1>2, <1>3, RunnerElsewhere, OneJob DEF durable, memory

-----------------------------------------------------------------------------
(* The dispatch pass *)

LEMMA PassCoherent ==
    ASSUME TypeOK, RecordsAgree, PassStep
    PROVE  RecordsAgree'
<1>1. CASE PassBegins \/ PassEnds \/ \E j \in Jobs : PassSkips(j)
    <2>1. UNCHANGED <<durable, process, runner, progress, watchers, host>>
        BY <1>1 DEF PassBegins, PassEnds, PassSkips
    <2> QED
        BY <2>1, SameLocks, UntouchedCoherent
           DEF Untouched, RecordsAgree, durable, progress, watchers, host
<1>2. ASSUME NEW j \in Jobs, PassRejects(j) PROVE RecordsAgree'
    <2>1. /\ Coherent(j) /\ jobState[j] = "queued" /\ jobState'[j] = "failed"
          /\ runner[j] \notin {"acquired", "begin"} /\ Serving
          /\ lock' = LocksAfterRelease(j, lease[j], application[j])
          /\ UNCHANGED <<application, lease, runner, process, progress, watchers, host>>
        BY <1>2, After DEF PassRejects, InPass, Quiet, RecordsAgree
    <2>2. RunnerWrites(j)
        BY <1>2, <2>1 DEF PassRejects, SetJob, RunnerWrites, TypeOK, progress, watchers, host
    <2>3. runner[j] = "idle"
        BY <2>1 DEF TypeOK
    <2>4. Coherent(j)'
        BY <2>1, <2>3, ReleaseRefused DEF progress, watchers, host
    <2> QED
        BY <2>1, <2>2, <2>4, ReleaseElsewhere, OneJob
<1>3. ASSUME NEW j \in Jobs, Acquire(j) PROVE RecordsAgree'
    <2>1. /\ Coherent(j) /\ jobState[j] = "queued" /\ Serving
          /\ runner[j] \notin {"acquired", "begin"} /\ runner'[j] = "acquired"
          /\ UNCHANGED <<jobState, application, lease, process, progress, watchers, host>>
        BY <1>3, After DEF Acquire, InPass, Quiet, RecordsAgree
    <2>2. ASSUME NEW i \in Jobs \ {j}, Holds(i) PROVE Holds(i)'
        <3>1. i \notin {NoJob, j}
            BY <2>2 DEF NoJob, Jobs
        <3>2. \A r \in Needs[j] : lock[r] \in {NoJob, j}
            BY <1>3 DEF Acquire, Available
        <3> QED
            BY <1>3, <2>2, <3>1, <3>2 DEF Acquire, Holds
    <2>3. \A i \in Jobs \ {j} : Untouched(i)
        BY <1>3, <2>1, <2>2 DEF Acquire, Untouched, Goto, TypeOK, progress, watchers, host
    <2>4. Holds(j)'
        BY <1>3 DEF Acquire, Holds
    <2>5. runner[j] = "idle"
        BY <2>1 DEF TypeOK
    <2>6. Coherent(j)'
        BY <2>1, <2>4, <2>5 DEF progress, watchers, host
    <2> QED
        BY <2>3, <2>6, OneJob
<1>4. ASSUME NEW j \in Jobs, MarkStarting(j) PROVE RecordsAgree'
    <2>1. /\ Coherent(j) /\ runner[j] = "acquired" /\ runner'[j] = "begin"
          /\ Serving /\ jobState'[j] = "starting"
          /\ UNCHANGED <<application, lease, lock, process, progress, watchers, host>>
        BY <1>4, After DEF MarkStarting, RecordsAgree
    <2>2. RunnerWrites(j)
        BY <1>4, <2>1 DEF MarkStarting, SetJob, Goto, RunnerWrites, TypeOK, progress,
                          watchers, host
    <2>3. Coherent(j)'
        BY <2>1, SameLocks DEF progress, watchers, host
    <2> QED
        BY <2>1, <2>2, <2>3, RunnerElsewhere, OneJob
<1>5. ASSUME NEW j \in Jobs, RunJob(j) PROVE RecordsAgree'
    <2>1. /\ Coherent(j) /\ runner[j] = "begin" /\ Serving
          /\ \/ jobState'[j] = "running" /\ runner'[j] = "setup"
             \/ jobState'[j] = "failed" /\ runner'[j] = "finally"
          /\ UNCHANGED <<application, lease, lock, process, progress, watchers, host>>
        BY <1>5, After DEF RunJob, RecordsAgree
    <2>2. RunnerWrites(j)
        BY <1>5, <2>1 DEF RunJob, SetJob, Goto, RunnerWrites, TypeOK, progress, watchers,
                          host
    <2>3. Coherent(j)'
        BY <2>1, SameLocks DEF progress, watchers, host
    <2> QED
        BY <2>1, <2>2, <2>3, RunnerElsewhere, OneJob
<1> QED
    BY <1>1, <1>2, <1>3, <1>4, <1>5 DEF PassStep

-----------------------------------------------------------------------------
(* Shutdown, crash and recovery *)

LEMMA StopCoherent ==
    ASSUME TypeOK, RecordsAgree, Stop
    PROVE  RecordsAgree'
<1> SUFFICES ASSUME NEW i \in Jobs PROVE Coherent(i)'
    BY DEF RecordsAgree
<1>1. /\ Coherent(i) /\ daemon = "up" /\ daemon' = "stopping"
      /\ jobState'[i] = IF HasChild(i) /\ jobState[i] \in {"starting", "running"}
                       THEN "cancel_requested" ELSE jobState[i]
      /\ UNCHANGED <<attempt, application, lease, lock, runner, progress, watchers, host>>
    BY DEF Stop, RecordsAgree
<1> QED
    BY <1>1, SameLocks DEF HasChild, progress, watchers, host

LEMMA HaltCoherent ==
    ASSUME TypeOK, RecordsAgree, Halt
    PROVE  RecordsAgree'
<1> SUFFICES ASSUME NEW i \in Jobs PROVE Coherent(i)'
    BY DEF RecordsAgree
<1>1. /\ Coherent(i) /\ daemon' = "down" /\ runner'[i] = "idle"
      /\ late'[i].phase = "none" /\ term'[i] = NoRevision
      /\ UNCHANGED <<durable, scope>>
    BY DEF Halt, RecordsAgree, NoLate
<1> QED
    BY <1>1, SameLocks DEF durable

LEMMA RecoverCoherent ==
    ASSUME TypeOK, RecordsAgree, TracesOfDispatch, Recover
    PROVE  RecordsAgree'
<1> SUFFICES ASSUME NEW i \in Jobs PROVE Coherent(i)'
    BY DEF RecordsAgree
<1>1. PICK seen \in [Jobs -> {"alive", "absent", "unverifiable"}] :
         /\ \A j \in Jobs : seen[j] \in Observed(j)
         /\ lease' = [j \in Jobs |-> RecoveredLease(j, seen[j])]
         /\ lock' = [r \in Resources |-> RecoveredHolder(r, lease')]
    BY DEF Recover
<1>2. /\ Coherent(i) /\ daemon = "down" /\ daemon' = "recovering"
      /\ jobState'[i] = RecoveredState(i)
      /\ seen[i] \in Observed(i) /\ lease'[i] = RecoveredLease(i, seen[i])
      /\ UNCHANGED <<application, runner, progress, watchers, host>>
    BY <1>1 DEF Recover, RecordsAgree
<1>3. jobState'[i] \notin ActiveJobStates /\ (Terminal(i) => jobState'[i] = jobState[i])
    BY <1>2 DEF RecoveredState, TypeOK, JobStates
<1>4. \/ lease'[i] = lease[i]
      \/ /\ lease[i].state = "none" /\ lease'[i].state = "none"
         /\ ~lease'[i].unit /\ ~lease'[i].known
      \/ lease'[i].state = "exited" /\ ~MayBeAlive(i)
      \/ /\ lease'[i].state = "reconcile_required"
         /\ Unresolved(i) \/ (lease[i].state = "none" /\ Holds(i))
    <2>1. CASE Interrupted(i) /\ lease[i].state # "none"
        BY <1>2, <2>1, LeaseType, RecordedFacts DEF RecoveredLease, Observed, Leases
    <2>2. CASE Interrupted(i) /\ lease[i].state = "none"
        <3>1. \/ lease'[i] = NoLease
              \/ /\ lease'[i] = [NoLease EXCEPT !.state = "reconcile_required", !.rev = 1]
                 /\ jobState[i] # "cancel_requested" \/ HasEvidence(i)
            BY <1>2, <2>2 DEF RecoveredLease
        <3>2. /\ NoLease.state = "none" /\ ~NoLease.unit /\ ~NoLease.known
              /\ [NoLease EXCEPT !.state = "reconcile_required", !.rev = 1].state
                    = "reconcile_required"
            BY DEF NoLease
        <3>3. jobState[i] # "cancel_requested" \/ HasEvidence(i) => Holds(i)
            <4>1. (\E r \in Resources : lock[r] = i) => Holds(i)
                BY DEF TracesOfDispatch
            <4>2. InFlight(i) => Holds(i)
                BY <1>2, <2>2
            <4> QED
                BY <2>2, <4>1, <4>2 DEF HasEvidence
        <3> QED
            BY <2>2, <3>1, <3>2, <3>3
    <2> QED
        BY <1>2, <2>1, <2>2 DEF RecoveredLease
<1>5. Unresolved(i)' => Holds(i)
    BY <1>2, <1>4
<1>6. Unresolved(i)' /\ Holds(i) => Holds(i)'
    BY <1>1, <1>2 DEF Holds, RecoveredHolder
<1> QED
    BY <1>2, <1>3, <1>4, <1>5, <1>6 DEF progress, watchers, host

\* The dependents have never run and hold no lease; the others stand still.
LEMMA DependentCoherent ==
    ASSUME TypeOK, RecordsAgree, TracesOfDispatch, NEW j \in Jobs,
           RequestDependent(j) \/ CancelDependent(j)
    PROVE  RecordsAgree'
<1>1. /\ Coherent(j) /\ daemon = "recovering"
      /\ UNCHANGED <<recoveryFrame, daemon, interrupted, sched>>
      /\ \/ jobState[j] = "queued" /\ jobState'[j] = "cancel_requested"
         \/ jobState[j] = "cancel_requested" /\ jobState'[j] = "cancelled"
    BY After DEF RequestDependent, CancelDependent, QuarantinedDependent, RecordsAgree
<1>2. RunnerWrites(j)
    BY <1>1 DEF RequestDependent, CancelDependent, SetJob, RunnerWrites, TypeOK,
                recoveryFrame, progress, watchers, host
<1>3. jobState[j] = "queued" => attempt[j] = 0
    BY DEF TracesOfDispatch
<1>4. Coherent(j)'
    BY <1>1, <1>3, SameLocks DEF recoveryFrame, progress, watchers, host
<1>5. \A i \in Jobs \ {j} : Untouched(i)
    BY <1>1, <1>2, SameLocks DEF RunnerWrites, Untouched, recoveryFrame
<1> QED
    BY <1>4, <1>5, OneJob

LEMMA StartedCoherent ==
    ASSUME TypeOK, RecordsAgree, Started
    PROVE  RecordsAgree'
<1> SUFFICES ASSUME NEW i \in Jobs PROVE Coherent(i)'
    BY DEF RecordsAgree
<1>1. /\ Coherent(i) /\ daemon = "recovering" /\ daemon' = "up"
      /\ jobState[i] # "cancel_requested" /\ UNCHANGED <<recoveryFrame, jobState>>
    BY DEF Started, Withdrawing, RecordsAgree
<1> QED
    BY <1>1, SameLocks DEF recoveryFrame, progress, watchers, host

-----------------------------------------------------------------------------
(* What a dispatch leaves behind *)

\* Who writes reservations.
LEMMA LockWriters ==
    ASSUME [Next]_vars
    PROVE  \/ UNCHANGED lock
           \/ \E j \in Jobs : lock' = [r \in Resources |->
                                          IF lock[r] = j THEN NoJob ELSE lock[r]]
           \/ \E j \in Jobs : Acquire(j)
           \/ Recover
<1>1. ASSUME NEW j \in Jobs, NEW l, NEW a, lock' = LocksAfterRelease(j, l, a)
      PROVE  \/ UNCHANGED lock
             \/ lock' = [r \in Resources |-> IF lock[r] = j THEN NoJob ELSE lock[r]]
    BY <1>1 DEF LocksAfterRelease
<1>2. CASE UNCHANGED vars
    BY <1>2 DEF vars, durable
<1>3. CASE PassStep
    BY <1>1, <1>3 DEF PassStep, PassBegins, PassEnds, PassSkips, PassRejects, MarkStarting,
                      RunJob, durable
<1>4. ASSUME NEW j \in Jobs, RunnerStep(j), ~Finally(j) PROVE UNCHANGED lock
    BY <1>4 DEF RunnerStep, BeginInstall, InstallReturns, SetupFails, Prepare,
                LaunchRefused, ScopeStarting, Enroll, EnrollRefused, StartupFails,
                AbortSettles, Expire, CommandReturns, CommandRetained, ExtractFails,
                BeginApplication, EndApplication, DisposeFails, Return, commandFrame,
                durable
<1>5. ASSUME NEW j \in Jobs, Finally(j) \/ LateStep(j) \/ OperatorStep(j)
      PROVE  \/ UNCHANGED lock
             \/ lock' = [r \in Resources |-> IF lock[r] = j THEN NoJob ELSE lock[r]]
    <2>1. CASE Finally(j)
        BY <1>1, <2>1 DEF Finally
    <2>2. CASE LateStep(j)
        BY <1>1, <2>2 DEF LateStep, LateCompletes, LateRecords, LateReleases
    <2>3. ASSUME NEW l, Reconciled(j, l)
          PROVE  \/ UNCHANGED lock
                 \/ lock' = [r \in Resources |-> IF lock[r] = j THEN NoJob ELSE lock[r]]
        BY <1>1, <2>3 DEF Reconciled
    <2>4. CASE OperatorStep(j)
        BY <2>3, <2>4 DEF OperatorStep, Cancel, Inspect, InspectExited, Terminate,
                          TerminateReturns
    <2> QED
        BY <1>5, <2>1, <2>2, <2>4
<1>6. CASE Stop \/ Halt \/ (Start /\ ~Recover) \/ \E j \in Jobs : HostStep(j)
    BY <1>6 DEF Stop, Halt, Start, Started, RequestDependent, CancelDependent,
                recoveryFrame, HostStep, GateReady, ScopeEnds, durable
<1> QED
    BY <1>2, <1>3, <1>4, <1>5, <1>6 DEF Next

LEMMA WholeStep ==
    ASSUME TypeOK, TracesOfDispatch, [Next]_vars, NEW i \in Jobs,
           \E r \in Resources : lock'[r] = i
    PROVE  Holds(i)'
<1>1. i # NoJob
    BY DEF NoJob, Jobs
<1>2. CASE UNCHANGED lock
    BY <1>2 DEF TracesOfDispatch, Holds
<1>3. ASSUME NEW j \in Jobs,
             lock' = [r \in Resources |-> IF lock[r] = j THEN NoJob ELSE lock[r]]
      PROVE  Holds(i)'
    <2>1. i # j /\ \E r \in Resources : lock[r] = i
        BY <1>1, <1>3
    <2> QED
        BY <1>3, <2>1 DEF TracesOfDispatch, Holds
<1>4. ASSUME NEW j \in Jobs, Acquire(j) PROVE Holds(i)'
    <2>1. /\ lock' = [r \in Resources |-> IF r \in Needs[j] THEN j ELSE lock[r]]
          /\ \A r \in Needs[j] : lock[r] \in {NoJob, j}
        BY <1>4 DEF Acquire, Available
    <2> QED
        BY <1>1, <2>1 DEF TracesOfDispatch, Holds
<1>5. CASE Recover
    <2>1. PICK seen : lock' = [r \in Resources |->
                                 RecoveredHolder(r, [j \in Jobs |-> RecoveredLease(j, seen[j])])]
        BY <1>5 DEF Recover
    <2> QED
        BY <1>1, <2>1 DEF TracesOfDispatch, Holds, RecoveredHolder
<1> QED
    BY <1>2, <1>3, <1>4, <1>5, LockWriters

AttemptAgrees(i) ==
    /\ jobState[i] = "running" \/ runner[i] \in WorkingPlaces => attempt[i] > 0
    /\ jobState[i] = "queued" => attempt[i] = 0

LEMMA RunnerAttempt ==
    ASSUME TypeOK, NEW j \in Jobs, Coherent(j), AttemptAgrees(j), RunnerStep(j)
    PROVE  AttemptAgrees(j)' /\ RunnerWrites(j)
<1>1. CASE Finally(j)
    BY <1>1 DEF Finally, Goto, AttemptAgrees, RunnerWrites, TypeOK, progress, watchers, host
<1>2. CASE Return(j)
    <2>1. RunnerWrites(j) /\ runner[j] = "closing"
        BY <1>2, ReturnWrites DEF Return, ReturnsByThrow, ReturnsCancelled, ReturnsFailed,
                                  Retries, NextGateCommand, Succeeds, Returning
    <2>2. \/ attempt'[j] = 0 /\ runner'[j] = "finally"
             /\ jobState'[j] \in {"succeeded", "failed", "cancelled"}
          \/ attempt'[j] \in {2, attempt[j]} /\ UNCHANGED jobState
        BY <1>2 DEF Return, ReturnsByThrow, ReturnsCancelled, ReturnsFailed, Retries,
                    NextGateCommand, Succeeds, Finish, SetJob, Goto, TypeOK
    <2> QED
        BY <2>1, <2>2 DEF AttemptAgrees, TypeOK
<1>3. CASE ~Finally(j) /\ ~Return(j)
    <2>1. RunnerWrites(j)
        BY <1>3, LaunchWrites, ResultWrites, ReturnWrites DEF RunnerStep
    <2>2. runner[j] \in WorkingPlaces
        BY <1>3 DEF RunnerStep, BeginInstall, InstallReturns, SetupFails, Prepare,
                    LaunchRefused, ScopeStarting, Enroll, EnrollRefused, StartupFails,
                    AbortSettles, Expire, CommandReturns, CommandRetained, ExtractFails,
                    BeginApplication, EndApplication, DisposeFails
    <2>3. UNCHANGED <<jobState, attempt>>
        BY <1>3 DEF RunnerStep, BeginInstall, InstallReturns, SetupFails, Prepare,
                    LaunchRefused, ScopeStarting, Enroll, EnrollRefused, StartupFails,
                    AbortSettles, Expire, CommandReturns, CommandRetained, ExtractFails,
                    BeginApplication, EndApplication, DisposeFails, commandFrame, durable
    <2> QED
        BY <2>1, <2>2, <2>3 DEF AttemptAgrees
<1> QED
    BY <1>1, <1>2, <1>3

LEMMA AttemptStep ==
    ASSUME TypeOK, RecordsAgree, TracesOfDispatch, [Next]_vars, NEW i \in Jobs
    PROVE  AttemptAgrees(i)'
<1> USE DEF AttemptAgrees
<1>1. /\ \A j \in Jobs : Coherent(j) /\ AttemptAgrees(j)
      /\ jobState \in [Jobs -> JobStates] /\ attempt \in [Jobs -> 0..2]
    BY DEF RecordsAgree, TracesOfDispatch, TypeOK
<1>2. CASE UNCHANGED <<jobState, attempt, runner>>
    BY <1>1, <1>2
<1>3. CASE UNCHANGED vars
    BY <1>2, <1>3 DEF vars, durable, memory
<1>4. CASE PassStep
    BY <1>1, <1>2, <1>4 DEF PassStep, PassBegins, PassEnds, PassSkips, PassRejects, Acquire,
                            MarkStarting, RunJob, SetJob, Goto, durable, TypeOK
<1>5. ASSUME NEW j \in Jobs, RunnerStep(j) PROVE AttemptAgrees(i)'
    BY <1>1, <1>5, RunnerAttempt DEF RunnerWrites
<1>6. ASSUME NEW j \in Jobs, LateStep(j) \/ HostStep(j) PROVE AttemptAgrees(i)'
    BY <1>2, <1>6 DEF LateStep, LateCompletes, LateRecords, LateReleases, lateFrame,
                      HostStep, GateReady, ScopeEnds, durable, memory
<1>7. ASSUME NEW j \in Jobs, OperatorStep(j) PROVE AttemptAgrees(i)'
    <2>1. CASE Cancel(j)
        BY <1>1, <2>1 DEF Cancel, Cancelled, SetJob, operatorFrame
    <2> QED
        BY <1>2, <1>7, <2>1 DEF OperatorStep, Inspect, InspectExited, Terminate,
                                TerminateReturns, operatorFrame
<1>8. CASE Stop
    BY <1>1, <1>8 DEF Stop, HasChild
<1>9. CASE Halt
    BY <1>1, <1>9 DEF Halt, durable
<1>10. CASE Recover
    <2>1. runner'[i] = "idle"
        BY <1>1, <1>10 DEF Recover
    <2> QED
        BY <1>1, <1>10, <2>1 DEF Recover, RecoveredState
<1>11. CASE Started \/ \E j \in Jobs : RequestDependent(j) \/ CancelDependent(j)
    BY <1>1, <1>11 DEF Started, RequestDependent, CancelDependent, QuarantinedDependent,
                       SetJob, recoveryFrame
<1> QED
    BY <1>3, <1>4, <1>5, <1>6, <1>7, <1>8, <1>9, <1>10, <1>11 DEF Next, Start

LEMMA TracesStep ==
    ASSUME TypeOK, RecordsAgree, TracesOfDispatch, [Next]_vars
    PROVE  TracesOfDispatch'
<1>1. \A i \in Jobs : AttemptAgrees(i)'
    BY AttemptStep
<1>2. \A i \in Jobs : (\E r \in Resources : lock'[r] = i) => Holds(i)'
    BY WholeStep
<1> QED
    BY <1>1, <1>2 DEF TracesOfDispatch, AttemptAgrees

-----------------------------------------------------------------------------
(* Theorems *)

LEMMA CoherentInit == Init => RecordsAgree /\ TracesOfDispatch
BY DEF Init, RecordsAgree, TracesOfDispatch, NoLease, NoLate, Holds, NoJob, Jobs

LEMMA CoherentStep == TypeOK /\ RecordsAgree /\ TracesOfDispatch /\ [Next]_vars => RecordsAgree'
<1> SUFFICES ASSUME TypeOK, RecordsAgree, TracesOfDispatch, [Next]_vars PROVE RecordsAgree'
    OBVIOUS
<1>1. CASE UNCHANGED vars
    BY <1>1, SameLocks, UntouchedCoherent
       DEF Untouched, RecordsAgree, vars, durable, memory, progress, watchers, host
<1>2. CASE Start
    BY <1>2, RecoverCoherent, DependentCoherent, StartedCoherent DEF Start
<1>3. CASE Next /\ ~Start
    BY <1>3, PassCoherent, StopCoherent, HaltCoherent, RunnerCoherent,
       FinallyCoherent, LateCoherent, OperatorCoherent, HostCoherent DEF Next
<1> QED
    BY <1>1, <1>2, <1>3

\* The records about a job agree with each other and with its locks, and a job
\* that was dispatched shows it.
THEOREM RecordsAlwaysAgree == Spec => [](RecordsAgree /\ TracesOfDispatch)
<1>1. TypeOK /\ RecordsAgree /\ TracesOfDispatch /\ [Next]_vars
         => RecordsAgree' /\ TracesOfDispatch'
    BY CoherentStep, TracesStep
<1> QED
    BY <1>1, CoherentInit, TypeCorrect, PTL DEF Spec

\* A job whose process may be alive, or whose canonical application is
\* unfinished, holds every resource it reserved, whatever cancels, retains,
\* reconciles, crashes or restarts.
THEOREM LocksFenceExecution == Spec => []ReservationsFenceExecution
<1>1. TypeOK /\ RecordsAgree => ReservationsFenceExecution
    BY LeaseType DEF RecordsAgree, ReservationsFenceExecution, Hazard, Leases
<1> QED
    BY <1>1, RecordsAlwaysAgree, TypeCorrect, PTL

\* An exited lease is proof that nothing of its command is alive or can start.
THEOREM ExitedLeaseIsProof == Spec => []ExitedMeansGone
<1>1. RecordsAgree => ExitedMeansGone
    BY DEF RecordsAgree, ExitedMeansGone
<1> QED
    BY <1>1, RecordsAlwaysAgree, PTL

\* Only its own runner, or a restart, ends a dispatched job.
THEOREM RunnerOwnership == Spec => []RunnerOwnsItsJob
<1>1. TypeOK /\ RecordsAgree => RunnerOwnsItsJob
    BY DEF TypeOK, RecordsAgree, RunnerOwnsItsJob
<1> QED
    BY <1>1, RecordsAlwaysAgree, TypeCorrect, PTL

HIDE DEF LeaseFollowsScope, TerminationFollowsLease, MayBeAlive, Installing, Unresolved, Fenced,
         OpenLeaseStates

-----------------------------------------------------------------------------
(* Who writes jobs.state *)

\* Only the pass, the runner's return, a cancel, a stop and recovery do.
LEMMA JobStateWriters ==
    ASSUME TypeOK, [Next]_vars
    PROVE  \/ UNCHANGED jobState
           \/ \E j \in Jobs : PassRejects(j) \/ MarkStarting(j) \/ RunJob(j)
                              \/ Return(j) \/ Cancel(j)
           \/ Stop \/ Start
<1>1. CASE UNCHANGED vars
    BY <1>1 DEF vars, durable
<1>2. CASE PassStep
    BY <1>2 DEF PassStep, PassBegins, PassEnds, PassSkips, Acquire, durable
<1>3. ASSUME NEW j \in Jobs, RunnerStep(j), ~Return(j) PROVE UNCHANGED jobState
    BY <1>3 DEF RunnerStep, BeginInstall, InstallReturns, SetupFails, Prepare,
                LaunchRefused, ScopeStarting, Enroll, EnrollRefused, StartupFails,
                AbortSettles, Expire, CommandReturns, CommandRetained, ExtractFails,
                BeginApplication, EndApplication, DisposeFails, Finally, commandFrame,
                durable
<1>4. ASSUME NEW j \in Jobs, LateStep(j) PROVE UNCHANGED jobState
    BY <1>4 DEF LateStep, LateCompletes, LateRecords, LateReleases, lateFrame
<1>5. ASSUME NEW j \in Jobs, OperatorStep(j), ~Cancel(j) PROVE UNCHANGED jobState
    BY <1>5 DEF OperatorStep, Inspect, InspectExited, Terminate, TerminateReturns
<1>6. ASSUME NEW j \in Jobs, HostStep(j) PROVE UNCHANGED jobState
    BY <1>6 DEF HostStep, GateReady, ScopeEnds, durable
<1>7. CASE Halt
    BY <1>7 DEF Halt, durable
<1> QED
    BY <1>1, <1>2, <1>3, <1>4, <1>5, <1>6, <1>7 DEF Next

\* What each of them may do to a job, its own or another one.
LEMMA OwnJobOnly ==
    ASSUME TypeOK, RecordsAgree, NEW j \in Jobs,
           PassRejects(j) \/ MarkStarting(j) \/ RunJob(j) \/ Return(j) \/ Cancel(j)
    PROVE  /\ ~Terminal(j)
           /\ \A i \in Jobs \ {j} : jobState'[i] = jobState[i]
<1>1. Coherent(j)
    BY DEF RecordsAgree
<1>2. CASE PassRejects(j) \/ MarkStarting(j) \/ RunJob(j)
    BY <1>1, <1>2 DEF PassRejects, MarkStarting, RunJob, SetJob, TypeOK
<1>3. CASE Return(j)
    <2>1. runner[j] = "closing"
        BY <1>3 DEF Return, ReturnsByThrow, ReturnsCancelled, ReturnsFailed, Retries,
                    NextGateCommand, Succeeds, Returning
    <2>2. \A i \in Jobs \ {j} : jobState'[i] = jobState[i]
        BY <1>3, ReturnWrites DEF RunnerWrites
    <2> QED
        BY <1>1, <2>1, <2>2
<1>4. CASE Cancel(j)
    BY <1>4 DEF Cancel, SetJob, TypeOK
<1> QED
    BY <1>2, <1>3, <1>4

LEMMA TerminalStep ==
    ASSUME TypeOK, RecordsAgree, [Next]_vars, NEW i \in Jobs, Terminal(i)
    PROVE  jobState'[i] = jobState[i]
<1>1. CASE \E j \in Jobs : PassRejects(j) \/ MarkStarting(j) \/ RunJob(j)
                           \/ Return(j) \/ Cancel(j)
    BY <1>1, OwnJobOnly
<1>2. CASE Stop
    BY <1>2 DEF Stop
<1>3. CASE Start
    BY <1>3 DEF Start, Recover, Started, RequestDependent, CancelDependent, SetJob,
                RecoveredState, QuarantinedDependent, recoveryFrame, TypeOK
<1> QED
    BY <1>1, <1>2, <1>3, JobStateWriters

-----------------------------------------------------------------------------
(* Who releases a gate *)

LEMMA GateStep ==
    ASSUME TypeOK, RecordsAgree, [Next]_vars, NEW i \in Jobs,
           scope[i] # "live", scope'[i] = "live"
    PROVE  /\ jobState[i] \in {"starting", "running"}
           /\ lease'[i].state = "running" /\ lease'[i].known /\ Holds(i)
<1>1. ASSUME NEW j \in Jobs, Prepare(j) \/ ScopeStarting(j) \/ HostStep(j) PROVE FALSE
    BY <1>1 DEF Prepare, ScopeStarting, HostStep, GateReady, ScopeEnds, TypeOK
<1>2. ASSUME NEW j \in Jobs, RunnerStep(j), ~Prepare(j), ~ScopeStarting(j), ~Enroll(j)
      PROVE  FALSE
    BY <1>2 DEF RunnerStep, BeginInstall, InstallReturns, SetupFails, LaunchRefused,
                EnrollRefused, StartupFails, AbortSettles, Expire, CommandReturns,
                CommandRetained, ExtractFails, BeginApplication, EndApplication,
                DisposeFails, Return, Finally, host
<1>3. CASE PassStep
    BY <1>3 DEF PassStep, PassBegins, PassEnds, PassSkips, PassRejects, Acquire,
                MarkStarting, RunJob, host
<1>4. ASSUME NEW j \in Jobs, LateStep(j) \/ OperatorStep(j) PROVE FALSE
    BY <1>4 DEF LateStep, LateCompletes, LateRecords, LateReleases, OperatorStep,
                Cancel, Inspect, InspectExited, Terminate, TerminateReturns, lateFrame,
                operatorFrame, host
<1>5. CASE Stop \/ Halt \/ Start \/ UNCHANGED vars
    BY <1>5 DEF Stop, Halt, Start, Recover, Started, RequestDependent, CancelDependent,
                recoveryFrame, vars, host
<1>6. ASSUME NEW j \in Jobs, Enroll(j)
      PROVE  /\ jobState[i] \in {"starting", "running"}
             /\ lease'[i].state = "running" /\ lease'[i].known /\ Holds(i)
    <2>1. i = j
        BY <1>6 DEF Enroll, TypeOK
    <2>2. /\ Coherent(j) /\ runner[j] = "enrolling"
          /\ jobState[j] \in {"starting", "running"}
        BY <1>6 DEF Enroll, MayEnroll, RecordsAgree
    <2>3. lease'[j] = [lease[j] EXCEPT !.state = "running", !.known = TRUE, !.rev = @ + 1]
        BY <1>6, After DEF Enroll
    <2>4. lease'[j].state = "running" /\ lease'[j].known
        BY <2>3, LeaseType DEF Leases
    <2> QED
        BY <2>1, <2>2, <2>4
<1> QED
    BY <1>1, <1>2, <1>3, <1>4, <1>5, <1>6 DEF Next

-----------------------------------------------------------------------------
(* Who writes the canonical tree *)

LEMMA ApplicationStep ==
    ASSUME TypeOK, RecordsAgree, [Next]_vars, NEW i \in Jobs,
           application[i] # "pending", application'[i] = "pending"
    PROVE  /\ jobState[i] = "running" /\ scope[i] = "gone"
           /\ late[i].phase = "none" /\ lock[Worktree[i]] = i
<1>1. ASSUME NEW j \in Jobs, RunnerStep(j), ~BeginApplication(j) PROVE FALSE
    BY <1>1 DEF RunnerStep, BeginInstall, InstallReturns, SetupFails, Prepare,
                LaunchRefused, ScopeStarting, Enroll, EnrollRefused, StartupFails,
                AbortSettles, Expire, CommandReturns, CommandRetained, ExtractFails,
                EndApplication, DisposeFails, Return, Finally, commandFrame, durable,
                TypeOK
<1>2. CASE PassStep
    BY <1>2 DEF PassStep, PassBegins, PassEnds, PassSkips, PassRejects, Acquire,
                MarkStarting, RunJob, durable
<1>3. ASSUME NEW j \in Jobs, LateStep(j) \/ OperatorStep(j) \/ HostStep(j) PROVE FALSE
    BY <1>3 DEF LateStep, LateCompletes, LateRecords, LateReleases, OperatorStep,
                Cancel, Inspect, InspectExited, Terminate, TerminateReturns, HostStep,
                GateReady, ScopeEnds, lateFrame, operatorFrame, durable
<1>4. CASE Stop \/ Halt \/ Start \/ UNCHANGED vars
    BY <1>4 DEF Stop, Halt, Start, Recover, Started, RequestDependent, CancelDependent,
                recoveryFrame, vars, durable
<1>5. ASSUME NEW j \in Jobs, BeginApplication(j)
      PROVE  /\ jobState[i] = "running" /\ scope[i] = "gone"
             /\ late[i].phase = "none" /\ lock[Worktree[i]] = i
    <2>1. i = j
        BY <1>5 DEF BeginApplication, TypeOK
    <2>2. Coherent(j) /\ runner[j] = "extracting" /\ MayApply(j)
        BY <1>5 DEF BeginApplication, RecordsAgree
    <2>3. late[j].phase = "none"
        BY <2>2
    <2> QED
        BY <2>1, <2>2, <2>3 DEF MayApply
<1> QED
    BY <1>1, <1>2, <1>3, <1>4, <1>5 DEF Next

-----------------------------------------------------------------------------
(* Jobs that wait behind an interrupted one *)

\* Nobody but start() moves between its commits.
LEMMA NothingServes ==
    ASSUME TypeOK, RecordsAgree, Next, ~Serving
    PROVE  Start \/ Halt \/ \E j \in Jobs : HostStep(j)
<1>1. \A j \in Jobs : runner[j] = "idle" /\ late[j].phase = "none" /\ term[j] = NoRevision
    BY DEF RecordsAgree, TerminationFollowsLease
<1>2. ~PassStep
    BY <1>1 DEF PassStep, PassBegins, PassEnds, PassSkips, PassRejects, Acquire, InPass,
                MarkStarting, RunJob, Free
<1>3. \A j \in Jobs : ~RunnerStep(j)
    BY <1>1 DEF RunnerStep, BeginInstall, InstallReturns, SetupFails, Prepare,
                LaunchRefused, ScopeStarting, Enroll, EnrollRefused, StartupFails,
                AbortSettles, Expire, CommandReturns, CommandRetained, ExtractFails,
                BeginApplication, EndApplication, DisposeFails, Return, ReturnsByThrow,
                ReturnsCancelled, ReturnsFailed, Retries, NextGateCommand, Succeeds,
                Returning, Finally
<1>4. \A j \in Jobs : ~LateStep(j) /\ ~OperatorStep(j)
    BY <1>1 DEF LateStep, LateCompletes, LateRecords, LateReleases, OperatorStep, Cancel,
                Inspect, InspectExited, Terminate, TerminateReturns, Free
<1>5. ~Stop
    BY DEF Stop
<1> QED
    BY <1>2, <1>3, <1>4, <1>5 DEF Next

LEMMA OnlyStarting ==
    ASSUME Next, ~Halt, Serving
    PROVE  UNCHANGED <<behind, cut>>
<1>1. CASE PassStep
    BY <1>1 DEF PassStep, PassBegins, PassEnds, PassSkips, PassRejects, Acquire,
                MarkStarting, RunJob
<1>2. ASSUME NEW j \in Jobs, RunnerStep(j) PROVE UNCHANGED <<behind, cut>>
    BY <1>2 DEF RunnerStep, BeginInstall, InstallReturns, SetupFails, Prepare,
                LaunchRefused, ScopeStarting, Enroll, EnrollRefused, StartupFails,
                AbortSettles, Expire, CommandReturns, CommandRetained, ExtractFails,
                BeginApplication, EndApplication, DisposeFails, Return, Finally,
                commandFrame
<1>3. ASSUME NEW j \in Jobs, LateStep(j) \/ OperatorStep(j) \/ HostStep(j)
      PROVE  UNCHANGED <<behind, cut>>
    BY <1>3 DEF LateStep, LateCompletes, LateRecords, LateReleases, OperatorStep, Cancel,
                Inspect, InspectExited, Terminate, TerminateReturns, HostStep, GateReady,
                ScopeEnds, lateFrame, operatorFrame, memory
<1>4. ~Start
    BY DEF Start, Recover, Started, RequestDependent, CancelDependent
<1>5. CASE Stop
    BY <1>5 DEF Stop
<1> QED
    BY <1>1, <1>2, <1>3, <1>4, <1>5 DEF Next

LEMMA FoundStep ==
    ASSUME TypeOK, RecordsAgree, DependentsAreFound, [Next]_vars, NEW i \in behind' \ cut'
    PROVE  \/ jobState'[i] = "cancelled"
           \/ jobState'[i] = "cancel_requested" /\ ~Serving'
           \/ QuarantinedDependent(i)' /\ daemon' = "recovering"
<1>1. /\ i \in Jobs
      /\ i \in behind \ cut =>
            \/ jobState[i] = "cancelled"
            \/ jobState[i] = "cancel_requested" /\ ~Serving
            \/ QuarantinedDependent(i) /\ daemon = "recovering"
    <2>1. TypeOK'
        BY TypeStep
    <2> QED
        BY <2>1 DEF DependentsAreFound, TypeOK
<1>2. CASE Recover
    <2>1. /\ daemon = "down" /\ daemon' = "recovering" /\ jobState'[i] = RecoveredState(i)
          /\ interrupted' = {j \in Jobs : Interrupted(j)}
          /\ i \in behind \ cut \/ i \in FoundBehind
        BY <1>1, <1>2 DEF Recover
    <2>2. CASE i \in FoundBehind
        BY <2>1, <2>2 DEF FoundBehind, RecoveredState, QuarantinedDependent
    <2>3. CASE i \in behind \ cut
        BY <1>1, <2>1, <2>3 DEF RecoveredState
    <2> QED
        BY <2>1, <2>2, <2>3
<1>3. CASE Halt
    <2>1. /\ i \in behind \ cut /\ daemon' = "down" /\ UNCHANGED jobState
          /\ daemon = "recovering" => jobState[i] # "queued"
        BY <1>3 DEF Halt, durable
    <2> QED
        BY <1>1, <2>1 DEF QuarantinedDependent
<1>4. CASE Started
    BY <1>1, <1>4 DEF Started, Withdrawing, recoveryFrame
<1>5. ASSUME NEW j \in Jobs, RequestDependent(j) \/ CancelDependent(j)
      PROVE  \/ jobState'[i] = "cancelled"
             \/ jobState'[i] = "cancel_requested" /\ ~Serving'
             \/ QuarantinedDependent(i)' /\ daemon' = "recovering"
    <2>1. /\ i \in behind \ cut /\ daemon = "recovering"
          /\ UNCHANGED <<daemon, interrupted>>
          /\ i # j => jobState'[i] = jobState[i]
          /\ jobState'[j] \in {"cancel_requested", "cancelled"}
        BY <1>1, <1>5, After DEF RequestDependent, CancelDependent, recoveryFrame, SetJob, TypeOK
    <2> QED
        BY <1>1, <2>1 DEF QuarantinedDependent
<1>6. CASE (\E j \in Jobs : HostStep(j)) \/ UNCHANGED vars
    BY <1>1, <1>6 DEF HostStep, GateReady, ScopeEnds, vars, memory, durable,
                      QuarantinedDependent
<1>7. CASE Serving /\ Next /\ ~Halt
    <2>1. UNCHANGED <<behind, cut>>
        BY <1>7, OnlyStarting
    <2>2. jobState'[i] = jobState[i]
        BY <1>1, <1>7, <2>1, TerminalStep
    <2> QED
        BY <1>1, <1>7, <2>1, <2>2
<1> QED
    BY <1>2, <1>3, <1>4, <1>5, <1>6, <1>7, NothingServes DEF Start

-----------------------------------------------------------------------------
(* Every step is a step of the reservation protocol *)

FenceStep == [Fence!Next]_(Fence!vars)

SameHazard(i) == Hazard(i)' = Hazard(i)

\* After a step as before it, what is not unresolved is not hazardous, and what
\* is hazardous holds its resources.
LEMMA HazardAfter ==
    ASSUME RecordsAgree', TypeOK', NEW i \in Jobs
    PROVE  /\ ~Fenced(lease'[i], application'[i]) => ~Hazard(i)'
           /\ Hazard(i)' => Holds(i)'
<1>1. Coherent(i)' /\ lease'[i] \in Leases
    BY DEF RecordsAgree, TypeOK
<1>2. ~Fenced(lease'[i], application'[i]) => ~Hazard(i)'
    BY <1>1 DEF Leases, OpenLeaseStates, LeaseFollowsScope, Fenced, Hazard, MayBeAlive
<1> QED
    BY <1>1, <1>2 DEF Unresolved

LEMMA HazardOf ==
    ASSUME NEW i \in Jobs, UNCHANGED <<scope[i], application[i]>>
    PROVE  SameHazard(i)
BY DEF SameHazard, Hazard, MayBeAlive

\* Nothing is reserved or given back, and at most one job starts or ends
\* something hazardous.
LEMMA HazardStep ==
    ASSUME RecordsAgree', TypeOK', NEW j \in Jobs, UNCHANGED lock,
           \A i \in Jobs \ {j} : SameHazard(i)
    PROVE  FenceStep
<1> DEFINE h == [i \in Jobs |-> Hazard(i)]
           k == [i \in Jobs |-> Hazard(i)']
<1>1. CASE SameHazard(j)
    <2>1. k = h
        BY <1>1 DEF SameHazard
    <2> QED
        BY <2>1 DEF FenceStep, Fence!vars
<1>2. CASE ~SameHazard(j)
    <2>1. k = [h EXCEPT ![j] = ~h[j]]
        BY <1>2 DEF SameHazard, Hazard
    <2>2. Hazard(j)' => Fence!Holds(j)
        BY HazardAfter DEF Holds, Fence!Holds
    <2>3. CASE Hazard(j)
        BY <2>1, <2>3 DEF FenceStep, Fence!Next, Fence!Settle
    <2>4. CASE ~Hazard(j)
        BY <1>2, <2>1, <2>2, <2>4 DEF SameHazard, Hazard, FenceStep, Fence!Next, Fence!Act
    <2> QED
        BY <2>3, <2>4
<1> QED
    BY <1>1, <1>2

LEMMA QuietStep ==
    ASSUME UNCHANGED <<lock, scope, application>>
    PROVE  FenceStep
<1>1. \A i \in Jobs : SameHazard(i)
    BY HazardOf
<1>2. [i \in Jobs |-> Hazard(i)'] = [i \in Jobs |-> Hazard(i)]
    BY <1>1 DEF SameHazard
<1> QED
    BY <1>2 DEF FenceStep, Fence!vars

\* What is given back belonged to jobs with nothing unresolved.
LEMMA GivingBackStep ==
    ASSUME RecordsAgree', TypeOK', UNCHANGED <<scope, application>>,
           NEW given \in SUBSET Resources,
           \A r \in given : /\ lock[r] \in Jobs
                            /\ ~Fenced(lease'[lock[r]], application'[lock[r]]),
           lock' = [r \in Resources |-> IF r \in given THEN NoJob ELSE lock[r]]
    PROVE  FenceStep
<1>1. \A i \in Jobs : SameHazard(i)
    BY HazardOf
<1>2. \A i \in Jobs : ~Fenced(lease'[i], application'[i]) => ~Hazard(i)
    BY <1>1, HazardAfter DEF SameHazard
<1>3. [i \in Jobs |-> Hazard(i)'] = [i \in Jobs |-> Hazard(i)]
    BY <1>1 DEF SameHazard
<1>4. Fence!Release(given)
    BY <1>2, <1>3 DEF Fence!Release
<1> QED
    BY <1>4 DEF FenceStep, Fence!Next

LEMMA ReleaseStep ==
    ASSUME TypeOK, RecordsAgree', TypeOK', UNCHANGED <<scope, application>>,
           NEW j \in Jobs, lock' = LocksAfterRelease(j, lease'[j], application'[j])
    PROVE  FenceStep
<1>1. CASE Fenced(lease'[j], application'[j])
    BY <1>1, QuietStep DEF LocksAfterRelease
<1>2. CASE ~Fenced(lease'[j], application'[j])
    <2> DEFINE given == {r \in Resources : lock[r] = j}
    <2>1. lock' = [r \in Resources |-> IF r \in given THEN NoJob ELSE lock[r]]
        BY <1>2 DEF LocksAfterRelease
    <2> QED
        BY <1>2, <2>1, GivingBackStep
<1> QED
    BY <1>1, <1>2

LEMMA ReconciledStep ==
    ASSUME TypeOK, RecordsAgree', TypeOK', UNCHANGED <<scope, application>>,
           NEW j \in Jobs, NEW l, Reconciled(j, l)
    PROVE  FenceStep
<1>1. lease'[j] = l
    BY After DEF Reconciled
<1> QED
    BY <1>1, QuietStep, ReleaseStep DEF Reconciled

LEMMA PassFence ==
    ASSUME TypeOK, RecordsAgree', TypeOK', PassStep
    PROVE  FenceStep
<1>1. CASE PassBegins \/ PassEnds \/ \E j \in Jobs : PassSkips(j) \/ MarkStarting(j) \/ RunJob(j)
    BY <1>1, QuietStep DEF PassBegins, PassEnds, PassSkips, MarkStarting, RunJob, durable,
                           host
<1>2. ASSUME NEW j \in Jobs, PassRejects(j) PROVE FenceStep
    BY <1>2, ReleaseStep DEF PassRejects, host
<1>3. ASSUME NEW j \in Jobs, Acquire(j) PROVE FenceStep
    <2>1. /\ UNCHANGED <<scope, application>> /\ Available(j)
          /\ lock' = [r \in Resources |-> IF r \in Needs[j] THEN j ELSE lock[r]]
        BY <1>3 DEF Acquire, host
    <2>2. [i \in Jobs |-> Hazard(i)'] = [i \in Jobs |-> Hazard(i)]
        BY <2>1, HazardOf DEF SameHazard
    <2>3. Fence!Reserve(j)
        BY <2>1, <2>2 DEF Available, Fence!Reserve
    <2> QED
        BY <2>3 DEF FenceStep, Fence!Next
<1> QED
    BY <1>1, <1>2, <1>3 DEF PassStep

LEMMA RunnerFence ==
    ASSUME TypeOK, RecordsAgree', TypeOK', NEW j \in Jobs, RunnerStep(j)
    PROVE  FenceStep
<1>1. CASE Finally(j)
    BY <1>1, ReleaseStep DEF Finally, host
<1>2. CASE ~Finally(j)
    <2>1. RunnerWrites(j) /\ UNCHANGED lock
        BY <1>2, LaunchWrites, ResultWrites, ReturnWrites DEF RunnerStep
    <2> QED
        BY <2>1, HazardOf, HazardStep DEF RunnerWrites
<1> QED
    BY <1>1, <1>2

LEMMA WatcherFence ==
    ASSUME TypeOK, RecordsAgree', TypeOK', NEW j \in Jobs, LateStep(j) \/ OperatorStep(j)
    PROVE  FenceStep
<1>1. UNCHANGED <<scope, application>>
    BY DEF LateStep, LateCompletes, LateRecords, LateReleases, OperatorStep, Cancel,
           Inspect, InspectExited, Terminate, TerminateReturns, lateFrame,
           operatorFrame, host
<1>2. CASE LateCompletes(j) \/ LateRecords(j) \/ Cancel(j) \/ InspectExited(j) \/ Terminate(j)
    BY <1>1, <1>2, QuietStep DEF LateCompletes, LateRecords, Cancel, InspectExited,
                                 Terminate
<1>3. CASE LateReleases(j)
    BY <1>1, <1>3, QuietStep, ReleaseStep DEF LateReleases
<1>4. CASE Inspect(j) \/ TerminateReturns(j)
    BY <1>1, <1>4, QuietStep, ReconciledStep DEF Inspect, TerminateReturns
<1> QED
    BY <1>2, <1>3, <1>4 DEF LateStep, OperatorStep

LEMMA StartFence ==
    ASSUME TypeOK, RecordsAgree', TypeOK', Start
    PROVE  FenceStep
<1>1. CASE Recover
    <2> DEFINE given == {r \in Resources : lock[r] # NoJob /\ lock'[r] = NoJob}
    <2>1. /\ UNCHANGED <<scope, application>>
          /\ lock' = [r \in Resources |-> RecoveredHolder(r, lease')]
        BY <1>1 DEF Recover, host
    <2>2. \A r \in given : /\ lock[r] \in Jobs
                           /\ ~Fenced(lease'[lock[r]], application'[lock[r]])
        BY <2>1 DEF RecoveredHolder, TypeOK
    <2>3. lock' = [r \in Resources |-> IF r \in given THEN NoJob ELSE lock[r]]
        BY <2>1 DEF RecoveredHolder, TypeOK
    <2> QED
        BY <2>1, <2>2, <2>3, GivingBackStep
<1>2. CASE ~Recover
    BY <1>2, QuietStep DEF Start, Started, RequestDependent, CancelDependent,
                           recoveryFrame, host
<1> QED
    BY <1>1, <1>2

LEMMA EveryStepFences ==
    ASSUME TypeOK, RecordsAgree', TypeOK', [Next]_vars
    PROVE  FenceStep
<1>1. CASE Stop \/ Halt \/ UNCHANGED vars
    BY <1>1, QuietStep DEF Stop, Halt, vars, durable, host
<1>2. ASSUME NEW j \in Jobs, HostStep(j) PROVE FenceStep
    <2>1. /\ UNCHANGED <<lock, application>>
          /\ \A i \in Jobs \ {j} : scope'[i] = scope[i]
        BY <1>2 DEF HostStep, GateReady, ScopeEnds, durable, TypeOK
    <2> QED
        BY <2>1, HazardOf, HazardStep
<1> QED
    BY <1>1, <1>2, PassFence, StartFence, RunnerFence, WatcherFence DEF Next

-----------------------------------------------------------------------------
(* Theorems *)

\* Terminal job states are immutable: no error path, cancellation, shutdown or
\* recovery ever rewrites one.
THEOREM FinishedJobsStay == Spec => TerminalStatesAreFinal
<1>1. TypeOK /\ RecordsAgree /\ [Next]_vars
         => [\A j \in Jobs : Terminal(j) => jobState'[j] = jobState[j]]_vars
    BY TerminalStep
<1> QED
    BY <1>1, TypeCorrect, RecordsAlwaysAgree, PTL DEF Spec, TerminalStatesAreFinal

\* A gate opens only for a live job that owns its resources, under an identity
\* that is already durable.
THEOREM GatesOpenEnrolled == Spec => GateOpensOnlyEnrolled
<1>1. TypeOK /\ RecordsAgree /\ [Next]_vars
         => [\A j \in Jobs : scope[j] # "live" /\ scope'[j] = "live" =>
                /\ jobState[j] \in {"starting", "running"}
                /\ lease'[j].state = "running" /\ lease'[j].known /\ Holds(j)]_vars
    BY GateStep
<1> QED
    BY <1>1, TypeCorrect, RecordsAlwaysAgree, PTL DEF Spec, GateOpensOnlyEnrolled

\* The canonical tree is written only for a running job whose command is gone
\* and was never given up on, under its own worktree reservation.
THEOREM CleanDeltaOnly == Spec => AppliesOnlyCleanDelta
<1>1. TypeOK /\ RecordsAgree /\ [Next]_vars
         => [\A j \in Jobs : application[j] # "pending" /\ application'[j] = "pending" =>
                /\ jobState[j] = "running" /\ scope[j] = "gone"
                /\ late[j].phase = "none" /\ lock[Worktree[j]] = j]_vars
    BY ApplicationStep
<1> QED
    BY <1>1, TypeCorrect, RecordsAlwaysAgree, PTL DEF Spec, AppliesOnlyCleanDelta

\* What a recovery found queued behind an interrupted job is never dispatched and
\* is withdrawn before the daemon serves, unless a crash of start() itself left
\* it in the queue: any number of restarts, cut anywhere.
THEOREM DependentsStayDown == Spec => []DependentsAreNotResumed
<1>1. Init => DependentsAreFound
    BY DEF Init, DependentsAreFound
<1>2. TypeOK /\ RecordsAgree /\ DependentsAreFound /\ [Next]_vars => DependentsAreFound'
    BY FoundStep DEF DependentsAreFound
<1>3. DependentsAreFound => DependentsAreNotResumed
    BY DEF DependentsAreFound, DependentsAreNotResumed, QuarantinedDependent
<1> QED
    BY <1>1, <1>2, <1>3, TypeCorrect, RecordsAlwaysAgree, PTL DEF Spec

\* The daemon implements the plain reservation protocol: whatever it does about
\* leases, runners, operators and recovery, each step reserves all a job needs,
\* starts a hazard under that reservation, ends one, or gives back what nothing
\* hazardous uses.
THEOREM DaemonImplementsReservation == Spec => ImplementsReservation
<1>1. Init => Fence!Init
    BY DEF Init, Fence!Init, Hazard, MayBeAlive
<1>2. TypeOK /\ TypeOK' /\ RecordsAgree' /\ [Next]_vars => [Fence!Next]_(Fence!vars)
    BY EveryStepFences DEF FenceStep
<1> QED
    BY <1>1, <1>2, TypeCorrect, RecordsAlwaysAgree, PTL
       DEF Spec, ImplementsReservation, Fence!Spec

-----------------------------------------------------------------------------
(* The capacity.  The slots taken and those a pass may still fill are kept *)
(* together by SlotsAreCounted: no step takes a slot that the pass that    *)
(* dispatched it did not give up.                                          *)

HIDE DEF LeaseFollowsRunner, HoldsWhatItNeeds, Owning
USE DEF TerminationFollowsLease, OpenLeaseStates

\* Nobody takes a slot; the slots left and the job between its locks and its
\* start are as they were.
NoneCounted == \A i \in Jobs : Counted(i)' => Counted(i)
SameSlots ==
    /\ avail' = avail
    /\ \A i \in Jobs : runner'[i] = "acquired" => runner[i] = "acquired"

-----------------------------------------------------------------------------
(* Counting *)

LEMMA JobsFinite == IsFiniteSet(Jobs)
BY FS_Interval DEF Jobs

LEMMA CountNat ==
    /\ CountActive \in Nat
    /\ Taken \in Nat /\ Taken' \in Nat
<1>1. /\ IsFiniteSet({j \in Jobs : \/ jobState[j] \in ActiveJobStates
                                   \/ lease[j].state \in OpenLeaseStates})
      /\ IsFiniteSet({i \in Jobs : Counted(i)}) /\ IsFiniteSet({i \in Jobs : Counted(i)'})
    BY JobsFinite, FS_Subset
<1> QED
    BY <1>1, FS_CardinalityType DEF CountActive, Taken, Counted, InFlight, MayBeAlive

\* countActive misses no slot that is taken.
LEMMA ActiveCountsSlots ==
    ASSUME TypeOK, RecordsAgree
    PROVE  Taken <= CountActive
<1> DEFINE counted == {i \in Jobs : Counted(i)}
           active == {j \in Jobs : \/ jobState[j] \in ActiveJobStates
                                   \/ lease[j].state \in OpenLeaseStates}
<1>1. ASSUME NEW i \in Jobs, MayBeAlive(i) PROVE lease[i].state \in OpenLeaseStates
    BY <1>1, LeaseType DEF RecordsAgree, LeaseFollowsScope, MayBeAlive, Leases
<1>2. counted \subseteq active
    BY <1>1 DEF Counted, InFlight, ActiveJobStates
<1>3. IsFiniteSet(active)
    BY JobsFinite, FS_Subset
<1>4. Cardinality(counted) <= Cardinality(active)
    BY <1>2, <1>3, FS_Subset
<1> QED
    BY <1>4 DEF Taken, CountActive

\* Nobody takes a slot.
LEMMA CountFalls ==
    ASSUME NoneCounted
    PROVE  Taken' <= Taken
<1> DEFINE before == {i \in Jobs : Counted(i)}
           after == {i \in Jobs : Counted(i)'}
<1>1. after \subseteq before
    BY DEF NoneCounted
<1>2. IsFiniteSet(before)
    BY JobsFinite, FS_Subset
<1>3. Cardinality(after) <= Cardinality(before)
    BY <1>1, <1>2, FS_Subset
<1> QED
    BY <1>3 DEF Taken, Counted, InFlight, MayBeAlive

\* One job takes a slot.
LEMMA CountRises ==
    ASSUME NEW j \in Jobs, \A i \in Jobs \ {j} : Counted(i)' => Counted(i)
    PROVE  Taken' <= Taken + 1
<1> DEFINE before == {i \in Jobs : Counted(i)}
           after == {i \in Jobs : Counted(i)'}
<1>1. after \subseteq before \cup {j}
    OBVIOUS
<1>2. IsFiniteSet(before)
    BY JobsFinite, FS_Subset
<1> HIDE DEF before
<1>3. IsFiniteSet(before \cup {j}) /\ Cardinality(before \cup {j}) <= Cardinality(before) + 1
    <2>1. Cardinality(before) \in Nat
        BY <1>2, FS_CardinalityType
    <2>2. IsFiniteSet(before \cup {j}) /\ Cardinality(before \cup {j})
             = IF j \in before THEN Cardinality(before) ELSE Cardinality(before) + 1
        BY <1>2, FS_AddElement
    <2> QED
        BY <2>1, <2>2
<1>4. Cardinality(after) <= Cardinality(before \cup {j})
    BY <1>1, <1>3, FS_Subset
<1>5. Cardinality(after) \in Nat /\ Cardinality(before) \in Nat
      /\ Cardinality(before \cup {j}) \in Nat
    BY <1>1, <1>2, <1>3, FS_Subset, FS_CardinalityType
<1>6. Cardinality(after) <= Cardinality(before) + 1
    BY <1>3, <1>4, <1>5
<1> QED
    BY <1>6 DEF before, Taken, Counted, InFlight, MayBeAlive

LEMMA FallingSlots ==
    ASSUME TypeOK, SlotsAreCounted, NoneCounted, SameSlots
    PROVE  SlotsAreCounted'
<1>1. /\ avail \in Int /\ avail' = avail /\ MaxActive \in Nat
      /\ Taken \in Nat /\ Taken' \in Nat /\ Taken' <= Taken
    BY CountFalls, CountNat DEF SameSlots, TypeOK
<1>2. avail >= 0 /\ Taken <= MaxActive - avail
    BY DEF SlotsAreCounted
<1>3. avail' >= 0 /\ Taken' <= MaxActive - avail'
    BY <1>1, <1>2
<1>4. \A i \in Jobs : runner'[i] = "acquired" =>
          avail' >= 1 /\ \A k \in Jobs \ {i} : runner'[k] # "acquired"
    BY <1>1 DEF SlotsAreCounted, SameSlots
<1> QED
    BY <1>3, <1>4 DEF SlotsAreCounted

-----------------------------------------------------------------------------
(* Who takes a slot *)

LEMMA SameCounted ==
    ASSUME NEW i \in Jobs, UNCHANGED <<jobState[i], attempt[i], scope[i]>>
    PROVE  Counted(i)' => Counted(i)
BY DEF Counted, InFlight, MayBeAlive

LEMMA RunnerSlots ==
    ASSUME TypeOK, RecordsAgree, TracesOfDispatch, NEW j \in Jobs, RunnerStep(j)
    PROVE  NoneCounted /\ SameSlots
<1>1. CASE Finally(j)
    <2>1. /\ UNCHANGED <<jobState, attempt, scope, avail>>
          /\ runner' = [runner EXCEPT ![j] = "idle"]
        BY <1>1 DEF Finally, Goto, host
    <2> QED
        BY <2>1, SameCounted DEF NoneCounted, SameSlots, TypeOK
<1>2. CASE ~Finally(j)
    <2>1. RunnerWrites(j)
        BY <1>2, LaunchWrites, ResultWrites, ReturnWrites DEF RunnerStep
    <2>2. runner[j] \in WorkingPlaces
        BY <1>2 DEF RunnerStep, BeginInstall, InstallReturns, SetupFails, Prepare,
                    LaunchRefused, ScopeStarting, Enroll, EnrollRefused, StartupFails,
                    AbortSettles, Expire, CommandReturns, CommandRetained, ExtractFails,
                    BeginApplication, EndApplication, DisposeFails, Return,
                    ReturnsByThrow, ReturnsCancelled, ReturnsFailed, Retries,
                    NextGateCommand, Succeeds, Returning
    <2>3. Counted(j)
        BY <2>2 DEF RecordsAgree, TracesOfDispatch, Counted, InFlight
    <2>4. UNCHANGED avail /\ runner'[j] # "acquired"
        <3>1. CASE BeginInstall(j) \/ InstallReturns(j) \/ SetupFails(j) \/ Prepare(j)
                   \/ LaunchRefused(j) \/ ScopeStarting(j) \/ Enroll(j) \/ EnrollRefused(j)
            BY <2>2, <3>1 DEF BeginInstall, InstallReturns, SetupFails, Prepare,
               LaunchRefused, ScopeStarting, Enroll, EnrollRefused, commandFrame, passVars,
               Goto, Close, TypeOK
        <3>2. CASE StartupFails(j) \/ AbortSettles(j) \/ Expire(j) \/ CommandReturns(j)
                   \/ CommandRetained(j) \/ ExtractFails(j)
            BY <2>2, <3>2 DEF StartupFails, AbortSettles, Expire, CommandReturns,
               CommandRetained, ExtractFails, commandFrame, passVars, Goto, Close, TypeOK
        <3>3. CASE BeginApplication(j) \/ EndApplication(j) \/ DisposeFails(j) \/ Return(j)
            BY <2>2, <3>3 DEF BeginApplication, EndApplication, DisposeFails, Return,
               ReturnsByThrow, ReturnsCancelled, ReturnsFailed, Retries, NextGateCommand,
               Succeeds, Finish, passVars, Goto, Close, TypeOK
        <3> QED
            BY <1>2, <3>1, <3>2, <3>3 DEF RunnerStep
    <2> QED
        BY <2>1, <2>3, <2>4, SameCounted DEF RunnerWrites, NoneCounted, SameSlots
<1> QED
    BY <1>1, <1>2

LEMMA WatcherSlots ==
    ASSUME TypeOK, RecordsAgree, NEW j \in Jobs,
           LateStep(j) \/ OperatorStep(j) \/ HostStep(j)
    PROVE  NoneCounted /\ SameSlots
<1>1. SameSlots
    <2>1. UNCHANGED <<avail, runner>>
        BY DEF LateStep, LateCompletes, LateRecords, LateReleases, OperatorStep,
               Cancel, Inspect, InspectExited, Terminate, TerminateReturns, HostStep,
               GateReady, ScopeEnds, lateFrame, operatorFrame, memory, passVars
    <2> QED
        BY <2>1 DEF SameSlots
<1> SUFFICES NoneCounted
    BY <1>1
<1>2. CASE UNCHANGED <<jobState, attempt, scope>>
    BY <1>2, SameCounted DEF NoneCounted
<1>3. CASE Cancel(j)
    BY <1>3 DEF Cancel, Cancelled, SetJob, operatorFrame, host, NoneCounted, Counted,
                InFlight, MayBeAlive, TypeOK
<1>4. CASE LateStep(j)
    BY <1>2, <1>4 DEF LateStep, LateCompletes, LateRecords, LateReleases, lateFrame, host
<1>5. CASE Inspect(j) \/ InspectExited(j) \/ Terminate(j) \/ TerminateReturns(j)
    BY <1>2, <1>5 DEF Inspect, InspectExited, Terminate, TerminateReturns, operatorFrame,
                      host
<1>6. CASE HostStep(j)
    <2>1. /\ UNCHANGED <<jobState, attempt>> /\ MayBeAlive(j)
          /\ \A i \in Jobs \ {j} : UNCHANGED scope[i]
        BY <1>6 DEF HostStep, GateReady, ScopeEnds, durable, MayBeAlive, TypeOK
    <2> QED
        BY <2>1, SameCounted DEF NoneCounted, Counted
<1> QED
    BY <1>3, <1>4, <1>5, <1>6 DEF OperatorStep

LEMMA PassSlots ==
    ASSUME TypeOK, RecordsAgree, SlotsAreCounted, PassStep
    PROVE  SlotsAreCounted'
<1>1. CASE PassBegins
    <2>1. NoneCounted /\ UNCHANGED runner /\ Quiet
        BY <1>1, SameCounted DEF PassBegins, durable, host, NoneCounted, Free
    <2>2. \/ avail' = avail
          \/ avail' = MaxActive - CountActive /\ CountActive < MaxActive
        BY <1>1 DEF PassBegins
    <2>3. Taken' <= CountActive
        BY <2>1, CountFalls, CountNat, ActiveCountsSlots
    <2> QED
        BY <2>1, <2>2, <2>3, CountFalls, CountNat DEF SlotsAreCounted, Quiet, TypeOK
<1>2. CASE PassEnds
    <2>1. NoneCounted /\ UNCHANGED runner /\ Quiet /\ avail' = 0
        BY <1>2, SameCounted DEF PassEnds, durable, host, NoneCounted
    <2> QED
        BY <2>1, CountFalls, CountNat DEF SlotsAreCounted, Quiet, TypeOK
<1>3. ASSUME NEW j \in Jobs, PassSkips(j) \/ PassRejects(j) PROVE SlotsAreCounted'
    <2>1. NoneCounted /\ SameSlots
        BY <1>3 DEF PassSkips, PassRejects, SetJob, durable, host, NoneCounted,
                    SameSlots, Counted, InFlight, MayBeAlive, TypeOK
    <2> QED
        BY <2>1, FallingSlots
<1>4. ASSUME NEW j \in Jobs, Acquire(j) PROVE SlotsAreCounted'
    <2>1. /\ NoneCounted /\ Quiet /\ avail' = avail /\ avail >= 1
          /\ runner' = [runner EXCEPT ![j] = "acquired"]
        BY <1>4, SameCounted DEF Acquire, InPass, Goto, passVars, host, NoneCounted
    <2> QED
        BY <2>1, CountFalls, CountNat DEF SlotsAreCounted, Quiet, TypeOK
<1>5. ASSUME NEW j \in Jobs, MarkStarting(j) PROVE SlotsAreCounted'
    <2>1. /\ runner[j] = "acquired" /\ avail' = avail - 1
          /\ runner' = [runner EXCEPT ![j] = "begin"]
          /\ \A i \in Jobs \ {j} : UNCHANGED <<jobState[i], attempt[i], scope[i]>>
        BY <1>5 DEF MarkStarting, Goto, SetJob, host, TypeOK
    <2>2. Taken' <= Taken + 1
        BY <2>1, SameCounted, CountRises
    <2> QED
        BY <2>1, <2>2, CountNat DEF SlotsAreCounted, TypeOK
<1>6. ASSUME NEW j \in Jobs, RunJob(j) PROVE SlotsAreCounted'
    <2>1. Counted(j)
        BY <1>6 DEF RunJob, RecordsAgree, Counted, InFlight
    <2>2. NoneCounted /\ SameSlots
        BY <1>6, <2>1 DEF RunJob, Goto, SetJob, host, NoneCounted, SameSlots, Counted,
                          InFlight, MayBeAlive, TypeOK
    <2> QED
        BY <2>2, FallingSlots
<1> QED
    BY <1>1, <1>2, <1>3, <1>4, <1>5, <1>6 DEF PassStep

LEMMA ProcessSlots ==
    ASSUME TypeOK, RecordsAgree, TracesOfDispatch, SlotsAreCounted, Stop \/ Halt \/ Start
    PROVE  SlotsAreCounted'
<1>1. CASE Stop
    BY <1>1, FallingSlots DEF Stop, passVars, host, NoneCounted, SameSlots, Counted,
                              InFlight, MayBeAlive
<1>2. CASE Halt
    <2>1. NoneCounted /\ avail' = 0 /\ \A i \in Jobs : runner'[i] = "idle"
        BY <1>2, SameCounted DEF Halt, durable, NoneCounted
    <2> QED
        BY <2>1, CountFalls, CountNat DEF SlotsAreCounted, TypeOK
<1>3. CASE Recover
    <2>1. ASSUME NEW i \in Jobs PROVE Counted(i)' => Counted(i)
        BY <1>3, <2>1 DEF Recover, RecoveredState, Interrupted, ActiveJobStates, host,
                          Counted, InFlight, MayBeAlive, TypeOK
    <2> QED
        BY <1>3, <2>1, FallingSlots DEF Recover, passVars, NoneCounted, SameSlots
<1>4. ASSUME NEW j \in Jobs, RequestDependent(j) \/ CancelDependent(j)
      PROVE  SlotsAreCounted'
    <2>1. /\ UNCHANGED <<attempt, scope, avail, runner>>
          /\ \A i \in Jobs \ {j} : UNCHANGED jobState[i]
          /\ \/ jobState[j] = "queued" /\ jobState'[j] = "cancel_requested"
             \/ jobState'[j] = "cancelled"
        BY <1>4 DEF RequestDependent, CancelDependent, QuarantinedDependent, recoveryFrame,
                    host, SetJob, TypeOK
    <2>2. ~Counted(j)' \/ (Counted(j)' => Counted(j))
        BY <2>1 DEF TracesOfDispatch, Counted, InFlight, MayBeAlive, TypeOK
    <2>3. NoneCounted
        BY <2>1, <2>2, SameCounted DEF NoneCounted
    <2> QED
        BY <2>1, <2>3, FallingSlots DEF SameSlots
<1>5. CASE Started
    <2>1. UNCHANGED <<jobState, attempt, scope, avail, runner>>
        BY <1>5 DEF Started, recoveryFrame, host
    <2> QED
        BY <2>1, SameCounted, FallingSlots DEF NoneCounted, SameSlots
<1> QED
    BY <1>1, <1>2, <1>3, <1>4, <1>5 DEF Start

-----------------------------------------------------------------------------
(* Theorems *)

LEMMA SlotsInit == Init => SlotsAreCounted
<1> SUFFICES ASSUME Init PROVE SlotsAreCounted
    OBVIOUS
<1>1. {i \in Jobs : Counted(i)} = {}
    BY DEF Init, Counted, InFlight, MayBeAlive
<1>2. Taken = 0
    BY <1>1, FS_EmptySet DEF Taken
<1> QED
    BY <1>2 DEF Init, SlotsAreCounted

LEMMA SlotsStep ==
    TypeOK /\ RecordsAgree /\ TracesOfDispatch /\ SlotsAreCounted /\ [Next]_vars
       => SlotsAreCounted'
<1> SUFFICES ASSUME TypeOK, RecordsAgree, TracesOfDispatch, SlotsAreCounted, [Next]_vars
             PROVE  SlotsAreCounted'
    OBVIOUS
<1>1. CASE UNCHANGED vars
    BY <1>1, FallingSlots DEF vars, durable, memory, passVars, host, NoneCounted, SameSlots,
                              Counted, InFlight, MayBeAlive
<1>2. ASSUME NEW j \in Jobs, RunnerStep(j) \/ LateStep(j) \/ OperatorStep(j) \/ HostStep(j)
      PROVE  SlotsAreCounted'
    BY <1>2, RunnerSlots, WatcherSlots, FallingSlots
<1> QED
    BY <1>1, <1>2, PassSlots, ProcessSlots DEF Next

\* Commands that may be alive, those left behind by earlier daemons included,
\* and jobs in flight never exceed config.maxActive together.
THEOREM CapacityIsBounded == Spec => []CapacityBound
<1>1. TypeOK /\ SlotsAreCounted => CapacityBound
    <2> SUFFICES ASSUME TypeOK, SlotsAreCounted PROVE CapacityBound
        OBVIOUS
    <2>1. {j \in Jobs : MayBeAlive(j) \/ InFlight(j)} = {i \in Jobs : Counted(i)}
        BY DEF Counted
    <2>2. Taken <= MaxActive - avail /\ avail >= 0
        BY DEF SlotsAreCounted
    <2>3. Taken <= MaxActive
        BY <2>2, CountNat DEF TypeOK
    <2> QED
        BY <2>1, <2>3 DEF CapacityBound, Taken
<1> QED
    BY <1>1, SlotsInit, SlotsStep, TypeCorrect, RecordsAlwaysAgree, PTL DEF Spec
=================================================================================
