------------------------------ MODULE Releases ------------------------------
(***************************************************************************)
(* How dovskyd releases an accepted candidate: candidates, authorization   *)
(* grants, release operations and the ownership of a release target        *)
(* (apps/daemon/src/releases.ts).                                          *)
(*                                                                         *)
(* An operation is dispatched by an EXECUTOR, a handler of                 *)
(* releases.operations.execute that awaits a preflight, the start of a     *)
(* systemd scope, the command and a readback.  The records are in SQLite;  *)
(* the executors are memory of a daemon process; the scopes and the remote *)
(* target outlive every process.  A process that is shutting down closes   *)
(* its socket first and keeps its executors until it exits, so a second    *)
(* process may recover the database and serve while they still run.        *)
(*                                                                         *)
(* Between two awaits a process runs to completion (a TURN).  Actions are  *)
(* SQLite commits, so that another process or a crash can come between two *)
(* commits of one turn, and no other handler of the same process can.      *)
(*                                                                         *)
(* A member of Ops is a semantic key (task, candidate, action, target,     *)
(* step): preparing one that exists returns it unchanged, a stutter here.  *)
(* A drained daemon is one nobody asks to execute.                         *)
(***************************************************************************)
EXTENDS Integers, FiniteSets

CONSTANTS
    Ops,           \* release operations by semantic key
    Candidates,    \* candidates by identity hash
    Targets,       \* release targets
    Grants,        \* authorizations by decision key
    Procs,         \* daemon processes
    CandidateOf,   \* CandidateOf[o]: the candidate operation o releases
    TargetOf,      \* TargetOf[o]: the target of operation o
    Mutating,      \* operations whose action is not "verify"
    Covers,        \* Covers[g]: operations inside the scope of grant g
    Expiring,      \* grants with an expiry date
    Drifting,      \* candidates whose worktree, artifact or acceptance may change
    NoProc,        \* nobody serves the socket
    Free,          \* a target no operation owns
    MaxAttempts,   \* bound: dispatches of one operation
    MaxStarts      \* bound: daemon starts

Attempts == 1..MaxAttempts

ASSUME ReleaseAssumption ==
    /\ CandidateOf \in [Ops -> Candidates]
    /\ TargetOf \in [Ops -> Targets]
    /\ Mutating \subseteq Ops
    /\ Covers \in [Grants -> SUBSET Ops]
    /\ Expiring \subseteq Grants
    /\ Drifting \subseteq Candidates
    /\ NoProc \notin Procs
    /\ Free \notin [op : Ops, token : Nat]
    /\ MaxAttempts \in Nat
    /\ MaxStarts \in Nat

VARIABLES
    \* durable: the SQLite database
    registered,   \* candidates with a row in release_candidates
    grant,        \* release_authorizations: "none", "live", "expired", "revoked"
    ops,          \* release_operations
    target,       \* release_targets: the owner of each target, or Free
    \* memory of the daemon processes
    serving,      \* the process that owns the socket, or NoProc
    exec,         \* exec[p][o]: what process p is doing for operation o
    starts,       \* starts so far, up to MaxStarts
    \* the host and the remote target
    intact,       \* candidates whose artifact, source and acceptance still agree
    scope,        \* scope[o][k]: the systemd scope of attempt k of operation o
    applied       \* attempts whose effect is in the remote target

records == <<registered, grant, ops, target>>
world   == <<intact, scope, applied>>
vars    == <<records, serving, exec, starts, world>>

OpStates == {"none", "prepared", "executing", "verified", "not_applied",
             "reconcile_required", "cancelled"}
Unresolved == {"prepared", "executing", "reconcile_required"}

\* commands in flight, then observations
Dispatching == {"dispatched", "intended", "launching", "enrolled", "running",
                "cleanup", "cleanupFound"}
Observing == {"terminating", "observing", "reading", "answered"}
\* the points inside one turn of the process
InTurn == {"dispatched", "intended", "enrolled", "observing"}

Idle == [pc |-> "idle", token |-> 0, attempt |-> 0, result |-> "none",
         unit |-> "none", answer |-> "none"]
NewOp == [state |-> "none", grant |-> "none", token |-> 0, attempts |-> 0,
          cancelled |-> FALSE, result |-> "none", unit |-> "none"]

OpRecord == [state : OpStates, grant : Grants \cup {"none"}, token : Nat,
             attempts : 0..MaxAttempts, cancelled : BOOLEAN,
             result : {"none", "returned", "timedOut"},
             unit : {"none", "intent", "enrolled"}]
ExecRecord == [pc : {"idle", "preflight"} \cup Dispatching \cup Observing,
               token : Nat, attempt : 0..MaxAttempts,
               result : {"none", "returned", "timedOut"},
               unit : {"none", "intent", "enrolled"},
               answer : {"none", "verified", "not_applied", "reconcile_required"}]
ScopePhases == {"none", "requested", "gated", "running", "gone"}

TypeOK ==
    /\ registered \subseteq Candidates
    /\ grant \in [Grants -> {"none", "live", "expired", "revoked"}]
    /\ ops \in [Ops -> OpRecord]
    /\ target \in [Targets -> [op : Ops, token : Nat] \cup {Free}]
    /\ serving \in Procs \cup {NoProc}
    /\ exec \in [Procs -> [Ops -> ExecRecord]]
    /\ starts \in 0..MaxStarts
    /\ intact \subseteq Candidates
    /\ scope \in [Ops -> [Attempts -> ScopePhases]]
    /\ applied \subseteq Ops \X Attempts

Init ==
    /\ registered = {}
    /\ grant = [g \in Grants |-> "none"]
    /\ ops = [o \in Ops |-> NewOp]
    /\ target = [t \in Targets |-> Free]
    /\ serving = NoProc
    /\ exec = [p \in Procs |-> [o \in Ops |-> Idle]]
    /\ starts = 0
    /\ intact = Candidates
    /\ scope = [o \in Ops |-> [k \in Attempts |-> "none"]]
    /\ applied = {}

-----------------------------------------------------------------------------
(* The checks the handlers share.                                          *)

\* verifyCandidate: artifact, source, configuration and acceptance agree.
CandidateVerifies(o) == CandidateOf[o] \in registered \cap intact

\* assertAuthorized: neither revoked nor expired, and inside its scope.
Authorized(o, g) ==
    /\ g \in Grants
    /\ grant[g] = "live"
    /\ o \in Covers[g]

\* Mutant: a verification that ended, whatever it found, is enough.
ArtifactChecked(o) ==
    \/ o \notin Mutating
    \/ \E v \in Ops \ Mutating : CandidateOf[v] = CandidateOf[o]
                                  /\ ops[v].state \in {"verified", "not_applied"}

\* assertArtifactVerified: a verify operation of the same candidate verified.
ArtifactVerified(o) ==
    \/ o \notin Mutating
    \/ \E v \in Ops \ Mutating :
          CandidateOf[v] = CandidateOf[o] /\ ops[v].state = "verified"

Owner(o, token) == [op |-> o, token |-> token]

\* acquire: a target is taken when free, and kept by the owner that has it.
CanAcquire(o, token) == target[TargetOf[o]] \in {Free, Owner(o, token)}
Acquired(o, token) == [target EXCEPT ![TargetOf[o]] = Owner(o, token)]
Released(o) ==
    IF target[TargetOf[o]] = Owner(o, ops[o].token)
    THEN [target EXCEPT ![TargetOf[o]] = Free] ELSE target

\* Mutant: an executor does not compare its token.
StillExecuting(p, o) ==
    /\ ops[o].state = "executing"
    /\ ~ops[o].cancelled
    /\ Authorized(o, ops[o].grant)

\* owned() of runCommand: the operation is still the one this executor dispatched.
StillOwned(p, o) ==
    /\ ops[o].token = exec[p][o].token
    /\ ops[o].state = "executing"
    /\ ~ops[o].cancelled
    /\ Authorized(o, ops[o].grant)

Busy(p) == \E o \in Ops : exec[p][o].pc \in InTurn
Handles(p) == serving = p /\ ~Busy(p)

At(p, o, pc) == exec[p][o].pc = pc
CurrentScope(p, o) == scope[o][exec[p][o].attempt]

\* What a step writes: the executor, the operation, the scope of the executor.
Becomes(p, o, e) == exec' = [exec EXCEPT ![p] = [@ EXCEPT ![o] = e]]
Moved(p, o, pc) == Becomes(p, o, [exec[p][o] EXCEPT !.pc = pc])
Ended(p, o) == Becomes(p, o, Idle)
Saved(o, record) == ops' = [ops EXCEPT ![o] = record]
ScopeIs(o, k, phase) == scope' = [scope EXCEPT ![o] = [@ EXCEPT ![k] = phase]]

-----------------------------------------------------------------------------
(* Candidates, grants and the operations that are one transaction.         *)

\* registerCandidate: the snapshot is inserted once it equals its source; a
\* known identity is verified and returned.
Register(p, c) ==
    /\ Handles(p)
    /\ c \in intact \ registered
    /\ registered' = registered \cup {c}
    /\ UNCHANGED <<grant, ops, target, serving, exec, starts, world>>

\* grantAuthorization: a decision is recorded once; a repeated one returns the
\* recorded grant, revoked or not.
GrantAuthorization(p, g) ==
    /\ Handles(p)
    /\ grant[g] = "none"
    /\ grant' = [grant EXCEPT ![g] = "live"]
    /\ UNCHANGED <<registered, ops, target, serving, exec, starts, world>>

RevokeAuthorization(p, g) ==
    /\ Handles(p)
    /\ grant[g] \in {"live", "expired"}
    /\ grant' = [grant EXCEPT ![g] = "revoked"]
    /\ UNCHANGED <<registered, ops, target, serving, exec, starts, world>>

PrepareOperation(p, o, g) ==
    /\ Handles(p)
    /\ ops[o].state = "none"
    /\ CandidateVerifies(o)
    /\ Authorized(o, g)
    /\ ArtifactVerified(o)
    /\ CanAcquire(o, 1)
    /\ Saved(o, [NewOp EXCEPT !.state = "prepared", !.grant = g, !.token = 1])
    /\ target' = Acquired(o, 1)
    /\ UNCHANGED <<registered, grant, serving, exec, starts, world>>

\* retryOperation: a new owner token, and the last attempt is forgotten.
RetryOperation(p, o) ==
    /\ Handles(p)
    /\ ops[o].state = "not_applied"
    /\ ~ops[o].cancelled
    /\ CandidateVerifies(o)
    /\ Authorized(o, ops[o].grant)
    /\ ArtifactVerified(o)
    /\ CanAcquire(o, ops[o].token + 1)
    /\ Saved(o, [ops[o] EXCEPT !.state = "prepared", !.token = @ + 1,
                               !.result = "none", !.unit = "none"])
    /\ target' = Acquired(o, ops[o].token + 1)
    /\ UNCHANGED <<registered, grant, serving, exec, starts, world>>

\* cancelOperation: revokes the operation's grant; only an operation with
\* nothing in flight is cancelled and gives up its target.
CancelOperation(p, o) ==
    /\ Handles(p)
    /\ ops[o].state \notin {"none", "cancelled", "verified"}
    /\ ~ops[o].cancelled
    /\ grant' = [grant EXCEPT ![ops[o].grant] = "revoked"]
    /\ IF ops[o].state \in {"prepared", "not_applied"}
       THEN /\ Saved(o, [ops[o] EXCEPT !.cancelled = TRUE, !.state = "cancelled"])
            /\ target' = Released(o)
       ELSE /\ Saved(o, [ops[o] EXCEPT !.cancelled = TRUE])
            /\ UNCHANGED target
    /\ UNCHANGED <<registered, serving, exec, starts, world>>

-----------------------------------------------------------------------------
(* executeOperation, up to the scope of the command.                       *)

ExecuteOperation(p, o) ==
    /\ Handles(p)
    /\ ops[o].state = "prepared"
    /\ At(p, o, "idle")
    /\ CandidateVerifies(o)
    /\ Authorized(o, ops[o].grant)
    /\ ArtifactVerified(o)
    /\ Moved(p, o, "preflight")
    /\ UNCHANGED <<records, serving, starts, world>>

\* The preflight rejects, or what it was awaited for no longer holds.
PreflightRefused(p, o) ==
    /\ ~Busy(p)
    /\ At(p, o, "preflight")
    /\ Ended(p, o)
    /\ UNCHANGED <<records, serving, starts, world>>

\* Mutant: the authorization was checked before the preflight.
MayDispatchAsChecked(o) ==
    /\ CandidateVerifies(o)
    /\ ops[o].state = "prepared"
    /\ ~ops[o].cancelled
    /\ ArtifactVerified(o)
    /\ CanAcquire(o, ops[o].token)

\* After the awaited preflight everything is checked again.
MayDispatch(o) ==
    /\ CandidateVerifies(o)
    /\ ops[o].state = "prepared"
    /\ ~ops[o].cancelled
    /\ Authorized(o, ops[o].grant)
    /\ ArtifactVerified(o)
    /\ CanAcquire(o, ops[o].token)

Dispatch(p, o) ==
    /\ ~Busy(p)
    /\ At(p, o, "preflight")
    /\ ops[o].attempts < MaxAttempts
    /\ MayDispatch(o)
    /\ Saved(o, [ops[o] EXCEPT !.state = "executing", !.attempts = @ + 1])
    /\ target' = Acquired(o, ops[o].token)
    /\ Becomes(p, o, [Idle EXCEPT !.pc = "dispatched", !.token = ops[o].token,
                                  !.attempt = ops[o].attempts + 1])
    /\ UNCHANGED <<registered, grant, serving, starts, world>>

\* onScopeStarting: the intent to launch is durable before systemd-run.
ScopeStarting(p, o) ==
    /\ At(p, o, "dispatched")
    /\ StillOwned(p, o)
    /\ Saved(o, [ops[o] EXCEPT !.unit = "intent"])
    /\ Moved(p, o, "intended")
    /\ UNCHANGED <<registered, grant, target, serving, starts, world>>

\* The adapter changed its command, or the operation changed: nothing starts.
DispatchRefused(p, o) ==
    /\ At(p, o, "dispatched")
    /\ Moved(p, o, "observing")
    /\ UNCHANGED <<records, serving, starts, world>>

Spawn(p, o) ==
    /\ At(p, o, "intended")
    /\ ScopeIs(o, exec[p][o].attempt, "requested")
    /\ Moved(p, o, "launching")
    /\ UNCHANGED <<records, serving, starts, intact, applied>>

SpawnFails(p, o) ==
    /\ At(p, o, "intended")
    /\ Moved(p, o, "observing")
    /\ UNCHANGED <<records, serving, starts, world>>

\* onEnrolled: the identity of the waiting gate is durable before it opens.
Enrol(p, o) ==
    /\ ~Busy(p)
    /\ At(p, o, "launching")
    /\ CurrentScope(p, o) = "gated"
    /\ StillOwned(p, o)
    /\ ops[o].unit # "none"
    /\ Saved(o, [ops[o] EXCEPT !.unit = "enrolled"])
    /\ Moved(p, o, "enrolled")
    /\ UNCHANGED <<registered, grant, target, serving, starts, world>>

OpenGate(p, o) ==
    /\ At(p, o, "enrolled")
    /\ CurrentScope(p, o) = "gated"
    /\ ScopeIs(o, exec[p][o].attempt, "running")
    /\ Moved(p, o, "running")
    /\ UNCHANGED <<records, serving, starts, intact, applied>>

\* The start fails: timeout, dead gate, wrong limits, or onEnrolled threw.  The
\* error carries the identity of a gate that had reported itself.
StartFails(p, o) ==
    /\ \/ At(p, o, "launching") /\ ~Busy(p)
       \/ At(p, o, "enrolled")
    /\ \/ Moved(p, o, "cleanup") /\ At(p, o, "launching")
       \/ Moved(p, o, "cleanupFound") /\ CurrentScope(p, o) \in {"gated", "gone"}
    /\ UNCHANGED <<records, serving, starts, world>>

\* cleanupStartup kills the unit if systemd has it; the catch of runCommand
\* records a discovered identity, cancelled or not.
CleanedUp(p, o) ==
    /\ ~Busy(p)
    /\ exec[p][o].pc \in {"cleanup", "cleanupFound"}
    /\ \/ UNCHANGED scope
       \/ /\ CurrentScope(p, o) = "gated"
          /\ ScopeIs(o, exec[p][o].attempt, "gone")
    /\ IF /\ At(p, o, "cleanupFound")
          /\ ops[o].token = exec[p][o].token
          /\ ops[o].unit # "none"
       THEN Saved(o, [ops[o] EXCEPT !.unit = "enrolled"])
       ELSE UNCHANGED ops
    /\ Moved(p, o, "observing")
    /\ UNCHANGED <<registered, grant, target, serving, starts, intact, applied>>

\* The scope is gone, or the deadline passed; no deadline kills a release.
CommandReturns(p, o) ==
    /\ ~Busy(p)
    /\ At(p, o, "running")
    /\ \E result \in {"returned", "timedOut"} :
          /\ result = "returned" => CurrentScope(p, o) = "gone"
          /\ IF ops[o].token = exec[p][o].token /\ ops[o].state = "executing"
             THEN Saved(o, [ops[o] EXCEPT !.result = result])
             ELSE UNCHANGED ops
    /\ Moved(p, o, "observing")
    /\ UNCHANGED <<registered, grant, target, serving, starts, world>>

-----------------------------------------------------------------------------
(* observe, and the reconciliation that reaches it.                        *)

\* observe reads the record once, then awaits the readback of the adapter.
ObserveStarts(p, o) ==
    /\ At(p, o, "observing")
    /\ IF ops[o].token = exec[p][o].token
       THEN Becomes(p, o, [exec[p][o] EXCEPT !.pc = "reading", !.attempt = ops[o].attempts,
                              !.result = ops[o].result, !.unit = ops[o].unit])
       ELSE Ended(p, o)
    /\ UNCHANGED <<records, serving, starts, world>>

\* A command that can still change the target: it runs, or its gate is about
\* to be opened.
Live(o, k) ==
    \/ scope[o][k] = "running"
    \/ /\ scope[o][k] = "gated"
       /\ \E p \in Procs : At(p, o, "enrolled") /\ exec[p][o].attempt = k

MayStillApply(o) == \E k \in Attempts : Live(o, k)

EffectApplied(o) == \E k \in Attempts : <<o, k>> \in applied

\* The adapter is trusted: it reports the target as it is, and "settled" only
\* when nothing that survives can change it.  It may know less, throw, or answer
\* with nothing that is a readback ("invalid").
Truthful(o, state, settled) ==
    /\ state = "verified" => EffectApplied(o)
    /\ state = "not_applied" => ~EffectApplied(o)
    /\ settled = "yes" => ~MayStillApply(o)

\* Mutant: a command whose deadline passed counts as one that returned.
ConclusionAfterDeadline(p, o, state, settled) ==
    IF \/ state = "invalid"
       \/ settled = "no"
       \/ exec[p][o].result = "none" /\ settled # "yes"
    THEN "reconcile_required" ELSE state

\* An outcome needs a settled readback, or a command that returned in time and
\* a readback that does not deny being settled.
Conclusion(p, o, state, settled) ==
    IF \/ state = "invalid"
       \/ settled = "no"
       \/ exec[p][o].result # "returned" /\ settled # "yes"
    THEN "reconcile_required" ELSE state

ReadBack(p, o) ==
    /\ At(p, o, "reading")
    /\ \E state \in {"verified", "not_applied", "reconcile_required", "invalid"},
          settled \in {"yes", "no", "unsaid"} :
          /\ Truthful(o, state, settled)
          /\ Becomes(p, o, [exec[p][o] EXCEPT !.pc = "answered",
                                !.answer = Conclusion(p, o, state, settled)])
    /\ UNCHANGED <<records, serving, starts, world>>

\* observeScope of the recorded enrolment; an intent alone proves nothing.
ObservedAbsent(p, o) ==
    /\ exec[p][o].unit = "enrolled"
    /\ CurrentScope(p, o) = "gone"

\* A recorded launch settles nothing until its scope is observed absent.
Outcomes(p, o) ==
    LET e == exec[p][o] IN
    IF e.unit = "none" THEN {e.answer}
    ELSE {"reconcile_required"} \cup (IF ObservedAbsent(p, o) THEN {e.answer} ELSE {})

\* Mutant: a readback that was awaited too long is not recognized.
MayConcludeLate(p, o) ==
    /\ ops[o].state \in {"executing", "reconcile_required"}
    /\ target[TargetOf[o]] = Owner(o, ops[o].token)

\* The transaction that ends observe looks at the operation again.
MayConclude(p, o) ==
    /\ ops[o].state \in {"executing", "reconcile_required"}
    /\ ops[o].token = exec[p][o].token
    /\ target[TargetOf[o]] = Owner(o, ops[o].token)

Observed(p, o) ==
    /\ ~Busy(p)
    /\ At(p, o, "answered")
    /\ \E outcome \in Outcomes(p, o) :
          IF MayConclude(p, o)
          THEN /\ Saved(o, [ops[o] EXCEPT !.state = outcome])
               /\ target' = IF outcome = "reconcile_required" THEN target ELSE Released(o)
          ELSE UNCHANGED <<ops, target>>
    /\ Ended(p, o)
    /\ UNCHANGED <<registered, grant, serving, starts, world>>

\* reconcileOperation "inspect"
Inspect(p, o) ==
    /\ Handles(p)
    /\ ops[o].state = "reconcile_required"
    /\ At(p, o, "idle")
    /\ Becomes(p, o, [Idle EXCEPT !.pc = "observing", !.token = ops[o].token])
    /\ UNCHANGED <<records, serving, starts, world>>

\* reconcileOperation "terminate": needs the grant and a full enrolment.
Terminate(p, o) ==
    /\ Handles(p)
    /\ ops[o].state = "reconcile_required"
    /\ At(p, o, "idle")
    /\ Authorized(o, ops[o].grant)
    /\ ops[o].unit = "enrolled"
    /\ Becomes(p, o, [Idle EXCEPT !.pc = "terminating", !.token = ops[o].token,
                                  !.attempt = ops[o].attempts])
    /\ UNCHANGED <<records, serving, starts, world>>

\* terminateScope signals until the scope is confirmed absent ...
Terminated(p, o) ==
    /\ ~Busy(p)
    /\ At(p, o, "terminating")
    /\ ScopeIs(o, exec[p][o].attempt, "gone")
    /\ Moved(p, o, "observing")
    /\ UNCHANGED <<records, serving, starts, intact, applied>>

\* ... or throws.
TerminateFails(p, o) ==
    /\ ~Busy(p)
    /\ At(p, o, "terminating")
    /\ Ended(p, o)
    /\ UNCHANGED <<records, serving, starts, world>>

-----------------------------------------------------------------------------
(* Daemon processes, the host and the world.                               *)

\* Mutant: every operation that was ever dispatched counts as interrupted.
InterruptedOnce == {o \in Ops : ops[o].attempts > 0}

\* Mutant: only an operation with a launch is looked at again.
InterruptedLaunch == {o \in Ops : ops[o].state = "executing" /\ ops[o].unit # "none"}

\* recoverInterruptedOperations: an operation in flight gets a new token, its
\* target with it, and waits for reconciliation.
Interrupted == {o \in Ops : ops[o].state = "executing"}

\* Mutant: the row of the target keeps the token of the dead executor.
StaleOwner(t) == target[t]

RecoveredOwner(t) ==
    IF \E o \in Interrupted : TargetOf[o] = t /\ target[t] = Owner(o, ops[o].token)
    THEN [target[t] EXCEPT !.token = @ + 1] ELSE target[t]

Start(p) ==
    /\ serving = NoProc
    /\ starts < MaxStarts
    /\ \A o \in Ops : At(p, o, "idle")
    /\ serving' = p
    /\ starts' = starts + 1
    /\ ops' = [o \in Ops |-> IF o \in Interrupted
                  THEN [ops[o] EXCEPT !.state = "reconcile_required", !.token = @ + 1]
                  ELSE ops[o]]
    /\ target' = [t \in Targets |-> RecoveredOwner(t)]
    /\ UNCHANGED <<registered, grant, exec, world>>

\* shutdown closes the socket and then waits for the jobs of the daemon.
StopServing(p) ==
    /\ Handles(p)
    /\ starts < MaxStarts
    /\ serving' = NoProc
    /\ UNCHANGED <<records, exec, starts, world>>

\* The process exits, after its shutdown or in a crash.
ProcessEnds(p) ==
    /\ IF serving = p THEN starts < MaxStarts ELSE \E o \in Ops : ~At(p, o, "idle")
    /\ serving' = IF serving = p THEN NoProc ELSE serving
    /\ exec' = [exec EXCEPT ![p] = [o \in Ops |-> Idle]]
    /\ UNCHANGED <<records, starts, world>>

\* The gate of a requested scope reports itself, possibly after its launcher died.
GateReady(o, k) ==
    /\ scope[o][k] = "requested"
    /\ ScopeIs(o, k, "gated")
    /\ UNCHANGED <<records, serving, exec, starts, intact, applied>>

\* A request that never arrives, a gate that gives up, a command that ends.
ScopeEnds(o, k) ==
    /\ scope[o][k] \in {"requested", "gated", "running"}
    /\ ScopeIs(o, k, "gone")
    /\ UNCHANGED <<records, serving, exec, starts, intact, applied>>

EffectApplies(o, k) ==
    /\ scope[o][k] = "running"
    /\ applied' = applied \cup {<<o, k>>}
    /\ UNCHANGED <<records, serving, exec, starts, intact, scope>>

Expire(g) ==
    /\ grant[g] = "live"
    /\ grant' = [grant EXCEPT ![g] = "expired"]
    /\ UNCHANGED <<registered, ops, target, serving, exec, starts, world>>

\* The worktree, the artifact or the acceptance of a candidate changes, or is
\* what it was again.
Drift(c) ==
    /\ intact' = (intact \ {c}) \cup ({c} \ intact)
    /\ UNCHANGED <<records, serving, exec, starts, scope, applied>>

-----------------------------------------------------------------------------
Executor(p, o) ==
    \/ PreflightRefused(p, o) \/ Dispatch(p, o)
    \/ ScopeStarting(p, o) \/ DispatchRefused(p, o)
    \/ Spawn(p, o) \/ SpawnFails(p, o)
    \/ Enrol(p, o) \/ OpenGate(p, o) \/ StartFails(p, o) \/ CleanedUp(p, o)
    \/ CommandReturns(p, o)
    \/ Terminated(p, o) \/ TerminateFails(p, o)
    \/ ObserveStarts(p, o) \/ ReadBack(p, o) \/ Observed(p, o)

Request(p) ==
    \/ \E c \in Candidates : Register(p, c)
    \/ \E g \in Grants : GrantAuthorization(p, g) \/ RevokeAuthorization(p, g)
    \/ \E o \in Ops :
          \/ \E g \in Grants : PrepareOperation(p, o, g)
          \/ ExecuteOperation(p, o) \/ RetryOperation(p, o) \/ CancelOperation(p, o)
          \/ Inspect(p, o) \/ Terminate(p, o)

Environment ==
    \/ \E o \in Ops, k \in Attempts : GateReady(o, k) \/ ScopeEnds(o, k) \/ EffectApplies(o, k)
    \/ \E g \in Expiring : Expire(g)
    \/ \E c \in Drifting : Drift(c)

Next ==
    \/ \E p \in Procs :
          \/ Start(p) \/ StopServing(p) \/ ProcessEnds(p)
          \/ Request(p)
          \/ \E o \in Ops : Executor(p, o)
    \/ Environment

\* Every await of an executor ends: the preflight, the start, the command and
\* the readback of a command adapter each have a deadline, and a process that
\* serves nobody is started again.
Fairness ==
    /\ \A p \in Procs, o \in Ops : WF_vars(Executor(p, o))
    /\ WF_vars(\E p \in Procs : Start(p))

Spec == Init /\ [][Next]_vars
FairSpec == Spec /\ Fairness

-----------------------------------------------------------------------------
(* What a release promises.                                                *)

\* Whatever the interleaving of executors, reconciliations, retries and
\* restarts, a target is owned exactly while one of its operations is
\* unresolved, by that operation and under its current token: no fence is lost
\* to a superseded handler and none is left behind by a settled operation.
TargetsAreFenced ==
    \A t \in Targets :
        LET unresolved == {o \in Ops : TargetOf[o] = t /\ ops[o].state \in Unresolved} IN
        IF target[t] = Free THEN unresolved = {}
        ELSE unresolved = {target[t].op} /\ target[t].token = ops[target[t].op].token

\* A release command that runs, or whose gate is about to open, belongs to the
\* newest attempt of an unresolved operation, so two commands never work on one
\* target and no other operation can take it.
CommandsAreFenced ==
    \A o \in Ops, k \in Attempts :
        Live(o, k) => /\ k = ops[o].attempts
                      /\ ops[o].state \in {"executing", "reconcile_required"}

\* "not_applied", and with it a retry and a cancellation, is proof: nothing of
\* the operation is in the target and nothing that survives can put it there.
NotAppliedIsProof ==
    \A o \in Ops : ops[o].state \in {"prepared", "not_applied", "cancelled"}
        => ~EffectApplied(o) /\ ~MayStillApply(o)

\* One semantic operation changes its target at most once, over all retries.
AtMostOneEffect == \A o \in Ops : Cardinality({k \in Attempts : <<o, k>> \in applied}) <= 1

\* A mutating operation has been dispatched only if a verification of the same
\* candidate really took place.
MutationFollowsVerification ==
    \A o \in Mutating : ops[o].attempts > 0
        => \E v \in Ops \ Mutating : CandidateOf[v] = CandidateOf[o] /\ EffectApplied(v)

\* Nothing is dispatched on a permission or a candidate that was withdrawn
\* while the preflight was awaited.
DispatchIsPermitted ==
    [][\A o \in Ops : ops'[o].attempts # ops[o].attempts
          => Authorized(o, ops[o].grant) /\ CandidateVerifies(o)]_vars

\* No late handler changes an operation that is verified or cancelled, and a
\* requested cancellation rules out every later attempt.
OutcomesAreFinal ==
    [][\A o \in Ops :
          /\ ops[o].state \in {"verified", "cancelled"} => ops'[o].state = ops[o].state
          /\ ops[o].cancelled => ops'[o].cancelled /\ ops'[o].attempts = ops[o].attempts]_vars

\* An executing operation is eventually observed or recovered, through failed
\* starts, timeouts, lost ownership, shutdowns and crashes.
ExecutionIsObserved ==
    \A o \in Ops : ops[o].state = "executing" ~> ops[o].state # "executing"
=============================================================================
