---------------------------- MODULE ReleaseProofs ----------------------------
(* Safety of Releases for any operations, targets, processes and bounds.   *)
EXTENDS ReleaseInvariant, FiniteSetTheorems, TLAPS

USE ReleaseAssumption DEF Attempts

-----------------------------------------------------------------------------
(* What the three kinds of writes change.                                  *)

LEMMA BecomesFacts ==
    ASSUME exec \in [Procs -> [Ops -> ExecRecord]],
           NEW p \in Procs, NEW o \in Ops, NEW e \in ExecRecord, Becomes(p, o, e)
    PROVE  /\ exec' \in [Procs -> [Ops -> ExecRecord]]
           /\ exec'[p][o] = e
           /\ \A q \in Procs, x \in Ops : q # p \/ x # o => exec'[q][x] = exec[q][x]
  BY DEF Becomes

LEMMA SavedFacts ==
    ASSUME ops \in [Ops -> OpRecord], NEW o \in Ops, NEW r \in OpRecord, Saved(o, r)
    PROVE  /\ ops' \in [Ops -> OpRecord]
           /\ ops'[o] = r
           /\ \A x \in Ops : x # o => ops'[x] = ops[x]
  BY DEF Saved

LEMMA ScopeIsFacts ==
    ASSUME scope \in [Ops -> [Attempts -> ScopePhases]],
           NEW o \in Ops, NEW k, NEW phase \in ScopePhases, ScopeIs(o, k, phase)
    PROVE  /\ scope' \in [Ops -> [Attempts -> ScopePhases]]
           /\ k \in Attempts => scope'[o][k] = phase
           /\ \A x \in Ops, j \in Attempts : x # o \/ j # k => scope'[x][j] = scope[x][j]
  BY DEF ScopeIs

LEMMA IdleFacts == Idle \in ExecRecord /\ NewOp \in OpRecord
  BY DEF Idle, ExecRecord, NewOp, OpRecord, OpStates

LEMMA RecordsTyped ==
    ASSUME TypeOK, NEW p \in Procs, NEW o \in Ops
    PROVE  exec[p][o] \in ExecRecord /\ ops[o] \in OpRecord
  BY DEF TypeOK

\* Moving an executor changes nothing but its program counter.
LEMMA MovedFacts ==
    ASSUME TypeOK, NEW p \in Procs, NEW o \in Ops,
           NEW pc \in {"idle", "preflight"} \cup Dispatching \cup Observing, Moved(p, o, pc)
    PROVE  /\ exec' \in [Procs -> [Ops -> ExecRecord]]
           /\ exec'[p][o] = [exec[p][o] EXCEPT !.pc = pc]
           /\ \A q \in Procs, x \in Ops : q # p \/ x # o => exec'[q][x] = exec[q][x]
<1>1. exec[p][o] \in ExecRecord
  BY RecordsTyped
<1>2. [exec[p][o] EXCEPT !.pc = pc] \in ExecRecord
  BY <1>1 DEF ExecRecord
<1> QED
  BY <1>2, BecomesFacts DEF Moved, TypeOK

LEMMA EndedFacts ==
    ASSUME TypeOK, NEW p \in Procs, NEW o \in Ops, Ended(p, o)
    PROVE  /\ exec' \in [Procs -> [Ops -> ExecRecord]]
           /\ exec'[p][o] = Idle
           /\ \A q \in Procs, x \in Ops : q # p \/ x # o => exec'[q][x] = exec[q][x]
  BY IdleFacts, BecomesFacts DEF Ended, TypeOK

-----------------------------------------------------------------------------
(* Type correctness.                                                       *)

LEMMA TypeInit == Init => TypeOK
  BY IdleFacts DEF Init, TypeOK, ScopePhases

\* A step that only moves executors.
LEMMA ExecTyped ==
    ASSUME TypeOK, exec' \in [Procs -> [Ops -> ExecRecord]],
           UNCHANGED <<records, serving, starts, world>>
    PROVE  TypeOK'
  BY DEF TypeOK, records, world

\* A step of an executor that writes the operation, its target or its scope.
LEMMA WritesTyped ==
    ASSUME TypeOK, exec' \in [Procs -> [Ops -> ExecRecord]],
           ops' \in [Ops -> OpRecord],
           target' \in [Targets -> [op : Ops, token : Nat] \cup {Free}],
           scope' \in [Ops -> [Attempts -> ScopePhases]],
           UNCHANGED <<registered, grant, serving, starts, intact, applied>>
    PROVE  TypeOK'
  BY DEF TypeOK

LEMMA AcquiredTyped ==
    ASSUME TypeOK, NEW o \in Ops, NEW token \in Nat
    PROVE  Acquired(o, token) \in [Targets -> [op : Ops, token : Nat] \cup {Free}]
  BY DEF TypeOK, Acquired, Owner

LEMMA ReleasedTyped ==
    ASSUME TypeOK, NEW o \in Ops
    PROVE  Released(o) \in [Targets -> [op : Ops, token : Nat] \cup {Free}]
  BY DEF TypeOK, Released

LEMMA DispatchTyped ==
    ASSUME TypeOK, NEW p \in Procs, NEW o \in Ops, Dispatch(p, o)
    PROVE  TypeOK'
<1>1. ops[o] \in OpRecord /\ ops[o].attempts + 1 \in 0..MaxAttempts
  BY RecordsTyped DEF Dispatch, OpRecord
<1>2. [ops[o] EXCEPT !.state = "executing", !.attempts = @ + 1] \in OpRecord
  BY <1>1 DEF OpRecord, OpStates
<1>3. ops' \in [Ops -> OpRecord]
  BY <1>2, SavedFacts DEF Dispatch, TypeOK
<1>4. ops[o].token \in Nat
  BY <1>1 DEF OpRecord
<1>5. [Idle EXCEPT !.pc = "dispatched", !.token = ops[o].token,
                   !.attempt = ops[o].attempts + 1] \in ExecRecord
  BY <1>1, <1>4, IdleFacts DEF ExecRecord, Dispatching
<1>6. exec' \in [Procs -> [Ops -> ExecRecord]]
  BY <1>5, BecomesFacts DEF Dispatch, TypeOK
<1> QED
  BY <1>3, <1>4, <1>6, AcquiredTyped, WritesTyped DEF Dispatch, world, TypeOK

LEMMA ObserveStartsTyped ==
    ASSUME TypeOK, NEW p \in Procs, NEW o \in Ops, ObserveStarts(p, o)
    PROVE  exec' \in [Procs -> [Ops -> ExecRecord]]
<1>1. ops[o] \in OpRecord /\ exec[p][o] \in ExecRecord
  BY RecordsTyped
<1>2. [exec[p][o] EXCEPT !.pc = "reading", !.attempt = ops[o].attempts,
           !.result = ops[o].result, !.unit = ops[o].unit] \in ExecRecord
  BY <1>1 DEF OpRecord, ExecRecord, Observing
<1>3. CASE Ended(p, o)
  BY <1>3, EndedFacts
<1>4. CASE ~Ended(p, o)
  BY <1>2, <1>4, BecomesFacts DEF ObserveStarts, TypeOK
<1> QED
  BY <1>3, <1>4

LEMMA ReadBackTyped ==
    ASSUME TypeOK, NEW p \in Procs, NEW o \in Ops, ReadBack(p, o)
    PROVE  exec' \in [Procs -> [Ops -> ExecRecord]]
<1>1. PICK state \in {"verified", "not_applied", "reconcile_required", "invalid"},
           settled \in {"yes", "no", "unsaid"} :
         Becomes(p, o, [exec[p][o] EXCEPT !.pc = "answered",
                             !.answer = Conclusion(p, o, state, settled)])
  BY DEF ReadBack
<1>2. Conclusion(p, o, state, settled) \in {"verified", "not_applied", "reconcile_required"}
  BY DEF Conclusion
<1>3. exec[p][o] \in ExecRecord
  BY RecordsTyped
<1>4. [exec[p][o] EXCEPT !.pc = "answered",
           !.answer = Conclusion(p, o, state, settled)] \in ExecRecord
  BY <1>2, <1>3 DEF ExecRecord, Observing
<1> QED
  BY <1>1, <1>4, BecomesFacts DEF TypeOK

LEMMA InspectTyped ==
    ASSUME TypeOK, NEW p \in Procs, NEW o \in Ops, Inspect(p, o) \/ Terminate(p, o)
    PROVE  exec' \in [Procs -> [Ops -> ExecRecord]]
<1>1. ops[o].token \in Nat /\ ops[o].attempts \in 0..MaxAttempts
  BY RecordsTyped DEF OpRecord
<1>2. [Idle EXCEPT !.pc = "observing", !.token = ops[o].token] \in ExecRecord
  BY <1>1, IdleFacts DEF ExecRecord, Observing
<1>3. [Idle EXCEPT !.pc = "terminating", !.token = ops[o].token,
           !.attempt = ops[o].attempts] \in ExecRecord
  BY <1>1, IdleFacts DEF ExecRecord, Observing
<1> QED
  BY <1>2, <1>3, BecomesFacts DEF Inspect, Terminate, TypeOK

\* A write to the record of an operation that leaves its state, token and
\* attempts alone, together with a move of the executor.
LEMMA NotedTyped ==
    ASSUME TypeOK, NEW p \in Procs, NEW o \in Ops,
           \/ ScopeStarting(p, o) \/ Enrol(p, o) \/ CleanedUp(p, o) \/ CommandReturns(p, o)
    PROVE  /\ ops' \in [Ops -> OpRecord]
           /\ exec' \in [Procs -> [Ops -> ExecRecord]]
           /\ exec'[p][o].pc \in Dispatching \cup {"observing"}
           /\ \A q \in Procs, x \in Ops : q # p \/ x # o => exec'[q][x] = exec[q][x]
           /\ \A x \in Ops : /\ ops'[x].state = ops[x].state
                             /\ ops'[x].token = ops[x].token
                             /\ ops'[x].attempts = ops[x].attempts
                             /\ ops'[x].cancelled = ops[x].cancelled
           /\ \A x \in Ops : ops'[x] # ops[x]
                 => x = o /\ (ops[o].state = "executing" \/ ops[o].unit # "none")
<1>1. ops[o] \in OpRecord
  BY RecordsTyped
<1>2. /\ [ops[o] EXCEPT !.unit = "intent"] \in OpRecord
      /\ [ops[o] EXCEPT !.unit = "enrolled"] \in OpRecord
      /\ \A result \in {"returned", "timedOut"} : [ops[o] EXCEPT !.result = result] \in OpRecord
  BY <1>1 DEF OpRecord
<1>3. \E pc \in Dispatching \cup {"observing"} : Moved(p, o, pc)
  BY DEF ScopeStarting, Enrol, CleanedUp, CommandReturns, Dispatching
<1>4. PICK pc \in Dispatching \cup {"observing"} : Moved(p, o, pc)
  BY <1>3
<1>5. pc \in {"idle", "preflight"} \cup Dispatching \cup Observing
  BY DEF Observing
<1>6. /\ exec' \in [Procs -> [Ops -> ExecRecord]]
      /\ exec'[p][o] = [exec[p][o] EXCEPT !.pc = pc]
      /\ \A q \in Procs, x \in Ops : q # p \/ x # o => exec'[q][x] = exec[q][x]
  BY <1>4, <1>5, MovedFacts
<1>7. exec'[p][o].pc = pc
  BY <1>6, RecordsTyped DEF ExecRecord
<1>8. \/ UNCHANGED ops
      \/ Saved(o, [ops[o] EXCEPT !.unit = "intent"]) /\ ops[o].state = "executing"
      \/ Saved(o, [ops[o] EXCEPT !.unit = "enrolled"])
         /\ (ops[o].state = "executing" \/ ops[o].unit # "none")
      \/ \E result \in {"returned", "timedOut"} :
            Saved(o, [ops[o] EXCEPT !.result = result]) /\ ops[o].state = "executing"
  BY DEF ScopeStarting, Enrol, CleanedUp, CommandReturns, StillOwned
<1>9. /\ ops' \in [Ops -> OpRecord]
      /\ \A x \in Ops : /\ ops'[x].state = ops[x].state
                        /\ ops'[x].token = ops[x].token
                        /\ ops'[x].attempts = ops[x].attempts
                        /\ ops'[x].cancelled = ops[x].cancelled
      /\ \A x \in Ops : ops'[x] # ops[x]
            => x = o /\ (ops[o].state = "executing" \/ ops[o].unit # "none")
  <2>1. CASE UNCHANGED ops
    BY <2>1 DEF TypeOK
  <2>2. CASE \E r \in OpRecord :
               /\ Saved(o, r)
               /\ r.state = ops[o].state /\ r.token = ops[o].token
               /\ r.attempts = ops[o].attempts /\ r.cancelled = ops[o].cancelled
               /\ ops[o].state = "executing" \/ ops[o].unit # "none"
    BY <2>2, SavedFacts DEF TypeOK
  <2> QED
    BY <1>1, <1>2, <1>8, <2>1, <2>2 DEF OpRecord
<1> QED
  BY <1>6, <1>7, <1>9

LEMMA PreparedTyped ==
    ASSUME TypeOK, NEW p \in Procs, NEW o \in Ops, NEW g \in Grants, PrepareOperation(p, o, g)
    PROVE  /\ TypeOK'
           /\ ops'[o] = [NewOp EXCEPT !.state = "prepared", !.grant = g, !.token = 1]
           /\ \A x \in Ops : x # o => ops'[x] = ops[x]
<1>1. [NewOp EXCEPT !.state = "prepared", !.grant = g, !.token = 1] \in OpRecord
  BY IdleFacts DEF OpRecord, OpStates
<1>2. /\ ops' \in [Ops -> OpRecord]
      /\ ops'[o] = [NewOp EXCEPT !.state = "prepared", !.grant = g, !.token = 1]
      /\ \A x \in Ops : x # o => ops'[x] = ops[x]
  BY <1>1, SavedFacts DEF PrepareOperation, TypeOK
<1> QED
  BY <1>2, AcquiredTyped, WritesTyped DEF PrepareOperation, world, TypeOK

LEMMA RetriedTyped ==
    ASSUME TypeOK, NEW p \in Procs, NEW o \in Ops, RetryOperation(p, o)
    PROVE  /\ TypeOK'
           /\ ops'[o] = [ops[o] EXCEPT !.state = "prepared", !.token = ops[o].token + 1,
                                       !.result = "none", !.unit = "none"]
           /\ \A x \in Ops : x # o => ops'[x] = ops[x]
<1>1. ops[o] \in OpRecord /\ ops[o].token + 1 \in Nat
  BY RecordsTyped DEF OpRecord
<1>2. [ops[o] EXCEPT !.state = "prepared", !.token = ops[o].token + 1,
                     !.result = "none", !.unit = "none"] \in OpRecord
  BY <1>1 DEF OpRecord, OpStates
<1>3. Saved(o, [ops[o] EXCEPT !.state = "prepared", !.token = ops[o].token + 1,
                              !.result = "none", !.unit = "none"])
  BY DEF RetryOperation
<1>4. /\ ops' \in [Ops -> OpRecord]
      /\ ops'[o] = [ops[o] EXCEPT !.state = "prepared", !.token = ops[o].token + 1,
                                  !.result = "none", !.unit = "none"]
      /\ \A x \in Ops : x # o => ops'[x] = ops[x]
  BY <1>2, <1>3, SavedFacts DEF TypeOK
<1>5. target' \in [Targets -> [op : Ops, token : Nat] \cup {Free}]
  BY <1>1, AcquiredTyped DEF RetryOperation
<1> QED
  BY <1>4, <1>5, WritesTyped DEF RetryOperation, world, TypeOK

LEMMA CancelledTyped ==
    ASSUME TypeOK, NEW p \in Procs, NEW o \in Ops, CancelOperation(p, o)
    PROVE  /\ TypeOK'
           /\ ops'[o].state = IF ops[o].state \in {"prepared", "not_applied"}
                              THEN "cancelled" ELSE ops[o].state
           /\ ops'[o].token = ops[o].token
           /\ ops'[o].attempts = ops[o].attempts
           /\ ops'[o].cancelled
           /\ \A x \in Ops : x # o => ops'[x] = ops[x]
<1>1. ops[o] \in OpRecord
  BY RecordsTyped
<1>2. [ops[o] EXCEPT !.cancelled = TRUE, !.state = "cancelled"] \in OpRecord
  BY <1>1 DEF OpRecord, OpStates
<1>3. [ops[o] EXCEPT !.cancelled = TRUE] \in OpRecord
  BY <1>1 DEF OpRecord
<1>4. PICK r \in OpRecord :
         /\ Saved(o, r)
         /\ r.state = IF ops[o].state \in {"prepared", "not_applied"}
                      THEN "cancelled" ELSE ops[o].state
         /\ r.token = ops[o].token
         /\ r.attempts = ops[o].attempts
         /\ r.cancelled
  <2>1. CASE ops[o].state \in {"prepared", "not_applied"}
    <3>1. Saved(o, [ops[o] EXCEPT !.cancelled = TRUE, !.state = "cancelled"])
      BY <2>1 DEF CancelOperation
    <3> QED
      BY <1>1, <1>2, <2>1, <3>1 DEF OpRecord
  <2>2. CASE ops[o].state \notin {"prepared", "not_applied"}
    <3>1. Saved(o, [ops[o] EXCEPT !.cancelled = TRUE])
      BY <2>2 DEF CancelOperation
    <3> QED
      BY <1>1, <1>3, <2>2, <3>1 DEF OpRecord
  <2> QED
    BY <2>1, <2>2
<1>5. /\ ops' \in [Ops -> OpRecord]
      /\ ops'[o] = r
      /\ \A x \in Ops : x # o => ops'[x] = ops[x]
  BY <1>4, SavedFacts DEF TypeOK
<1>6. target' \in [Targets -> [op : Ops, token : Nat] \cup {Free}]
  BY ReleasedTyped DEF CancelOperation, TypeOK
<1>7. grant' \in [Grants -> {"none", "live", "expired", "revoked"}]
  BY DEF CancelOperation, TypeOK
<1>8. TypeOK'
  BY <1>5, <1>6, <1>7 DEF CancelOperation, world, TypeOK
<1> QED
  BY <1>4, <1>5, <1>8

LEMMA ObservedTyped ==
    ASSUME TypeOK, NEW p \in Procs, NEW o \in Ops, Observed(p, o)
    PROVE  /\ TypeOK'
           /\ exec'[p][o] = Idle
           /\ \A q \in Procs, x \in Ops : q # p \/ x # o => exec'[q][x] = exec[q][x]
           /\ \A x \in Ops : x # o => ops'[x] = ops[x]
           /\ \/ UNCHANGED <<ops, target>>
              \/ \E outcome \in {exec[p][o].answer, "reconcile_required"} :
                    /\ MayConclude(p, o)
                    /\ ops'[o] = [ops[o] EXCEPT !.state = outcome]
                    /\ outcome \in OpStates
                    /\ target' = IF outcome = "reconcile_required" THEN target ELSE Released(o)
<1>1. /\ ops[o] \in OpRecord
      /\ exec[p][o].answer \in {"none", "verified", "not_applied", "reconcile_required"}
  BY RecordsTyped DEF ExecRecord
<1>2. PICK outcome \in Outcomes(p, o) :
         IF MayConclude(p, o)
         THEN /\ Saved(o, [ops[o] EXCEPT !.state = outcome])
              /\ target' = IF outcome = "reconcile_required" THEN target ELSE Released(o)
         ELSE UNCHANGED <<ops, target>>
  BY DEF Observed
<1>3. outcome \in {exec[p][o].answer, "reconcile_required"} /\ outcome \in OpStates
  BY <1>1, <1>2 DEF Outcomes, OpStates
<1>4. /\ exec' \in [Procs -> [Ops -> ExecRecord]]
      /\ exec'[p][o] = Idle
      /\ \A q \in Procs, x \in Ops : q # p \/ x # o => exec'[q][x] = exec[q][x]
  BY EndedFacts DEF Observed
<1>5. CASE MayConclude(p, o)
  <2>1. [ops[o] EXCEPT !.state = outcome] \in OpRecord
    BY <1>1, <1>3 DEF OpRecord
  <2>2. /\ ops' \in [Ops -> OpRecord]
        /\ ops'[o] = [ops[o] EXCEPT !.state = outcome]
        /\ \A x \in Ops : x # o => ops'[x] = ops[x]
    BY <1>2, <1>5, <2>1, SavedFacts DEF TypeOK
  <2>3. target' \in [Targets -> [op : Ops, token : Nat] \cup {Free}]
    BY <1>2, <1>5, ReleasedTyped DEF TypeOK
  <2>4. TypeOK'
    BY <1>4, <2>2, <2>3, WritesTyped DEF Observed, world, TypeOK
  <2> QED
    BY <1>2, <1>3, <1>4, <1>5, <2>2, <2>4
<1>6. CASE ~MayConclude(p, o)
  <2>1. UNCHANGED <<ops, target>>
    BY <1>2, <1>6
  <2>2. TypeOK'
    BY <1>4, <2>1, WritesTyped DEF Observed, world, TypeOK
  <2> QED
    BY <1>4, <2>1, <2>2
<1> QED
  BY <1>5, <1>6

LEMMA StartTyped ==
    ASSUME TypeOK, NEW p \in Procs, Start(p)
    PROVE  /\ TypeOK'
           /\ \A o \in Ops : ops'[o] =
                 IF ops[o].state = "executing"
                 THEN [ops[o] EXCEPT !.state = "reconcile_required", !.token = ops[o].token + 1]
                 ELSE ops[o]
<1>1. \A o \in Ops : ops'[o] =
         IF ops[o].state = "executing"
         THEN [ops[o] EXCEPT !.state = "reconcile_required", !.token = ops[o].token + 1]
         ELSE ops[o]
  BY DEF Start, Interrupted
<1>2. ASSUME NEW o \in Ops PROVE ops'[o] \in OpRecord
  <2>1. ops[o] \in OpRecord /\ ops[o].token + 1 \in Nat
    BY RecordsTyped DEF OpRecord
  <2>2. [ops[o] EXCEPT !.state = "reconcile_required", !.token = ops[o].token + 1] \in OpRecord
    BY <2>1 DEF OpRecord, OpStates
  <2> QED
    BY <1>1, <2>1, <2>2
<1>3. ops' \in [Ops -> OpRecord]
  BY <1>2 DEF Start
<1>4. ASSUME NEW t \in Targets PROVE target'[t] \in [op : Ops, token : Nat] \cup {Free}
  <2>1. target[t] \in [op : Ops, token : Nat] \cup {Free}
    BY DEF TypeOK
  <2>2. target'[t] = RecoveredOwner(t)
    BY DEF Start
  <2>3. CASE \E o \in Interrupted : TargetOf[o] = t /\ target[t] = Owner(o, ops[o].token)
    <3>1. PICK o \in Ops : target[t] = Owner(o, ops[o].token)
      BY <2>3 DEF Interrupted
    <3>2. ops[o].token \in Nat /\ ops[o].token + 1 \in Nat
      BY RecordsTyped DEF OpRecord
    <3>3. target'[t] = Owner(o, ops[o].token + 1)
      BY <2>2, <2>3, <3>1 DEF RecoveredOwner, Owner
    <3> QED
      BY <3>2, <3>3 DEF Owner
  <2>4. CASE ~\E o \in Interrupted : TargetOf[o] = t /\ target[t] = Owner(o, ops[o].token)
    BY <2>1, <2>2, <2>4 DEF RecoveredOwner
  <2> QED
    BY <2>3, <2>4
<1>5. target' \in [Targets -> [op : Ops, token : Nat] \cup {Free}]
  BY <1>4 DEF Start
<1>6. serving' \in Procs \cup {NoProc} /\ starts' \in 0..MaxStarts
  <2>1. serving' = p /\ starts < MaxStarts /\ starts' = starts + 1
    BY DEF Start
  <2>2. starts \in 0..MaxStarts
    BY DEF TypeOK
  <2> QED
    BY <2>1, <2>2
<1>7. TypeOK'
  BY <1>3, <1>5, <1>6 DEF Start, world, TypeOK
<1> QED
  BY <1>1, <1>7

\* The steps that write no record and end in no answer.
LEMMA QuietExecutor ==
    ASSUME TypeOK, NEW p \in Procs, NEW o \in Ops,
           \/ ExecuteOperation(p, o) \/ PreflightRefused(p, o) \/ DispatchRefused(p, o)
           \/ Spawn(p, o) \/ SpawnFails(p, o) \/ OpenGate(p, o) \/ StartFails(p, o)
           \/ Inspect(p, o) \/ Terminate(p, o) \/ Terminated(p, o) \/ TerminateFails(p, o)
           \/ ObserveStarts(p, o)
    PROVE  /\ TypeOK'
           /\ exec'[p][o].pc # "answered"
           /\ \A q \in Procs, x \in Ops : q # p \/ x # o => exec'[q][x] = exec[q][x]
           /\ UNCHANGED <<records, serving, starts, intact, applied>>
<1>0. exec[p][o] \in ExecRecord /\ ops[o] \in OpRecord
  BY RecordsTyped
<1>1. CASE \/ ExecuteOperation(p, o) \/ DispatchRefused(p, o) \/ Spawn(p, o)
           \/ SpawnFails(p, o) \/ OpenGate(p, o) \/ StartFails(p, o) \/ Terminated(p, o)
  <2>1. PICK pc \in {"preflight", "observing", "launching", "running", "cleanup", "cleanupFound"} :
           Moved(p, o, pc)
    BY <1>1 DEF ExecuteOperation, DispatchRefused, Spawn, SpawnFails, OpenGate, StartFails, Terminated
  <2>2. pc \in {"idle", "preflight"} \cup Dispatching \cup Observing
    BY DEF Dispatching, Observing
  <2>3. /\ exec' \in [Procs -> [Ops -> ExecRecord]]
        /\ exec'[p][o] = [exec[p][o] EXCEPT !.pc = pc]
        /\ \A q \in Procs, x \in Ops : q # p \/ x # o => exec'[q][x] = exec[q][x]
    BY <2>1, <2>2, MovedFacts
  <2>4. exec'[p][o].pc = pc
    BY <1>0, <2>3 DEF ExecRecord
  <2>5. \/ UNCHANGED scope
        \/ \E phase \in ScopePhases : ScopeIs(o, exec[p][o].attempt, phase)
    BY <1>1 DEF ExecuteOperation, DispatchRefused, Spawn, SpawnFails, OpenGate, StartFails,
                Terminated, ScopePhases, world
  <2>6. scope' \in [Ops -> [Attempts -> ScopePhases]]
    BY <2>5, ScopeIsFacts DEF TypeOK
  <2>7. UNCHANGED <<records, serving, starts, intact, applied>>
    BY <1>1 DEF ExecuteOperation, DispatchRefused, Spawn, SpawnFails, OpenGate, StartFails,
                Terminated, world
  <2>8. TypeOK'
    BY <2>3, <2>6, <2>7, WritesTyped DEF TypeOK, records
  <2> QED
    BY <2>3, <2>4, <2>7, <2>8
<1>2. CASE \/ PreflightRefused(p, o) \/ TerminateFails(p, o) \/ ObserveStarts(p, o)
           \/ Inspect(p, o) \/ Terminate(p, o)
  <2>1. UNCHANGED <<records, serving, starts, world>>
    BY <1>2 DEF PreflightRefused, TerminateFails, ObserveStarts, Inspect, Terminate
  <2>2. exec' \in [Procs -> [Ops -> ExecRecord]]
    BY <1>2, EndedFacts, ObserveStartsTyped, InspectTyped DEF PreflightRefused, TerminateFails
  <2>3. \E e : Becomes(p, o, e) /\ e.pc # "answered"
    <3>1. Idle.pc # "answered"
      BY DEF Idle
    <3>2. [exec[p][o] EXCEPT !.pc = "reading", !.attempt = ops[o].attempts,
               !.result = ops[o].result, !.unit = ops[o].unit].pc # "answered"
      BY <1>0 DEF ExecRecord
    <3>3. /\ [Idle EXCEPT !.pc = "observing", !.token = ops[o].token].pc # "answered"
          /\ [Idle EXCEPT !.pc = "terminating", !.token = ops[o].token,
                  !.attempt = ops[o].attempts].pc # "answered"
      BY DEF Idle
    <3> QED
      BY <1>2, <3>1, <3>2, <3>3
      DEF PreflightRefused, TerminateFails, ObserveStarts, Inspect, Terminate, Ended
  <2>4. /\ exec'[p][o].pc # "answered"
        /\ \A q \in Procs, x \in Ops : q # p \/ x # o => exec'[q][x] = exec[q][x]
    BY <2>3 DEF Becomes, TypeOK
  <2> QED
    BY <2>1, <2>2, <2>4, ExecTyped DEF world
<1> QED
  BY <1>1, <1>2

-----------------------------------------------------------------------------
(* Ownership, permission and proof.                                        *)

LEMMA OwnershipInit == Init => OwnershipInv
<1> SUFFICES ASSUME Init PROVE OwnershipInv
  OBVIOUS
<1>1. TypeOK
  BY TypeInit
<1>2. \A o \in Ops : ops[o] = NewOp /\ \A p \in Procs : exec[p][o] = Idle
  BY DEF Init
<1>3. \A t \in Targets : target[t] = Free
  BY DEF Init
<1>4. NewOp.state = "none" /\ NewOp.attempts = 0 /\ Idle.pc = "idle"
  BY DEF NewOp, Idle
<1>5. OwnerAgrees
  BY <1>2, <1>3, <1>4 DEF OwnerAgrees, Unresolved
<1>6. UnpreparedIsNew /\ VerifiedIsApplied
  BY <1>2, <1>4 DEF UnpreparedIsNew, VerifiedIsApplied, At
<1>7. ProofAgrees
  BY <1>2, <1>4 DEF ProofAgrees
<1> QED
  BY <1>1, <1>5, <1>6, <1>7 DEF OwnershipInv

\* Records that keep state, token and attempts keep everything but effects.
LEMMA QuietRecords ==
    ASSUME OwnershipInv, UNCHANGED target,
           \A x \in Ops : /\ ops'[x].state = ops[x].state
                          /\ ops'[x].token = ops[x].token
                          /\ ops'[x].attempts = ops[x].attempts
                          /\ ops[x].state = "none" => ops'[x] = ops[x]
    PROVE  OwnerAgrees' /\ UnpreparedIsNew' /\ ProofAgrees'
<1>1. OwnerAgrees'
  BY DEF OwnershipInv, OwnerAgrees, Owner
<1>2. UnpreparedIsNew'
  BY DEF OwnershipInv, UnpreparedIsNew
<1>3. ProofAgrees'
  BY DEF OwnershipInv, ProofAgrees
<1> QED
  BY <1>1, <1>2, <1>3

\* Nothing that is applied is taken back, so only a new answer or a new outcome
\* has to be justified.
LEMMA NothingNewVerified ==
    ASSUME OwnershipInv, applied \subseteq applied',
           \A x \in Ops : ops'[x].state = "verified" => ops[x].state = "verified",
           \A q \in Procs, x \in Ops :
               exec'[q][x].pc = "answered" => exec'[q][x] = exec[q][x]
    PROVE  VerifiedIsApplied'
<1>1. \A x \in Ops : EffectApplied(x) => EffectApplied(x)'
  BY DEF EffectApplied
<1>2. \A x \in Ops : ops'[x].state = "verified" => EffectApplied(x)'
  BY <1>1 DEF OwnershipInv, VerifiedIsApplied
<1>3. \A q \in Procs, x \in Ops :
         exec'[q][x].pc = "answered"
            => /\ exec'[q][x].answer # "none"
               /\ exec'[q][x].answer = "verified" => EffectApplied(x)'
  BY <1>1 DEF OwnershipInv, VerifiedIsApplied, At
<1> QED
  BY <1>2, <1>3 DEF VerifiedIsApplied, At

LEMMA OwnersDiffer ==
    ASSUME NEW o \in Ops, NEW x \in Ops, NEW j \in Nat, NEW k \in Nat
    PROVE  /\ Owner(x, k) # Free
           /\ Owner(x, k).op = x /\ Owner(x, k).token = k
           /\ x # o => Owner(x, k) # Owner(o, j)
<1>1. Owner(x, k) \in [op : Ops, token : Nat]
  BY DEF Owner
<1>2. Owner(x, k).op = x /\ Owner(x, k).token = k /\ Owner(o, j).op = o
  BY DEF Owner
<1> QED
  BY <1>1, <1>2

\* An unresolved operation takes a target that is free or its own.
LEMMA TakenAgrees ==
    ASSUME TypeOK, TypeOK', OwnerAgrees, NEW o \in Ops, NEW old \in Nat,
           CanAcquire(o, old), target' = Acquired(o, ops'[o].token),
           ops'[o].state \in Unresolved,
           \A x \in Ops : x # o => ops'[x] = ops[x]
    PROVE  OwnerAgrees'
<1>1. TargetOf[o] \in Targets /\ target \in [Targets -> [op : Ops, token : Nat] \cup {Free}]
  BY DEF TypeOK
<1>2. \A x \in Ops : ops[x].token \in Nat /\ ops'[x].token \in Nat
  BY DEF TypeOK, OpRecord
<1>3. /\ target'[TargetOf[o]] = Owner(o, ops'[o].token)
      /\ \A t \in Targets : t # TargetOf[o] => target'[t] = target[t]
  BY <1>1 DEF Acquired
<1>4. target[TargetOf[o]] \in {Free, Owner(o, old)}
  BY DEF CanAcquire
<1>5. ASSUME NEW x \in Ops, ops'[x].state \in Unresolved
      PROVE  target'[TargetOf[x]] = Owner(x, ops'[x].token)
  <2>1. CASE x = o
    BY <1>3, <2>1
  <2>2. CASE x # o
    <3>1. target[TargetOf[x]] = Owner(x, ops[x].token)
      BY <1>5, <2>2 DEF OwnerAgrees
    <3>2. TargetOf[x] # TargetOf[o]
      BY <1>2, <1>4, <2>2, <3>1, OwnersDiffer
    <3>3. TargetOf[x] \in Targets
      OBVIOUS
    <3> QED
      BY <1>3, <2>2, <3>1, <3>2, <3>3
  <2> QED
    BY <2>1, <2>2
<1>6. ASSUME NEW t \in Targets, target'[t] # Free
      PROVE  /\ target'[t].op \in Ops
             /\ TargetOf[target'[t].op] = t
             /\ ops'[target'[t].op].state \in Unresolved
             /\ target'[t].token = ops'[target'[t].op].token
  <2>1. CASE t = TargetOf[o]
    <3>1. target'[t].op = o /\ target'[t].token = ops'[o].token
      BY <1>2, <1>3, <2>1, OwnersDiffer
    <3> QED
      BY <2>1, <3>1
  <2>2. CASE t # TargetOf[o]
    <3>1. target'[t] = target[t]
      BY <1>3, <2>2
    <3>2. /\ target[t].op \in Ops
          /\ TargetOf[target[t].op] = t
          /\ ops[target[t].op].state \in Unresolved
          /\ target[t].token = ops[target[t].op].token
      BY <1>6, <3>1 DEF OwnerAgrees
    <3>3. target[t].op # o
      BY <2>2, <3>2
    <3> QED
      BY <3>1, <3>2, <3>3
  <2> QED
    BY <2>1, <2>2
<1> QED
  BY <1>5, <1>6 DEF OwnerAgrees

\* An operation that is settled gives up the target it owned.
LEMMA GivenUpAgrees ==
    ASSUME TypeOK, OwnerAgrees, NEW o \in Ops, target' = Released(o),
           ops'[o].state \notin Unresolved,
           \A x \in Ops : x # o => ops'[x] = ops[x]
    PROVE  OwnerAgrees'
<1>1. TargetOf[o] \in Targets /\ target \in [Targets -> [op : Ops, token : Nat] \cup {Free}]
  BY DEF TypeOK
<1>2. \A x \in Ops : ops[x].token \in Nat
  BY DEF TypeOK, OpRecord
<1>3. /\ target[TargetOf[o]] = Owner(o, ops[o].token) => target'[TargetOf[o]] = Free
      /\ target[TargetOf[o]] # Owner(o, ops[o].token)
            => target'[TargetOf[o]] = target[TargetOf[o]]
      /\ \A t \in Targets : t # TargetOf[o] => target'[t] = target[t]
  BY <1>1 DEF Released
<1>4. ASSUME NEW x \in Ops, ops'[x].state \in Unresolved
      PROVE  target'[TargetOf[x]] = Owner(x, ops'[x].token)
  <2>1. x # o
    BY <1>4
  <2>2. target[TargetOf[x]] = Owner(x, ops[x].token) /\ TargetOf[x] \in Targets
    BY <1>4, <2>1 DEF OwnerAgrees
  <2>3. target[TargetOf[x]] # Owner(o, ops[o].token)
    BY <1>2, <2>1, <2>2, OwnersDiffer
  <2>4. target'[TargetOf[x]] = target[TargetOf[x]]
    BY <1>3, <2>2, <2>3
  <2> QED
    BY <2>1, <2>2, <2>4
<1>5. ASSUME NEW t \in Targets, target'[t] # Free
      PROVE  /\ target'[t].op \in Ops
             /\ TargetOf[target'[t].op] = t
             /\ ops'[target'[t].op].state \in Unresolved
             /\ target'[t].token = ops'[target'[t].op].token
  <2>1. target'[t] = target[t]
    BY <1>3, <1>5
  <2>2. /\ target[t].op \in Ops
        /\ TargetOf[target[t].op] = t
        /\ ops[target[t].op].state \in Unresolved
        /\ target[t].token = ops[target[t].op].token
    BY <1>5, <2>1 DEF OwnerAgrees
  <2>3. target[t].op # o
    <3>1. SUFFICES ASSUME target[t].op = o PROVE FALSE
      OBVIOUS
    <3>2. t = TargetOf[o] /\ ops[o].state \in Unresolved
      BY <2>2, <3>1
    <3>3. target[t] = Owner(o, ops[o].token)
      BY <3>2 DEF OwnerAgrees
    <3> QED
      BY <1>3, <1>5, <3>2, <3>3
  <2> QED
    BY <2>1, <2>2, <2>3
<1> QED
  BY <1>4, <1>5 DEF OwnerAgrees

\* A verified operation stays a proof.
LEMMA ProofKept ==
    ASSUME ProofAgrees,
           \A x \in Ops : /\ ops[x].state = "verified" => ops'[x].state = "verified"
                          /\ ops'[x].attempts > 0 => ops[x].attempts > 0
    PROVE  ProofAgrees'
<1>1. SUFFICES ASSUME NEW m \in Mutating, ops'[m].attempts > 0
      PROVE  \E v \in Ops \ Mutating :
                CandidateOf[v] = CandidateOf[m] /\ ops'[v].state = "verified"
  BY DEF ProofAgrees
<1>2. PICK v \in Ops \ Mutating :
         CandidateOf[v] = CandidateOf[m] /\ ops[v].state = "verified"
  BY <1>1 DEF ProofAgrees
<1> QED
  BY <1>2

-----------------------------------------------------------------------------
(* One lemma per kind of step.                                             *)

LEMMA OwnershipQuiet ==
    ASSUME OwnershipInv, NEW p \in Procs, NEW o \in Ops,
           \/ ExecuteOperation(p, o) \/ PreflightRefused(p, o) \/ DispatchRefused(p, o)
           \/ Spawn(p, o) \/ SpawnFails(p, o) \/ OpenGate(p, o) \/ StartFails(p, o)
           \/ Inspect(p, o) \/ Terminate(p, o) \/ Terminated(p, o) \/ TerminateFails(p, o)
           \/ ObserveStarts(p, o)
    PROVE  OwnershipInv'
<1>1. TypeOK
  BY DEF OwnershipInv
<1>2. /\ TypeOK'
      /\ exec'[p][o].pc # "answered"
      /\ \A q \in Procs, x \in Ops : q # p \/ x # o => exec'[q][x] = exec[q][x]
      /\ UNCHANGED <<records, serving, starts, intact, applied>>
  BY <1>1, QuietExecutor
<1>3. OwnerAgrees' /\ UnpreparedIsNew' /\ ProofAgrees'
  BY <1>2, QuietRecords DEF records
<1>4. \A q \in Procs, x \in Ops : exec'[q][x].pc = "answered" => exec'[q][x] = exec[q][x]
  BY <1>2
<1>5. VerifiedIsApplied'
  BY <1>2, <1>4, NothingNewVerified DEF records
<1> QED
  BY <1>2, <1>3, <1>5 DEF OwnershipInv

LEMMA OwnershipNoted ==
    ASSUME OwnershipInv, NEW p \in Procs, NEW o \in Ops,
           \/ ScopeStarting(p, o) \/ Enrol(p, o) \/ CleanedUp(p, o) \/ CommandReturns(p, o)
    PROVE  OwnershipInv'
<1>1. TypeOK
  BY DEF OwnershipInv
<1>2. /\ ops' \in [Ops -> OpRecord]
      /\ exec' \in [Procs -> [Ops -> ExecRecord]]
      /\ exec'[p][o].pc \in Dispatching \cup {"observing"}
      /\ \A q \in Procs, x \in Ops : q # p \/ x # o => exec'[q][x] = exec[q][x]
      /\ \A x \in Ops : /\ ops'[x].state = ops[x].state
                        /\ ops'[x].token = ops[x].token
                        /\ ops'[x].attempts = ops[x].attempts
      /\ \A x \in Ops : ops'[x] # ops[x]
            => x = o /\ (ops[o].state = "executing" \/ ops[o].unit # "none")
  BY <1>1, NotedTyped
<1>3. /\ UNCHANGED <<registered, grant, target, serving, starts, intact, applied>>
      /\ \/ UNCHANGED scope
         \/ ScopeIs(o, exec[p][o].attempt, "gone")
  BY DEF ScopeStarting, Enrol, CleanedUp, CommandReturns, world
<1>4. scope' \in [Ops -> [Attempts -> ScopePhases]]
  BY <1>1, <1>3, ScopeIsFacts DEF TypeOK, ScopePhases
<1>5. TypeOK'
  BY <1>1, <1>2, <1>3, <1>4, WritesTyped DEF TypeOK
<1>6. \A x \in Ops : ops[x].state = "none" => ops'[x] = ops[x]
  <2>1. ops[o].state = "none" => ops[o].unit = "none"
    BY DEF OwnershipInv, UnpreparedIsNew, NewOp
  <2> QED
    BY <1>2, <2>1
<1>7. OwnerAgrees' /\ UnpreparedIsNew' /\ ProofAgrees'
  BY <1>2, <1>3, <1>6, QuietRecords
<1>8. \A q \in Procs, x \in Ops : exec'[q][x].pc = "answered" => exec'[q][x] = exec[q][x]
  BY <1>2 DEF Dispatching
<1>9. VerifiedIsApplied'
  BY <1>2, <1>3, <1>8, NothingNewVerified
<1> QED
  BY <1>5, <1>7, <1>9 DEF OwnershipInv

LEMMA OwnershipReadBack ==
    ASSUME OwnershipInv, NEW p \in Procs, NEW o \in Ops, ReadBack(p, o)
    PROVE  OwnershipInv'
<1>1. TypeOK
  BY DEF OwnershipInv
<1>2. UNCHANGED <<records, serving, starts, world>>
  BY DEF ReadBack
<1>3. TypeOK'
  BY <1>1, <1>2, ReadBackTyped, ExecTyped
<1>4. OwnerAgrees' /\ UnpreparedIsNew' /\ ProofAgrees'
  BY <1>2, QuietRecords DEF records
<1>5. PICK state \in {"verified", "not_applied", "reconcile_required", "invalid"},
           settled \in {"yes", "no", "unsaid"} :
         /\ Truthful(o, state, settled)
         /\ Becomes(p, o, [exec[p][o] EXCEPT !.pc = "answered",
                               !.answer = Conclusion(p, o, state, settled)])
  BY DEF ReadBack
<1>6. exec[p][o] \in ExecRecord
  BY <1>1, RecordsTyped
<1>7. /\ exec'[p][o] = [exec[p][o] EXCEPT !.pc = "answered",
                            !.answer = Conclusion(p, o, state, settled)]
      /\ \A q \in Procs, x \in Ops : q # p \/ x # o => exec'[q][x] = exec[q][x]
  BY <1>1, <1>5 DEF Becomes, TypeOK
<1>8. exec'[p][o].answer = Conclusion(p, o, state, settled)
  BY <1>6, <1>7 DEF ExecRecord
<1>9. /\ exec'[p][o].answer # "none"
      /\ exec'[p][o].answer = "verified" => EffectApplied(o)
  BY <1>5, <1>8 DEF Conclusion, Truthful
<1>10. \A x \in Ops : EffectApplied(x)' = EffectApplied(x)
  BY <1>2 DEF EffectApplied, world
<1>11. VerifiedIsApplied'
  <2>1. \A x \in Ops : ops'[x].state = "verified" => EffectApplied(x)'
    BY <1>2, <1>10 DEF OwnershipInv, VerifiedIsApplied, records
  <2>2. \A q \in Procs, x \in Ops :
           exec'[q][x].pc = "answered"
            => /\ exec'[q][x].answer # "none"
               /\ exec'[q][x].answer = "verified" => EffectApplied(x)'
    <3>1. ASSUME NEW q \in Procs, NEW x \in Ops, exec'[q][x].pc = "answered"
          PROVE  /\ exec'[q][x].answer # "none"
                 /\ exec'[q][x].answer = "verified" => EffectApplied(x)'
      <4>1. CASE q = p /\ x = o
        BY <1>9, <1>10, <4>1
      <4>2. CASE q # p \/ x # o
        <5>1. exec'[q][x] = exec[q][x]
          BY <1>7, <4>2
        <5> QED
          BY <1>10, <3>1, <5>1 DEF OwnershipInv, VerifiedIsApplied, At
      <4> QED
        BY <4>1, <4>2
    <3> QED
      BY <3>1
  <2> QED
    BY <2>1, <2>2 DEF VerifiedIsApplied, At
<1> QED
  BY <1>3, <1>4, <1>11 DEF OwnershipInv

LEMMA OwnershipPrepare ==
    ASSUME OwnershipInv, NEW p \in Procs, NEW o \in Ops, NEW g \in Grants,
           PrepareOperation(p, o, g)
    PROVE  OwnershipInv'
<1>1. TypeOK /\ OwnerAgrees
  BY DEF OwnershipInv
<1>2. /\ TypeOK'
      /\ ops'[o] = [NewOp EXCEPT !.state = "prepared", !.grant = g, !.token = 1]
      /\ \A x \in Ops : x # o => ops'[x] = ops[x]
  BY <1>1, PreparedTyped
<1>3. ops'[o].state = "prepared" /\ ops'[o].token = 1 /\ ops'[o].attempts = 0
  BY <1>2 DEF NewOp
<1>4. /\ ops[o].state = "none"
      /\ CanAcquire(o, 1)
      /\ target' = Acquired(o, 1)
      /\ UNCHANGED <<exec, applied>>
  BY DEF PrepareOperation, world
<1>5. OwnerAgrees'
  BY <1>1, <1>2, <1>3, <1>4, TakenAgrees DEF Unresolved
<1>6. UnpreparedIsNew'
  BY <1>2, <1>3 DEF OwnershipInv, UnpreparedIsNew
<1>7. VerifiedIsApplied'
  BY <1>2, <1>3, <1>4, NothingNewVerified
<1>8. ProofAgrees'
  <2>1. \A x \in Ops : /\ ops[x].state = "verified" => ops'[x].state = "verified"
                       /\ ops'[x].attempts > 0 => ops[x].attempts > 0
    <3>1. ops[o].state # "verified" /\ ~(ops'[o].attempts > 0)
      BY <1>3, <1>4
    <3> QED
      BY <1>2, <3>1
  <2> QED
    BY <2>1, ProofKept DEF OwnershipInv
<1> QED
  BY <1>2, <1>5, <1>6, <1>7, <1>8 DEF OwnershipInv

LEMMA OwnershipRetry ==
    ASSUME OwnershipInv, NEW p \in Procs, NEW o \in Ops, RetryOperation(p, o)
    PROVE  OwnershipInv'
<1>1. TypeOK /\ OwnerAgrees
  BY DEF OwnershipInv
<1>2. /\ TypeOK'
      /\ ops'[o] = [ops[o] EXCEPT !.state = "prepared", !.token = ops[o].token + 1,
                                  !.result = "none", !.unit = "none"]
      /\ \A x \in Ops : x # o => ops'[x] = ops[x]
  BY <1>1, RetriedTyped
<1>3. ops[o] \in OpRecord /\ ops[o].token \in Nat
  BY <1>1, RecordsTyped DEF OpRecord
<1>4. /\ ops'[o].state = "prepared"
      /\ ops'[o].token = ops[o].token + 1
      /\ ops'[o].attempts = ops[o].attempts
  BY <1>2, <1>3 DEF OpRecord
<1>5. /\ ops[o].state = "not_applied"
      /\ CanAcquire(o, ops[o].token + 1)
      /\ target' = Acquired(o, ops[o].token + 1)
      /\ UNCHANGED <<exec, applied>>
  BY DEF RetryOperation, world
<1>6. OwnerAgrees'
  <2>1. ops[o].token + 1 \in Nat /\ ops'[o].state \in Unresolved
    BY <1>3, <1>4 DEF Unresolved
  <2>2. target' = Acquired(o, ops'[o].token)
    BY <1>4, <1>5
  <2> QED
    BY <1>1, <1>2, <1>5, <2>1, <2>2, TakenAgrees
<1>7. UnpreparedIsNew'
  BY <1>2, <1>4 DEF OwnershipInv, UnpreparedIsNew
<1>8. VerifiedIsApplied'
  BY <1>2, <1>4, <1>5, NothingNewVerified
<1>9. ProofAgrees'
  <2>1. \A x \in Ops : /\ ops[x].state = "verified" => ops'[x].state = "verified"
                       /\ ops'[x].attempts > 0 => ops[x].attempts > 0
    BY <1>2, <1>4, <1>5
  <2> QED
    BY <2>1, ProofKept DEF OwnershipInv
<1> QED
  BY <1>2, <1>6, <1>7, <1>8, <1>9 DEF OwnershipInv

LEMMA OwnershipCancel ==
    ASSUME OwnershipInv, NEW p \in Procs, NEW o \in Ops, CancelOperation(p, o)
    PROVE  OwnershipInv'
<1>1. TypeOK /\ OwnerAgrees
  BY DEF OwnershipInv
<1>2. /\ TypeOK'
      /\ ops'[o].state = IF ops[o].state \in {"prepared", "not_applied"}
                         THEN "cancelled" ELSE ops[o].state
      /\ ops'[o].token = ops[o].token
      /\ ops'[o].attempts = ops[o].attempts
      /\ \A x \in Ops : x # o => ops'[x] = ops[x]
  BY <1>1, CancelledTyped
<1>3. /\ ops[o].state \notin {"none", "cancelled", "verified"}
      /\ UNCHANGED <<exec, applied>>
      /\ IF ops[o].state \in {"prepared", "not_applied"}
         THEN target' = Released(o) ELSE UNCHANGED target
  BY DEF CancelOperation, world
<1>4. VerifiedIsApplied'
  BY <1>2, <1>3, NothingNewVerified
<1>5. CASE ops[o].state \in {"prepared", "not_applied"}
  <2>1. ops'[o].state = "cancelled" /\ target' = Released(o)
    BY <1>2, <1>3, <1>5
  <2>2. OwnerAgrees'
    BY <1>1, <1>2, <2>1, GivenUpAgrees DEF Unresolved
  <2>3. UnpreparedIsNew'
    BY <1>2, <2>1 DEF OwnershipInv, UnpreparedIsNew
  <2>4. ProofAgrees'
    BY <1>2, <1>3, <2>1 DEF OwnershipInv, ProofAgrees
  <2> QED
    BY <1>2, <1>4, <2>2, <2>3, <2>4 DEF OwnershipInv
<1>6. CASE ops[o].state \notin {"prepared", "not_applied"}
  <2>1. OwnerAgrees' /\ UnpreparedIsNew' /\ ProofAgrees'
    BY <1>2, <1>3, <1>6, QuietRecords
  <2> QED
    BY <1>2, <1>4, <2>1 DEF OwnershipInv
<1> QED
  BY <1>5, <1>6

LEMMA OwnershipDispatch ==
    ASSUME OwnershipInv, NEW p \in Procs, NEW o \in Ops, Dispatch(p, o)
    PROVE  OwnershipInv'
<1>1. TypeOK /\ OwnerAgrees
  BY DEF OwnershipInv
<1>2. TypeOK'
  BY <1>1, DispatchTyped
<1>3. /\ ops[o] \in OpRecord /\ ops[o].token \in Nat
      /\ [ops[o] EXCEPT !.state = "executing", !.attempts = ops[o].attempts + 1] \in OpRecord
  <2>1. ops[o] \in OpRecord /\ ops[o].attempts + 1 \in 0..MaxAttempts /\ ops[o].token \in Nat
    BY <1>1, RecordsTyped DEF Dispatch, OpRecord
  <2> QED
    BY <2>1 DEF OpRecord, OpStates
<1>4. Saved(o, [ops[o] EXCEPT !.state = "executing", !.attempts = ops[o].attempts + 1])
  BY DEF Dispatch
<1>5. /\ ops'[o] = [ops[o] EXCEPT !.state = "executing", !.attempts = ops[o].attempts + 1]
      /\ \A x \in Ops : x # o => ops'[x] = ops[x]
  BY <1>1, <1>3, <1>4, SavedFacts DEF TypeOK
<1>6. ops'[o].state = "executing" /\ ops'[o].token = ops[o].token
  BY <1>3, <1>5 DEF OpRecord
<1>7. /\ ops[o].state = "prepared"
      /\ CanAcquire(o, ops[o].token)
      /\ ArtifactVerified(o)
      /\ target' = Acquired(o, ops[o].token)
      /\ UNCHANGED applied
  BY DEF Dispatch, MayDispatch, world
<1>8. exec' = [exec EXCEPT ![p] = [exec[p] EXCEPT ![o] =
                  [Idle EXCEPT !.pc = "dispatched", !.token = ops[o].token,
                               !.attempt = ops[o].attempts + 1]]]
  BY DEF Dispatch, Becomes
<1>9. \A q \in Procs, x \in Ops : exec'[q][x].pc = "answered" => exec'[q][x] = exec[q][x]
  <2>1. exec'[p][o].pc = "dispatched"
    BY <1>1, <1>8 DEF TypeOK, Idle
  <2>2. \A q \in Procs, x \in Ops : q # p \/ x # o => exec'[q][x] = exec[q][x]
    BY <1>1, <1>8 DEF TypeOK
  <2> QED
    BY <2>1, <2>2
<1>10. OwnerAgrees'
  <2>1. ops'[o].state \in Unresolved /\ target' = Acquired(o, ops'[o].token)
    BY <1>6, <1>7 DEF Unresolved
  <2> QED
    BY <1>1, <1>2, <1>3, <1>5, <1>7, <2>1, TakenAgrees
<1>11. UnpreparedIsNew'
  BY <1>5, <1>6 DEF OwnershipInv, UnpreparedIsNew
<1>12. VerifiedIsApplied'
  BY <1>5, <1>6, <1>7, <1>9, NothingNewVerified
<1>13. ProofAgrees'
  <2>1. SUFFICES ASSUME NEW m \in Mutating, ops'[m].attempts > 0
        PROVE  \E v \in Ops \ Mutating :
                  CandidateOf[v] = CandidateOf[m] /\ ops'[v].state = "verified"
    BY DEF ProofAgrees
  <2>2. \E v \in Ops \ Mutating :
           CandidateOf[v] = CandidateOf[m] /\ ops[v].state = "verified"
    <3>1. CASE m = o
      BY <1>7, <3>1 DEF ArtifactVerified
    <3>2. CASE m # o
      BY <1>5, <2>1, <3>2 DEF OwnershipInv, ProofAgrees
    <3> QED
      BY <3>1, <3>2
  <2>3. PICK v \in Ops \ Mutating :
           CandidateOf[v] = CandidateOf[m] /\ ops[v].state = "verified"
    BY <2>2
  <2>4. v # o
    BY <1>7, <2>3
  <2> QED
    BY <1>5, <2>3, <2>4
<1> QED
  BY <1>2, <1>10, <1>11, <1>12, <1>13 DEF OwnershipInv

LEMMA OwnershipObserved ==
    ASSUME OwnershipInv, NEW p \in Procs, NEW o \in Ops, Observed(p, o)
    PROVE  OwnershipInv'
<1>1. TypeOK /\ OwnerAgrees
  BY DEF OwnershipInv
<1>2. /\ TypeOK'
      /\ exec'[p][o] = Idle
      /\ \A q \in Procs, x \in Ops : q # p \/ x # o => exec'[q][x] = exec[q][x]
      /\ \A x \in Ops : x # o => ops'[x] = ops[x]
  BY <1>1, ObservedTyped
<1>3. \/ UNCHANGED <<ops, target>>
      \/ \E outcome \in {exec[p][o].answer, "reconcile_required"} :
            /\ MayConclude(p, o)
            /\ ops'[o] = [ops[o] EXCEPT !.state = outcome]
            /\ outcome \in OpStates
            /\ target' = IF outcome = "reconcile_required" THEN target ELSE Released(o)
  BY <1>1, ObservedTyped
<1>4. UNCHANGED applied /\ At(p, o, "answered")
  BY DEF Observed, world
<1>5. \A q \in Procs, x \in Ops : exec'[q][x].pc = "answered" => exec'[q][x] = exec[q][x]
  BY <1>2 DEF Idle
<1>6. CASE UNCHANGED <<ops, target>>
  <2>1. OwnerAgrees' /\ UnpreparedIsNew' /\ ProofAgrees'
    BY <1>6, QuietRecords
  <2>2. VerifiedIsApplied'
    BY <1>4, <1>5, <1>6, NothingNewVerified
  <2> QED
    BY <1>2, <2>1, <2>2 DEF OwnershipInv
<1>7. ASSUME NEW outcome \in {exec[p][o].answer, "reconcile_required"},
             MayConclude(p, o),
             ops'[o] = [ops[o] EXCEPT !.state = outcome],
             target' = IF outcome = "reconcile_required" THEN target ELSE Released(o)
      PROVE  OwnershipInv'
  <2>1. ops[o] \in OpRecord /\ exec[p][o] \in ExecRecord
    BY <1>1, RecordsTyped
  <2>2. /\ ops'[o].state = outcome
        /\ ops'[o].token = ops[o].token
        /\ ops'[o].attempts = ops[o].attempts
    BY <1>7, <2>1 DEF OpRecord
  <2>3. /\ ops[o].state \in {"executing", "reconcile_required"}
        /\ target[TargetOf[o]] = Owner(o, ops[o].token)
    BY <1>7 DEF MayConclude
  <2>4. outcome \in {"verified", "not_applied", "reconcile_required"}
    <3>1. exec[p][o].answer \in {"verified", "not_applied", "reconcile_required"}
      BY <1>4, <2>1 DEF OwnershipInv, VerifiedIsApplied, ExecRecord
    <3> QED
      BY <1>7, <3>1
  <2>5. OwnerAgrees'
    <3>1. CASE outcome = "reconcile_required"
      <4>1. target' = target
        BY <1>7, <3>1
      <4>2. \A x \in Ops : ops'[x].token = ops[x].token
                           /\ (ops'[x].state \in Unresolved <=> ops[x].state \in Unresolved)
        BY <1>2, <2>2, <2>3, <3>1 DEF Unresolved
      <4> QED
        BY <1>1, <4>1, <4>2 DEF OwnerAgrees, Owner
    <3>2. CASE outcome # "reconcile_required"
      BY <1>1, <1>2, <1>7, <2>2, <2>4, <3>2, GivenUpAgrees DEF Unresolved
    <3> QED
      BY <3>1, <3>2
  <2>6. UnpreparedIsNew'
    BY <1>2, <2>2, <2>4 DEF OwnershipInv, UnpreparedIsNew
  <2>7. VerifiedIsApplied'
    <3>1. outcome = "verified" => EffectApplied(o)
      BY <1>4, <1>7 DEF OwnershipInv, VerifiedIsApplied
    <3>2. \A x \in Ops : EffectApplied(x)' = EffectApplied(x)
      BY <1>4 DEF EffectApplied
    <3>3. \A x \in Ops : ops'[x].state = "verified" => EffectApplied(x)'
      BY <1>2, <2>2, <3>1, <3>2 DEF OwnershipInv, VerifiedIsApplied
    <3>4. \A q \in Procs, x \in Ops :
             exec'[q][x].pc = "answered"
            => /\ exec'[q][x].answer # "none"
               /\ exec'[q][x].answer = "verified" => EffectApplied(x)'
      BY <1>5, <3>2 DEF OwnershipInv, VerifiedIsApplied, At
    <3> QED
      BY <3>3, <3>4 DEF VerifiedIsApplied, At
  <2>8. ProofAgrees'
    <3>1. \A x \in Ops : /\ ops[x].state = "verified" => ops'[x].state = "verified"
                         /\ ops'[x].attempts > 0 => ops[x].attempts > 0
      BY <1>2, <2>2, <2>3
    <3> QED
      BY <3>1, ProofKept DEF OwnershipInv
  <2> QED
    BY <1>2, <2>5, <2>6, <2>7, <2>8 DEF OwnershipInv
<1> QED
  BY <1>3, <1>6, <1>7

\* A restart gives the operations in flight, and the targets they own, the next
\* token.
LEMMA OwnershipStart ==
    ASSUME OwnershipInv, NEW p \in Procs, Start(p)
    PROVE  OwnershipInv'
<1>1. TypeOK /\ OwnerAgrees
  BY DEF OwnershipInv
<1>2. /\ TypeOK'
      /\ \A o \in Ops : ops'[o] =
            IF ops[o].state = "executing"
            THEN [ops[o] EXCEPT !.state = "reconcile_required", !.token = ops[o].token + 1]
            ELSE ops[o]
  BY <1>1, StartTyped
<1>3. \A o \in Ops : ops[o] \in OpRecord /\ ops[o].token \in Nat
  BY <1>1 DEF TypeOK, OpRecord
<1>4. \A o \in Ops :
         /\ ops[o].state = "executing"
               => /\ ops'[o].state = "reconcile_required"
                  /\ ops'[o].token = ops[o].token + 1
                  /\ ops'[o].attempts = ops[o].attempts
         /\ ops[o].state # "executing" => ops'[o] = ops[o]
  BY <1>2, <1>3 DEF OpRecord
<1>5. UNCHANGED <<exec, applied>>
  BY DEF Start, world
<1>6. \A t \in Targets : target'[t] = RecoveredOwner(t)
  BY DEF Start
<1>7. ASSUME NEW o \in Ops, ops[o].state \in Unresolved
      PROVE  target'[TargetOf[o]] = Owner(o, ops'[o].token)
  <2>1. target[TargetOf[o]] = Owner(o, ops[o].token) /\ TargetOf[o] \in Targets
    BY <1>1, <1>7 DEF OwnerAgrees
  <2>2. target'[TargetOf[o]] = RecoveredOwner(TargetOf[o])
    BY <1>6, <2>1
  <2>3. CASE ops[o].state = "executing"
    <3>1. target'[TargetOf[o]] = [Owner(o, ops[o].token) EXCEPT !.token = @ + 1]
      BY <2>1, <2>2, <2>3 DEF RecoveredOwner, Interrupted
    <3> QED
      BY <1>4, <2>3, <3>1 DEF Owner
  <2>4. CASE ops[o].state # "executing"
    <3>1. ASSUME NEW x \in Interrupted,
                 target[TargetOf[o]] = Owner(x, ops[x].token)
          PROVE  FALSE
      <4>1. x \in Ops /\ ops[x].state = "executing"
        BY DEF Interrupted
      <4>2. x # o
        BY <2>4, <4>1
      <4>3. Owner(x, ops[x].token) # Owner(o, ops[o].token)
        BY <1>3, <4>1, <4>2, OwnersDiffer
      <4> QED
        BY <2>1, <3>1, <4>3
    <3>2. target'[TargetOf[o]] = target[TargetOf[o]]
      BY <2>2, <3>1 DEF RecoveredOwner
    <3> QED
      BY <1>4, <2>1, <2>4, <3>2
  <2> QED
    BY <2>3, <2>4
<1>8. \A o \in Ops : ops'[o].state \in Unresolved <=> ops[o].state \in Unresolved
  BY <1>4 DEF Unresolved
<1>9. ASSUME NEW t \in Targets, target'[t] # Free
      PROVE  /\ target'[t].op \in Ops
             /\ TargetOf[target'[t].op] = t
             /\ ops'[target'[t].op].state \in Unresolved
             /\ target'[t].token = ops'[target'[t].op].token
  <2>1. target[t] # Free
    <3>1. SUFFICES ASSUME target[t] = Free PROVE FALSE
      OBVIOUS
    <3>2. ASSUME NEW x \in Interrupted, target[t] = Owner(x, ops[x].token) PROVE FALSE
      BY <1>3, <3>1, <3>2, OwnersDiffer DEF Interrupted
    <3>3. target'[t] = target[t]
      BY <1>6, <3>2 DEF RecoveredOwner
    <3> QED
      BY <1>9, <3>1, <3>3
  <2>2. PICK o \in Ops : TargetOf[o] = t /\ ops[o].state \in Unresolved
    BY <1>1, <2>1 DEF OwnerAgrees
  <2>3. target'[t] = Owner(o, ops'[o].token)
    BY <1>7, <2>2
  <2>4. ops'[o].token \in Nat
    BY <1>2 DEF TypeOK, OpRecord
  <2>5. target'[t].op = o /\ target'[t].token = ops'[o].token
    BY <2>3, <2>4, OwnersDiffer
  <2> QED
    BY <1>8, <2>2, <2>5
<1>10. OwnerAgrees'
  BY <1>7, <1>8, <1>9 DEF OwnerAgrees
<1>11. UnpreparedIsNew'
  BY <1>4 DEF OwnershipInv, UnpreparedIsNew
<1>12. VerifiedIsApplied'
  BY <1>4, <1>5, NothingNewVerified
<1>13. ProofAgrees'
  <2>1. \A x \in Ops : /\ ops[x].state = "verified" => ops'[x].state = "verified"
                       /\ ops'[x].attempts > 0 => ops[x].attempts > 0
    BY <1>4
  <2> QED
    BY <2>1, ProofKept DEF OwnershipInv
<1> QED
  BY <1>2, <1>10, <1>11, <1>12, <1>13 DEF OwnershipInv

\* The steps that write no operation and no target, and their types.
LEMMA OwnershipWorld ==
    ASSUME OwnershipInv, TypeOK', UNCHANGED <<ops, target>>, applied \subseteq applied',
           \A q \in Procs, x \in Ops : exec'[q][x].pc = "answered" => exec'[q][x] = exec[q][x]
    PROVE  OwnershipInv'
<1>1. OwnerAgrees' /\ UnpreparedIsNew' /\ ProofAgrees'
  BY QuietRecords
<1>2. VerifiedIsApplied'
  BY NothingNewVerified
<1> QED
  BY <1>1, <1>2 DEF OwnershipInv

LEMMA OwnershipRest ==
    ASSUME OwnershipInv,
           \/ \E p \in Procs :
                 \/ StopServing(p) \/ ProcessEnds(p)
                 \/ \E c \in Candidates : Register(p, c)
                 \/ \E g \in Grants : GrantAuthorization(p, g) \/ RevokeAuthorization(p, g)
           \/ Environment
           \/ UNCHANGED vars
    PROVE  OwnershipInv'
<1>1. TypeOK
  BY DEF OwnershipInv
<1>2. ASSUME NEW p \in Procs, StopServing(p) PROVE OwnershipInv'
  <2>1. TypeOK'
    BY <1>1, <1>2 DEF StopServing, TypeOK, records, world
  <2> QED
    BY <1>2, <2>1, OwnershipWorld DEF StopServing, records, world
<1>3. ASSUME NEW p \in Procs, ProcessEnds(p) PROVE OwnershipInv'
  <2>1. /\ UNCHANGED <<records, starts, world>>
        /\ serving' \in {serving, NoProc}
        /\ exec' = [exec EXCEPT ![p] = [o \in Ops |-> Idle]]
    BY <1>3 DEF ProcessEnds
  <2>2. exec' \in [Procs -> [Ops -> ExecRecord]]
    BY <1>1, <2>1, IdleFacts DEF TypeOK
  <2>3. TypeOK'
    BY <1>1, <2>1, <2>2 DEF TypeOK, records, world
  <2>4. \A q \in Procs, x \in Ops : exec'[q][x].pc = "answered" => exec'[q][x] = exec[q][x]
    BY <1>1, <2>1 DEF TypeOK, Idle
  <2> QED
    BY <2>1, <2>3, <2>4, OwnershipWorld DEF records, world
<1>4. ASSUME NEW p \in Procs, NEW c \in Candidates, Register(p, c) PROVE OwnershipInv'
  <2>1. TypeOK'
    BY <1>1, <1>4 DEF Register, TypeOK, world
  <2> QED
    BY <1>4, <2>1, OwnershipWorld DEF Register, world
<1>5. ASSUME NEW p \in Procs, NEW g \in Grants,
             GrantAuthorization(p, g) \/ RevokeAuthorization(p, g)
      PROVE  OwnershipInv'
  <2>1. TypeOK'
    BY <1>1, <1>5 DEF GrantAuthorization, RevokeAuthorization, TypeOK, world
  <2> QED
    BY <1>5, <2>1, OwnershipWorld DEF GrantAuthorization, RevokeAuthorization, world
<1>6. ASSUME NEW g \in Grants, Expire(g) PROVE OwnershipInv'
  <2>1. TypeOK'
    BY <1>1, <1>6 DEF Expire, TypeOK, world
  <2> QED
    BY <1>6, <2>1, OwnershipWorld DEF Expire, world
<1>7. ASSUME NEW o \in Ops, NEW k \in Attempts, GateReady(o, k) \/ ScopeEnds(o, k)
      PROVE  OwnershipInv'
  <2>1. \E phase \in ScopePhases : ScopeIs(o, k, phase)
    BY <1>7 DEF GateReady, ScopeEnds, ScopePhases
  <2>2. scope' \in [Ops -> [Attempts -> ScopePhases]]
    BY <1>1, <2>1, ScopeIsFacts DEF TypeOK
  <2>3. UNCHANGED <<records, serving, exec, starts, intact, applied>>
    BY <1>7 DEF GateReady, ScopeEnds
  <2>4. TypeOK'
    BY <1>1, <2>2, <2>3 DEF TypeOK, records
  <2> QED
    BY <2>3, <2>4, OwnershipWorld DEF records
<1>8. ASSUME NEW o \in Ops, NEW k \in Attempts, EffectApplies(o, k) PROVE OwnershipInv'
  <2>1. TypeOK'
    BY <1>1, <1>8 DEF EffectApplies, TypeOK, records
  <2> QED
    BY <1>8, <2>1, OwnershipWorld DEF EffectApplies, records
<1>9. ASSUME NEW c \in Drifting, Drift(c) PROVE OwnershipInv'
  <2>1. TypeOK'
    BY <1>1, <1>9 DEF Drift, TypeOK, records
  <2> QED
    BY <1>9, <2>1, OwnershipWorld DEF Drift, records
<1>10. ASSUME UNCHANGED vars PROVE OwnershipInv'
  <2>1. TypeOK'
    BY <1>1, <1>10 DEF vars, TypeOK, records, world
  <2> QED
    BY <1>10, <2>1, OwnershipWorld DEF vars, records, world
<1> QED
  BY <1>2, <1>3, <1>4, <1>5, <1>6, <1>7, <1>8, <1>9, <1>10 DEF Environment

LEMMA OwnershipStep == OwnershipInv /\ [Next]_vars => OwnershipInv'
<1> SUFFICES ASSUME OwnershipInv, [Next]_vars PROVE OwnershipInv'
  OBVIOUS
<1>1. ASSUME NEW p \in Procs, NEW o \in Ops, Executor(p, o) PROVE OwnershipInv'
  BY <1>1, OwnershipQuiet, OwnershipNoted, OwnershipReadBack, OwnershipDispatch, OwnershipObserved
  DEF Executor
<1>2. ASSUME NEW p \in Procs, Request(p) PROVE OwnershipInv'
  BY <1>2, OwnershipRest, OwnershipPrepare, OwnershipRetry, OwnershipCancel, OwnershipQuiet
  DEF Request
<1> QED
  BY <1>1, <1>2, OwnershipStart, OwnershipRest DEF Next

-----------------------------------------------------------------------------
(* The theorems.                                                           *)

\* Target rows, unresolved operations, permissions and proofs of verification agree
\* at every moment of every behaviour.
THEOREM OwnershipAlways == Spec => []OwnershipInv
  BY OwnershipInit, OwnershipStep, PTL DEF Spec

\* Every variable keeps its type: a target has at most one owner, and every
\* process at most one executor of an operation.
THEOREM TypeCorrect == Spec => []TypeOK
<1>1. OwnershipInv => TypeOK
  BY DEF OwnershipInv
<1> QED
  BY <1>1, OwnershipAlways, PTL

LEMMA OwnersFence == OwnershipInv => TargetsAreFenced
<1> SUFFICES ASSUME OwnershipInv, NEW t \in Targets
    PROVE  LET unresolved == {o \in Ops : TargetOf[o] = t /\ ops[o].state \in Unresolved} IN
           IF target[t] = Free THEN unresolved = {}
           ELSE unresolved = {target[t].op} /\ target[t].token = ops[target[t].op].token
  BY DEF TargetsAreFenced
<1>1. \A o \in Ops : ops[o].token \in Nat
  BY DEF OwnershipInv, TypeOK, OpRecord
<1>2. \A o \in Ops : TargetOf[o] = t /\ ops[o].state \in Unresolved
         => target[t] # Free /\ target[t].op = o
  BY <1>1, OwnersDiffer DEF OwnershipInv, OwnerAgrees
<1>3. target[t] # Free
         => /\ target[t].op \in Ops
            /\ TargetOf[target[t].op] = t
            /\ ops[target[t].op].state \in Unresolved
            /\ target[t].token = ops[target[t].op].token
  BY DEF OwnershipInv, OwnerAgrees
<1> QED
  BY <1>2, <1>3

\* Under every interleaving of executors, reconciliations, retries, restarts and
\* overlapping daemon processes, a target is owned exactly by its one unresolved
\* operation, under the current token.
THEOREM TargetOwnership == Spec => []TargetsAreFenced
  BY OwnersFence, OwnershipAlways, PTL

LEMMA ProofIsApplied == OwnershipInv => MutationFollowsVerification
  BY DEF OwnershipInv, ProofAgrees, VerifiedIsApplied, MutationFollowsVerification

\* No mutation was ever dispatched without a verification of the same candidate
\* that really took place.
THEOREM MutationIsProved == Spec => []MutationFollowsVerification
  BY ProofIsApplied, OwnershipAlways, PTL

-----------------------------------------------------------------------------
(* What no step does.                                                      *)

OutcomeKept(x) ==
    /\ ops[x].state \in {"verified", "cancelled"} => ops'[x].state = ops[x].state
    /\ ops[x].cancelled => ops'[x].cancelled /\ ops'[x].attempts = ops[x].attempts

PermissionAsked(x) ==
    ops'[x].attempts # ops[x].attempts => Authorized(x, ops[x].grant) /\ CandidateVerifies(x)

LEMMA SameRecord ==
    ASSUME NEW x \in Ops, ops'[x] = ops[x] PROVE OutcomeKept(x) /\ PermissionAsked(x)
  BY DEF OutcomeKept, PermissionAsked

\* The one operation a request or an executor writes to.
LEMMA WrittenRecord ==
    ASSUME OwnershipInv, NEW p \in Procs, NEW o \in Ops,
           \/ \E g \in Grants : PrepareOperation(p, o, g)
           \/ RetryOperation(p, o) \/ CancelOperation(p, o)
           \/ Dispatch(p, o) \/ Observed(p, o)
    PROVE  \A x \in Ops : OutcomeKept(x) /\ PermissionAsked(x)
<1>1. TypeOK
  BY DEF OwnershipInv
<1>2. ops[o] \in OpRecord
  BY <1>1, RecordsTyped
<1>3. SUFFICES ASSUME TRUE
      PROVE  /\ \A x \in Ops : x # o => ops'[x] = ops[x]
             /\ OutcomeKept(o) /\ PermissionAsked(o)
  BY SameRecord
<1>4. ASSUME NEW g \in Grants, PrepareOperation(p, o, g)
      PROVE  /\ \A x \in Ops : x # o => ops'[x] = ops[x]
             /\ OutcomeKept(o) /\ PermissionAsked(o)
  <2>1. /\ ops'[o] = [NewOp EXCEPT !.state = "prepared", !.grant = g, !.token = 1]
        /\ \A x \in Ops : x # o => ops'[x] = ops[x]
    BY <1>1, <1>4, PreparedTyped
  <2>2. ops[o] = NewOp
    BY <1>4 DEF PrepareOperation, OwnershipInv, UnpreparedIsNew
  <2>3. ~ops[o].cancelled /\ ops[o].state = "none" /\ ops[o].attempts = 0
    BY <2>2 DEF NewOp
  <2>4. ops'[o].attempts = 0
    BY <2>1 DEF NewOp
  <2> QED
    BY <2>1, <2>3, <2>4 DEF OutcomeKept, PermissionAsked
<1>5. CASE RetryOperation(p, o)
  <2>1. /\ ops'[o] = [ops[o] EXCEPT !.state = "prepared", !.token = ops[o].token + 1,
                                    !.result = "none", !.unit = "none"]
        /\ \A x \in Ops : x # o => ops'[x] = ops[x]
    BY <1>1, <1>5, RetriedTyped
  <2>2. ops'[o].attempts = ops[o].attempts
    BY <1>2, <2>1 DEF OpRecord
  <2>3. ~ops[o].cancelled /\ ops[o].state = "not_applied"
    BY <1>5 DEF RetryOperation
  <2> QED
    BY <2>1, <2>2, <2>3 DEF OutcomeKept, PermissionAsked
<1>6. CASE CancelOperation(p, o)
  <2>1. /\ ops'[o].attempts = ops[o].attempts
        /\ ops'[o].cancelled
        /\ \A x \in Ops : x # o => ops'[x] = ops[x]
    BY <1>1, <1>6, CancelledTyped
  <2>2. ops[o].state \notin {"verified", "cancelled"}
    BY <1>6 DEF CancelOperation
  <2> QED
    BY <2>1, <2>2 DEF OutcomeKept, PermissionAsked
<1>7. CASE Dispatch(p, o)
  <2>1. /\ ops[o].state = "prepared" /\ ~ops[o].cancelled
        /\ Authorized(o, ops[o].grant) /\ CandidateVerifies(o)
    BY <1>7 DEF Dispatch, MayDispatch
  <2>2. \A x \in Ops : x # o => ops'[x] = ops[x]
    BY <1>1, <1>7 DEF Dispatch, Saved, TypeOK
  <2> QED
    BY <2>1, <2>2 DEF OutcomeKept, PermissionAsked
<1>8. CASE Observed(p, o)
  <2>1. /\ \A x \in Ops : x # o => ops'[x] = ops[x]
        /\ \/ UNCHANGED <<ops, target>>
           \/ \E outcome \in {exec[p][o].answer, "reconcile_required"} :
                 /\ MayConclude(p, o)
                 /\ ops'[o] = [ops[o] EXCEPT !.state = outcome]
                 /\ outcome \in OpStates
                 /\ target' = IF outcome = "reconcile_required" THEN target ELSE Released(o)
    BY <1>1, <1>8, ObservedTyped
  <2>2. CASE UNCHANGED ops
    BY <2>2, SameRecord
  <2>3. ASSUME NEW outcome \in {exec[p][o].answer, "reconcile_required"},
               MayConclude(p, o), ops'[o] = [ops[o] EXCEPT !.state = outcome]
        PROVE  OutcomeKept(o) /\ PermissionAsked(o)
    <3>1. ops'[o].attempts = ops[o].attempts /\ ops'[o].cancelled = ops[o].cancelled
      BY <1>2, <2>3 DEF OpRecord
    <3>2. ops[o].state \notin {"verified", "cancelled"}
      BY <2>3 DEF MayConclude
    <3> QED
      BY <3>1, <3>2 DEF OutcomeKept, PermissionAsked
  <2> QED
    BY <2>1, <2>2, <2>3
<1> QED
  BY <1>4, <1>5, <1>6, <1>7, <1>8

LEMMA StartedRecords ==
    ASSUME OwnershipInv, NEW p \in Procs, Start(p)
    PROVE  \A x \in Ops : OutcomeKept(x) /\ PermissionAsked(x)
<1>1. \A x \in Ops : ops[x] \in OpRecord /\ ops'[x] =
         IF ops[x].state = "executing"
         THEN [ops[x] EXCEPT !.state = "reconcile_required", !.token = ops[x].token + 1]
         ELSE ops[x]
  BY StartTyped, RecordsTyped DEF OwnershipInv
<1>2. \A x \in Ops : /\ ops'[x].attempts = ops[x].attempts
                     /\ ops'[x].cancelled = ops[x].cancelled
                     /\ ops[x].state # "executing" => ops'[x].state = ops[x].state
  BY <1>1 DEF OpRecord
<1> QED
  BY <1>2 DEF OutcomeKept, PermissionAsked

LEMMA StepKeeps ==
    OwnershipInv /\ [Next]_vars => \A x \in Ops : OutcomeKept(x) /\ PermissionAsked(x)
<1> SUFFICES ASSUME OwnershipInv, [Next]_vars
    PROVE  \A x \in Ops : OutcomeKept(x) /\ PermissionAsked(x)
  OBVIOUS
<1>0. TypeOK
  BY DEF OwnershipInv
<1>1. UNCHANGED ops => \A x \in Ops : OutcomeKept(x) /\ PermissionAsked(x)
  BY SameRecord
<1>2. ASSUME NEW p \in Procs, NEW o \in Ops, Executor(p, o)
      PROVE  \A x \in Ops : OutcomeKept(x) /\ PermissionAsked(x)
  <2>1. CASE ScopeStarting(p, o) \/ Enrol(p, o) \/ CleanedUp(p, o) \/ CommandReturns(p, o)
    BY <1>0, <2>1, NotedTyped DEF OutcomeKept, PermissionAsked
  <2>2. CASE Dispatch(p, o) \/ Observed(p, o)
    BY <2>2, WrittenRecord
  <2>3. CASE ReadBack(p, o)
    BY <1>1, <2>3 DEF ReadBack, records
  <2>4. CASE ~(\/ ScopeStarting(p, o) \/ Enrol(p, o) \/ CleanedUp(p, o) \/ CommandReturns(p, o)
               \/ Dispatch(p, o) \/ Observed(p, o) \/ ReadBack(p, o))
    BY <1>0, <1>1, <1>2, <2>4, QuietExecutor DEF Executor, records
  <2> QED
    BY <2>1, <2>2, <2>3, <2>4
<1>3. ASSUME NEW p \in Procs, Request(p)
      PROVE  \A x \in Ops : OutcomeKept(x) /\ PermissionAsked(x)
  <2>1. ASSUME NEW o \in Ops, ExecuteOperation(p, o) \/ Inspect(p, o) \/ Terminate(p, o)
        PROVE  UNCHANGED ops
    BY <1>0, <2>1, QuietExecutor DEF records
  <2>2. ASSUME NEW o \in Ops,
               \/ \E g \in Grants : PrepareOperation(p, o, g)
               \/ RetryOperation(p, o) \/ CancelOperation(p, o)
        PROVE  \A x \in Ops : OutcomeKept(x) /\ PermissionAsked(x)
    BY <2>2, WrittenRecord
  <2>3. ASSUME \/ \E c \in Candidates : Register(p, c)
               \/ \E g \in Grants : GrantAuthorization(p, g) \/ RevokeAuthorization(p, g)
        PROVE  UNCHANGED ops
    BY <2>3 DEF Register, GrantAuthorization, RevokeAuthorization
  <2> QED
    BY <1>1, <1>3, <2>1, <2>2, <2>3 DEF Request
<1>4. ASSUME \/ Environment \/ UNCHANGED vars
             \/ \E p \in Procs : StopServing(p) \/ ProcessEnds(p)
      PROVE  UNCHANGED ops
  BY <1>4 DEF Environment, GateReady, ScopeEnds, EffectApplies, Expire, Drift, StopServing,
              ProcessEnds, vars, records
<1> QED
  BY <1>1, <1>2, <1>3, <1>4, StartedRecords DEF Next

\* No step, however late its handler, changes a verified or cancelled operation
\* or dispatches one whose cancellation was requested.
THEOREM OutcomesStayFinal == Spec => OutcomesAreFinal
<1>1. OwnershipInv /\ [Next]_vars
         => [\A o \in Ops :
               /\ ops[o].state \in {"verified", "cancelled"} => ops'[o].state = ops[o].state
               /\ ops[o].cancelled
                     => ops'[o].cancelled /\ ops'[o].attempts = ops[o].attempts]_vars
  BY StepKeeps DEF OutcomeKept
<1> QED
  BY <1>1, OwnershipAlways, PTL DEF Spec, OutcomesAreFinal

\* Every dispatch happens under a live grant and on a candidate that still
\* verifies, at the moment of the dispatch and not of the request.
THEOREM DispatchNeedsPermission == Spec => DispatchIsPermitted
<1>1. OwnershipInv /\ [Next]_vars
         => [\A o \in Ops : ops'[o].attempts # ops[o].attempts
               => Authorized(o, ops[o].grant) /\ CandidateVerifies(o)]_vars
  BY StepKeeps DEF PermissionAsked
<1> QED
  BY <1>1, OwnershipAlways, PTL DEF Spec, DispatchIsPermitted

=============================================================================
