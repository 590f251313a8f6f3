---------------------------- MODULE ReleaseSafety ----------------------------
(* Commands, answers and effects of Releases for any operations, processes *)
(* and bounds: ReleaseInv is inductive.                                    *)
EXTENDS ReleaseProofs

USE ReleaseAssumption DEF Attempts

\* The record, the scopes, the effects and the executors of operation x stay.
Untouched(x) ==
    /\ ops'[x] = ops[x]
    /\ scope'[x] = scope[x]
    /\ \A k \in Attempts : <<x, k>> \in applied' <=> <<x, k>> \in applied
    /\ \A q \in Procs : exec'[q][x] = exec[q][x]

LEMMA UntouchedKept ==
    ASSUME NEW x \in Ops, OperationInv(x), Untouched(x)
    PROVE  OperationInv(x)'
<1>1. EffectApplied(x)' = EffectApplied(x)
  BY DEF Untouched, EffectApplied
<1>2. MayStillApply(x)' = MayStillApply(x)
  BY DEF Untouched, MayStillApply, Live, At
<1>3. RecordFollowsScope(x)' /\ EffectsAgree(x)'
  BY <1>1 DEF Untouched, OperationInv, RecordFollowsScope, EffectsAgree
<1>4. ASSUME NEW q \in Procs
      PROVE  TokensAgree(q, x)' /\ ScopeFollowsExecutor(q, x)' /\ AnswerHolds(q, x)'
  <2>1. exec'[q][x] = exec[q][x] /\ ops'[x] = ops[x] /\ scope'[x] = scope[x]
    BY DEF Untouched
  <2>2. Current(q, x)' = Current(q, x) /\ CurrentScope(q, x)' = CurrentScope(q, x)
    BY <2>1 DEF Current, CurrentScope
  <2>3. TokensAgree(q, x)' /\ ScopeFollowsExecutor(q, x)'
    BY <2>1, <2>2 DEF OperationInv, TokensAgree, ScopeFollowsExecutor
  <2>4. AnswerHolds(q, x)'
    BY <1>1, <1>2, <2>1, <2>2 DEF OperationInv, AnswerHolds, At
  <2> QED
    BY <2>3, <2>4
<1>5. ASSUME NEW q \in Procs, NEW r \in Procs
      PROVE  OneExecutor(q, r, x)'
  BY DEF Untouched, OperationInv, OneExecutor, Current
<1> QED
  BY <1>3, <1>4, <1>5 DEF OperationInv

\* A step of executor p of operation o that writes no other operation.
Works(p, o) ==
    /\ \A q \in Procs, x \in Ops : q # p \/ x # o => exec'[q][x] = exec[q][x]
    /\ \A x \in Ops : x # o => ops'[x] = ops[x] /\ scope'[x] = scope[x]
    /\ UNCHANGED applied

LEMMA WorksElsewhere ==
    ASSUME ReleaseInv, NEW p \in Procs, NEW o \in Ops, Works(p, o), OperationInv(o)'
    PROVE  \A x \in Ops : OperationInv(x)'
<1>1. ASSUME NEW x \in Ops, x # o PROVE OperationInv(x)'
  <2>1. Untouched(x)
    BY <1>1 DEF Works, Untouched
  <2> QED
    BY <2>1, UntouchedKept DEF ReleaseInv
<1> QED
  BY <1>1

\* What holds of one operation, conjunct by conjunct.
LEMMA Known ==
    ASSUME ReleaseInv, NEW o \in Ops
    PROVE  /\ TypeOK /\ OwnershipInv
           /\ RecordFollowsScope(o) /\ EffectsAgree(o)
           /\ ops[o] \in OpRecord
           /\ \A p \in Procs : /\ exec[p][o] \in ExecRecord
                               /\ TokensAgree(p, o) /\ ScopeFollowsExecutor(p, o)
                               /\ AnswerHolds(p, o)
           /\ \A p, q \in Procs : OneExecutor(p, q, o)
<1>1. TypeOK /\ OwnershipInv /\ OperationInv(o)
  BY DEF ReleaseInv, OwnershipInv
<1>2. ops[o] \in OpRecord /\ \A p \in Procs : exec[p][o] \in ExecRecord
  BY <1>1 DEF TypeOK
<1> QED
  BY <1>1, <1>2 DEF OperationInv

\* A step that only moves executor p, and not to the gate: what p knows is to be
\* shown, the others know what they knew.
LEMMA Moves ==
    ASSUME ReleaseInv, NEW p \in Procs, NEW o \in Ops, Works(p, o), UNCHANGED <<ops, scope>>,
           exec'[p][o].pc # "enrolled",
           TokensAgree(p, o)', ScopeFollowsExecutor(p, o)', AnswerHolds(p, o)',
           \A q \in Procs : q # p => OneExecutor(p, q, o)' /\ OneExecutor(q, p, o)'
    PROVE  OperationInv(o)'
<1>1. \A q \in Procs : q # p => exec'[q][o] = exec[q][o]
  BY DEF Works
<1>2. EffectApplied(o)' = EffectApplied(o)
  BY DEF Works, EffectApplied
<1>3. MayStillApply(o)' => MayStillApply(o)
  BY <1>1 DEF MayStillApply, Live, At
<1>4. RecordFollowsScope(o)' /\ EffectsAgree(o)'
  BY <1>2, Known DEF Works, RecordFollowsScope, EffectsAgree
<1>5. ASSUME NEW q \in Procs, q # p
      PROVE  TokensAgree(q, o)' /\ ScopeFollowsExecutor(q, o)' /\ AnswerHolds(q, o)'
  <2>1. exec'[q][o] = exec[q][o] /\ ops' = ops /\ scope' = scope
    BY <1>1, <1>5
  <2>2. Current(q, o)' = Current(q, o) /\ CurrentScope(q, o)' = CurrentScope(q, o)
    BY <2>1 DEF Current, CurrentScope
  <2>3. TokensAgree(q, o)' /\ ScopeFollowsExecutor(q, o)'
    BY <2>1, <2>2, Known DEF TokensAgree, ScopeFollowsExecutor
  <2>4. AnswerHolds(q, o)'
    BY <1>2, <1>3, <2>1, <2>2, Known DEF AnswerHolds, At
  <2> QED
    BY <2>3, <2>4
<1>6. ASSUME NEW q \in Procs, NEW r \in Procs
      PROVE  OneExecutor(q, r, o)'
  <2>1. CASE q # p /\ r # p
    BY <1>1, <2>1, Known DEF OneExecutor, Current
  <2>2. CASE q = r
    BY <2>2 DEF OneExecutor
  <2> QED
    BY <2>1, <2>2
<1> QED
  BY <1>4, <1>5, <1>6 DEF OperationInv

\* An executor that moves keeps what it knows.
LEMMA MovesOn ==
    ASSUME ReleaseInv, NEW p \in Procs, NEW o \in Ops,
           NEW pc \in {"preflight", "intended", "launching", "enrolled", "running", "cleanup",
                       "cleanupFound", "observing"},
           Moved(p, o, pc)
    PROVE  /\ exec'[p][o].pc = pc
           /\ exec'[p][o].token = exec[p][o].token
           /\ exec'[p][o].attempt = exec[p][o].attempt
           /\ \A q \in Procs, x \in Ops : q # p \/ x # o => exec'[q][x] = exec[q][x]
<1>1. pc \in {"idle", "preflight"} \cup Dispatching \cup Observing
  BY DEF Dispatching, Observing
<1>2. TypeOK /\ exec[p][o] \in ExecRecord
  BY Known
<1>3. /\ exec'[p][o] = [exec[p][o] EXCEPT !.pc = pc]
      /\ \A q \in Procs, x \in Ops : q # p \/ x # o => exec'[q][x] = exec[q][x]
  BY <1>2 DEF Moved, Becomes, TypeOK
<1> QED
  BY <1>2, <1>3 DEF ExecRecord

\* An executor that goes on under the same token, on the same attempt.
LEMMA StaysOn ==
    ASSUME ReleaseInv, NEW p \in Procs, NEW o \in Ops,
           \/ exec[p][o].pc \in Dispatching
           \/ exec[p][o].pc = "terminating" /\ exec'[p][o].pc = "observing",
           exec'[p][o].pc \in Dispatching \cup {"observing"},
           exec'[p][o].token = exec[p][o].token,
           exec'[p][o].attempt = exec[p][o].attempt,
           \A q \in Procs : q # p => exec'[q][o] = exec[q][o],
           /\ ops'[o].state = ops[o].state
           /\ ops'[o].token = ops[o].token
           /\ ops'[o].attempts = ops[o].attempts
    PROVE  /\ TokensAgree(p, o)' /\ AnswerHolds(p, o)'
           /\ \A q \in Procs : q # p => OneExecutor(p, q, o)' /\ OneExecutor(q, p, o)'
           /\ \A q \in Procs : q # p => TokensAgree(q, o)'
<1>1. Current(p, o)' => Current(p, o)
  BY DEF Current, Observing
<1>2. exec'[p][o].pc \in Dispatching => exec[p][o].pc \in Dispatching
  BY DEF Dispatching
<1>3. TokensAgree(p, o)'
  <2>1. exec[p][o].pc \in Dispatching \cup Observing
    BY DEF Observing
  <2> QED
    BY <1>1, <1>2, <2>1, Known DEF TokensAgree
<1>4. AnswerHolds(p, o)'
  BY DEF AnswerHolds, Dispatching
<1>5. ASSUME NEW q \in Procs, q # p
      PROVE  OneExecutor(p, q, o)' /\ OneExecutor(q, p, o)' /\ TokensAgree(q, o)'
  <2>1. exec'[q][o] = exec[q][o] /\ Current(q, o)' = Current(q, o)
    BY <1>5 DEF Current
  <2>2. TokensAgree(q, o)'
    BY <2>1, Known DEF TokensAgree
  <2>3. OneExecutor(p, q, o)' /\ OneExecutor(q, p, o)'
    BY <1>1, <1>2, <1>5, <2>1, Known DEF OneExecutor
  <2> QED
    BY <2>2, <2>3
<1> QED
  BY <1>3, <1>4, <1>5

\* After a command was tried, without a word to the record.
LEMMA Continues ==
    ASSUME ReleaseInv, NEW p \in Procs, NEW o \in Ops,
           DispatchRefused(p, o) \/ SpawnFails(p, o) \/ StartFails(p, o)
    PROVE  OperationInv(o)' /\ Works(p, o)
<1>1. PICK pc \in {"observing", "cleanup", "cleanupFound"} :
         /\ Moved(p, o, pc)
         /\ pc = "cleanupFound" => CurrentScope(p, o) \in {"gated", "gone"}
         /\ pc # "observing" => exec[p][o].pc # "dispatched"
  BY DEF DispatchRefused, SpawnFails, StartFails, At
<1>2. exec[p][o].pc \in Dispatching
  BY DEF DispatchRefused, SpawnFails, StartFails, At, Dispatching
<1>3. UNCHANGED <<ops, scope, applied>>
  BY DEF DispatchRefused, SpawnFails, StartFails, records, world
<1>4. \A q \in Procs, x \in Ops : q # p \/ x # o => exec'[q][x] = exec[q][x]
  BY <1>1, MovesOn
<1>5. /\ exec'[p][o].pc = pc
      /\ exec'[p][o].token = exec[p][o].token
      /\ exec'[p][o].attempt = exec[p][o].attempt
  BY <1>1, MovesOn
<1>6. Works(p, o)
  BY <1>3, <1>4 DEF Works
<1>7. /\ TokensAgree(p, o)' /\ AnswerHolds(p, o)'
      /\ \A q \in Procs : q # p => OneExecutor(p, q, o)' /\ OneExecutor(q, p, o)'
  <2>1. exec'[p][o].pc \in Dispatching \cup {"observing"}
    BY <1>5 DEF Dispatching
  <2>2. \A q \in Procs : q # p => exec'[q][o] = exec[q][o]
    BY <1>4
  <2>3. /\ ops'[o].state = ops[o].state
        /\ ops'[o].token = ops[o].token
        /\ ops'[o].attempts = ops[o].attempts
    BY <1>3
  <2> QED
    BY <1>2, <1>5, <2>1, <2>2, <2>3, StaysOn
<1>8. ScopeFollowsExecutor(p, o)'
  BY <1>1, <1>2, <1>3, <1>5, Known DEF ScopeFollowsExecutor, CurrentScope, Dispatching
<1> QED
  BY <1>1, <1>3, <1>5, <1>6, <1>7, <1>8, Moves

\* An executor that does nothing yet, or nothing any more, promises nothing.
LEMMA Rests ==
    ASSUME ReleaseInv, NEW p \in Procs, NEW o \in Ops, Works(p, o), UNCHANGED <<ops, scope>>,
           exec'[p][o].pc \in {"idle", "preflight"}
    PROVE  OperationInv(o)'
<1>1. exec'[p][o].pc \notin Dispatching \cup Observing
  BY DEF Dispatching, Observing
<1>2. ~Current(p, o)'
  BY <1>1 DEF Current
<1>3. TokensAgree(p, o)' /\ ScopeFollowsExecutor(p, o)' /\ AnswerHolds(p, o)'
  BY <1>1, <1>2 DEF TokensAgree, ScopeFollowsExecutor, AnswerHolds, Dispatching
<1>4. \A q \in Procs : OneExecutor(p, q, o)' /\ OneExecutor(q, p, o)'
  BY <1>1, <1>2 DEF OneExecutor
<1> QED
  BY <1>3, <1>4, Moves

LEMMA RestsNow ==
    ASSUME ReleaseInv, NEW p \in Procs, NEW o \in Ops,
           \/ ExecuteOperation(p, o) \/ PreflightRefused(p, o) \/ TerminateFails(p, o)
           \/ ObserveStarts(p, o) /\ Ended(p, o)
           \/ Observed(p, o) /\ UNCHANGED ops
    PROVE  OperationInv(o)' /\ Works(p, o)
<1>1. Moved(p, o, "preflight") \/ Ended(p, o)
  BY DEF ExecuteOperation, PreflightRefused, TerminateFails, Observed
<1>2. TypeOK
  BY Known
<1>3. /\ exec'[p][o].pc \in {"idle", "preflight"}
      /\ \A q \in Procs, x \in Ops : q # p \/ x # o => exec'[q][x] = exec[q][x]
  BY <1>1, <1>2, MovesOn, EndedFacts DEF Idle
<1>4. UNCHANGED <<ops, scope, applied>>
  BY DEF ExecuteOperation, PreflightRefused, TerminateFails, ObserveStarts, Observed, records, world
<1>5. Works(p, o)
  BY <1>3, <1>4 DEF Works
<1> QED
  BY <1>3, <1>4, <1>5, Rests

\* An operator's reconciliation starts under the current token.
LEMMA Reconciles ==
    ASSUME ReleaseInv, NEW p \in Procs, NEW o \in Ops, Inspect(p, o) \/ Terminate(p, o)
    PROVE  OperationInv(o)' /\ Works(p, o)
<1>1. ops[o] \in OpRecord /\ ops[o].state = "reconcile_required" /\ TypeOK
  BY Known DEF Inspect, Terminate
<1>2. UNCHANGED <<ops, scope, applied>>
  BY DEF Inspect, Terminate, records, world
<1>3. /\ \A q \in Procs, x \in Ops : q # p \/ x # o => exec'[q][x] = exec[q][x]
      /\ exec'[p][o].token = ops[o].token
      /\ \/ exec'[p][o].pc = "observing"
         \/ /\ exec'[p][o].pc = "terminating" /\ exec'[p][o].attempt = ops[o].attempts
            /\ ops[o].unit = "enrolled"
  <2>1. CASE Inspect(p, o)
    BY <1>1, <2>1 DEF Inspect, Becomes, Idle, TypeOK
  <2>2. CASE Terminate(p, o)
    BY <1>1, <2>2 DEF Terminate, Becomes, Idle, TypeOK
  <2> QED
    BY <2>1, <2>2
<1>4. Works(p, o)
  BY <1>2, <1>3 DEF Works
<1>5. TokensAgree(p, o)' /\ AnswerHolds(p, o)'
  BY <1>1, <1>2, <1>3 DEF TokensAgree, AnswerHolds, OpRecord, Dispatching
<1>6. ScopeFollowsExecutor(p, o)'
  <2>1. exec'[p][o].pc = "terminating"
           => ops[o].attempts \in Attempts /\ scope[o][ops[o].attempts] # "none"
    BY <1>1, <1>3, Known DEF RecordFollowsScope, InFlight
  <2>2. exec'[p][o].pc = "terminating" => exec'[p][o].attempt \in 1..ops'[o].attempts
    <3>1. ops[o].attempts \in Attempts => ops[o].attempts \in 1..ops[o].attempts
      OBVIOUS
    <3>2. exec'[p][o].pc = "terminating" => exec'[p][o].attempt = ops'[o].attempts
      BY <1>2, <1>3
    <3> QED
      BY <1>2, <2>1, <3>1, <3>2
  <2>3. exec'[p][o].pc = "terminating" => CurrentScope(p, o)' # "none"
    BY <1>2, <1>3, <2>1 DEF CurrentScope
  <2>4. exec'[p][o].pc \in {"observing", "terminating"}
    BY <1>3
  <2> QED
    BY <2>2, <2>3, <2>4 DEF ScopeFollowsExecutor, Dispatching
<1>7. ASSUME NEW q \in Procs PROVE OneExecutor(p, q, o)' /\ OneExecutor(q, p, o)'
  BY <1>1, <1>2, <1>3 DEF OneExecutor, Dispatching
<1> QED
  BY <1>2, <1>3, <1>4, <1>5, <1>6, <1>7, Moves

\* The record is read under the current token.
LEMMA Reads ==
    ASSUME ReleaseInv, NEW p \in Procs, NEW o \in Ops, ObserveStarts(p, o), ~Ended(p, o)
    PROVE  OperationInv(o)' /\ Works(p, o)
<1>1. ops[o] \in OpRecord /\ exec[p][o] \in ExecRecord /\ TypeOK
  BY Known
<1>2. UNCHANGED <<ops, scope, applied>> /\ exec[p][o].pc = "observing"
  BY DEF ObserveStarts, records, world, At
<1>3. /\ \A q \in Procs, x \in Ops : q # p \/ x # o => exec'[q][x] = exec[q][x]
      /\ exec'[p][o].pc = "reading"
      /\ exec'[p][o].token = exec[p][o].token /\ exec[p][o].token = ops[o].token
      /\ exec'[p][o].attempt = ops[o].attempts
      /\ exec'[p][o].result = ops[o].result
      /\ exec'[p][o].unit = ops[o].unit
  <2>1. Becomes(p, o, [exec[p][o] EXCEPT !.pc = "reading", !.attempt = ops[o].attempts,
                           !.result = ops[o].result, !.unit = ops[o].unit])
    BY DEF ObserveStarts
  <2>2. exec'[p][o] = [exec[p][o] EXCEPT !.pc = "reading", !.attempt = ops[o].attempts,
                           !.result = ops[o].result, !.unit = ops[o].unit]
    BY <1>1, <2>1 DEF Becomes, TypeOK
  <2>3. \A q \in Procs, x \in Ops : q # p \/ x # o => exec'[q][x] = exec[q][x]
    BY <1>1, <2>1 DEF Becomes, TypeOK
  <2>4. exec[p][o].token = ops[o].token
    BY DEF ObserveStarts
  <2> QED
    BY <1>1, <2>2, <2>3, <2>4 DEF ExecRecord
<1>4. Works(p, o)
  BY <1>2, <1>3 DEF Works
<1>5. Current(p, o)
  BY <1>2, <1>3 DEF Current, Observing
<1>6. TokensAgree(p, o)'
  BY <1>1, <1>2, <1>3, <1>5, Known DEF TokensAgree, OpRecord, Dispatching, Current
<1>7. ScopeFollowsExecutor(p, o)' /\ AnswerHolds(p, o)'
  BY <1>2, <1>3 DEF ScopeFollowsExecutor, AnswerHolds, Dispatching, At
<1>8. ASSUME NEW q \in Procs, q # p PROVE OneExecutor(p, q, o)' /\ OneExecutor(q, p, o)'
  <2>1. exec'[q][o] = exec[q][o] /\ (Current(q, o)' => Current(q, o))
    BY <1>2, <1>3, <1>8 DEF Current
  <2>2. exec'[p][o].pc \notin Dispatching
    BY <1>3 DEF Dispatching
  <2> QED
    BY <1>2, <1>5, <1>8, <2>1, <2>2, Known DEF OneExecutor
<1> QED
  BY <1>2, <1>3, <1>4, <1>6, <1>7, <1>8, Moves

\* A settled answer, or one after a command that returned, is true until recorded:
\* nothing of the operation can still apply.
LEMMA Answers ==
    ASSUME ReleaseInv, NEW p \in Procs, NEW o \in Ops, ReadBack(p, o)
    PROVE  OperationInv(o)' /\ Works(p, o)
<1>1. exec[p][o] \in ExecRecord /\ TypeOK
  BY Known
<1>2. UNCHANGED <<ops, scope, applied>> /\ exec[p][o].pc = "reading"
  BY DEF ReadBack, records, world, At
<1>3. PICK state \in {"verified", "not_applied", "reconcile_required", "invalid"},
           settled \in {"yes", "no", "unsaid"} :
         /\ Truthful(o, state, settled)
         /\ Becomes(p, o, [exec[p][o] EXCEPT !.pc = "answered",
                               !.answer = Conclusion(p, o, state, settled)])
  BY DEF ReadBack
<1>4. /\ \A q \in Procs, x \in Ops : q # p \/ x # o => exec'[q][x] = exec[q][x]
      /\ exec'[p][o].pc = "answered"
      /\ exec'[p][o].token = exec[p][o].token
      /\ exec'[p][o].attempt = exec[p][o].attempt
      /\ exec'[p][o].result = exec[p][o].result
      /\ exec'[p][o].unit = exec[p][o].unit
      /\ exec'[p][o].answer = Conclusion(p, o, state, settled)
  <2>1. exec'[p][o] = [exec[p][o] EXCEPT !.pc = "answered",
                           !.answer = Conclusion(p, o, state, settled)]
    BY <1>1, <1>3 DEF Becomes, TypeOK
  <2>2. \A q \in Procs, x \in Ops : q # p \/ x # o => exec'[q][x] = exec[q][x]
    BY <1>1, <1>3 DEF Becomes, TypeOK
  <2> QED
    BY <1>1, <2>1, <2>2 DEF ExecRecord
<1>5. Works(p, o)
  BY <1>2, <1>4 DEF Works
<1>6. /\ Current(p, o)' <=> Current(p, o)
      /\ exec[p][o].pc \in Observing /\ exec'[p][o].pc \in Observing
      /\ exec'[p][o].pc \notin Dispatching
  BY <1>2, <1>4 DEF Current, Observing, Dispatching
<1>7. TokensAgree(p, o)'
  BY <1>2, <1>4, <1>6, Known DEF TokensAgree
<1>8. ScopeFollowsExecutor(p, o)'
  BY <1>4 DEF ScopeFollowsExecutor, Dispatching
<1>9. ASSUME NEW q \in Procs, q # p PROVE OneExecutor(p, q, o)' /\ OneExecutor(q, p, o)'
  <2>1. exec'[q][o] = exec[q][o] /\ (Current(q, o)' => Current(q, o))
    BY <1>2, <1>4, <1>9 DEF Current
  <2> QED
    BY <1>2, <1>6, <1>9, <2>1, Known DEF OneExecutor
<1>10. AnswerHolds(p, o)'
  <2>1. EffectApplied(o)' = EffectApplied(o)
    BY <1>2 DEF EffectApplied
  <2>2. MayStillApply(o)' => MayStillApply(o)
    <3>1. \A q \in Procs : At(q, o, "enrolled")' => At(q, o, "enrolled") /\ exec'[q][o] = exec[q][o]
      BY <1>4 DEF At
    <3> QED
      BY <1>2, <3>1 DEF MayStillApply, Live
  <2>3. ASSUME Current(p, o), ops[o].state \in InFlight
        PROVE  /\ exec[p][o].attempt = ops[o].attempts
               /\ exec[p][o].result = ops[o].result
               /\ exec[p][o].unit = ops[o].unit
    BY <1>2, <2>3, Known DEF AnswerHolds
  <2>4. ASSUME Current(p, o), ops[o].state \in InFlight, exec'[p][o].answer = "not_applied"
        PROVE  ~EffectApplied(o) /\ ~MayStillApply(o)
    <3>1. /\ state = "not_applied"
          /\ settled = "yes" \/ exec[p][o].result = "returned"
      BY <1>4, <2>4 DEF Conclusion
    <3>2. CASE settled = "yes"
      BY <1>3, <3>1, <3>2 DEF Truthful
    <3>3. CASE exec[p][o].result = "returned"
      <4>1. scope[o][ops[o].attempts] = "gone"
        BY <2>3, <2>4, <3>3, Known DEF RecordFollowsScope
      <4>2. \A k \in Attempts : ~Live(o, k)
        <5>1. \A k \in Attempts : scope[o][k] # "running"
          BY <4>1, Known DEF RecordFollowsScope
        <5>2. \A q \in Procs : At(q, o, "enrolled") => CurrentScope(q, o) # "gated"
          BY <4>1, Known DEF ScopeFollowsExecutor, CurrentScope, At
        <5> QED
          BY <5>1, <5>2 DEF Live, CurrentScope
      <4> QED
        BY <1>3, <3>1, <4>2 DEF Truthful, MayStillApply
    <3> QED
      BY <3>1, <3>2, <3>3
  <2>5. ops' = ops
    BY <1>2
  <2> QED
    BY <1>4, <1>6, <2>1, <2>2, <2>3, <2>4, <2>5 DEF AnswerHolds
<1> QED
  BY <1>2, <1>4, <1>5, <1>7, <1>8, <1>9, <1>10, Moves

-----------------------------------------------------------------------------
(* Steps that write a scope.                                               *)

\* The scope of attempt k goes a step further, and no executor waits at its gate
\* that did not before: what one operation's records and effects need of it.
Advances(o, k) ==
    /\ ops'[o] = ops[o]
    /\ k \in 1..ops[o].attempts
    /\ scope'[o][k] # "none"
    /\ \A j \in Attempts : j # k => scope'[o][j] = scope[o][j]
    /\ scope[o][k] = "gone" => scope'[o][k] = "gone"
    /\ k = ops[o].attempts /\ ops[o].state \in InFlight => ops[o].unit # "none"
    /\ scope'[o][k] = "running" => k = ops[o].attempts /\ ops[o].state \in InFlight

LEMMA AdvancesRecord ==
    ASSUME ReleaseInv, NEW o \in Ops, NEW k \in Attempts, Advances(o, k), UNCHANGED applied
    PROVE  RecordFollowsScope(o)' /\ EffectsAgree(o)'
<1>1. RecordFollowsScope(o) /\ EffectsAgree(o) /\ ops[o].attempts \in 0..MaxAttempts
  BY Known DEF OpRecord
<1>2. EffectApplied(o)' = EffectApplied(o)
  BY DEF EffectApplied
<1>3. EffectsAgree(o)'
  BY <1>1, <1>2 DEF EffectsAgree, Advances
<1>4. \A j \in Attempts : j > ops[o].attempts => scope'[o][j] = "none"
  BY <1>1 DEF RecordFollowsScope, Advances
<1>5. \A j \in Attempts : scope'[o][j] = "running"
         => j = ops[o].attempts /\ ops[o].state \in InFlight
  BY <1>1 DEF RecordFollowsScope, Advances
<1>6. ASSUME ops[o].state \in InFlight
      PROVE  /\ ops[o].unit = "none" => scope'[o][ops[o].attempts] = "none"
             /\ ops[o].unit = "enrolled" => scope'[o][ops[o].attempts] # "none"
             /\ ops[o].result = "returned" => scope'[o][ops[o].attempts] = "gone"
  <2>1. ops[o].attempts \in Attempts
    BY <1>1, <1>6 DEF RecordFollowsScope
  <2> QED
    BY <1>1, <1>6, <2>1 DEF RecordFollowsScope, Advances
<1>7. ops'[o] = ops[o]
  BY DEF Advances
<1> QED
  BY <1>1, <1>3, <1>4, <1>5, <1>6, <1>7 DEF RecordFollowsScope

\* What another executor knows of a scope that goes a step further.
LEMMA AdvancesOther ==
    ASSUME ReleaseInv, NEW o \in Ops, NEW k \in Attempts, Advances(o, k),
           NEW q \in Procs, exec'[q][o] = exec[q][o],
           exec[q][o].pc \in {"dispatched", "intended"} => exec[q][o].attempt # k,
           exec[q][o].pc = "enrolled" /\ exec[q][o].attempt = k
               => scope'[o][k] \in {"gated", "gone"} /\ scope[o][k] \in {scope'[o][k], "gated"}
    PROVE  TokensAgree(q, o)' /\ ScopeFollowsExecutor(q, o)'
<1>1. TokensAgree(q, o) /\ ScopeFollowsExecutor(q, o) /\ ops'[o] = ops[o]
  BY Known DEF Advances
<1>2. ops[o].attempts \in 0..MaxAttempts
  BY Known DEF OpRecord
<1>3. TokensAgree(q, o)'
  BY <1>1 DEF TokensAgree, Current
<1>4. exec[q][o].pc \in Dispatching \cup {"terminating"} => exec[q][o].attempt \in Attempts
  BY <1>1, <1>2 DEF TokensAgree, ScopeFollowsExecutor
<1>5. exec[q][o].attempt = k => CurrentScope(q, o)' = scope'[o][k] /\ CurrentScope(q, o) = scope[o][k]
  BY DEF CurrentScope
<1>6. exec[q][o].pc \in Dispatching \cup {"terminating"} /\ exec[q][o].attempt # k
         => CurrentScope(q, o)' = CurrentScope(q, o)
  BY <1>4 DEF CurrentScope, Advances
<1>7. exec[q][o].pc \in {"dispatched", "intended"} => CurrentScope(q, o)' = "none"
  BY <1>1, <1>6 DEF ScopeFollowsExecutor, Dispatching
<1>8. exec[q][o].pc = "enrolled"
         => /\ CurrentScope(q, o)' \in {"gated", "gone"}
            /\ CurrentScope(q, o)' = "gated" => CurrentScope(q, o) = "gated"
  BY <1>1, <1>5, <1>6 DEF ScopeFollowsExecutor, Dispatching
<1>9. exec[q][o].pc \in {"cleanupFound", "terminating"} => CurrentScope(q, o)' # "none"
  BY <1>1, <1>5, <1>6 DEF ScopeFollowsExecutor, Dispatching, Advances
<1>10. ScopeFollowsExecutor(q, o)'
  BY <1>1, <1>7, <1>8, <1>9 DEF ScopeFollowsExecutor
<1> QED
  BY <1>3, <1>10

LEMMA SameTeam ==
    ASSUME ReleaseInv, NEW o \in Ops, ops'[o] = ops[o], NEW p \in Procs, NEW q \in Procs,
           exec'[p][o] = exec[p][o], exec'[q][o] = exec[q][o]
    PROVE  OneExecutor(p, q, o)'
  BY Known DEF OneExecutor, Current

\* Nothing that could not apply before can apply now.
LEMMA AnswerKept ==
    ASSUME ReleaseInv, NEW o \in Ops, ops'[o] = ops[o], UNCHANGED applied,
           \A k \in Attempts : Live(o, k)' => Live(o, k),
           NEW q \in Procs, exec'[q][o] = exec[q][o]
    PROVE  AnswerHolds(q, o)'
<1>1. EffectApplied(o)' = EffectApplied(o) /\ (MayStillApply(o)' => MayStillApply(o))
  BY DEF EffectApplied, MayStillApply
<1>2. Current(q, o)' = Current(q, o)
  BY DEF Current
<1> QED
  BY <1>1, <1>2, Known DEF AnswerHolds, At

\* The executor's own scope: a launch is requested, a gate opened, a scope
\* confirmed absent.
LEMMA ScopeSteps ==
    ASSUME ReleaseInv, NEW p \in Procs, NEW o \in Ops,
           Spawn(p, o) \/ OpenGate(p, o) \/ Terminated(p, o)
    PROVE  OperationInv(o)' /\ Works(p, o)
<1>0. PICK k : k = exec[p][o].attempt
  OBVIOUS
<1>1. PICK pc \in {"launching", "running", "observing"}, phase \in {"requested", "running", "gone"} :
         /\ Moved(p, o, pc) /\ ScopeIs(o, k, phase)
         /\ \/ At(p, o, "intended") /\ pc = "launching" /\ phase = "requested"
            \/ At(p, o, "enrolled") /\ pc = "running" /\ phase = "running" /\ scope[o][k] = "gated"
            \/ At(p, o, "terminating") /\ pc = "observing" /\ phase = "gone"
  BY <1>0 DEF Spawn, OpenGate, Terminated, CurrentScope
<1>2. UNCHANGED <<ops, applied>>
  BY DEF Spawn, OpenGate, Terminated, records
<1>3. /\ exec'[p][o].pc = pc
      /\ exec'[p][o].token = exec[p][o].token
      /\ exec'[p][o].attempt = k
      /\ \A q \in Procs, x \in Ops : q # p \/ x # o => exec'[q][x] = exec[q][x]
  <2>1. Moved(p, o, pc)
    BY <1>1
  <2>2. pc \in {"preflight", "intended", "launching", "enrolled", "running", "cleanup",
                "cleanupFound", "observing"}
    OBVIOUS
  <2> QED
    BY <1>0, <2>1, <2>2, MovesOn
<1>4. /\ ops[o].attempts \in 0..MaxAttempts
      /\ k \in 1..ops[o].attempts /\ k \in Attempts
  <2>1. ops[o].attempts \in 0..MaxAttempts
    BY <1>0, Known DEF OpRecord
  <2>2. exec[p][o].pc \in Dispatching \/ exec[p][o].pc = "terminating"
    BY <1>1 DEF At, Dispatching
  <2>3. TokensAgree(p, o) /\ ScopeFollowsExecutor(p, o)
    BY <1>0, Known
  <2>4. k \in 1..ops[o].attempts
    BY <1>0, <2>2, <2>3 DEF TokensAgree, ScopeFollowsExecutor
  <2> QED
    BY <2>1, <2>4
<1>5. /\ scope'[o][k] = phase
      /\ \A x \in Ops, j \in Attempts : x # o \/ j # k => scope'[x][j] = scope[x][j]
      /\ \A x \in Ops : x # o => scope'[x] = scope[x]
  <2>1. scope \in [Ops -> [Attempts -> ScopePhases]]
    BY <1>0, Known DEF TypeOK
  <2> QED
    BY <1>1, <1>4, <2>1 DEF ScopeIs
<1>6. Works(p, o)
  BY <1>0, <1>2, <1>3, <1>5 DEF Works
<1>7. ScopeFollowsExecutor(p, o) /\ RecordFollowsScope(o)
  BY <1>0, Known
<1>8. exec[p][o].pc = "intended" => scope[o][k] = "none"
  BY <1>0, <1>7 DEF ScopeFollowsExecutor, CurrentScope
<1>9. k = ops[o].attempts /\ ops[o].state \in InFlight => ops[o].unit # "none"
  <2>1. CASE At(p, o, "terminating")
    <3>1. scope[o][k] # "none"
      BY <1>0, <1>7, <2>1 DEF ScopeFollowsExecutor, CurrentScope, At
    <3> QED
      BY <1>0, <1>7, <3>1 DEF RecordFollowsScope
  <2>2. CASE ~At(p, o, "terminating")
    BY <1>0, <1>1, <1>7, <2>2 DEF ScopeFollowsExecutor, At, Dispatching
  <2> QED
    BY <2>1, <2>2
<1>10. exec[p][o].pc = "enrolled" /\ scope[o][k] = "gated"
          => k = ops[o].attempts /\ ops[o].state \in InFlight
  BY <1>0, <1>7 DEF ScopeFollowsExecutor, CurrentScope
<1>11. Advances(o, k)
  BY <1>1, <1>2, <1>4, <1>5, <1>8, <1>9, <1>10 DEF Advances, At
<1>12. RecordFollowsScope(o)' /\ EffectsAgree(o)'
  BY <1>2, <1>4, <1>11, AdvancesRecord
<1>13. /\ TokensAgree(p, o)' /\ AnswerHolds(p, o)'
       /\ \A q \in Procs : q # p => OneExecutor(p, q, o)' /\ OneExecutor(q, p, o)'
  <2>1. /\ \/ exec[p][o].pc \in Dispatching
           \/ exec[p][o].pc = "terminating" /\ exec'[p][o].pc = "observing"
        /\ exec'[p][o].pc \in Dispatching \cup {"observing"}
    BY <1>0, <1>1, <1>3 DEF Dispatching, At
  <2>2. \A q \in Procs : q # p => exec'[q][o] = exec[q][o]
    BY <1>0, <1>3
  <2>3. /\ ops'[o].state = ops[o].state
        /\ ops'[o].token = ops[o].token
        /\ ops'[o].attempts = ops[o].attempts
    BY <1>2
  <2>4. exec'[p][o].token = exec[p][o].token /\ exec'[p][o].attempt = exec[p][o].attempt
    BY <1>0, <1>3
  <2> QED
    BY <2>1, <2>2, <2>3, <2>4, StaysOn
<1>14. ScopeFollowsExecutor(p, o)'
  BY <1>0, <1>1, <1>2, <1>3, <1>9 DEF ScopeFollowsExecutor
<1>15. ASSUME NEW q \in Procs, q # p
       PROVE  TokensAgree(q, o)' /\ ScopeFollowsExecutor(q, o)' /\ AnswerHolds(q, o)'
  <2>1. exec'[q][o] = exec[q][o]
    BY <1>0, <1>3, <1>15
  <2>2. exec[p][o].pc # "terminating" /\ exec[q][o].pc \in Dispatching => exec[q][o].attempt # k
    <3>1. exec[p][o].pc # "terminating" => exec[p][o].pc \in Dispatching
      BY <1>1 DEF At, Dispatching
    <3> QED
      BY <1>0, <1>15, <3>1, Known DEF OneExecutor
  <2>3. exec[q][o].pc \in {"dispatched", "intended"} => exec[q][o].attempt # k
    <3>1. CASE exec[p][o].pc = "terminating"
      <4>1. scope[o][k] # "none"
        BY <1>0, <1>7, <3>1 DEF ScopeFollowsExecutor, CurrentScope
      <4> QED
        BY <1>0, <4>1, Known DEF ScopeFollowsExecutor, CurrentScope
    <3>2. CASE exec[p][o].pc # "terminating"
      BY <2>2, <3>2 DEF Dispatching
    <3> QED
      BY <3>1, <3>2
  <2>4. exec[q][o].pc = "enrolled" /\ exec[q][o].attempt = k
           => scope'[o][k] \in {"gated", "gone"} /\ scope[o][k] \in {scope'[o][k], "gated"}
    <3>1. exec[q][o].pc = "enrolled" /\ exec[q][o].attempt = k => exec[p][o].pc = "terminating"
      BY <2>2 DEF Dispatching
    <3>2. exec[p][o].pc = "terminating" => scope'[o][k] = "gone"
      BY <1>1, <1>5 DEF At
    <3>3. exec[q][o].pc = "enrolled" /\ exec[q][o].attempt = k => scope[o][k] \in {"gated", "gone"}
      BY <1>0, Known DEF ScopeFollowsExecutor, CurrentScope
    <3> QED
      BY <3>1, <3>2, <3>3
  <2>5. TokensAgree(q, o)' /\ ScopeFollowsExecutor(q, o)'
    BY <1>4, <1>11, <2>1, <2>3, <2>4, AdvancesOther
  <2>6. \A j \in Attempts : Live(o, j)' => Live(o, j)
    <3>1. exec'[p][o].pc # "enrolled"
      BY <1>0, <1>1, <1>3
    <3>2. ASSUME NEW r \in Procs, exec'[r][o].pc = "enrolled"
          PROVE  exec[r][o].pc = "enrolled" /\ exec'[r][o].attempt = exec[r][o].attempt
      BY <1>0, <1>3, <3>1, <3>2
    <3>3. ASSUME NEW j \in Attempts, j # k PROVE Live(o, j)' => Live(o, j)
      <4>1. scope'[o][j] = scope[o][j]
        BY <1>5, <3>3
      <4> QED
        BY <3>2, <4>1 DEF Live, At
    <3>4. Live(o, k)' => Live(o, k)
      <4>1. CASE phase = "running"
        <5>1. At(p, o, "enrolled") /\ scope[o][k] = "gated"
          BY <1>1, <4>1
        <5> QED
          BY <1>0, <5>1 DEF Live
      <4>2. CASE phase # "running"
        BY <1>1, <1>5, <4>2 DEF Live
      <4> QED
        BY <4>1, <4>2
    <3> QED
      BY <3>3, <3>4
  <2>7. AnswerHolds(q, o)'
    BY <1>2, <2>1, <2>6, AnswerKept
  <2> QED
    BY <2>5, <2>7
<1>16. ASSUME NEW q \in Procs, NEW r \in Procs PROVE OneExecutor(q, r, o)'
  <2>1. CASE q # p /\ r # p
    BY <1>0, <1>2, <1>3, <2>1, SameTeam
  <2>2. CASE q = r
    BY <2>2 DEF OneExecutor
  <2> QED
    BY <1>13, <2>1, <2>2
<1> QED
  BY <1>6, <1>12, <1>13, <1>14, <1>15, <1>16 DEF OperationInv

\* Scopes move by themselves.
LEMMA ScopeMoves ==
    ASSUME ReleaseInv, NEW o \in Ops, NEW k \in Attempts, GateReady(o, k) \/ ScopeEnds(o, k)
    PROVE  \A x \in Ops : OperationInv(x)'
<1>1. PICK phase \in {"gated", "gone"} :
         /\ ScopeIs(o, k, phase)
         /\ scope[o][k] \in {"requested", "gated", "running"}
         /\ phase = "gated" => scope[o][k] = "requested"
  BY DEF GateReady, ScopeEnds
<1>2. UNCHANGED <<ops, exec, applied>>
  BY DEF GateReady, ScopeEnds, records
<1>3. /\ scope'[o][k] = phase
      /\ \A j \in Attempts : j # k => scope'[o][j] = scope[o][j]
      /\ \A x \in Ops : x # o => scope'[x] = scope[x]
  <2>1. scope \in [Ops -> [Attempts -> ScopePhases]]
    BY Known DEF TypeOK
  <2> QED
    BY <1>1, <2>1 DEF ScopeIs
<1>4. ASSUME NEW x \in Ops, x # o PROVE OperationInv(x)'
  <2>1. Untouched(x)
    BY <1>2, <1>3, <1>4 DEF Untouched
  <2> QED
    BY <2>1, UntouchedKept DEF ReleaseInv
<1>5. RecordFollowsScope(o) /\ ops[o].attempts \in 0..MaxAttempts
  BY Known DEF OpRecord
<1>6. k \in 1..ops[o].attempts
  BY <1>1, <1>5 DEF RecordFollowsScope
<1>7. k = ops[o].attempts /\ ops[o].state \in InFlight => ops[o].unit # "none"
  BY <1>1, <1>5 DEF RecordFollowsScope
<1>8. Advances(o, k)
  BY <1>1, <1>2, <1>3, <1>6, <1>7 DEF Advances
<1>9. RecordFollowsScope(o)' /\ EffectsAgree(o)'
  BY <1>2, <1>8, AdvancesRecord
<1>10. ASSUME NEW q \in Procs
       PROVE  TokensAgree(q, o)' /\ ScopeFollowsExecutor(q, o)' /\ AnswerHolds(q, o)'
  <2>1. exec'[q][o] = exec[q][o]
    BY <1>2
  <2>2. exec[q][o].pc \in {"dispatched", "intended"} => exec[q][o].attempt # k
    BY <1>1, Known DEF ScopeFollowsExecutor, CurrentScope
  <2>3. \A r \in Procs : exec[r][o].pc = "enrolled" /\ exec[r][o].attempt = k
           => scope[o][k] = "gated" /\ scope'[o][k] = "gone"
    BY <1>1, <1>3, Known DEF ScopeFollowsExecutor, CurrentScope
  <2>4. TokensAgree(q, o)' /\ ScopeFollowsExecutor(q, o)'
    BY <1>8, <2>1, <2>2, <2>3, AdvancesOther
  <2>5. \A j \in Attempts : Live(o, j)' => Live(o, j)
    BY <1>1, <1>2, <1>3, <2>3 DEF Live, At
  <2>6. AnswerHolds(q, o)'
    BY <1>2, <2>1, <2>5, AnswerKept
  <2> QED
    BY <2>4, <2>6
<1>11. ASSUME NEW q \in Procs, NEW r \in Procs PROVE OneExecutor(q, r, o)'
  BY <1>2, SameTeam
<1>12. OperationInv(o)'
  BY <1>9, <1>10, <1>11 DEF OperationInv
<1> QED
  BY <1>4, <1>12
-----------------------------------------------------------------------------
(* Steps that write the record of the attempt in flight.                   *)

\* Executor p goes on under the same token, on the same attempt.  Only while it is
\* current may it write the intent, the enrolment or the result, or wait at its
\* gate; the gate of its scope may be closed.
Notes(p, o) ==
    /\ \A q \in Procs, x \in Ops : q # p \/ x # o => exec'[q][x] = exec[q][x]
    /\ exec[p][o].pc \in Dispatching
    /\ exec'[p][o].pc \in Dispatching \cup {"observing"}
    /\ exec'[p][o].token = exec[p][o].token
    /\ exec'[p][o].attempt = exec[p][o].attempt
    /\ ops'[o].state = ops[o].state
    /\ ops'[o].token = ops[o].token
    /\ ops'[o].attempts = ops[o].attempts
    /\ \/ Current(p, o)
       \/ ops'[o] = ops[o] /\ exec'[p][o].pc # "enrolled"
    /\ ops'[o].unit = "none" => ops[o].unit = "none"
    /\ ops'[o].unit = "enrolled" => ops[o].unit = "enrolled" \/ CurrentScope(p, o) # "none"
    /\ ops'[o].result = "returned" => ops[o].result = "returned" \/ CurrentScope(p, o) = "gone"
    /\ \A j \in Attempts :
          \/ scope'[o][j] = scope[o][j]
          \/ j = exec[p][o].attempt /\ scope[o][j] = "gated" /\ scope'[o][j] = "gone"
    /\ UNCHANGED applied

LEMMA NotesRecord ==
    ASSUME ReleaseInv, NEW p \in Procs, NEW o \in Ops, Notes(p, o)
    PROVE  RecordFollowsScope(o)' /\ EffectsAgree(o)'
<1>1. RecordFollowsScope(o) /\ EffectsAgree(o) /\ TokensAgree(p, o)
  BY Known
<1>2. Current(p, o) => ops[o].state = "executing" /\ exec[p][o].attempt = ops[o].attempts
  BY <1>1 DEF TokensAgree, Notes
<1>3. EffectsAgree(o)'
  <2>1. EffectApplied(o)' = EffectApplied(o)
    BY DEF EffectApplied, Notes
  <2> QED
    BY <1>1, <2>1 DEF EffectsAgree, Notes
<1>4. /\ ops'[o].state = ops[o].state
      /\ ops'[o].attempts = ops[o].attempts
      /\ \A j \in Attempts :
            \/ scope'[o][j] = scope[o][j]
            \/ scope[o][j] = "gated" /\ scope'[o][j] = "gone"
  BY DEF Notes
<1>5. /\ \A k \in Attempts : k > ops[o].attempts => scope'[o][k] = "none"
      /\ \A k \in Attempts : scope'[o][k] = "running"
            => k = ops[o].attempts /\ ops[o].state \in InFlight
      /\ ops[o].state \in InFlight \cup {"verified", "not_applied"} => ops[o].attempts \in Attempts
  BY <1>1, <1>4 DEF RecordFollowsScope
<1>6. ops[o].state = "prepared" => ops'[o].result = "none" /\ ops'[o].unit = "none"
  BY <1>1, <1>2 DEF RecordFollowsScope, Notes
<1>7. ASSUME ops[o].state \in InFlight
      PROVE  /\ ops'[o].unit = "none" => scope'[o][ops[o].attempts] = "none"
             /\ ops'[o].unit = "enrolled" => scope'[o][ops[o].attempts] # "none"
             /\ ops'[o].result = "returned" => scope'[o][ops[o].attempts] = "gone"
  <2>1. ops[o].attempts \in Attempts
    BY <1>1, <1>7 DEF RecordFollowsScope
  <2>2. Current(p, o) => CurrentScope(p, o) = scope[o][ops[o].attempts]
    BY <1>2 DEF CurrentScope
  <2>3. /\ ops[o].unit = "none" => scope[o][ops[o].attempts] = "none"
        /\ ops[o].unit = "enrolled" => scope[o][ops[o].attempts] # "none"
        /\ ops[o].result = "returned" => scope[o][ops[o].attempts] = "gone"
    BY <1>1, <1>7 DEF RecordFollowsScope
  <2>4. /\ ops'[o].unit = "none" => ops[o].unit = "none"
        /\ ops'[o].unit = "enrolled" => ops[o].unit = "enrolled" \/ scope[o][ops[o].attempts] # "none"
        /\ ops'[o].result = "returned"
              => ops[o].result = "returned" \/ scope[o][ops[o].attempts] = "gone"
    BY <2>2 DEF Notes
  <2> QED
    BY <1>4, <2>1, <2>3, <2>4
<1> QED
  BY <1>3, <1>4, <1>5, <1>6, <1>7 DEF RecordFollowsScope

LEMMA NotesKept ==
    ASSUME ReleaseInv, NEW p \in Procs, NEW o \in Ops, Notes(p, o), ScopeFollowsExecutor(p, o)'
    PROVE  OperationInv(o)'
<1>1. /\ exec[p][o].pc \in Dispatching
      /\ TokensAgree(p, o) /\ ops[o].attempts \in 0..MaxAttempts
  BY Known DEF Notes, OpRecord
<1>2. Current(p, o) => ops[o].state = "executing" /\ exec[p][o].attempt = ops[o].attempts
  BY <1>1 DEF TokensAgree
<1>3. \A q \in Procs : q # p => exec'[q][o] = exec[q][o]
  BY DEF Notes
<1>4. /\ ops'[o].state = ops[o].state
      /\ ops'[o].token = ops[o].token
      /\ ops'[o].attempts = ops[o].attempts
      /\ ops'[o].unit = "none" => ops[o].unit = "none"
  BY DEF Notes
<1>5. /\ TokensAgree(p, o)' /\ AnswerHolds(p, o)'
      /\ \A q \in Procs : q # p => OneExecutor(p, q, o)' /\ OneExecutor(q, p, o)'
      /\ \A q \in Procs : q # p => TokensAgree(q, o)'
  <2>1. /\ exec'[p][o].pc \in Dispatching \cup {"observing"}
        /\ exec'[p][o].token = exec[p][o].token
        /\ exec'[p][o].attempt = exec[p][o].attempt
    BY DEF Notes
  <2>2. /\ ops'[o].state = ops[o].state
        /\ ops'[o].token = ops[o].token
        /\ ops'[o].attempts = ops[o].attempts
    BY <1>4
  <2> QED
    BY <1>1, <1>3, <2>1, <2>2, StaysOn
<1>6. ASSUME NEW q \in Procs, q # p
      PROVE  ScopeFollowsExecutor(q, o)'
  <2>1. ScopeFollowsExecutor(q, o) /\ TokensAgree(q, o) /\ exec'[q][o] = exec[q][o]
    BY <1>3, <1>6, Known
  <2>2. exec[q][o].pc \in Dispatching \cup {"terminating"} => exec[q][o].attempt \in Attempts
    BY <1>1, <2>1 DEF TokensAgree, ScopeFollowsExecutor
  <2>3. exec[q][o].pc \in Dispatching => exec[q][o].attempt # exec[p][o].attempt
    BY <1>1, <1>6, Known DEF OneExecutor
  <2>4. exec[q][o].pc \in Dispatching => CurrentScope(q, o)' = CurrentScope(q, o)
    BY <2>1, <2>2, <2>3 DEF CurrentScope, Notes
  <2>5. exec[q][o].pc = "terminating" => CurrentScope(q, o)' # "none"
    <3>1. exec[q][o].pc = "terminating" => CurrentScope(q, o) # "none"
      BY <2>1 DEF ScopeFollowsExecutor
    <3> QED
      BY <2>1, <2>2, <3>1 DEF CurrentScope, Notes
  <2> QED
    BY <1>4, <2>1, <2>4, <2>5 DEF ScopeFollowsExecutor, Dispatching
<1>7. ASSUME NEW q \in Procs, q # p
      PROVE  AnswerHolds(q, o)'
  <2>1. CASE Current(p, o)
    <3>1. ~Current(q, o)
      BY <1>2, <1>7, <2>1, Known DEF OneExecutor
    <3>2. ~Current(q, o)'
      BY <1>3, <1>4, <1>7, <3>1 DEF Current
    <3> QED
      BY <3>2 DEF AnswerHolds
  <2>2. CASE ~Current(p, o)
    <3>1. ops'[o] = ops[o] /\ exec'[p][o].pc # "enrolled" /\ UNCHANGED applied
      BY <2>2 DEF Notes
    <3>2. ASSUME NEW j \in Attempts PROVE Live(o, j)' => Live(o, j)
      <4>1. \/ scope'[o][j] = scope[o][j]
            \/ scope'[o][j] = "gone"
        BY DEF Notes
      <4>2. ASSUME NEW r \in Procs, exec'[r][o].pc = "enrolled"
            PROVE  exec'[r][o] = exec[r][o]
        BY <1>3, <3>1, <4>2
      <4> QED
        BY <4>1, <4>2 DEF Live, At
    <3>3. exec'[q][o] = exec[q][o]
      BY <1>3, <1>7
    <3> QED
      BY <3>1, <3>2, <3>3, AnswerKept
  <2> QED
    BY <2>1, <2>2
<1>8. ASSUME NEW q \in Procs, NEW r \in Procs PROVE OneExecutor(q, r, o)'
  <2>1. CASE q # p /\ r # p
    BY <1>3, <1>4, <2>1, Known DEF OneExecutor, Current
  <2>2. CASE q = r
    BY <2>2 DEF OneExecutor
  <2> QED
    BY <1>5, <2>1, <2>2
<1> QED
  BY <1>5, <1>6, <1>7, <1>8, NotesRecord DEF OperationInv

\* The intent, the enrolment, a found enrolment, and the result of a command.
LEMMA Noted ==
    ASSUME ReleaseInv, NEW p \in Procs, NEW o \in Ops,
           \/ ScopeStarting(p, o) \/ Enrol(p, o) \/ CleanedUp(p, o) \/ CommandReturns(p, o)
    PROVE  OperationInv(o)' /\ Works(p, o)
<1>1. /\ exec[p][o] \in ExecRecord /\ ops[o] \in OpRecord /\ TypeOK
      /\ TokensAgree(p, o) /\ ScopeFollowsExecutor(p, o)
  BY Known
<1>2. PICK pc \in {"intended", "enrolled", "observing"} :
         /\ Moved(p, o, pc)
         /\ \/ pc = "intended" /\ At(p, o, "dispatched") /\ StillOwned(p, o) /\ UNCHANGED scope
               /\ Saved(o, [ops[o] EXCEPT !.unit = "intent"])
            \/ pc = "enrolled" /\ At(p, o, "launching") /\ StillOwned(p, o) /\ UNCHANGED scope
               /\ CurrentScope(p, o) = "gated" /\ Saved(o, [ops[o] EXCEPT !.unit = "enrolled"])
            \/ pc = "observing" /\ CleanedUp(p, o)
            \/ pc = "observing" /\ CommandReturns(p, o)
  BY DEF ScopeStarting, Enrol, CleanedUp, CommandReturns, world
<1>3. /\ exec'[p][o].pc = pc
      /\ exec'[p][o].token = exec[p][o].token
      /\ exec'[p][o].attempt = exec[p][o].attempt
      /\ \A q \in Procs, x \in Ops : q # p \/ x # o => exec'[q][x] = exec[q][x]
  <2>1. Moved(p, o, pc)
    BY <1>2
  <2> QED
    BY <2>1, MovesOn
<1>4. /\ \A x \in Ops : /\ ops'[x].state = ops[x].state
                        /\ ops'[x].token = ops[x].token
                        /\ ops'[x].attempts = ops[x].attempts
      /\ \A x \in Ops : x # o => ops'[x] = ops[x]
  BY <1>1, NotedTyped
<1>5. /\ exec[p][o].pc \in Dispatching
      /\ UNCHANGED applied
  BY DEF ScopeStarting, Enrol, CleanedUp, CommandReturns, world, At, Dispatching
<1>6. exec[p][o].attempt \in Attempts
  BY <1>1, <1>5 DEF TokensAgree, OpRecord
<1>7. ASSUME exec[p][o].token = ops[o].token
      PROVE  Current(p, o) /\ ops[o].state = "executing" /\ exec[p][o].attempt = ops[o].attempts
  BY <1>1, <1>5, <1>7 DEF Current, TokensAgree
<1>8. \/ UNCHANGED ops
      \/ /\ exec[p][o].token = ops[o].token
         /\ \/ ops'[o] = [ops[o] EXCEPT !.unit = "intent"] /\ At(p, o, "dispatched")
            \/ /\ ops'[o] = [ops[o] EXCEPT !.unit = "enrolled"]
               /\ CurrentScope(p, o) # "none"
            \/ ops'[o] = [ops[o] EXCEPT !.result = "timedOut"]
            \/ /\ ops'[o] = [ops[o] EXCEPT !.result = "returned"]
               /\ CurrentScope(p, o) = "gone"
  <2>0. ops \in [Ops -> OpRecord]
    BY <1>1 DEF TypeOK
  <2>1. CASE ScopeStarting(p, o)
    BY <1>1, <2>0, <2>1 DEF ScopeStarting, StillOwned, Saved
  <2>2. CASE Enrol(p, o)
    BY <1>1, <2>0, <2>2 DEF Enrol, StillOwned, Saved
  <2>3. CASE CleanedUp(p, o)
    <3>1. CASE UNCHANGED ops
      BY <3>1
    <3>2. CASE ~UNCHANGED ops
      <4>1. /\ At(p, o, "cleanupFound") /\ ops[o].token = exec[p][o].token
            /\ Saved(o, [ops[o] EXCEPT !.unit = "enrolled"])
        BY <2>3, <3>2 DEF CleanedUp
      <4>2. CurrentScope(p, o) # "none"
        BY <1>1, <4>1 DEF ScopeFollowsExecutor, At
      <4> QED
        BY <2>0, <4>1, <4>2 DEF Saved
    <3> QED
      BY <3>1, <3>2
  <2>4. CASE CommandReturns(p, o)
    BY <2>0, <2>4 DEF CommandReturns, Saved
  <2> QED
    BY <2>1, <2>2, <2>3, <2>4
<1>9. /\ \A j \in Attempts :
            \/ scope'[o][j] = scope[o][j]
            \/ j = exec[p][o].attempt /\ scope[o][j] = "gated" /\ scope'[o][j] = "gone"
      /\ \A x \in Ops : x # o => scope'[x] = scope[x]
      /\ pc \in {"intended", "enrolled"} => UNCHANGED scope
  <2>1. CASE UNCHANGED scope
    BY <2>1
  <2>2. CASE CurrentScope(p, o) = "gated" /\ ScopeIs(o, exec[p][o].attempt, "gone")
             /\ pc = "observing"
    <3>1. scope \in [Ops -> [Attempts -> ScopePhases]]
      BY <1>1 DEF TypeOK
    <3> QED
      BY <1>6, <2>2, <3>1 DEF CurrentScope, ScopeIs
  <2> QED
    BY <1>2, <2>1, <2>2 DEF CleanedUp, CommandReturns, world
<1>10. pc = "enrolled" => Current(p, o) /\ CurrentScope(p, o) = "gated"
  BY <1>2, <1>7 DEF StillOwned
<1>11. /\ \/ Current(p, o)
          \/ ops'[o] = ops[o] /\ exec'[p][o].pc # "enrolled"
       /\ ops'[o].unit = "none" => ops[o].unit = "none"
       /\ ops'[o].unit = "enrolled" => ops[o].unit = "enrolled" \/ CurrentScope(p, o) # "none"
       /\ ops'[o].result = "returned" => ops[o].result = "returned" \/ CurrentScope(p, o) = "gone"
  <2>1. CASE UNCHANGED ops
    BY <1>3, <1>10, <2>1
  <2>2. CASE ~UNCHANGED ops
    BY <1>1, <1>7, <1>8, <2>2 DEF OpRecord
  <2> QED
    BY <2>1, <2>2
<1>12. Notes(p, o)
  <2>1. exec'[p][o].pc \in Dispatching \cup {"observing"}
    BY <1>3 DEF Dispatching
  <2> QED
    BY <1>3, <1>4, <1>5, <1>9, <1>11, <2>1 DEF Notes
<1>13. ScopeFollowsExecutor(p, o)'
  <2>1. CASE pc = "intended"
    <3>1. At(p, o, "dispatched") /\ ops'[o] = [ops[o] EXCEPT !.unit = "intent"] /\ UNCHANGED scope
      BY <1>1, <1>2, <2>1 DEF Saved, TypeOK
    <3>2. CurrentScope(p, o)' = "none"
      BY <1>1, <1>3, <3>1 DEF ScopeFollowsExecutor, CurrentScope, At
    <3>3. ops'[o].unit # "none"
      BY <1>1, <3>1 DEF OpRecord
    <3> QED
      BY <1>3, <2>1, <3>2, <3>3 DEF ScopeFollowsExecutor
  <2>2. CASE pc = "enrolled"
    <3>1. ops'[o] = [ops[o] EXCEPT !.unit = "enrolled"] /\ UNCHANGED scope
      BY <1>1, <1>2, <2>2 DEF Saved, TypeOK
    <3>2. ops[o].state = "executing" /\ exec[p][o].attempt = ops[o].attempts
      BY <1>1, <1>5, <1>10, <2>2 DEF TokensAgree
    <3>3. CurrentScope(p, o)' = "gated"
      BY <1>3, <1>10, <2>2, <3>1 DEF CurrentScope
    <3>4. ops'[o].unit # "none"
      BY <1>1, <3>1 DEF OpRecord
    <3> QED
      BY <1>3, <1>4, <2>2, <3>2, <3>3, <3>4 DEF ScopeFollowsExecutor, InFlight
  <2>3. CASE pc = "observing"
    BY <1>3, <2>3 DEF ScopeFollowsExecutor, Dispatching
  <2> QED
    BY <2>1, <2>2, <2>3
<1>14. Works(p, o)
  BY <1>3, <1>4, <1>5, <1>9 DEF Works
<1> QED
  BY <1>12, <1>13, <1>14, NotesKept

-----------------------------------------------------------------------------
(* Steps that end executors and write the state or the token.              *)

\* Executors stay or end; the scopes, the effects and the attempts stay.
Stays(o) ==
    /\ \A q \in Procs : exec'[q][o] \in {exec[q][o], Idle}
    /\ scope'[o] = scope[o]
    /\ \A k \in Attempts : <<o, k>> \in applied' <=> <<o, k>> \in applied
    /\ ops'[o].attempts = ops[o].attempts
    /\ ops'[o].token \in Nat
    /\ ops[o].token <= ops'[o].token

LEMMA StaysFacts ==
    ASSUME ReleaseInv, NEW o \in Ops, Stays(o)
    PROVE  /\ EffectApplied(o)' = EffectApplied(o)
           /\ MayStillApply(o)' => MayStillApply(o)
           /\ \A q \in Procs :
                 /\ exec'[q][o].pc # "idle" => exec'[q][o] = exec[q][o]
                 /\ Current(q, o)' => Current(q, o) /\ ops'[o].token = ops[o].token
                 /\ CurrentScope(q, o)' = CurrentScope(q, o) \/ exec'[q][o].pc = "idle"
<1>1. EffectApplied(o)' = EffectApplied(o)
  BY DEF Stays, EffectApplied
<1>2. \A q \in Procs : exec'[q][o].pc # "idle" => exec'[q][o] = exec[q][o]
  BY DEF Stays, Idle
<1>3. MayStillApply(o)' => MayStillApply(o)
  <2>1. ASSUME NEW k \in Attempts PROVE Live(o, k)' => Live(o, k)
    <3>1. ASSUME NEW q \in Procs, At(q, o, "enrolled")'
          PROVE  exec'[q][o] = exec[q][o]
      BY <1>2, <3>1 DEF At
    <3>2. scope'[o][k] = scope[o][k]
      BY DEF Stays
    <3> QED
      BY <3>1, <3>2 DEF Live, At
  <2> QED
    BY <2>1 DEF MayStillApply
<1>4. ASSUME NEW q \in Procs
      PROVE  /\ Current(q, o)' => Current(q, o) /\ ops'[o].token = ops[o].token
             /\ CurrentScope(q, o)' = CurrentScope(q, o) \/ exec'[q][o].pc = "idle"
  <2>1. ops[o].token \in Nat /\ exec[q][o].token \in Nat
    BY Known DEF OpRecord, ExecRecord
  <2>2. ASSUME Current(q, o)'
        PROVE  Current(q, o) /\ ops'[o].token = ops[o].token
    <3>1. exec'[q][o] = exec[q][o]
      BY <1>2, <2>2 DEF Current, Dispatching, Observing
    <3>2. exec[q][o].pc \in Dispatching \cup Observing /\ exec[q][o].token = ops'[o].token
      BY <2>2, <3>1 DEF Current
    <3>3. exec[q][o].token <= ops[o].token
      BY <3>2, Known DEF TokensAgree
    <3> QED
      BY <2>1, <3>2, <3>3 DEF Current, Stays
  <2>3. CurrentScope(q, o)' = CurrentScope(q, o) \/ exec'[q][o].pc = "idle"
    BY <1>2 DEF CurrentScope, Stays
  <2> QED
    BY <2>2, <2>3
<1> QED
  BY <1>1, <1>2, <1>3, <1>4

\* The operation stays as it is, or what is in flight has to be reconciled.
Continued(o) ==
    /\ Stays(o)
    /\ ops'[o].result = ops[o].result
    /\ ops'[o].unit = ops[o].unit
    /\ \/ ops'[o].state = ops[o].state /\ ops'[o].token = ops[o].token
       \/ /\ ops[o].state \in InFlight
          /\ ops'[o].state = "reconcile_required"
          /\ \A q \in Procs : Current(q, o)' => exec'[q][o].pc \notin Dispatching

LEMMA ContinuedKept ==
    ASSUME ReleaseInv, NEW o \in Ops, Continued(o)
    PROVE  OperationInv(o)'
<1>1. /\ RecordFollowsScope(o) /\ EffectsAgree(o) /\ ops[o] \in OpRecord
      /\ EffectApplied(o)' = EffectApplied(o)
      /\ MayStillApply(o)' => MayStillApply(o)
      /\ \A q \in Procs :
            /\ exec'[q][o].pc # "idle" => exec'[q][o] = exec[q][o]
            /\ Current(q, o)' => Current(q, o) /\ ops'[o].token = ops[o].token
            /\ CurrentScope(q, o)' = CurrentScope(q, o) \/ exec'[q][o].pc = "idle"
  BY Known, StaysFacts DEF Continued
<1>2. /\ ops'[o].attempts = ops[o].attempts
      /\ ops'[o].result = ops[o].result
      /\ ops'[o].unit = ops[o].unit
      /\ ops'[o].state \in InFlight <=> ops[o].state \in InFlight
      /\ ops'[o].state # ops[o].state => ops'[o].state = "reconcile_required" /\ ops[o].state \in InFlight
      /\ scope'[o] = scope[o]
      /\ \A k \in Attempts : <<o, k>> \in applied' <=> <<o, k>> \in applied
  BY DEF Continued, Stays, InFlight
<1>3. RecordFollowsScope(o)'
  BY <1>1, <1>2 DEF RecordFollowsScope, InFlight
<1>4. EffectsAgree(o)'
  BY <1>1, <1>2 DEF EffectsAgree
<1>5. ASSUME NEW q \in Procs
      PROVE  TokensAgree(q, o)' /\ ScopeFollowsExecutor(q, o)' /\ AnswerHolds(q, o)'
  <2>1. CASE exec'[q][o].pc = "idle"
    <3>1. exec'[q][o].pc \notin Dispatching \cup Observing /\ ~Current(q, o)'
      BY <2>1 DEF Current, Dispatching, Observing
    <3> QED
      BY <2>1, <3>1 DEF TokensAgree, ScopeFollowsExecutor, AnswerHolds
  <2>2. CASE exec'[q][o].pc # "idle"
    <3>1. exec'[q][o] = exec[q][o] /\ CurrentScope(q, o)' = CurrentScope(q, o)
      BY <1>1, <2>2
    <3>2. TokensAgree(q, o) /\ ScopeFollowsExecutor(q, o) /\ AnswerHolds(q, o)
          /\ exec[q][o].token \in Nat /\ ops[o].token \in Nat
      BY Known DEF ExecRecord, OpRecord
    <3>3. TokensAgree(q, o)'
      <4>1. exec[q][o].pc \in Dispatching \cup Observing => exec[q][o].token <= ops'[o].token
        BY <3>2 DEF TokensAgree, Continued, Stays
      <4>2. ops'[o].state \in {"none", "prepared"} => ~Current(q, o)'
        BY <1>1, <1>2, <3>2 DEF TokensAgree
      <4>3. exec[q][o].pc \in Dispatching /\ Current(q, o)' => ops'[o].state = "executing"
        BY <1>1, <3>1, <3>2 DEF TokensAgree, Continued
      <4> QED
        BY <1>1, <1>2, <3>1, <3>2, <4>1, <4>2, <4>3 DEF TokensAgree
    <3>4. ScopeFollowsExecutor(q, o)'
      BY <1>2, <3>1, <3>2 DEF ScopeFollowsExecutor
    <3>5. AnswerHolds(q, o)'
      BY <1>1, <1>2, <3>1, <3>2 DEF AnswerHolds, At
    <3> QED
      BY <3>3, <3>4, <3>5
  <2> QED
    BY <2>1, <2>2
<1>6. ASSUME NEW q \in Procs, NEW r \in Procs PROVE OneExecutor(q, r, o)'
  <2>1. exec'[q][o].pc \in Dispatching => exec'[q][o] = exec[q][o]
    BY <1>1 DEF Dispatching
  <2>2. exec'[r][o].pc \in Dispatching => exec'[r][o] = exec[r][o]
    BY <1>1 DEF Dispatching
  <2>3. ops'[o].state = "executing" => ops[o].state = "executing"
    BY <1>2
  <2> QED
    BY <1>1, <2>1, <2>2, <2>3, Known DEF OneExecutor
<1> QED
  BY <1>3, <1>4, <1>5, <1>6 DEF OperationInv

\* The operation is not in flight after the step: nothing of it runs, no gate is
\* about to open, and nobody dispatches it under its token.
Settled(o) ==
    /\ Stays(o)
    /\ ops'[o].state \in {"prepared", "verified", "not_applied", "cancelled"}
    /\ ops'[o].state = "prepared"
          => /\ ops'[o].result = "none" /\ ops'[o].unit = "none"
             /\ ops[o].token < ops'[o].token
    /\ ops'[o].state \in {"verified", "not_applied"} => ops[o].attempts \in Attempts
    /\ ops'[o].state # "verified" => ~EffectApplied(o)
    /\ \A k \in Attempts : scope[o][k] # "running"
    /\ \A q \in Procs : At(q, o, "enrolled") => CurrentScope(q, o) # "gated"
    /\ \A q \in Procs : Current(q, o)' => exec'[q][o].pc \notin Dispatching

LEMMA SettledKept ==
    ASSUME ReleaseInv, NEW o \in Ops, Settled(o)
    PROVE  OperationInv(o)'
<1>1. /\ RecordFollowsScope(o) /\ EffectsAgree(o) /\ ops[o] \in OpRecord
      /\ EffectApplied(o)' = EffectApplied(o)
      /\ \A q \in Procs :
            /\ exec'[q][o].pc # "idle" => exec'[q][o] = exec[q][o]
            /\ Current(q, o)' => Current(q, o) /\ ops'[o].token = ops[o].token
            /\ CurrentScope(q, o)' = CurrentScope(q, o) \/ exec'[q][o].pc = "idle"
  BY Known, StaysFacts DEF Settled
<1>2. /\ ops'[o].attempts = ops[o].attempts
      /\ ops'[o].state \notin InFlight
      /\ scope'[o] = scope[o]
      /\ \A k \in Attempts : <<o, k>> \in applied' <=> <<o, k>> \in applied
  BY DEF Settled, Stays, InFlight
<1>3. RecordFollowsScope(o)'
  BY <1>1, <1>2 DEF RecordFollowsScope, Settled
<1>4. EffectsAgree(o)'
  BY <1>1, <1>2 DEF EffectsAgree, Settled
<1>5. ASSUME NEW q \in Procs
      PROVE  TokensAgree(q, o)' /\ ScopeFollowsExecutor(q, o)' /\ AnswerHolds(q, o)'
  <2>1. CASE exec'[q][o].pc = "idle"
    <3>1. exec'[q][o].pc \notin Dispatching \cup Observing /\ ~Current(q, o)'
      BY <2>1 DEF Current, Dispatching, Observing
    <3> QED
      BY <2>1, <3>1 DEF TokensAgree, ScopeFollowsExecutor, AnswerHolds
  <2>2. CASE exec'[q][o].pc # "idle"
    <3>1. exec'[q][o] = exec[q][o] /\ CurrentScope(q, o)' = CurrentScope(q, o)
      BY <1>1, <2>2
    <3>2. TokensAgree(q, o) /\ ScopeFollowsExecutor(q, o)
          /\ exec[q][o].token \in Nat /\ ops[o].token \in Nat
      BY Known DEF ExecRecord, OpRecord
    <3>3. TokensAgree(q, o)'
      <4>1. exec[q][o].pc \in Dispatching \cup Observing => exec[q][o].token <= ops'[o].token
        BY <3>2 DEF TokensAgree, Settled, Stays
      <4>2. ops'[o].state \in {"none", "prepared"} => ~Current(q, o)'
        BY <1>1, <3>2 DEF Settled
      <4>3. exec'[q][o].pc \in Dispatching => ~Current(q, o)'
        BY DEF Settled
      <4> QED
        BY <1>2, <3>1, <3>2, <4>1, <4>2, <4>3 DEF TokensAgree
    <3>4. ScopeFollowsExecutor(q, o)'
      BY <1>2, <3>1, <3>2 DEF ScopeFollowsExecutor, Settled, At
    <3>5. AnswerHolds(q, o)'
      BY <1>2 DEF AnswerHolds
    <3> QED
      BY <3>3, <3>4, <3>5
  <2> QED
    BY <2>1, <2>2
<1>6. ASSUME NEW q \in Procs, NEW r \in Procs PROVE OneExecutor(q, r, o)'
  <2>1. exec'[q][o].pc \in Dispatching => exec'[q][o] = exec[q][o]
    BY <1>1 DEF Dispatching
  <2>2. exec'[r][o].pc \in Dispatching => exec'[r][o] = exec[r][o]
    BY <1>1 DEF Dispatching
  <2>3. ops'[o].state # "executing"
    BY DEF Settled
  <2> QED
    BY <2>1, <2>2, <2>3, Known DEF OneExecutor
<1> QED
  BY <1>3, <1>4, <1>5, <1>6 DEF OperationInv

\* Nothing of an operation that is not in flight runs or is about to.
LEMMA NothingRuns ==
    ASSUME ReleaseInv, NEW o \in Ops, ops[o].state \notin InFlight
    PROVE  /\ \A k \in Attempts : scope[o][k] # "running"
           /\ \A q \in Procs : At(q, o, "enrolled") => CurrentScope(q, o) # "gated"
           /\ ~MayStillApply(o)
<1>1. \A k \in Attempts : scope[o][k] # "running"
  BY Known DEF RecordFollowsScope
<1>2. \A q \in Procs : At(q, o, "enrolled") => CurrentScope(q, o) # "gated"
  BY Known DEF ScopeFollowsExecutor, At
<1>3. ASSUME NEW k \in Attempts PROVE ~Live(o, k)
  BY <1>1, <1>2 DEF Live, CurrentScope
<1> QED
  BY <1>1, <1>2, <1>3 DEF MayStillApply

LEMMA PrepareKept ==
    ASSUME ReleaseInv, NEW p \in Procs, NEW o \in Ops, NEW g \in Grants, PrepareOperation(p, o, g)
    PROVE  OperationInv(o)' /\ Works(p, o)
<1>1. TypeOK /\ ops[o] = NewOp /\ ops[o].state = "none"
  BY Known DEF OwnershipInv, UnpreparedIsNew, PrepareOperation
<1>2. /\ ops'[o] = [NewOp EXCEPT !.state = "prepared", !.grant = g, !.token = 1]
      /\ \A x \in Ops : x # o => ops'[x] = ops[x]
      /\ UNCHANGED <<exec, scope, applied>>
  BY <1>1, PreparedTyped DEF PrepareOperation, world
<1>3. /\ ops'[o].state = "prepared" /\ ops'[o].token = 1 /\ ops'[o].attempts = 0
      /\ ops'[o].result = "none" /\ ops'[o].unit = "none"
      /\ ops[o].token = 0 /\ ops[o].attempts = 0
  BY <1>1, <1>2 DEF NewOp
<1>4. Stays(o)
  BY <1>2, <1>3 DEF Stays
<1>5. \A q \in Procs : ~Current(q, o)'
  <2>1. \A q \in Procs : exec[q][o].pc \in Dispatching \cup Observing => exec[q][o].token <= 0
    BY <1>3, Known DEF TokensAgree
  <2>2. \A q \in Procs : exec[q][o].token \in Nat
    BY Known DEF ExecRecord
  <2> QED
    BY <1>2, <1>3, <2>1, <2>2 DEF Current
<1>6. ~EffectApplied(o)
  BY <1>1, Known DEF EffectsAgree
<1>7. Settled(o)
  BY <1>1, <1>3, <1>4, <1>5, <1>6, NothingRuns DEF Settled, InFlight
<1> QED
  BY <1>2, <1>7, SettledKept DEF Works

LEMMA RetryKept ==
    ASSUME ReleaseInv, NEW p \in Procs, NEW o \in Ops, RetryOperation(p, o)
    PROVE  OperationInv(o)' /\ Works(p, o)
<1>1. TypeOK /\ ops[o] \in OpRecord /\ ops[o].state = "not_applied"
  BY Known DEF RetryOperation
<1>2. /\ ops'[o] = [ops[o] EXCEPT !.state = "prepared", !.token = ops[o].token + 1,
                                  !.result = "none", !.unit = "none"]
      /\ \A x \in Ops : x # o => ops'[x] = ops[x]
      /\ UNCHANGED <<exec, scope, applied>>
  BY <1>1, RetriedTyped DEF RetryOperation, world
<1>3. /\ ops'[o].state = "prepared" /\ ops'[o].token = ops[o].token + 1
      /\ ops'[o].attempts = ops[o].attempts
      /\ ops'[o].result = "none" /\ ops'[o].unit = "none"
      /\ ops[o].token \in Nat
  BY <1>1, <1>2 DEF OpRecord
<1>4. Stays(o)
  BY <1>2, <1>3 DEF Stays
<1>5. \A q \in Procs : ~Current(q, o)'
  <2>1. \A q \in Procs : Current(q, o)' => ops'[o].token = ops[o].token
    BY <1>4, StaysFacts
  <2> QED
    BY <1>3, <2>1
<1>6. ~EffectApplied(o)
  BY <1>1, Known DEF EffectsAgree
<1>7. Settled(o)
  BY <1>1, <1>3, <1>4, <1>5, <1>6, NothingRuns DEF Settled, InFlight
<1> QED
  BY <1>2, <1>7, SettledKept DEF Works

LEMMA CancelKept ==
    ASSUME ReleaseInv, NEW p \in Procs, NEW o \in Ops, CancelOperation(p, o)
    PROVE  OperationInv(o)' /\ Works(p, o)
<1>1. TypeOK /\ ops[o] \in OpRecord
  BY Known
<1>2. /\ ops'[o].state = IF ops[o].state \in {"prepared", "not_applied"}
                         THEN "cancelled" ELSE ops[o].state
      /\ ops'[o].token = ops[o].token
      /\ ops'[o].attempts = ops[o].attempts
      /\ \A x \in Ops : x # o => ops'[x] = ops[x]
      /\ UNCHANGED <<exec, scope, applied>>
  BY <1>1, CancelledTyped DEF CancelOperation, world
<1>3. Stays(o) /\ Works(p, o)
  BY <1>1, <1>2 DEF Stays, Works, OpRecord
<1>4. CASE ops[o].state \in {"prepared", "not_applied"}
  <2>1. \A q \in Procs : Current(q, o)' => exec'[q][o].pc \notin Dispatching
    BY <1>2, <1>4, Known DEF TokensAgree, Current
  <2>2. ~EffectApplied(o)
    BY <1>4, Known DEF EffectsAgree
  <2>3. Settled(o)
    BY <1>2, <1>3, <1>4, <2>1, <2>2, NothingRuns DEF Settled, InFlight
  <2> QED
    BY <1>3, <2>3, SettledKept
<1>5. CASE ops[o].state \notin {"prepared", "not_applied"}
  <2>1. ops'[o] = [ops[o] EXCEPT !.cancelled = TRUE]
    BY <1>1, <1>5 DEF CancelOperation, Saved, TypeOK
  <2>2. ops'[o].result = ops[o].result /\ ops'[o].unit = ops[o].unit
    BY <1>1, <2>1 DEF OpRecord
  <2>3. Continued(o)
    BY <1>2, <1>3, <1>5, <2>2 DEF Continued
  <2> QED
    BY <1>3, <2>3, ContinuedKept
<1> QED
  BY <1>4, <1>5

\* The answer of an observer under the current token concludes the operation.
LEMMA ObservedKept ==
    ASSUME ReleaseInv, NEW p \in Procs, NEW o \in Ops, Observed(p, o)
    PROVE  OperationInv(o)' /\ Works(p, o)
<1>1. /\ TypeOK /\ ops[o] \in OpRecord /\ exec[p][o] \in ExecRecord
      /\ exec[p][o].pc = "answered"
  BY Known DEF Observed, At
<1>2. /\ exec'[p][o] = Idle
      /\ \A q \in Procs, x \in Ops : q # p \/ x # o => exec'[q][x] = exec[q][x]
      /\ \A x \in Ops : x # o => ops'[x] = ops[x]
      /\ UNCHANGED <<scope, applied>>
  BY <1>1, ObservedTyped DEF Observed, world
<1>3. Works(p, o)
  BY <1>2 DEF Works
<1>4. CASE UNCHANGED ops
  <2>1. Continued(o)
    BY <1>1, <1>2, <1>4 DEF Continued, Stays, OpRecord
  <2> QED
    BY <1>3, <2>1, ContinuedKept
<1>5. CASE ~UNCHANGED ops
  <2>1. PICK outcome \in Outcomes(p, o) : Saved(o, [ops[o] EXCEPT !.state = outcome])
    BY <1>5 DEF Observed
  <2>2. /\ ops[o].state \in InFlight
        /\ exec[p][o].token = ops[o].token
    BY <1>5 DEF Observed, MayConclude, InFlight
  <2>3. Current(p, o)
    BY <1>1, <2>2 DEF Current, Observing
  <2>4. ops'[o] = [ops[o] EXCEPT !.state = outcome]
    BY <1>1, <2>1 DEF Saved, TypeOK
  <2>5. /\ ops'[o].state = outcome
        /\ ops'[o].token = ops[o].token
        /\ ops'[o].attempts = ops[o].attempts
        /\ ops'[o].result = ops[o].result
        /\ ops'[o].unit = ops[o].unit
    BY <1>1, <2>4 DEF OpRecord
  <2>6. Stays(o)
    BY <1>1, <1>2, <2>5 DEF Stays, OpRecord
  <2>7. \A q \in Procs : Current(q, o)' => exec'[q][o].pc \notin Dispatching
    <3>1. ASSUME NEW q \in Procs, Current(q, o)', exec'[q][o].pc \in Dispatching PROVE FALSE
      <4>1. q # p
        BY <1>2, <3>1 DEF Dispatching, Idle
      <4>2. Current(q, o) /\ exec[q][o].pc \in Dispatching
        BY <1>2, <2>5, <3>1, <4>1 DEF Current
      <4>3. ops[o].state = "executing"
        BY <4>2, Known DEF TokensAgree
      <4> QED
        BY <2>3, <4>1, <4>2, <4>3, Known DEF OneExecutor
    <3> QED
      BY <3>1
  <2>8. CASE outcome = "reconcile_required"
    <3>1. Continued(o)
      BY <2>2, <2>5, <2>6, <2>7, <2>8 DEF Continued
    <3> QED
      BY <1>3, <3>1, ContinuedKept
  <2>9. CASE outcome # "reconcile_required"
    <3>1. /\ exec[p][o].attempt = ops[o].attempts
          /\ exec[p][o].unit = ops[o].unit
          /\ exec[p][o].answer = "not_applied" => ~EffectApplied(o)
      BY <1>1, <2>2, <2>3, Known DEF AnswerHolds, At
    <3>2. /\ outcome = exec[p][o].answer
          /\ exec[p][o].unit = "none" \/ CurrentScope(p, o) = "gone"
      BY <2>1, <2>9 DEF Outcomes, ObservedAbsent
    <3>3. outcome \in {"verified", "not_applied"}
      <4>1. exec[p][o].answer # "none"
        BY <1>1, Known DEF OwnershipInv, VerifiedIsApplied, At
      <4> QED
        BY <1>1, <2>9, <3>2, <4>1 DEF ExecRecord
    <3>4. ops[o].attempts \in Attempts /\ scope[o][ops[o].attempts] \in {"none", "gone"}
      BY <2>2, <3>1, <3>2, Known DEF RecordFollowsScope, CurrentScope
    <3>5. \A k \in Attempts : scope[o][k] # "running"
      BY <3>4, Known DEF RecordFollowsScope
    <3>6. \A q \in Procs : At(q, o, "enrolled") => CurrentScope(q, o) # "gated"
      BY <3>4, Known DEF ScopeFollowsExecutor, CurrentScope, At
    <3>7. Settled(o)
      BY <2>5, <2>6, <2>7, <3>1, <3>2, <3>3, <3>4, <3>5, <3>6 DEF Settled
    <3> QED
      BY <1>3, <3>7, SettledKept
  <2> QED
    BY <2>8, <2>9
<1> QED
  BY <1>4, <1>5

\* A dispatch has a new attempt, and nobody else works for the operation.
LEMMA DispatchKept ==
    ASSUME ReleaseInv, NEW p \in Procs, NEW o \in Ops, Dispatch(p, o)
    PROVE  OperationInv(o)' /\ Works(p, o)
<1> DEFINE n == ops[o].attempts + 1
<1>1. /\ TypeOK /\ ops[o] \in OpRecord /\ RecordFollowsScope(o) /\ EffectsAgree(o)
      /\ ops[o].state = "prepared" /\ ops[o].attempts < MaxAttempts
  BY Known DEF Dispatch, MayDispatch
<1>2. ops[o].attempts \in 0..MaxAttempts /\ n \in Attempts /\ n \in 1..n /\ ops[o].token \in Nat
  BY <1>1 DEF OpRecord
<1>3. /\ ops'[o] = [ops[o] EXCEPT !.state = "executing", !.attempts = n]
      /\ \A x \in Ops : x # o => ops'[x] = ops[x]
      /\ UNCHANGED <<scope, applied>>
  BY <1>1 DEF Dispatch, Saved, TypeOK, world
<1>4. /\ ops'[o].state = "executing" /\ ops'[o].token = ops[o].token /\ ops'[o].attempts = n
      /\ ops'[o].result = "none" /\ ops'[o].unit = "none"
  BY <1>1, <1>3 DEF OpRecord, RecordFollowsScope
<1>5. /\ exec'[p][o] = [Idle EXCEPT !.pc = "dispatched", !.token = ops[o].token, !.attempt = n]
      /\ \A q \in Procs, x \in Ops : q # p \/ x # o => exec'[q][x] = exec[q][x]
  BY <1>1 DEF Dispatch, Becomes, TypeOK
<1>6. exec'[p][o].pc = "dispatched" /\ exec'[p][o].token = ops[o].token /\ exec'[p][o].attempt = n
  BY <1>5 DEF Idle
<1>7. Works(p, o)
  BY <1>3, <1>5 DEF Works
<1>8. scope[o][n] = "none" /\ \A k \in Attempts : scope[o][k] # "running"
  BY <1>1, <1>2 DEF RecordFollowsScope, InFlight
<1>9. \A k \in Attempts : k > n => scope[o][k] = "none"
  BY <1>1, <1>2 DEF RecordFollowsScope
<1>10. RecordFollowsScope(o)'
  BY <1>2, <1>3, <1>4, <1>8, <1>9 DEF RecordFollowsScope
<1>11. EffectsAgree(o)'
  <2>1. \A k \in Attempts : <<o, k>> \notin applied
    BY <1>1 DEF EffectsAgree, EffectApplied
  <2> QED
    BY <1>3, <1>4, <2>1 DEF EffectsAgree
<1>12. ASSUME NEW q \in Procs, q # p
       PROVE  /\ exec'[q][o] = exec[q][o]
              /\ ~Current(q, o)'
              /\ exec[q][o].pc \in Dispatching \cup {"terminating"}
                    => exec[q][o].attempt \in 1..ops[o].attempts
  <2>1. exec'[q][o] = exec[q][o]
    BY <1>5, <1>12
  <2>2. ~Current(q, o)
    BY <1>1, Known DEF TokensAgree
  <2> QED
    BY <1>4, <2>1, <2>2, Known DEF Current, TokensAgree, ScopeFollowsExecutor
<1>13. TokensAgree(p, o)' /\ ScopeFollowsExecutor(p, o)' /\ AnswerHolds(p, o)'
  <2>1. TokensAgree(p, o)'
    BY <1>2, <1>4, <1>6 DEF TokensAgree
  <2>2. CurrentScope(p, o)' = "none"
    BY <1>3, <1>6, <1>8 DEF CurrentScope
  <2> QED
    BY <1>6, <2>1, <2>2 DEF ScopeFollowsExecutor, AnswerHolds
<1>14. ASSUME NEW q \in Procs, q # p
       PROVE  TokensAgree(q, o)' /\ ScopeFollowsExecutor(q, o)' /\ AnswerHolds(q, o)'
  <2>1. /\ exec'[q][o] = exec[q][o] /\ ~Current(q, o)'
        /\ exec[q][o].pc \in Dispatching \cup {"terminating"}
              => exec[q][o].attempt \in 1..ops[o].attempts
    BY <1>12, <1>14
  <2>2. TokensAgree(q, o) /\ ScopeFollowsExecutor(q, o)
    BY Known
  <2>3. exec[q][o].pc \in Dispatching \cup {"terminating"} =>
           exec[q][o].attempt \in 1..n /\ exec[q][o].attempt # n
    BY <1>2, <2>1
  <2>4. TokensAgree(q, o)'
    BY <1>4, <2>1, <2>2, <2>3 DEF TokensAgree
  <2>5. CurrentScope(q, o)' = CurrentScope(q, o)
    BY <1>3, <2>1 DEF CurrentScope
  <2>6. exec[q][o].pc = "enrolled" => CurrentScope(q, o) = "gone"
    BY <1>1, <2>2 DEF ScopeFollowsExecutor, InFlight
  <2>7. ScopeFollowsExecutor(q, o)'
    BY <1>4, <2>1, <2>2, <2>3, <2>5, <2>6 DEF ScopeFollowsExecutor
  <2>8. AnswerHolds(q, o)'
    BY <2>1 DEF AnswerHolds
  <2> QED
    BY <2>4, <2>7, <2>8
<1>15. ASSUME NEW q \in Procs, NEW r \in Procs PROVE OneExecutor(q, r, o)'
  <2>1. CASE q = r
    BY <2>1 DEF OneExecutor
  <2>2. CASE q # p /\ r # p
    <3>1. exec'[q][o] = exec[q][o] /\ exec'[r][o] = exec[r][o] /\ ~Current(q, o)'
      BY <1>12, <2>2
    <3> QED
      BY <3>1, Known DEF OneExecutor
  <2>3. ASSUME NEW x \in Procs, x # p
        PROVE  OneExecutor(x, p, o)' /\ OneExecutor(p, x, o)'
    <3>1. /\ ~Current(x, o)'
          /\ exec'[x][o].pc \in Dispatching => exec'[x][o].attempt # exec'[p][o].attempt
      BY <1>2, <1>6, <1>12, <2>3
    <3> QED
      BY <3>1 DEF OneExecutor
  <2> QED
    BY <2>1, <2>2, <2>3
<1> QED
  BY <1>7, <1>10, <1>11, <1>13, <1>14, <1>15 DEF OperationInv

-----------------------------------------------------------------------------
(* Processes, effects, and the steps that touch no operation.              *)

LEMMA StartKept ==
    ASSUME ReleaseInv, NEW p \in Procs, Start(p)
    PROVE  \A x \in Ops : OperationInv(x)'
<1> SUFFICES ASSUME NEW x \in Ops PROVE OperationInv(x)'
  OBVIOUS
<1>1. /\ TypeOK /\ ops[x] \in OpRecord
      /\ UNCHANGED <<exec, scope, applied>>
  BY Known DEF Start, world
<1>2. ops'[x] = IF ops[x].state = "executing"
                THEN [ops[x] EXCEPT !.state = "reconcile_required", !.token = ops[x].token + 1]
                ELSE ops[x]
  BY <1>1, StartTyped
<1>3. CASE ops[x].state = "executing"
  <2>1. /\ ops'[x].state = "reconcile_required" /\ ops'[x].token = ops[x].token + 1
        /\ ops'[x].attempts = ops[x].attempts
        /\ ops'[x].result = ops[x].result /\ ops'[x].unit = ops[x].unit
        /\ ops[x].token \in Nat
    BY <1>1, <1>2, <1>3 DEF OpRecord
  <2>2. Stays(x)
    BY <1>1, <2>1 DEF Stays
  <2>3. \A q \in Procs : ~Current(q, x)'
    BY <2>1, <2>2, StaysFacts
  <2>4. Continued(x)
    BY <1>3, <2>1, <2>2, <2>3 DEF Continued, InFlight
  <2> QED
    BY <2>4, ContinuedKept
<1>4. CASE ops[x].state # "executing"
  <2>1. Untouched(x)
    BY <1>1, <1>2, <1>4 DEF Untouched
  <2> QED
    BY <2>1, UntouchedKept DEF ReleaseInv
<1> QED
  BY <1>3, <1>4

LEMMA EndKept ==
    ASSUME ReleaseInv, NEW p \in Procs, ProcessEnds(p)
    PROVE  \A x \in Ops : OperationInv(x)'
<1> SUFFICES ASSUME NEW x \in Ops PROVE OperationInv(x)'
  OBVIOUS
<1>1. /\ TypeOK /\ ops[x] \in OpRecord
      /\ UNCHANGED <<ops, scope, applied>>
      /\ exec' = [exec EXCEPT ![p] = [o \in Ops |-> Idle]]
  BY Known DEF ProcessEnds, records, world
<1>2. \A q \in Procs : exec'[q][x] \in {exec[q][x], Idle}
  BY <1>1 DEF TypeOK
<1>3. Continued(x)
  BY <1>1, <1>2 DEF Continued, Stays, OpRecord
<1> QED
  BY <1>3, ContinuedKept

LEMMA EffectKept ==
    ASSUME ReleaseInv, NEW o \in Ops, NEW k \in Attempts, EffectApplies(o, k)
    PROVE  \A x \in Ops : OperationInv(x)'
<1>1. /\ scope[o][k] = "running" /\ applied' = applied \cup {<<o, k>>}
      /\ UNCHANGED <<ops, exec, scope>>
  BY DEF EffectApplies, records
<1>2. ASSUME NEW x \in Ops, x # o PROVE OperationInv(x)'
  <2>1. Untouched(x)
    BY <1>1, <1>2 DEF Untouched
  <2> QED
    BY <2>1, UntouchedKept DEF ReleaseInv
<1>3. RecordFollowsScope(o) /\ EffectsAgree(o) /\ k = ops[o].attempts /\ ops[o].state \in InFlight
  BY <1>1, Known DEF RecordFollowsScope
<1>4. RecordFollowsScope(o)' /\ EffectsAgree(o)'
  <2>1. RecordFollowsScope(o)'
    BY <1>1, <1>3 DEF RecordFollowsScope
  <2>2. \A j \in Attempts : <<o, j>> \in applied' => j = ops[o].attempts
    BY <1>1, <1>3 DEF EffectsAgree
  <2> QED
    BY <1>1, <1>3, <2>1, <2>2 DEF EffectsAgree, InFlight
<1>5. ASSUME NEW q \in Procs
      PROVE  TokensAgree(q, o)' /\ ScopeFollowsExecutor(q, o)' /\ AnswerHolds(q, o)'
  <2>1. Current(q, o)' = Current(q, o) /\ CurrentScope(q, o)' = CurrentScope(q, o)
    BY <1>1 DEF Current, CurrentScope
  <2>2. TokensAgree(q, o)' /\ ScopeFollowsExecutor(q, o)'
    BY <1>1, <2>1, Known DEF TokensAgree, ScopeFollowsExecutor
  <2>3. MayStillApply(o)
    BY <1>1 DEF MayStillApply, Live
  <2>4. AnswerHolds(q, o)'
    BY <1>1, <2>1, <2>3, Known DEF AnswerHolds, At
  <2> QED
    BY <2>2, <2>4
<1>6. ASSUME NEW q \in Procs, NEW r \in Procs PROVE OneExecutor(q, r, o)'
  BY <1>1, SameTeam
<1>7. OperationInv(o)'
  BY <1>4, <1>5, <1>6 DEF OperationInv
<1> QED
  BY <1>2, <1>7

LEMMA NothingTouched ==
    ASSUME ReleaseInv, UNCHANGED <<ops, exec, scope, applied>>
    PROVE  \A x \in Ops : OperationInv(x)'
<1>1. \A x \in Ops : Untouched(x)
  BY DEF Untouched
<1> QED
  BY <1>1, UntouchedKept DEF ReleaseInv

LEMMA ReleaseInit == Init => ReleaseInv
<1> SUFFICES ASSUME Init PROVE ReleaseInv
  OBVIOUS
<1>1. OwnershipInv
  BY OwnershipInit
<1>2. ASSUME NEW o \in Ops PROVE OperationInv(o)
  <2>1. /\ ops[o] = NewOp /\ applied = {}
        /\ \A q \in Procs : exec[q][o] = Idle
        /\ \A k \in Attempts : scope[o][k] = "none"
    BY <1>2 DEF Init
  <2>2. /\ ops[o].state = "none" /\ ops[o].attempts = 0 /\ ops[o].token = 0
        /\ \A q \in Procs : exec[q][o].pc = "idle"
    BY <2>1 DEF NewOp, Idle
  <2>3. RecordFollowsScope(o) /\ EffectsAgree(o)
    BY <2>1, <2>2 DEF RecordFollowsScope, EffectsAgree, EffectApplied, InFlight
  <2>4. ASSUME NEW q \in Procs
        PROVE  TokensAgree(q, o) /\ ScopeFollowsExecutor(q, o) /\ AnswerHolds(q, o)
    BY <2>2 DEF TokensAgree, ScopeFollowsExecutor, AnswerHolds, Current, Dispatching, Observing
  <2>5. ASSUME NEW q \in Procs, NEW r \in Procs PROVE OneExecutor(q, r, o)
    BY <2>2 DEF OneExecutor, Dispatching
  <2> QED
    BY <2>3, <2>4, <2>5 DEF OperationInv
<1> QED
  BY <1>1, <1>2 DEF ReleaseInv

LEMMA ExecutorKept ==
    ASSUME ReleaseInv, NEW p \in Procs, NEW o \in Ops, Executor(p, o)
    PROVE  \A x \in Ops : OperationInv(x)'
<1>1. OperationInv(o)' /\ Works(p, o)
  <2>1. CASE ObserveStarts(p, o)
    BY <2>1, Reads, RestsNow
  <2>2. CASE ~ObserveStarts(p, o)
    BY <2>2, Continues, RestsNow, Answers, ScopeSteps, Noted, ObservedKept, DispatchKept
    DEF Executor
  <2> QED
    BY <2>1, <2>2
<1> QED
  BY <1>1, WorksElsewhere

LEMMA RequestKept ==
    ASSUME ReleaseInv, NEW p \in Procs, Request(p)
    PROVE  \A x \in Ops : OperationInv(x)'
<1>1. ASSUME NEW o \in Ops,
             \/ \E g \in Grants : PrepareOperation(p, o, g)
             \/ ExecuteOperation(p, o) \/ RetryOperation(p, o) \/ CancelOperation(p, o)
             \/ Inspect(p, o) \/ Terminate(p, o)
      PROVE  \A x \in Ops : OperationInv(x)'
  <2>1. OperationInv(o)' /\ Works(p, o)
    BY <1>1, PrepareKept, RestsNow, RetryKept, CancelKept, Reconciles
  <2> QED
    BY <2>1, WorksElsewhere
<1>2. ASSUME \/ \E c \in Candidates : Register(p, c)
             \/ \E g \in Grants : GrantAuthorization(p, g) \/ RevokeAuthorization(p, g)
      PROVE  \A x \in Ops : OperationInv(x)'
  BY <1>2, NothingTouched DEF Register, GrantAuthorization, RevokeAuthorization, world
<1> QED
  BY <1>1, <1>2 DEF Request

LEMMA ReleaseStep == ReleaseInv /\ [Next]_vars => ReleaseInv'
<1> SUFFICES ASSUME ReleaseInv, [Next]_vars PROVE ReleaseInv'
  OBVIOUS
<1>1. OwnershipInv'
  BY OwnershipStep DEF ReleaseInv
<1>2. ASSUME NEW p \in Procs,
             \/ Start(p) \/ StopServing(p) \/ ProcessEnds(p) \/ Request(p)
             \/ \E o \in Ops : Executor(p, o)
      PROVE  \A x \in Ops : OperationInv(x)'
  <2>1. CASE StopServing(p)
    BY <2>1, NothingTouched DEF StopServing, records, world
  <2> QED
    BY <1>2, <2>1, StartKept, EndKept, RequestKept, ExecutorKept
<1>3. ASSUME Environment PROVE \A x \in Ops : OperationInv(x)'
  <2>1. ASSUME NEW o \in Ops, NEW k \in Attempts,
               GateReady(o, k) \/ ScopeEnds(o, k) \/ EffectApplies(o, k)
        PROVE  \A x \in Ops : OperationInv(x)'
    BY <2>1, ScopeMoves, EffectKept
  <2>2. ASSUME \/ \E g \in Expiring : Expire(g)
               \/ \E c \in Drifting : Drift(c)
        PROVE  \A x \in Ops : OperationInv(x)'
    BY <2>2, NothingTouched DEF Expire, Drift, records, world
  <2> QED
    BY <1>3, <2>1, <2>2 DEF Environment
<1>4. ASSUME UNCHANGED vars PROVE \A x \in Ops : OperationInv(x)'
  BY <1>4, NothingTouched DEF vars, records, world
<1>5. \A x \in Ops : OperationInv(x)'
  BY <1>2, <1>3, <1>4 DEF Next
<1> QED
  BY <1>1, <1>5 DEF ReleaseInv

-----------------------------------------------------------------------------
(* The theorems.                                                           *)

\* Tokens, executors, scopes, records, effects and pending answers of every operation
\* agree at every moment of every behaviour.
THEOREM ReleaseAlways == Spec => []ReleaseInv
  BY ReleaseInit, ReleaseStep, PTL DEF Spec

LEMMA LiveIsNewest == ReleaseInv => CommandsAreFenced
<1> SUFFICES ASSUME ReleaseInv, NEW o \in Ops, NEW k \in Attempts, Live(o, k)
             PROVE  k = ops[o].attempts /\ ops[o].state \in InFlight
  BY DEF CommandsAreFenced, InFlight
<1>1. CASE scope[o][k] = "running"
  BY <1>1, Known DEF RecordFollowsScope
<1>2. CASE scope[o][k] # "running"
  <2>1. PICK q \in Procs : At(q, o, "enrolled") /\ exec[q][o].attempt = k /\ scope[o][k] = "gated"
    BY <1>2 DEF Live
  <2> QED
    BY <2>1, Known DEF ScopeFollowsExecutor, CurrentScope, At
<1> QED
  BY <1>1, <1>2

\* Whatever the processes, retries, reconciliations and restarts: a release
\* command that runs, or whose gate is about to open, belongs to the newest
\* attempt of an operation that is in flight.
THEOREM CommandsStayFenced == Spec => []CommandsAreFenced
  BY LiveIsNewest, ReleaseAlways, PTL

LEMMA NotAppliedHolds == ReleaseInv => NotAppliedIsProof
<1> SUFFICES ASSUME ReleaseInv, NEW o \in Ops,
                    ops[o].state \in {"prepared", "not_applied", "cancelled"}
             PROVE  ~EffectApplied(o) /\ ~MayStillApply(o)
  BY DEF NotAppliedIsProof
<1>1. ~EffectApplied(o)
  BY Known DEF EffectsAgree
<1>2. ~MayStillApply(o)
  BY NothingRuns DEF InFlight
<1> QED
  BY <1>1, <1>2

\* "not_applied", and with it a retry and a cancellation, is proof: nothing of the
\* operation is in its target and nothing that survives can put it there.
THEOREM NotAppliedStaysProof == Spec => []NotAppliedIsProof
  BY NotAppliedHolds, ReleaseAlways, PTL

LEMMA EffectsBounded == ReleaseInv => AtMostOneEffect
<1> SUFFICES ASSUME ReleaseInv, NEW o \in Ops
             PROVE  Cardinality({k \in Attempts : <<o, k>> \in applied}) <= 1
  BY DEF AtMostOneEffect
<1> DEFINE E == {k \in Attempts : <<o, k>> \in applied}
<1>1. E \subseteq {ops[o].attempts}
  BY Known DEF EffectsAgree
<1>2. CASE E = {}
  <2>1. Cardinality(E) = 0
    BY <1>2, FS_EmptySet
  <2> QED
    BY <2>1
<1>3. CASE E # {}
  <2>1. E = {ops[o].attempts}
    BY <1>1, <1>3
  <2>2. Cardinality(E) = 1
    BY <2>1, FS_Singleton
  <2> QED
    BY <2>2
<1> QED
  BY <1>2, <1>3

\* One semantic operation changes its target at most once, over all retries.
THEOREM EffectsStayUnique == Spec => []AtMostOneEffect
  BY EffectsBounded, ReleaseAlways, PTL
=============================================================================
