-------------------------- MODULE ReleaseInvariant --------------------------
(* The inductive invariant behind the safety of Releases.                  *)
EXTENDS Releases

InFlight == {"executing", "reconcile_required"}

\* Process p works for operation o under the current owner token.
Current(p, o) ==
    /\ exec[p][o].pc \in Dispatching \cup Observing
    /\ exec[p][o].token = ops[o].token

\* The row of a target and the unresolved operation agree.
OwnerAgrees ==
    /\ \A o \in Ops : ops[o].state \in Unresolved
          => target[TargetOf[o]] = Owner(o, ops[o].token)
    /\ \A t \in Targets : target[t] # Free
          => /\ target[t].op \in Ops
             /\ TargetOf[target[t].op] = t
             /\ ops[target[t].op].state \in Unresolved
             /\ target[t].token = ops[target[t].op].token

\* Nothing is known of an operation before it is prepared.
UnpreparedIsNew == \A o \in Ops : ops[o].state = "none" => ops[o] = NewOp

\* An operation that is verified, or about to be recorded as such, is applied.
VerifiedIsApplied ==
    \A o \in Ops :
        /\ ops[o].state = "verified" => EffectApplied(o)
        /\ \A p \in Procs : At(p, o, "answered")
              => /\ exec[p][o].answer # "none"
                 /\ exec[p][o].answer = "verified" => EffectApplied(o)

\* Mutations rest on a verified operation, whose state never changes again.
ProofAgrees ==
    \A o \in Mutating : ops[o].attempts > 0
        => \E v \in Ops \ Mutating : CandidateOf[v] = CandidateOf[o] /\ ops[v].state = "verified"

\* What needs neither scopes nor attempts: ownership, permission and proof.
OwnershipInv ==
    /\ TypeOK
    /\ OwnerAgrees
    /\ UnpreparedIsNew
    /\ VerifiedIsApplied
    /\ ProofAgrees

-----------------------------------------------------------------------------
(* Attempts, scopes and effects of one operation; p and q are processes.   *)

\* Tokens only grow, nobody works yet for a prepared operation, and an executor
\* that dispatches knows its attempt.
TokensAgree(p, o) ==
    /\ exec[p][o].pc \in Dispatching \cup Observing => exec[p][o].token <= ops[o].token
    /\ ops[o].state \in {"none", "prepared"} => ~Current(p, o)
    /\ exec[p][o].pc \in Dispatching
          => /\ exec[p][o].attempt \in 1..ops[o].attempts
             /\ Current(p, o) => ops[o].state = "executing" /\ exec[p][o].attempt = ops[o].attempts

\* One process works for an executing operation, and a dispatch has its attempt,
\* and thereby its scope, for itself.
OneExecutor(p, q, o) ==
    /\ ops[o].state = "executing" /\ Current(p, o) /\ Current(q, o) => p = q
    /\ exec[p][o].pc \in Dispatching /\ exec[q][o].pc \in Dispatching
          /\ exec[p][o].attempt = exec[q][o].attempt => p = q

\* The scope as far as its executor has brought it.
ScopeFollowsExecutor(p, o) ==
    /\ exec[p][o].pc \in {"dispatched", "intended"} => CurrentScope(p, o) = "none"
    /\ exec[p][o].pc = "enrolled"
          => /\ CurrentScope(p, o) \in {"gated", "gone"}
             /\ CurrentScope(p, o) = "gated"
                   => exec[p][o].attempt = ops[o].attempts /\ ops[o].state \in InFlight
    /\ exec[p][o].pc \in {"cleanupFound", "terminating"} => CurrentScope(p, o) # "none"
    /\ exec[p][o].pc = "terminating" => exec[p][o].attempt \in 1..ops[o].attempts
    /\ /\ exec[p][o].pc \in Dispatching \ {"dispatched"}
       /\ ops[o].state \in InFlight
       /\ exec[p][o].attempt = ops[o].attempts
       => ops[o].unit # "none"

\* The record of an operation says what its scopes can be.
RecordFollowsScope(o) ==
    /\ \A k \in Attempts : k > ops[o].attempts => scope[o][k] = "none"
    /\ \A k \in Attempts : scope[o][k] = "running"
          => k = ops[o].attempts /\ ops[o].state \in InFlight
    /\ ops[o].state \in InFlight \cup {"verified", "not_applied"} => ops[o].attempts \in Attempts
    /\ ops[o].state = "prepared" => ops[o].result = "none" /\ ops[o].unit = "none"
    /\ ops[o].state \in InFlight
          => /\ ops[o].unit = "none" => scope[o][ops[o].attempts] = "none"
             /\ ops[o].unit = "enrolled" => scope[o][ops[o].attempts] # "none"
             /\ ops[o].result = "returned" => scope[o][ops[o].attempts] = "gone"

\* Effects belong to the newest attempt, and to operations that were in flight.
EffectsAgree(o) ==
    /\ \A k \in Attempts : <<o, k>> \in applied => k = ops[o].attempts
    /\ ops[o].state \in {"none", "prepared", "not_applied", "cancelled"} => ~EffectApplied(o)

\* What an observer read of the record is still in it, and an answer that is about
\* to be recorded is still true.
AnswerHolds(p, o) ==
    exec[p][o].pc \in {"reading", "answered"} /\ Current(p, o) /\ ops[o].state \in InFlight
        => /\ exec[p][o].attempt = ops[o].attempts
           /\ exec[p][o].result = ops[o].result
           /\ exec[p][o].unit = ops[o].unit
           /\ At(p, o, "answered") /\ exec[p][o].answer = "not_applied"
                 => ~EffectApplied(o) /\ ~MayStillApply(o)

OperationInv(o) ==
    /\ RecordFollowsScope(o)
    /\ EffectsAgree(o)
    /\ \A p \in Procs : TokensAgree(p, o) /\ ScopeFollowsExecutor(p, o) /\ AnswerHolds(p, o)
    /\ \A p, q \in Procs : OneExecutor(p, q, o)

\* All of it: inductive, and strong enough for CommandsAreFenced,
\* NotAppliedIsProof and AtMostOneEffect.
ReleaseInv == OwnershipInv /\ \A o \in Ops : OperationInv(o)
=============================================================================
