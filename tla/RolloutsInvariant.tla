------------------------- MODULE RolloutsInvariant -------------------------
(***************************************************************************)
(* The inductive invariant of Rollouts: where every job comes from, what   *)
(* its predecessors have left behind, and what an active group may count   *)
(* on.                                                                     *)
(***************************************************************************)
EXTENDS Rollouts

\* The worker of a job of each kind is a job of the kind its creator read it from.
\* J is the jobs table, G the groups.
Descends(J, G, j) ==
    LET w == J[j].from
        g == J[j].group
    IN  /\ w < j
        /\ J[j].kind = "foreground" =>
             /\ g = NoGroup
             /\ w # NoJob => Foreground(J, w)
             /\ J[j].why # "request" => w # NoJob
        /\ J[j].kind = "review" =>
             /\ g = NoGroup
             /\ w # NoJob
             /\ Foreground(J, w)
             /\ J[j].corr = J[w].corr
        /\ J[j].kind = "rollout_candidate" => g # NoGroup
        /\ J[j].kind = "rollout_review" =>
             /\ g # NoGroup
             /\ w # NoJob
             /\ J[w].kind = "rollout_candidate"
             /\ J[w].group = g
        /\ J[j].kind = "promotion" =>
             /\ g # NoGroup
             /\ G[g].promotion = j
             /\ G[g].winner = w
        /\ J[j].kind # "foreground" => J[j].base = 0

\* A group goes back to a refuted worker that asked for rollouts; its promotion is
\* the one of its winner.
Answers(J, G, g) ==
    LET w == G[g].worker
        r == G[g].reviewer
        p == G[g].promotion
    IN  /\ Foreground(J, w)
        /\ J[r].kind = "review"
        /\ J[r].from = w
        /\ J[w].corr > 0
        /\ J[w].roll > 0
        /\ p # NoJob =>
             /\ J[p].kind = "promotion"
             /\ J[p].group = g
             /\ G[g].winner # NoJob
             /\ J[G[g].winner].kind = "rollout_candidate"
             /\ J[G[g].winner].group = g
        /\ G[g].state = "running" => p = NoJob
        /\ G[g].state = "promoting" => p # NoJob

Lineage(J, G) ==
    /\ J # <<>>
    /\ J[1].kind = "foreground"
    /\ \A j \in DOMAIN J : Descends(J, G, j)
    /\ \A g \in DOMAIN G : Answers(J, G, g)

\* What a job's state says of the job it was created for.
Progress(J, G) ==
    /\ \A r \in DOMAIN J :
         /\ J[r].kind \in {"review", "rollout_review"} => J[J[r].from].state = "succeeded"
         /\ J[r].kind \in {"review", "rollout_review"} /\ J[r].state \in Pending => J[r].outcome = "none"
    /\ \A r, s \in DOMAIN J :
         J[r].kind = "rollout_review" /\ J[s].kind = "rollout_review" /\ J[r].from = J[s].from => r = s
    /\ \A p \in DOMAIN J : J[p].kind = "promotion" =>
         /\ \E r \in DOMAIN J : /\ J[r].kind = "rollout_review"
                                /\ J[r].from = J[p].from
                                /\ J[r].state = "succeeded"
                                /\ J[r].outcome = "approved"
         /\ J[p].state = "applied" => J[p].tree = J[J[p].from].tree
         /\ J[p].state \in {"queued", "running", "applied"} => G[J[p].group].state \in ActiveGroup
         /\ J[p].state = "succeeded" => G[J[p].group].state = "promoted"

\* Foreground jobs start in the order in which they were created.
InOrder(J) ==
    \A i, j \in DOMAIN J :
        /\ Foreground(J, i) /\ Foreground(J, j)
        /\ i < j
        /\ J[i].state = "queued"
        => J[j].state \in {"queued", "cancelled"}

\* An active group is the only one; after its worker nothing but its promotion came.
Reserved(J, G, t) ==
    \A g \in ActiveIn(G) :
        /\ ActiveIn(G) = {g}
        /\ t.owned
        /\ \A j \in DOMAIN J : Foreground(J, j) /\ J[j].state \in Pending => J[j].group = g
        /\ \A j \in DOMAIN J : Foreground(J, j) /\ j > G[g].worker => J[j].group = g

\* A correction and an escalation are made while nobody continued the room, a retry
\* while its reviewer is the latest.
AnsweredInTurn(J, G) ==
    /\ \A g, h \in DOMAIN G : G[g].reviewer = G[h].reviewer => g = h
    /\ \A i, j \in DOMAIN J :
         /\ J[i].kind = "foreground" /\ J[i].why # "request"
         /\ J[j].kind = "foreground" /\ J[j].why = J[i].why
         /\ J[i].from = J[j].from
         => i = j
    /\ \A r \in DOMAIN J : J[r].kind = "review" /\ J[r].retry =>
         \E q \in DOMAIN J :
             /\ q < r
             /\ J[q].kind = "review" /\ ~J[q].retry /\ J[q].from = J[r].from
             /\ \A s \in DOMAIN J : J[s].kind = "review" /\ J[s].from = J[r].from => s <= q \/ r <= s

\* Reviewers whose failure start() has yet to settle, and those whose refutation was
\* refused rollouts or is yet to be settled
LeftBehind == IF daemon = "down" THEN DOMAIN jobs ELSE failing
Awaited ==
    IF daemon = "down" THEN DOMAIN jobs
    ELSE declined \cup {r \in DOMAIN jobs : [job |-> r, step |-> "settle"] \in settling}

Latest(J, r) == \A s \in DOMAIN J : J[s].kind = "review" /\ J[s].from = J[r].from => s <= r

\* A reviewer that ended without a verdict says so unless it was left behind, and a
\* refutation that asks for rollouts has its group unless it is awaited.
Answered(J, G, left, awaited) ==
    \A r \in DOMAIN J :
        J[r].kind = "review" /\ Latest(J, r) =>
            /\ J[r].state \in {"failed", "cancelled"} =>
                 \/ J[r].outcome = "none" /\ r \in left
                 \/ J[J[r].from].skip
                 \/ \E g \in DOMAIN G : G[g].worker = J[r].from /\ G[g].state = "promoted"
            /\ J[r].outcome = "refuted" /\ J[r].corr > 0 /\ J[J[r].from].roll > 0 =>
                 r \in awaited \/ \E g \in DOMAIN G : G[g].reviewer = r

Failing ==
    \A r \in failing :
        IsReview(r) /\ jobs[r].state \in {"failed", "cancelled"} /\ jobs[r].outcome = "none"

RolloutsInv ==
    /\ TypeOK
    /\ Lineage(jobs, groups)
    /\ Progress(jobs, groups)
    /\ InOrder(jobs)
    /\ Reserved(jobs, groups, task)
    /\ AnsweredInTurn(jobs, groups)
    /\ Answered(jobs, groups, LeftBehind, Awaited)
    /\ Failing
=============================================================================
