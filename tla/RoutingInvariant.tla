-------------------------- MODULE RoutingInvariant --------------------------
(* The inductive invariant behind the properties of Routing.               *)
EXTENDS Routing

Done == {j \in Jobs : jobs[j].state = "done"}

\* Row x of a finished job keeps the grade that counts of those that were given, g: a
\* human's, or else a reviewer's, whatever came first; agents grade only what neither did.
\* Only a failure of the environment is blamed on it.
RowKeeps(x, g) ==
    /\ x.outcome # "none"
    /\ x.cause = "environmental" => x.outcome = "environmental"
    /\ g["human"].complete
    /\ g["human"].grade # "none" => x.source = "human" /\ x.grade = g["human"].grade
    /\ g["human"].grade = "none" /\ g["reviewer"].grade # "none" =>
          x.source = "reviewer" /\ x.grade = g["reviewer"].grade
    /\ g["human"].grade = "none" /\ g["reviewer"].grade = "none" => x.source \in {"none", "agent"}
    /\ IF x.source = "reviewer" THEN x.complete = g["reviewer"].complete ELSE x.complete
    /\ g["reviewer"].grade = "none" => g["reviewer"].complete

GradesAgree ==
    \A j \in Jobs :
        IF j \in Done THEN RowKeeps(jobs[j], given[j])
        ELSE /\ jobs[j].outcome = "none" /\ jobs[j].cause = "none" /\ jobs[j].source = "none"
             /\ jobs[j].complete
             /\ \A s \in Sources : given[j][s] = Ungraded

\* A row of the ledger is of a finished job, at its tier, and the only one of it; no two rows
\* have the same place.
RowsAgree ==
    /\ IsFiniteSet(ledger)
    /\ \A r \in ledger : r.job \in Done /\ r.tier = jobs[r.job].tier
    /\ \A q, r \in ledger : q.job = r.job \/ q.rowid = r.rowid => q = r

\* The candidate of a promotion was done before it, so it is not itself a promotion.
PromotionsFollow ==
    \A j \in Jobs : IsPromotion(j) /\ jobs[j].state # "new" =>
        setup.candidate \in Done /\ setup.candidate # j

\* The evidence of a promotion is of finished jobs, and only the legacy policy rests on any.
EvidenceIsDone ==
    /\ IsFiniteSet({j \in Jobs : jobs[j].state # "new"})
    /\ policy.pairs \subseteq Done \X Done
    /\ setup.bandit => policy.pairs = {}

RoutingInv ==
    /\ TypeOK
    /\ GradesAgree
    /\ RowsAgree
    /\ PromotionsFollow
    /\ EvidenceIsDone
    /\ LedgerIsAuthoritative
    /\ PromotionsRestOnEvidence
=============================================================================
