----------------------------- MODULE MCRouting -----------------------------
(* Two failures and their retries, probes of a lower tier and the operator's *)
(* orders under the legacy policy; a direct job, a candidate and its         *)
(* promotion under the bandit.                                               *)
EXTENDS RoutingInvariant

Four == <<"foreground", "foreground", "foreground", "foreground">>
All == Outcomes \ {"none"}

Setup(bandit, kind, grades, orders) ==
    [bandit |-> bandit, kind |-> kind, candidate |-> 1, active |-> 1, grades |-> grades,
     orders |-> orders, sources |-> Sources, explicit |-> {}, outcomes |-> All,
     identified |-> BOOLEAN]

Few(n, kind) == [j \in 1..4 |-> IF j <= n THEN kind[j] ELSE "unused"]

MCSetups ==
    {[Setup(FALSE, Four, 4, 0) EXCEPT !.sources = {"reviewer", "human"}, !.identified = {TRUE},
                                      !.outcomes = {"completed", "quality_gate"}],
     [Setup(FALSE, Few(2, Four), 2, 1) EXCEPT !.explicit = {1}],
     Setup(TRUE, Few(1, Four), 3, 1),
     [Setup(TRUE, Few(2, Four), 3, 0) EXCEPT !.active = 2, !.identified = {TRUE},
                                             !.outcomes = {"completed", "quality_gate"}],
     [Setup(TRUE, Few(2, <<"rollout_candidate", "promotion">>), 3, 1) EXCEPT
         !.outcomes = {"completed"}]}
=============================================================================
