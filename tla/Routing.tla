------------------------------ MODULE Routing ------------------------------
(***************************************************************************)
(* What the daemon learns from finished jobs for one routing key, in both  *)
(* of its modes.                                                           *)
(*                                                                         *)
(* The legacy policy is one tier: it is promoted when enough capability    *)
(* failures at that tier were each fixed one tier up, demoted when jobs    *)
(* one tier down do well, reverted when a human takes back the evidence,   *)
(* and set by the operator.  The bandit keeps an arm per tier, the replay  *)
(* of a ledger with at most one reward per job.  Jobs are graded by the    *)
(* agents they talk to, by reviewers and by humans, in any order and again *)
(* and again; each grade is one transaction with all that follows from it. *)
(*                                                                         *)
(* Abstracted: one key and one provider; an arm is its prior and the       *)
(* rewards replayed on it, the decayed sums over them are arithmetic;      *)
(* sampling is a free choice; what was created since the policy changed is *)
(* a set, not a comparison of times.                                       *)
(***************************************************************************)
EXTENDS Integers, FiniteSets

CONSTANTS
    Jobs,      \* a set of numbers, in the order of their creation
    Setups,    \* what a behaviour runs: the mode, the kind of every job, and bounds: jobs
               \* active at a time, grades and orders given, who grades, the outcomes of
               \* jobs, the tiers requests name
    MaxTier,   \* the tiers are 1..MaxTier
    Default,   \* DEFAULT_TIER
    PromotePairs, DemoteMinObservations, DemoteGoodProbes

Tiers == 1..MaxTier
Kinds == {"foreground", "rollout_candidate", "promotion"}
Outcomes == {"none", "completed", "partial", "quality_gate", "environmental"}
Sources == {"agent", "reviewer", "human"}

ASSUME RoutingAssumption ==
    /\ Jobs \subseteq Nat \ {0}
    /\ Setups \subseteq [bandit : BOOLEAN, kind : [Jobs -> Kinds \cup {"unused"}], candidate : Jobs,
                         active : Nat, grades : Nat, orders : Nat, sources : SUBSET Sources,
                         explicit : SUBSET Tiers,
                         outcomes : SUBSET (Outcomes \ {"none"}), identified : SUBSET BOOLEAN]
    /\ Default \in Tiers
    /\ {MaxTier, PromotePairs, DemoteMinObservations, DemoteGoodProbes} \subseteq Nat
    /\ PromotePairs > 0

VARIABLES
    setup,   \* the mode and the jobs of this behaviour
    jobs,    \* the rows of jobs
    policy,  \* the row of routing_policy
    ledger,  \* the rows of routing_rewards; rowid is the order of their insertion
    arms,    \* the rows of routing_arms
    given,   \* history: the last grade each source gave a job and was not refused
    reset,   \* history: jobs whose reward the operator cleared
    spent    \* grades and orders so far

vars == <<setup, jobs, policy, ledger, arms, given, reset, spent>>

Grades == {"good", "bad"}
Causes == {"none", "capability", "environmental"}

TypeOK ==
    /\ setup \in Setups
    /\ jobs \in [Jobs -> [state : {"new", "active", "done"}, tier : Tiers, from : Jobs \cup {0},
                          outcome : Outcomes, identified : BOOLEAN, cause : Causes,
                          grade : Grades \cup {"none"}, source : Sources \cup {"none"},
                          complete : BOOLEAN]]
    /\ policy \in [tier : Tiers, reason : {"none", "seeded", "learned", "reverted", "pinned"},
                   from : Tiers, pairs : SUBSET (Jobs \X Jobs), fresh : SUBSET Jobs]
    /\ ledger \subseteq [rowid : Nat, job : Jobs, tier : Tiers, reward : {0, 1}]
    /\ arms \in [Tiers -> [prior : {1, 3}, replay : SUBSET [rowid : Nat, reward : {0, 1}],
                           pinned : BOOLEAN]]
    /\ given \in [Jobs -> [Sources -> [grade : Grades \cup {"none"}, complete : BOOLEAN]]]
    /\ reset \subseteq Jobs
    /\ spent \in [grades : 0..setup.grades, orders : 0..setup.orders]

Fresh == [state |-> "new", tier |-> Default, from |-> 0, outcome |-> "none", identified |-> TRUE,
          cause |-> "none", grade |-> "none", source |-> "none", complete |-> TRUE]

Seeded == [tier |-> Default, reason |-> "seeded", from |-> Default, pairs |-> {}, fresh |-> {}]

Ungraded == [grade |-> "none", complete |-> TRUE]

\* The arm of the policy's tier is born with the stronger prior.
Arm(t) == [prior |-> IF t = Default THEN 3 ELSE 1, replay |-> {}, pinned |-> FALSE]

Init ==
    /\ setup \in Setups
    /\ jobs = [j \in Jobs |-> Fresh]
    /\ policy = Seeded
    /\ ledger = {}
    /\ arms = [t \in Tiers |-> Arm(t)]
    /\ given = [j \in Jobs |-> [s \in Sources |-> Ungraded]]
    /\ reset = {}
    /\ spent = [grades |-> 0, orders |-> 0]

(***************************************************************************)
(* What a job says about the model that ran it.                            *)
(***************************************************************************)
IsForeground(j) == setup.kind[j] \in {"foreground", "promotion"}
IsPromotion(j) == setup.kind[j] = "promotion"

FailureCause(outcome, grade) ==
    CASE outcome \in {"completed", "partial"} -> IF grade = "bad" THEN "capability" ELSE "none"
      [] outcome = "quality_gate" -> "capability"
      [] outcome = "environmental" -> "environmental"

NoReward == -1

\* reward(): a gate failure counts against the arm, a completed job counts as it is graded.
Reward(job) ==
    IF ~job.identified \/ job.source = "agent" \/ job.cause = "environmental" THEN NoReward
    ELSE CASE job.outcome = "quality_gate" -> 0
           [] job.outcome = "completed" /\ job.source # "none" -> IF job.grade = "good" THEN 1 ELSE 0
           [] OTHER -> NoReward

(***************************************************************************)
(* The bandit's ledger.                                                    *)
(***************************************************************************)
Rows(j) == {r \in ledger : r.job = j}

\* SQLite gives a new row the number after the largest one in use.
NextRowid == IF ledger = {} THEN 1
             ELSE 1 + (CHOOSE n \in {r.rowid : r \in ledger} : \A r \in ledger : r.rowid <= n)

\* The row of a job keeps its place when its reward changes.
Entered(j, tier, value) ==
    IF value = NoReward THEN ledger \ Rows(j)
    ELSE IF Rows(j) = {}
    THEN ledger \cup {[rowid |-> NextRowid, job |-> j, tier |-> tier, reward |-> value]}
    ELSE (ledger \ Rows(j)) \cup {[r EXCEPT !.reward = value] : r \in Rows(j)}

\* What the replay of a tier reads, in the order of the rows.
RewardsOf(rows, t) == {[rowid |-> r.rowid, reward |-> r.reward] : r \in {q \in rows : q.tier = t}}

\* updateRoutingReward, after the row of the job was changed.
UpdateReward(j, job) ==
    LET value == IF job.source = "reviewer" /\ ~job.complete THEN NoReward ELSE Reward(job)
        old == {r.reward : r \in Rows(j)}
        same == IF value = NoReward THEN old = {} ELSE old = {value} IN
    IF ~setup.bandit \/ job.source = "agent" \/ IsPromotion(j) \/ same
    THEN UNCHANGED <<ledger, arms>>
    ELSE /\ ledger' = Entered(j, job.tier, value)
         /\ arms' = [arms EXCEPT ![job.tier].replay = RewardsOf(ledger', job.tier)]

(***************************************************************************)
(* The legacy policy.  Each operator gives the row it leaves behind.       *)
(***************************************************************************)
\* setRoutingPolicy: what counts from now on is created from now on.
Set(tier, reason, from, pairs) ==
    [tier |-> tier, reason |-> reason, from |-> from, pairs |-> pairs, fresh |-> {}]

\* Capability failures at the policy's tier, each with a retry one tier up a human found good.
Fixes(js, p) ==
    {x \in Jobs \X Jobs : LET f == x[1]  r == x[2] IN
        /\ js[r].from = f
        /\ IsForeground(f) /\ js[f].tier = p.tier /\ js[f].cause = "capability" /\ f \in p.fresh
        /\ IsForeground(r) /\ js[r].tier = p.tier + 1 /\ js[r].outcome \in {"completed", "partial"}
        /\ js[r].grade = "good" /\ js[r].source = "human"
        /\ js[f].identified /\ js[r].identified}
\* One retry stands for each failure.
Pairs(js, p) == {x \in Fixes(js, p) : \A y \in Fixes(js, p) : y[1] = x[1] => y[2] >= x[2]}

Observed(js) == {i \in Jobs : js[i].state = "done" /\ IsForeground(i) /\ js[i].identified}
Probes(js, p) == {i \in Observed(js) \cap p.fresh : js[i].tier = p.tier - 1}
Good(job) == job.grade = "good" /\ job.source = "human"
Bad(job) == (job.grade = "bad" /\ job.source = "human") \/ job.cause = "capability"

Promotes(js, p) == p.tier < MaxTier /\ Cardinality(Pairs(js, p)) >= PromotePairs
Demotes(js, p) ==
    /\ p.tier > 1
    /\ Cardinality(Observed(js)) >= DemoteMinObservations
    /\ Cardinality({i \in Probes(js, p) : Good(js[i])}) >= DemoteGoodProbes
    /\ {i \in Probes(js, p) : Bad(js[i])} = {}

\* evolveRouting
Evolved(js, p, j) ==
    CASE ~js[j].identified -> p
      [] js[j].identified /\ Promotes(js, p) -> Set(p.tier + 1, "learned", p.tier, Pairs(js, p))
      [] js[j].identified /\ ~Promotes(js, p) /\ Demotes(js, p) -> Set(p.tier - 1, "learned", p.tier, {})
      [] OTHER -> p

\* (weakened: only the retry is looked at again)
FixHolds(js, x) == Good(js[x[2]])

Intact(js, x) == js[x[1]].cause = "capability" /\ Good(js[x[2]])

\* recheckPromotions, after a human graded j.
Rechecked(js, p, j) ==
    IF /\ \E x \in p.pairs : j \in {x[1], x[2]}
       /\ Cardinality({x \in p.pairs : Intact(js, x)}) < PromotePairs
    THEN Set(p.from, "reverted", p.from, {}) ELSE p

\* What a grade by source does to the policy; the grade of a promotion moves nothing by itself.
Relearned(js, p, j, source) ==
    LET checked == IF source = "human" THEN Rechecked(js, p, j) ELSE p IN
    IF setup.bandit THEN p
    ELSE IF source # "agent" /\ ~IsPromotion(j) THEN Evolved(js, checked, j) ELSE checked

(***************************************************************************)
(* Jobs are dispatched and finish.                                         *)
(***************************************************************************)
\* chooseArm: a pinned arm is mandatory, otherwise the draw decides.
Chosen(t) ==
    IF ~setup.bandit THEN t = policy.tier
    ELSE (\E u \in Tiers : arms[u].pinned) => arms[t].pinned

\* Only failed, cancelled or graded-bad jobs are retried.
Retryable(f) ==
    /\ jobs[f].state = "done"
    /\ jobs[f].outcome \in {"completed", "partial"} => jobs[f].grade = "bad"

Created(j, tier, from) ==
    /\ jobs' = [jobs EXCEPT ![j].state = "active", ![j].tier = tier, ![j].from = from]
    /\ policy' = [policy EXCEPT !.fresh = @ \cup {j}]
    /\ UNCHANGED <<setup, ledger, arms, given, reset, spent>>

InTurn(j) ==
    /\ jobs[j].state = "new"
    /\ \A i \in Jobs : i < j => jobs[i].state # "new"
    /\ Cardinality({i \in Jobs : jobs[i].state = "active"}) < setup.active

\* The request names a tier, or a ladder's first open rung does.
Named(t) == t \in setup.explicit

Send(j) ==
    /\ InTurn(j)
    /\ setup.kind[j] \in {"foreground", "rollout_candidate"}
    /\ \E t \in Tiers : (Named(t) \/ Chosen(t)) /\ Created(j, t, 0)

\* jobs.retry with the next tier, and the ladder's own escalation.
Escalate(j) ==
    /\ InTurn(j)
    /\ setup.kind[j] = "foreground"
    /\ \E f \in Jobs :
          /\ Retryable(f)
          /\ jobs[f].tier < MaxTier
          /\ Created(j, jobs[f].tier + 1, f)

\* transitionJob to a terminal state, and observeRouting with it.
Finish(j, outcome, identified) ==
    LET done == [jobs[j] EXCEPT !.state = "done", !.outcome = outcome, !.identified = identified,
                                !.cause = FailureCause(outcome, "none")]
        js == [jobs EXCEPT ![j] = done] IN
    /\ jobs[j].state = "active"
    /\ jobs' = js
    /\ UpdateReward(j, done)
    /\ policy' = IF setup.bandit \/ ~IsForeground(j) THEN policy ELSE Evolved(js, policy, j)
    /\ UNCHANGED <<setup, given, reset, spent>>

(***************************************************************************)
(* Grades.                                                                 *)
(***************************************************************************)
Rank(source) == CASE source = "human" -> 2 [] source = "reviewer" -> 1 [] OTHER -> 0
\* (weakened: the last grade wins)
NeverOutranked(job, source) == FALSE
Outranked(job, source) == job.source # "none" /\ Rank(source) < Rank(job.source)

\* The row of a job after one grade.
Graded(job, grade, source, complete) ==
    [job EXCEPT !.grade = grade, !.source = source, !.complete = complete,
                !.cause = CASE source = "agent" -> @
                            [] source = "reviewer" /\ ~complete -> "none"
                            [] OTHER -> FailureCause(job.outcome, grade)]

\* The group is promoted: the grade of the promotion is the grade of the candidate it applied.
PassesOn(j) == IsPromotion(j) /\ jobs[j].outcome = "completed"

MayGrade(j, source) ==
    /\ jobs[j].state = "done"
    /\ source = "reviewer" => jobs[j].outcome \in {"completed", "partial"}
    /\ ~Outranked(jobs[j], source)

Grade(j, grade, source, complete) ==
    LET c == setup.candidate
        also == PassesOn(j) /\ ~Outranked(jobs[c], source)
        one == [jobs EXCEPT ![j] = Graded(jobs[j], grade, source, complete)]
        two == [one EXCEPT ![c] = Graded(one[c], grade, source, complete)]
        first == Relearned(one, policy, j, source) IN
    /\ MayGrade(j, source)
    /\ source \in setup.sources
    /\ spent.grades < setup.grades
    /\ spent' = [spent EXCEPT !.grades = @ + 1]
    /\ jobs' = IF also THEN two ELSE one
    /\ policy' = IF also THEN Relearned(two, first, c, source) ELSE first
    /\ IF also THEN UpdateReward(c, two[c]) ELSE UpdateReward(j, one[j])
    /\ given' = [i \in Jobs |-> IF i = j \/ (also /\ i = c)
                    THEN [given[i] EXCEPT ![source] = [grade |-> grade, complete |-> complete]]
                    ELSE given[i]]
    /\ UNCHANGED <<setup, reset>>

\* queueRolloutPromotion: a copy of the winning candidate's row, and the approval that made
\* it the winner, in one transaction.
Promote(j) ==
    LET c == setup.candidate
        won == Graded(jobs[c], "good", "reviewer", TRUE)
        js == [jobs EXCEPT ![j].state = "active", ![j].tier = jobs[c].tier]
        graded == [js EXCEPT ![c] = won]
        p == [policy EXCEPT !.fresh = @ \cup {j}] IN
    /\ InTurn(j)
    /\ IsPromotion(j)
    /\ jobs[c].state = "done" /\ jobs[c].outcome = "completed"
    /\ IF Outranked(jobs[c], "reviewer")
       THEN jobs' = js /\ policy' = p /\ UNCHANGED <<ledger, arms, given>>
       ELSE /\ jobs' = graded
            /\ policy' = Relearned(graded, p, c, "reviewer")
            /\ UpdateReward(c, won)
            /\ given' = [given EXCEPT ![c]["reviewer"] = [grade |-> "good", complete |-> TRUE]]
    /\ UNCHANGED <<setup, reset, spent>>

AgentGrades(j) == \E g \in Grades : Grade(j, g, "agent", TRUE)

\* An approval on incomplete evidence is no grade; a candidate is approved by its promotion.
ReviewerGrades(j) ==
    \/ Grade(j, "bad", "reviewer", TRUE)
    \/ Grade(j, "bad", "reviewer", FALSE)
    \/ setup.kind[j] # "rollout_candidate" /\ Grade(j, "good", "reviewer", TRUE)

HumanGrades(j) == \E g \in Grades : Grade(j, g, "human", TRUE)

(***************************************************************************)
(* The operator's orders.                                                  *)
(***************************************************************************)
Order ==
    /\ spent.orders < setup.orders
    /\ spent' = [spent EXCEPT !.orders = @ + 1]

Pin(t) ==
    /\ Order
    /\ policy' = Set(t, "pinned", t, {})
    /\ arms' = [u \in Tiers |-> [arms[u] EXCEPT !.pinned = (u = t)]]
    /\ UNCHANGED <<setup, jobs, ledger, given, reset>>

\* Without a row every job ever counts.
Unpin ==
    /\ Order
    /\ policy.reason # "none"
    /\ policy' = [Set(Default, "none", Default, {}) EXCEPT !.fresh = Jobs]
    /\ arms' = [u \in Tiers |-> [arms[u] EXCEPT !.pinned = FALSE]]
    /\ UNCHANGED <<setup, jobs, ledger, given, reset>>

Reset(t) ==
    /\ Order
    /\ ledger' = {r \in ledger : r.tier # t}
    /\ arms' = [arms EXCEPT ![t].prior = 1, ![t].replay = {}]
    /\ reset' = reset \cup {j \in Jobs : jobs[j].state = "done" /\ jobs[j].tier = t}
    /\ UNCHANGED <<setup, jobs, policy, given>>

Next ==
    \/ \E j \in Jobs :
          \/ Send(j) \/ Escalate(j) \/ Promote(j)
          \/ \E outcome \in setup.outcomes, identified \in setup.identified : Finish(j, outcome, identified)
          \/ AgentGrades(j) \/ ReviewerGrades(j) \/ HumanGrades(j)
    \/ \E t \in Tiers : Pin(t) \/ Reset(t)
    \/ Unpin

Spec == Init /\ [][Next]_vars

(***************************************************************************)
(* Properties.                                                             *)
(***************************************************************************)
\* The source whose grade counts: a human's, or else a reviewer's; agents only advise.
Authority(j) == IF given[j]["human"].grade # "none" THEN "human" ELSE "reviewer"

\* What the ledger owes a finished job: nothing for an environmental failure or a model that
\* did not name itself, a loss for a failed gate, the authoritative grade for a completed job,
\* and nothing at all once a reviewer judged it on incomplete evidence.
Owed(j) ==
    LET verdict == given[j][Authority(j)] IN
    IF IsPromotion(j) \/ ~jobs[j].identified \/ ~verdict.complete THEN {}
    ELSE CASE jobs[j].outcome = "quality_gate" -> {0}
           [] jobs[j].outcome = "completed" /\ verdict.grade = "good" -> {1}
           [] jobs[j].outcome = "completed" /\ verdict.grade = "bad" -> {0}
           [] OTHER -> {}

\* However often and in whatever order a job is graded, directly or through its promotion, it
\* has one reward, that of its authoritative grade, and every arm is the replay of the ledger.
LedgerIsAuthoritative ==
    setup.bandit =>
        /\ \A j \in Jobs : jobs[j].state = "done" =>
              LET rewards == {r.reward : r \in Rows(j)} IN
              /\ Cardinality(Rows(j)) <= 1
              /\ IF j \in reset THEN rewards \subseteq Owed(j) ELSE rewards = Owed(j)
        /\ \A t \in Tiers : arms[t].replay = RewardsOf(ledger, t)

\* A learned promotion stands only as long as its evidence does: as many failures of the tier
\* below, each fixed by a retry a human still finds good, unless it was a reviewer who took
\* the failure back.
PromotionsRestOnEvidence ==
    policy.pairs # {} =>
        /\ policy.tier = policy.from + 1
        /\ Cardinality({x \in policy.pairs :
              Good(jobs[x[2]]) /\ (jobs[x[1]].cause = "capability" \/ jobs[x[1]].source = "reviewer")})
              >= PromotePairs
=============================================================================
