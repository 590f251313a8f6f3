------------------------------ MODULE Rollouts ------------------------------
(***************************************************************************)
(* What follows a finished job: its review, the retry of a reviewer that   *)
(* failed, one correction or one rollout group for a refutation, and the   *)
(* promotion of the group's winner onto the canonical worktree.            *)
(*                                                                         *)
(* One task in one room.  A finished job is settled (settleRolloutForJob)  *)
(* after the transaction that ended it, in the same stretch of the event   *)
(* loop: only a crash falls between the two, and start() settles again.    *)
(*                                                                         *)
(* Abstracted: contents of a worktree are numbers, a new one for every     *)
(* change; quota, provider, queue capacity and the reservation of the      *)
(* worktree by another task are one choice, open; which survivor ranks     *)
(* first is any; grades of people, rewards and the charter's names of      *)
(* rungs are left out; jobs have no evaluation.                            *)
(***************************************************************************)
EXTENDS Integers, Sequences, FiniteSets

CONSTANTS
    Specs,        \* the first request: corrections, rollouts and the rung routed to
    FollowUps,    \* the same of later requests
    WorkflowRollouts, \* workflow.review.maxRollouts
    MaxActive,    \* config.maxActive
    Rungs,        \* rungs of the charter's ladder
    Budgets       \* bound: an execution whose first request is s stays within one of Budgets[s]

ASSUME RolloutsAssumption ==
    /\ Specs \cup FollowUps \subseteq [corr : 0..2, roll : 0..3, rung : 1..Rungs]
    /\ WorkflowRollouts \in 0..3
    /\ MaxActive \in Nat \ {0}
    /\ Rungs \in Nat \ {0}
    /\ Budgets \in [Specs -> SUBSET [requests : Nat, reviews : Nat, edits : Nat, cancels : Nat,
                                     pauses : Nat, crashes : Nat, quarantines : Nat, refusals : Nat]]

VARIABLES
    jobs,      \* the jobs table, oldest first
    groups,    \* rollout_groups, oldest first
    task,      \* the task: state, paused, and whether it owns its worktree
    tree,      \* content of the canonical worktree
    contents,  \* contents made so far
    declined,  \* reviewers with a rollout.skipped event
    daemon,    \* "up" or "down"
    failing,   \* memory of start(): reviews interrupted by the crash
    settling,  \* memory of the stretch: jobs to be settled
    spent

vars == <<jobs, groups, task, tree, contents, declined, daemon, failing, settling, spent>>

Running == {"running", "applied", "cancel_requested"}
Pending == {"queued"} \cup Running
TerminalJobStates == {"succeeded", "failed", "cancelled"}
ActiveGroup == {"running", "paused", "promoting"}
NoJob == 0
NoGroup == 0

Blank == [kind |-> "foreground", state |-> "queued", from |-> NoJob, why |-> "request",
          corr |-> 0, roll |-> 0, group |-> NoGroup, rung |-> 1, complete |-> TRUE,
          retry |-> FALSE, outcome |-> "none", place |-> "none", code |-> "none",
          tree |-> 0, base |-> 0, open |-> FALSE, bad |-> FALSE, skip |-> FALSE]

Kinds == {"foreground", "review", "rollout_candidate", "rollout_review", "promotion"}
JobStates == Pending \cup TerminalJobStates
Reasons == {"request", "correction", "escalation"}
Outcomes == {"none", "approved", "refuted", "inconclusive", "protocol_failed", "reviewer_failed"}
Places == {"none", "failed", "exhausted", "promoting", "promoted"}
Codes == {"none", "quality_gate", "policy", "environment", "protocol", "user",
          "review_stale", "rollout_conflict", "daemon_restart"}

\* A row of jobs, of n jobs and m groups, when c contents were made
Job(n, m, c) ==
    [kind : Kinds, state : JobStates, from : 0..n, why : Reasons,
     corr : 0..2, roll : 0..3, group : 0..m, rung : 1..Rungs,
     complete : BOOLEAN, retry : BOOLEAN, outcome : Outcomes, place : Places, code : Codes,
     tree : 0..c, base : 0..c, open : BOOLEAN, bad : BOOLEAN, skip : BOOLEAN]

\* A row of rollout_groups
Group(n, c) ==
    [state : ActiveGroup \cup {"promoted", "exhausted", "failed", "stale", "cancelled"},
     worker : 1..n, reviewer : 1..n, winner : 0..n, promotion : 0..n,
     budget : 1..2, spent : 0..2, base : 0..c]

TypeOK ==
    /\ jobs \in Seq(Job(Len(jobs), Len(groups), contents))
    /\ groups \in Seq(Group(Len(jobs), contents))
    /\ task \in [state : {"working", "completed", "checkpointed", "blocked", "unknown", "cancelled"},
                 paused : BOOLEAN, owned : BOOLEAN]
    /\ contents \in Nat
    /\ tree \in 0..contents
    /\ declined \subseteq DOMAIN jobs
    /\ daemon \in {"up", "down"}
    /\ failing \subseteq DOMAIN jobs
    /\ settling \subseteq [job : DOMAIN jobs, step : {"settle", "release"}]

Init ==
    /\ \E s \in Specs : jobs = <<[Blank EXCEPT !.corr = s.corr, !.roll = s.roll, !.rung = s.rung]>>
    /\ groups = <<>>
    /\ task = [state |-> "working", paused |-> FALSE, owned |-> FALSE]
    /\ tree = 0
    /\ contents = 0
    /\ declined = {}
    /\ daemon = "up"
    /\ failing = {}
    /\ settling = {}
    /\ spent = [k \in {"requests", "reviews", "edits", "cancels", "pauses", "crashes",
                       "quarantines", "refusals"} |-> 0]

FirstRequest == [corr |-> jobs[1].corr, roll |-> jobs[1].roll, rung |-> jobs[1].rung]
Within(s) == \E b \in Budgets[FirstRequest] : \A k \in DOMAIN b : s[k] <= b[k]
Spend(what, n) ==
    LET s == [spent EXCEPT ![what] = @ + n] IN Within(s) /\ spent' = s

\* Whether the provider, the queue and the worktree admit automatic work.
Open(open) == Spend("refusals", IF open THEN 0 ELSE 1)

\* The event loop runs nothing else before the stretch that ended a job is over.
Turn == daemon = "up" /\ failing = {} /\ settling = {}

-----------------------------------------------------------------------------
(* Queries *)

Foreground(J, j) == J[j].kind \in {"foreground", "promotion"}
IsReview(j) == jobs[j].kind \in {"review", "rollout_review"}
MaxOf(S) == CHOOSE x \in S : \A y \in S : y <= x
Reviews(w) == {r \in DOMAIN jobs : IsReview(r) /\ jobs[r].from = w}
LatestReview(w) == IF Reviews(w) = {} THEN NoJob ELSE MaxOf(Reviews(w))
LaterWorkJob(w) == \E i \in DOMAIN jobs : i > w /\ Foreground(jobs, i)
Members(g) == {i \in DOMAIN jobs : jobs[i].group = g}
MembersOfKind(g, kind) == {i \in Members(g) : jobs[i].kind = kind}

\* rolloutGroupForJob: the newest group the job is the worker, the reviewer or a member of.
GroupsOf(j) == {g \in DOMAIN groups : groups[g].worker = j \/ groups[g].reviewer = j \/ jobs[j].group = g}
GroupForJob(j) == IF GroupsOf(j) = {} THEN NoGroup ELSE MaxOf(GroupsOf(j))

ActiveIn(G) == {g \in DOMAIN G : G[g].state \in ActiveGroup}

\* hasUnresolvedExecution, for the jobs of the task and of its groups
Unresolved(J, j) == J[j].open \/ J[j].state \in Running
NothingUnresolved(J, G) == \A j \in DOMAIN J : J[j].kind # "review" => ~Unresolved(J, j)
CanReleaseTaskOwnership(J, G) == ActiveIn(G) = {} /\ NothingUnresolved(J, G)

\* setState: the outcome, and the worktree when the outcome releases it
TaskIn(outcome, J, G) ==
    [task EXCEPT !.state = outcome,
                 !.owned = @ /\ ~(outcome \in {"completed", "cancelled"} /\ CanReleaseTaskOwnership(J, G))]

\* finishJob, of a foreground job: the worktree is released with any outcome
TaskAfterEnd(outcome, J, G) ==
    [task EXCEPT !.state = outcome, !.owned = @ /\ ~CanReleaseTaskOwnership(J, G)]

\* createJob refuses a foreground job while a group reserves the task.
MayCreateForeground(G, group) == ActiveIn(G) \ {group} = {}
Queued(t) == [t EXCEPT !.state = "working"]

-----------------------------------------------------------------------------
(* What a settlement adds to the jobs table *)

\* Only a capability failure escalates: a failed quality gate other than a policy
\* one, or a finished job graded bad.
FailedForCapability(J, w) ==
    /\ Foreground(J, w)
    /\ \/ J[w].state = "succeeded" /\ J[w].bad
       \/ J[w].state = "failed" /\ J[w].code = "quality_gate"
    /\ ~\E i \in DOMAIN J : i > w /\ Foreground(J, i)
Escalates(J, w) == FailedForCapability(J, w) /\ J[w].rung < Rungs

LadderAfterFailure(J, w, open) ==
    IF Escalates(J, w) /\ open
    THEN Append(J, [Blank EXCEPT !.from = w, !.why = "escalation", !.corr = J[w].corr,
                                 !.roll = J[w].roll, !.rung = J[w].rung + 1])
    ELSE J

RequestReview(J, w, complete, open) ==
    IF open
    THEN Append([J EXCEPT ![w].skip = FALSE],
                [Blank EXCEPT !.kind = "review", !.from = w, !.corr = J[w].corr, !.complete = complete])
    ELSE [J EXCEPT ![w].skip = TRUE]

\* reviewRetryDecision: one retry, of an ordinary review, for a transient failure.
RetriesReview(J, r, open) ==
    /\ J[r].kind = "review"
    /\ J[r].code \in {"environment", "daemon_restart"}
    /\ ~J[r].open
    /\ ~J[r].retry
    /\ open

SettleReviewFailure(J, r, open) ==
    LET K == [J EXCEPT ![r].outcome = IF J[r].code = "protocol" THEN "protocol_failed" ELSE "reviewer_failed"]
        w == J[r].from
    IN  IF LatestReview(w) # r THEN K
        ELSE IF RetriesReview(J, r, open)
             THEN Append([K EXCEPT ![w].skip = FALSE],
                         [Blank EXCEPT !.kind = "review", !.from = w, !.corr = J[r].corr,
                                       !.complete = J[r].complete, !.retry = TRUE])
        ELSE [K EXCEPT ![w].skip = @ \/ J[r].kind = "review"]

\* continueAfterRefutation: a correction pinned to the refuted tree, the next rung
\* when corrections are spent, nothing when someone already continued the room.
Continue(J, r, open) ==
    LET w == J[r].from
    IN  IF J[r].corr = 0 THEN LadderAfterFailure(J, w, open)
        ELSE IF LaterWorkJob(w) \/ ~open THEN J
        ELSE Append(J, [Blank EXCEPT !.from = w, !.why = "correction", !.corr = J[r].corr - 1,
                                     !.roll = WorkflowRollouts, !.rung = J[w].rung, !.base = J[w].tree])

\* A refutation with corrections left and rollouts requested waits for its group.
LeftToRollouts(J, r) == J[J[r].from].roll > 0 /\ J[r].corr > 0
AfterReviewSettled(J, r, open) == IF LeftToRollouts(J, r) THEN J ELSE Continue(J, r, open)

-----------------------------------------------------------------------------
(* Jobs run *)

\* A follow-up sent while its predecessor was pending
Follows(j, states) ==
    jobs[j].why = "request" /\ jobs[j].from # NoJob /\ jobs[jobs[j].from].state \in states

Eligible(j) ==
    /\ jobs[j].state = "queued"
    /\ jobs[j].group # NoGroup => groups[jobs[j].group].state \in {"running", "promoting"} /\ ~task.paused
    /\ Foreground(jobs, j) =>
        /\ MayCreateForeground(groups, jobs[j].group)
        /\ ~task.paused
        /\ ~Follows(j, Pending \cup {"failed", "cancelled"})
        /\ \A i \in DOMAIN jobs : Foreground(jobs, i) => ~Unresolved(jobs, i)

\* A follow-up that the pass cancels: its predecessor did not succeed.
Abandoned(j) ==
    /\ jobs[j].kind = "foreground"
    /\ jobs[j].state = "queued"
    /\ MayCreateForeground(groups, jobs[j].group)
    /\ Follows(j, {"failed", "cancelled"})

\* The pass visits the queue, oldest first, while a slot is free.
Reaches(j) ==
    /\ Turn
    /\ Cardinality({i \in DOMAIN jobs : jobs[i].state \in Running \/ jobs[i].open}) < MaxActive
    /\ \A i \in 1..(j - 1) : ~Eligible(i) /\ ~Abandoned(i)

MayDispatch(j) == Reaches(j) /\ Eligible(j)

\* A correction runs only on the tree its refutation was about.
Dispatch(j) ==
    /\ MayDispatch(j)
    /\ jobs[j].kind # "promotion"
    /\ IF jobs[j].base \notin {0, tree}
       THEN /\ jobs' = [jobs EXCEPT ![j].state = "failed", ![j].code = "review_stale"]
            /\ task' = TaskAfterEnd("blocked", jobs', groups)
            /\ settling' = {[job |-> j, step |-> "settle"]}
       ELSE /\ jobs' = [jobs EXCEPT ![j].state = "running"]
            /\ task' = IF Foreground(jobs, j) THEN [task EXCEPT !.state = "working", !.owned = TRUE] ELSE task
            /\ UNCHANGED settling
    /\ UNCHANGED <<groups, tree, contents, declined, daemon, failing, spent>>

Sweep(j) ==
    /\ Reaches(j)
    /\ Abandoned(j)
    /\ jobs' = [jobs EXCEPT ![j].state = "cancelled", ![j].code = "user"]
    /\ task' = TaskAfterEnd(IF jobs[jobs[j].from].state = "cancelled" THEN "cancelled" ELSE "blocked",
                            jobs', groups)
    /\ UNCHANGED <<groups, tree, contents, declined, daemon, failing, settling, spent>>

\* What every end of a job shares: it is settled in the same stretch.
Ends(j) ==
    /\ Turn
    /\ settling' = {[job |-> j, step |-> "settle"]}
    /\ UNCHANGED <<declined, daemon, failing>>

FinishedTask(J) ==
    TaskIn(IF task.paused THEN "checkpointed"
           ELSE IF \E i \in DOMAIN jobs : Foreground(jobs, i) /\ jobs[i].state = "queued" THEN "working"
           ELSE "completed", J, groups)

\* A foreground job completes and its reviewer is queued in the same transaction.
CompleteWork(j) ==
    /\ jobs[j].kind = "foreground"
    /\ jobs[j].state = "running"
    /\ Ends(j)
    /\ contents' = contents + 1
    /\ tree' = contents'
    /\ \E complete, open \in BOOLEAN :
        /\ Spend("refusals", (IF open THEN 0 ELSE 1) + (IF complete THEN 0 ELSE 1))
        /\ jobs' = RequestReview([jobs EXCEPT ![j].state = "succeeded", ![j].tree = contents'],
                                 j, complete, open)
    /\ task' = FinishedTask([jobs EXCEPT ![j].state = "succeeded"])
    /\ UNCHANGED groups

CompleteCandidate(j) ==
    /\ jobs[j].kind = "rollout_candidate"
    /\ jobs[j].state = "running"
    /\ Ends(j)
    /\ contents' = contents + 1
    /\ jobs' = [jobs EXCEPT ![j].state = "succeeded", ![j].tree = contents']
    /\ UNCHANGED <<groups, task, tree, spent>>

\* A job fails: in a gate on the content it applied, or before that.  Its commands
\* may be unresolved; a cancelled job ends here too.
FailWork(j, code) ==
    /\ jobs[j].kind \in {"foreground", "rollout_candidate", "promotion"}
    /\ jobs[j].state \in Running
    /\ jobs[j].state = "cancel_requested" <=> code = "user"
    /\ code \in {"quality_gate", "policy", "environment", "user"}
    /\ Ends(j)
    /\ \E changed, open, quarantined \in BOOLEAN :
        \* which gate failed, and whether others may run, matters to the ladder only
        /\ jobs[j].kind # "foreground" => open /\ code # "policy" /\ (code = "environment" => quarantined)
        /\ code # "quality_gate" => open
        /\ changed <=> code \in {"quality_gate", "policy"} /\ jobs[j].kind = "foreground"
        /\ contents' = contents + (IF changed THEN 1 ELSE 0)
        /\ tree' = IF changed THEN contents' ELSE tree
        /\ quarantined => code = "environment"
        /\ LET s == [spent EXCEPT !.refusals = @ + (IF open THEN 0 ELSE 1),
                                  !.quarantines = @ + (IF quarantined THEN 1 ELSE 0)]
               J == [jobs EXCEPT ![j].state = IF code = "user" THEN "cancelled" ELSE "failed",
                                 ![j].code = code, ![j].open = quarantined]
               outcome == IF code = "user" THEN "cancelled" ELSE "blocked"
           IN  /\ Within(s)
               /\ spent' = s
               /\ jobs' = IF jobs[j].kind = "foreground" THEN LadderAfterFailure(J, j, open) ELSE J
               /\ task' = IF ~Foreground(jobs, j) THEN task
                          ELSE IF Len(jobs') > Len(J) THEN Queued(TaskAfterEnd(outcome, J, groups))
                          ELSE TaskAfterEnd(outcome, J, groups)
    /\ UNCHANGED groups

\* finalizeReview: APPROVED on incomplete evidence is inconclusive; only an ordinary
\* review grades its worker and is answered.
GiveVerdict(r, verdict) ==
    /\ IsReview(r)
    /\ jobs[r].state = "running"
    /\ Ends(r)
    /\ LET outcome == IF verdict = "approved" /\ ~jobs[r].complete THEN "inconclusive" ELSE verdict
           w == jobs[r].from
           J == [jobs EXCEPT ![r].state = "succeeded", ![r].outcome = outcome,
                    ![w].bad = IF jobs[r].kind = "review" /\ outcome \in {"approved", "refuted"}
                               THEN outcome = "refuted" ELSE @]
       IN  \E open \in BOOLEAN :
             /\ Open(open)
             /\ ~open => outcome = "refuted"
             /\ jobs' = IF jobs[r].kind = "review" /\ outcome = "refuted"
                        THEN AfterReviewSettled(J, r, open) ELSE J
             /\ task' = IF Len(jobs') > Len(jobs) THEN Queued(task) ELSE task
    /\ UNCHANGED <<groups, tree, contents>>

\* A reviewer without a verdict, failed or cancelled.
FailReview(r, code) ==
    /\ IsReview(r)
    /\ jobs[r].state \in {"running", "cancel_requested"}
    /\ jobs[r].state = "cancel_requested" <=> code = "user"
    /\ code \in {"protocol", "environment", "user"}
    /\ Ends(r)
    /\ \E open, quarantined \in BOOLEAN :
        /\ code # "environment" => open /\ ~quarantined
        /\ LET s == [spent EXCEPT !.refusals = @ + (IF open THEN 0 ELSE 1),
                                  !.quarantines = @ + (IF quarantined THEN 1 ELSE 0)]
           IN Within(s) /\ spent' = s
        /\ jobs' = SettleReviewFailure(
                     [jobs EXCEPT ![r].state = IF code = "user" THEN "cancelled" ELSE "failed",
                                  ![r].code = code, ![r].open = quarantined], r, open)
    /\ UNCHANGED <<groups, task, tree, contents>>

-----------------------------------------------------------------------------
(* Promotion *)

\* runPromotion to its first await: the canonical tree must be the one the group
\* was admitted on, then the winner's content replaces it.
StartPromotion(j) ==
    /\ MayDispatch(j)
    /\ jobs[j].kind = "promotion"
    /\ IF tree # groups[jobs[j].group].base
       THEN /\ jobs' = [jobs EXCEPT ![j].state = "failed", ![j].code = "rollout_conflict"]
            /\ task' = [TaskAfterEnd("blocked", jobs', groups) EXCEPT !.owned = TRUE]
            /\ settling' = {[job |-> j, step |-> "settle"]}
            /\ UNCHANGED tree
       ELSE /\ jobs' = [jobs EXCEPT ![j].state = "applied", ![j].tree = jobs[jobs[j].from].tree]
            /\ tree' = jobs[jobs[j].from].tree
            /\ task' = [task EXCEPT !.state = "working", !.owned = TRUE]
            /\ UNCHANGED settling
    /\ UNCHANGED <<groups, contents, declined, daemon, failing, spent>>

MayPromoteAnyTree(j) ==
    /\ jobs[j].state = "applied"
    /\ groups[jobs[j].group].state \in {"promoting", "paused"}

\* The gates have passed on the content that was approved, and nobody touched it.
MayPromote(j) == MayPromoteAnyTree(j) /\ tree = jobs[j].tree

Promote(j) ==
    /\ jobs[j].kind = "promotion"
    /\ MayPromote(j)
    /\ Ends(j)
    /\ LET g == jobs[j].group
           J == [jobs EXCEPT ![j].state = "succeeded", ![j].place = "promoted",
                             ![jobs[j].from].place = "promoted", ![groups[g].worker].skip = FALSE]
       IN  /\ jobs' = J
           /\ groups' = [groups EXCEPT ![g].state = "promoted"]
           /\ task' = TaskIn(IF task.paused THEN "checkpointed" ELSE "completed", J, groups')
    /\ UNCHANGED <<tree, contents, spent>>

\* The evidence of the promoted tree differs from what was reviewed, or the tree
\* changed while the gates ran.
RefusePromotion(j) ==
    /\ jobs[j].kind = "promotion"
    /\ jobs[j].state = "applied"
    /\ Ends(j)
    /\ jobs' = [jobs EXCEPT ![j].state = "failed", ![j].code = "review_stale"]
    /\ task' = TaskAfterEnd("blocked", jobs', groups)
    /\ UNCHANGED <<groups, tree, contents, spent>>

-----------------------------------------------------------------------------
(* Settlement *)

\* openRolloutGroup is due once per refutation, while it is the latest review.
GroupDue(r) ==
    /\ jobs[r].kind = "review"
    /\ jobs[r].outcome = "refuted"
    /\ LeftToRollouts(jobs, r)
    /\ LatestReview(jobs[r].from) = r
    /\ r \notin declined

GroupIsDue(r) == GroupDue(r) /\ ~\E g \in DOMAIN groups : groups[g].reviewer = r

Least(a, b) == IF a < b THEN a ELSE b

Admits(w) ==
    /\ Foreground(jobs, w)
    /\ ~LaterWorkJob(w)
    /\ tree = jobs[w].tree
    /\ \A i \in DOMAIN jobs : Foreground(jobs, i) => ~Unresolved(jobs, i)
    /\ ActiveIn(groups) = {}

\* The group and its candidates are admitted in one transaction, or the refusal is recorded.
OpenRolloutGroup(r) ==
    LET w == jobs[r].from
        g == Len(groups) + 1
        candidate == [Blank EXCEPT !.kind = "rollout_candidate", !.from = w, !.group = g,
                                   !.corr = jobs[r].corr - 1, !.rung = jobs[w].rung]
    IN  \E open \in BOOLEAN :
          /\ Open(open)
          /\ IF Admits(w) /\ open
             THEN /\ groups' = Append(groups, [state |-> "running", worker |-> w, reviewer |-> r,
                                               winner |-> NoJob, promotion |-> NoJob,
                                               budget |-> jobs[r].corr, spent |-> 0, base |-> tree])
                  /\ jobs' = jobs \o [i \in 1..Least(jobs[w].roll, Least(3, MaxActive)) |-> candidate]
                  /\ task' = [task EXCEPT !.state = "working", !.owned = TRUE]
                  /\ UNCHANGED declined
             ELSE /\ declined' = declined \cup {r}
                  /\ jobs' = [jobs EXCEPT ![w].skip = TRUE]
                  /\ UNCHANGED <<groups, task>>

\* finishRollout: the task is blocked, and an exhausted group hands over to the ladder.
FinishRollout(J, g, state, open) ==
    LET w == groups[g].worker
        K == [J EXCEPT ![w].skip = TRUE]
    IN  /\ groups' = [groups EXCEPT ![g].state = state]
        /\ jobs' = IF state = "exhausted" THEN LadderAfterFailure(K, w, open) ELSE K
        /\ task' = IF Len(jobs') > Len(K) THEN Queued(task) ELSE TaskIn("blocked", jobs', groups')

Ended(S) == \A j \in S : jobs[j].state \in TerminalJobStates

Pruned(g) ==
    [j \in DOMAIN jobs |->
        IF /\ j \in MembersOfKind(g, "rollout_candidate")
           /\ jobs[j].state \in {"failed", "cancelled"}
           /\ jobs[j].place = "none"
        THEN [jobs[j] EXCEPT !.place = "failed"] ELSE jobs[j]]

\* Candidates whose review did not approve them
Judged(J, g) ==
    [j \in DOMAIN J |->
        IF J[j].place = "none" /\ \E r \in MembersOfKind(g, "rollout_review") : jobs[r].from = j
        THEN [J[j] EXCEPT !.place = "exhausted"] ELSE J[j]]

QueuePromotion(g, r, open) ==
    LET c == jobs[r].from
    IN  IF open
        THEN /\ jobs' = Append([Pruned(g) EXCEPT ![c].place = "promoting"],
                               [jobs[c] EXCEPT !.kind = "promotion", !.state = "queued", !.from = c,
                                               !.tree = 0])
             /\ groups' = [groups EXCEPT ![g].state = "promoting", ![g].winner = c,
                                         ![g].promotion = Len(jobs')]
             /\ task' = Queued(task)
        ELSE FinishRollout(Pruned(g), g, "failed", open)

QueueRolloutReview(J, g, c, open) ==
    IF open
    THEN /\ jobs' = Append(J, [Blank EXCEPT !.kind = "rollout_review", !.from = c, !.group = g])
         /\ groups' = [groups EXCEPT ![g].spent = @ + 1]
         /\ UNCHANGED task
    ELSE FinishRollout(J, g, "failed", open)

BudgetLeft(g) == groups[g].spent < groups[g].budget

SettleRunning(g) ==
    LET candidates == MembersOfKind(g, "rollout_candidate")
        reviews == MembersOfKind(g, "rollout_review")
        approved == {r \in reviews : jobs[r].state = "succeeded" /\ jobs[r].outcome = "approved"}
        J == Judged(Pruned(g), g)
        survivors == {c \in candidates : jobs[c].state = "succeeded" /\ J[c].place = "none"}
    IN  \/ /\ ~Ended(candidates \cup reviews)
           /\ jobs' = Pruned(g)
           /\ UNCHANGED <<groups, task, spent>>
        \/ /\ Ended(candidates \cup reviews)
           /\ \E open \in BOOLEAN :
                /\ Open(open)
                /\ \/ \E r \in approved : QueuePromotion(g, r, open)
                   \/ /\ approved = {}
                      /\ survivors = {} \/ ~BudgetLeft(g)
                      /\ FinishRollout(J, g, "exhausted", open)
                   \/ /\ approved = {}
                      /\ BudgetLeft(g)
                      /\ \E c \in survivors : QueueRolloutReview(J, g, c, open)

SettlePromoting(g) ==
    LET p == jobs[groups[g].promotion]
    IN  IF p.state \in {"failed", "cancelled"}
        THEN /\ FinishRollout(jobs, g, IF p.code = "rollout_conflict" THEN "stale" ELSE "failed", TRUE)
             /\ UNCHANGED spent
        ELSE UNCHANGED <<jobs, groups, task, spent>>

RunningSettles(g) ==
    /\ groups[g].state = "running"
    /\ ~task.paused
    /\ \A j \in Members(g) : ~jobs[j].open
Settles(g) ==
    \/ RunningSettles(g)
    \/ /\ groups[g].state = "promoting"
       /\ ~task.paused
       /\ \A j \in Members(g) : ~jobs[j].open

\* settleRolloutForJob: open the group that is due, take the job's group one step
\* further, release the worktree a cancelled group was holding.
SettleRolloutForJob(j) ==
    /\ daemon = "up"
    /\ failing = {}
    /\ [job |-> j, step |-> "settle"] \in settling
    /\ settling' = settling \ {[job |-> j, step |-> "settle"]}
    /\ LET g == GroupForJob(j)
       IN  \/ GroupIsDue(j) /\ OpenRolloutGroup(j)
           \/ /\ ~GroupIsDue(j)
              /\ g # NoGroup => ~Settles(g)
              /\ task' = [task EXCEPT !.owned = @ /\ ~(/\ g # NoGroup
                                                       /\ groups[g].state = "cancelled"
                                                       /\ CanReleaseTaskOwnership(jobs, groups))]
              /\ UNCHANGED <<jobs, groups, declined, spent>>
           \/ /\ ~GroupIsDue(j)
              /\ g # NoGroup
              /\ Settles(g)
              /\ IF groups[g].state = "running" THEN SettleRunning(g) ELSE SettlePromoting(g)
              /\ UNCHANGED declined
    /\ UNCHANGED <<tree, contents, daemon, failing>>

\* The end of an execution nobody waited for: observed late, or reconciled.
Resolve(j) ==
    /\ Turn
    /\ jobs[j].open
    /\ jobs' = [jobs EXCEPT ![j].open = FALSE]
    /\ settling' = {[job |-> j, step |-> "settle"], [job |-> j, step |-> "release"]}
    /\ UNCHANGED <<groups, task, tree, contents, declined, daemon, failing, spent>>

ReleaseTaskOwnershipIfSafe(j) ==
    /\ daemon = "up"
    /\ settling = {[job |-> j, step |-> "release"]}
    /\ settling' = {}
    /\ task' = [task EXCEPT !.owned = @ /\ ~(/\ Foreground(jobs, j)
                                             /\ jobs[j].state \in TerminalJobStates
                                             /\ CanReleaseTaskOwnership(jobs, groups))]
    /\ UNCHANGED <<jobs, groups, tree, contents, declined, daemon, failing, spent>>

-----------------------------------------------------------------------------
(* Operators, and the people who share the worktree *)

Request ==
    /\ Turn
    /\ MayCreateForeground(groups, NoGroup)
    /\ Spend("requests", 1)
    /\ LET prior == MaxOf({j \in DOMAIN jobs : Foreground(jobs, j)})
       IN  \E s \in FollowUps :
             jobs' = Append(jobs, [Blank EXCEPT
                        !.corr = s.corr, !.roll = s.roll, !.rung = s.rung,
                        !.from = IF jobs[prior].state \in Pending THEN prior ELSE NoJob])
    /\ task' = Queued(task)
    /\ UNCHANGED <<groups, tree, contents, declined, daemon, failing, settling>>

\* reviews.request: a further review of a finished job that left evidence
ReviewJob(j) ==
    /\ Turn
    /\ Foreground(jobs, j)
    /\ jobs[j].state = "succeeded"
    /\ Spend("reviews", 1)
    /\ jobs' = RequestReview(jobs, j, TRUE, TRUE)
    /\ UNCHANGED <<groups, task, tree, contents, declined, daemon, failing, settling>>

Edit ==
    /\ Spend("edits", 1)
    /\ contents' = contents + 1
    /\ tree' = contents'
    /\ UNCHANGED <<jobs, groups, task, declined, daemon, failing, settling>>

\* cancelJob, of a job that no active group holds
Stopped(job) ==
    IF job.state = "queued" THEN [job EXCEPT !.state = "cancelled", !.code = "user"]
    ELSE IF job.state \in Running THEN [job EXCEPT !.state = "cancel_requested"] ELSE job

\* A queued review of the group that is cancelled is settled without a retry.
StoppedMember(job) ==
    IF job.kind = "rollout_review" /\ job.state = "queued"
    THEN [Stopped(job) EXCEPT !.outcome = "reviewer_failed"] ELSE Stopped(job)

CancelRolloutGroup(g) ==
    /\ groups' = [groups EXCEPT ![g].state = "cancelled"]
    /\ jobs' = [j \in DOMAIN jobs |-> IF jobs[j].group = g THEN StoppedMember(jobs[j]) ELSE jobs[j]]
    /\ task' = TaskIn("cancelled", jobs', groups')

CancelJob(j) ==
    /\ Turn
    /\ Spend("cancels", 1)
    /\ LET g == GroupForJob(j)
           K == [jobs EXCEPT ![j] = Stopped(@)]
       IN  \/ /\ g # NoGroup /\ groups[g].state \in ActiveGroup
              /\ CancelRolloutGroup(g)
           \/ /\ ~(g # NoGroup /\ groups[g].state \in ActiveGroup)
              /\ jobs[j].state \in Pending
              /\ jobs' = IF IsReview(j) /\ jobs[j].state = "queued" THEN SettleReviewFailure(K, j, TRUE) ELSE K
              /\ task' = IF /\ Foreground(jobs, j)
                            /\ jobs[j].state = "queued"
                            /\ ~\E i \in DOMAIN K : Foreground(K, i) /\ K[i].state \in Pending
                         THEN TaskIn("cancelled", K, groups) ELSE task
              /\ UNCHANGED groups
    /\ UNCHANGED <<tree, contents, declined, daemon, failing, settling>>

Pause ==
    /\ Turn
    /\ ~task.paused
    /\ Spend("pauses", 1)
    /\ task' = [task EXCEPT !.paused = TRUE]
    /\ groups' = [g \in DOMAIN groups |->
                    IF groups[g].state \in ActiveGroup THEN [groups[g] EXCEPT !.state = "paused"]
                    ELSE groups[g]]
    /\ UNCHANGED <<jobs, tree, contents, declined, daemon, failing, settling>>

\* A resumed group goes on where it was; only a running one is settled.
Resume ==
    /\ Turn
    /\ task.paused
    /\ task' = [task EXCEPT !.paused = FALSE]
    /\ groups' = [g \in DOMAIN groups |->
                    IF groups[g].state # "paused" THEN groups[g]
                    ELSE [groups[g] EXCEPT !.state = IF groups[g].promotion = NoJob THEN "running"
                                                     ELSE "promoting"]]
    /\ settling' = {[job |-> groups'[g].worker, step |-> "settle"] :
                        g \in {h \in DOMAIN groups : groups'[h].state = "running"}}
    /\ UNCHANGED <<jobs, tree, contents, declined, daemon, failing, spent>>

-----------------------------------------------------------------------------
(* Crash and start() *)

Crash ==
    /\ daemon = "up"
    /\ Spend("crashes", 1)
    /\ daemon' = "down"
    /\ failing' = {}
    /\ settling' = {}
    /\ UNCHANGED <<jobs, groups, task, tree, contents, declined>>

Interrupted(job, open) ==
    [job EXCEPT !.state = IF @ = "cancel_requested" THEN "cancelled" ELSE "failed",
                !.code = IF job.state = "cancel_requested" THEN "user" ELSE "daemon_restart",
                !.open = open]

\* interruptedReviews: every reviewer that ended and left no outcome
FailedWithoutVerdict(J) ==
    {r \in DOMAIN J : IsReview(r) /\ J[r].state = "failed" /\ J[r].outcome = "none"}
WithoutVerdict(J) ==
    {r \in DOMAIN J : IsReview(r) /\ J[r].state \in {"failed", "cancelled"} /\ J[r].outcome = "none"}

\* Interrupted jobs end, with them what waited in the task's queue; then start()
\* settles the reviews that failed, the refutations and the groups.
Recover ==
    /\ daemon = "down"
    /\ daemon' = "up"
    /\ LET interrupted == {j \in DOMAIN jobs : jobs[j].state \in Running}
           cut == \E j \in interrupted : Foreground(jobs, j)
       IN  /\ \E S \in SUBSET interrupted :
                /\ Spend("quarantines", Cardinality(S))
                /\ jobs' = [j \in DOMAIN jobs |->
                              IF j \in interrupted THEN Interrupted(jobs[j], j \in S)
                              ELSE IF cut /\ Foreground(jobs, j) /\ jobs[j].state = "queued"
                                   THEN Stopped(jobs[j]) ELSE jobs[j]]
           /\ task' = IF cut THEN [task EXCEPT !.state = "unknown"] ELSE task
           /\ failing' = WithoutVerdict(jobs')
    /\ settling' = {[job |-> r, step |-> "settle"] :
                      r \in {q \in DOMAIN jobs : jobs[q].kind = "review" /\ jobs[q].outcome = "refuted"}
                            \cup {groups[g].worker : g \in ActiveIn(groups)}}
    /\ UNCHANGED <<groups, tree, contents, declined>>

SettleInterruptedReview(r) ==
    /\ daemon = "up"
    /\ r \in failing
    /\ failing' = failing \ {r}
    /\ \E open \in BOOLEAN :
         /\ Open(open)
         /\ jobs' = SettleReviewFailure(jobs, r, open)
    /\ UNCHANGED <<groups, task, tree, contents, declined, daemon, settling>>

-----------------------------------------------------------------------------
Verdicts == {"approved", "refuted", "inconclusive"}
Failures == {"quality_gate", "policy", "environment", "protocol", "user"}

Finish(j) ==
    \/ CompleteWork(j)
    \/ CompleteCandidate(j)
    \/ \E code \in Failures : FailWork(j, code) \/ FailReview(j, code)
    \/ \E verdict \in Verdicts : GiveVerdict(j, verdict)
    \/ Promote(j)
    \/ RefusePromotion(j)

Settle(j) ==
    \/ SettleRolloutForJob(j)
    \/ ReleaseTaskOwnershipIfSafe(j)
    \/ SettleInterruptedReview(j)

Next ==
    \/ \E j \in DOMAIN jobs : \/ Dispatch(j)
                              \/ StartPromotion(j)
                              \/ Sweep(j)
                              \/ Finish(j)
                              \/ Settle(j)
                              \/ Resolve(j)
                              \/ ReviewJob(j)
                              \/ CancelJob(j)
    \/ Request
    \/ Edit
    \/ Pause
    \/ Resume
    \/ Crash
    \/ Recover

Spec == Init /\ [][Next]_vars

\* The pass starts jobs, commands end or time out, settlement is the same stretch,
\* the service manager starts the daemon again.  Which job a step takes is not up
\* to fairness: jobs and groups are finitely many in every execution.
FairSpec ==
    /\ Spec
    /\ WF_vars(\E j \in DOMAIN jobs : Dispatch(j) \/ StartPromotion(j) \/ Sweep(j))
    /\ WF_vars(\E j \in DOMAIN jobs : Finish(j))
    /\ WF_vars(\E j \in DOMAIN jobs : Settle(j))
    /\ WF_vars(Recover)

-----------------------------------------------------------------------------
(* Properties *)

\* What is promoted is what was reviewed: when a group becomes promoted, the
\* canonical tree holds exactly the content of its winner, and the latest review of
\* the winner approved it, whatever people edited while the gates ran.
PromotedIsReviewed ==
    [][\A g \in DOMAIN groups :
         groups[g].state # "promoted" /\ groups'[g].state = "promoted" =>
             /\ tree' = jobs[groups[g].winner].tree
             /\ jobs[LatestReview(groups[g].winner)].outcome = "approved"]_vars

\* A refutation is answered once: no reviewer opens two groups, and no job gets two
\* corrections or two escalations, and no reviewer is replaced twice, across restarts
\* and repeated settlements.
AnsweredOnce ==
    /\ \A g, h \in DOMAIN groups : groups[g].reviewer = groups[h].reviewer => g = h
    /\ \A i, j \in DOMAIN jobs :
         /\ jobs[i].kind = "foreground" /\ jobs[i].why # "request"
         /\ jobs[j].kind = "foreground" /\ jobs[j].why = jobs[i].why
         /\ jobs[i].from = jobs[j].from
         => i = j
    /\ \A w \in DOMAIN jobs :
         LET ordinary(retry) == {r \in Reviews(w) : jobs[r].kind = "review" /\ jobs[r].retry = retry}
         IN  Cardinality(ordinary(TRUE)) <= Cardinality(ordinary(FALSE))

\* While a group is active it alone works for the task and keeps its worktree: no
\* other foreground job waits or runs, and the task owns the worktree.
GroupReservesTask ==
    \A g \in ActiveIn(groups) :
        /\ ActiveIn(groups) = {g}
        /\ task.owned
        /\ \A j \in DOMAIN jobs :
             Foreground(jobs, j) /\ jobs[j].state \in Pending => jobs[j].group = g

\* No review is lost: once the event loop is back, a reviewer that gave no verdict
\* was retried or the worker says that its review was skipped (unless a promotion
\* replaced its work), and a refutation
\* that waits for rollouts has its group or a recorded refusal.
ReviewIsAnswered ==
    Turn => \A r \in DOMAIN jobs :
        jobs[r].kind = "review" /\ LatestReview(jobs[r].from) = r =>
            /\ jobs[r].state \in {"failed", "cancelled"} =>
                 \/ jobs[jobs[r].from].skip
                 \/ \E g \in DOMAIN groups : groups[g].worker = jobs[r].from /\ groups[g].state = "promoted"
            /\ jobs[r].outcome = "refuted" /\ jobs[r].corr > 0 /\ jobs[jobs[r].from].roll > 0 =>
                 r \in declined \/ \E g \in DOMAIN groups : groups[g].reviewer = r

\* A promotion that failed while its group was paused: resume settles only running
\* groups, so the group stays until a restart or a cancellation.
Stranded(g) ==
    /\ spent.pauses > 0
    /\ groups[g].promotion # NoJob
    /\ jobs[groups[g].promotion].state \in {"failed", "cancelled"}

Proceeds(g) ==
    g \in DOMAIN groups /\ groups[g].state \in {"running", "promoting"} /\ ~task.paused

\* A group ends: it is promoted, exhausted, failed, stale or cancelled, unless it is
\* paused, an execution of a member is unresolved, or it is stranded.
GroupSettles ==
    \A g \in 1..2 :
        Proceeds(g) ~> (Proceeds(g) => Stranded(g) \/ \E j \in Members(g) : jobs[j].open)
=============================================================================
