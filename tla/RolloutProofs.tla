--------------------------- MODULE RolloutProofs ---------------------------
(***************************************************************************)
(* Theorems about Rollouts, for every ladder, every number of rollouts and *)
(* slots, every budget of disturbances and requests.                       *)
(***************************************************************************)
EXTENDS RolloutsInvariant, SequenceTheorems, FiniteSetTheorems, WellFoundedInduction, TLAPS

USE RolloutsAssumption

-----------------------------------------------------------------------------
(* Tables *)

\* The jobs table and the groups, c contents made
Tables(J, G, c) ==
    /\ c \in Nat
    /\ J \in Seq(Job(Len(J), Len(G), c))
    /\ G \in Seq(Group(Len(J), c))

\* The rows of the tables, one at a time.
LEMMA Rows ==
    ASSUME NEW J, NEW G, NEW c, Tables(J, G, c)
    PROVE  /\ Len(J) \in Nat
           /\ DOMAIN J = 1..Len(J)
           /\ Len(G) \in Nat
           /\ DOMAIN G = 1..Len(G)
           /\ \A j \in 1..Len(J) : J[j] \in Job(Len(J), Len(G), c)
           /\ \A g \in 1..Len(G) : G[g] \in Group(Len(J), c)
    BY LenProperties, ElementOfSeq DEF Tables

\* Rows stay rows as the tables grow.
LEMMA JobWider ==
    ASSUME NEW n \in Nat, NEW m \in Nat, NEW c \in Nat,
           NEW k \in Nat, NEW l \in Nat, NEW d \in Nat, n <= k, m <= l, c <= d,
           NEW x \in Job(n, m, c)
    PROVE  x \in Job(k, l, d)
    <1>1. /\ 0..n \subseteq 0..k
          /\ 0..m \subseteq 0..l
          /\ 0..c \subseteq 0..d
        OBVIOUS
    <1> QED BY <1>1 DEF Job

\* The same of a group.
LEMMA GroupWider ==
    ASSUME NEW n \in Nat, NEW c \in Nat, NEW k \in Nat, NEW d \in Nat, n <= k, c <= d,
           NEW x \in Group(n, c)
    PROVE  x \in Group(k, d)
    <1>1. /\ 0..n \subseteq 0..k
          /\ 1..n \subseteq 1..k
          /\ 0..c \subseteq 0..d
        OBVIOUS
    <1> QED BY <1>1 DEF Group

\* A table is a function on an interval.
LEMMA TableIsSeq ==
    ASSUME NEW S, NEW n \in Nat, NEW f, f = [i \in 1..n |-> f[i]], \A i \in 1..n : f[i] \in S
    PROVE  f \in Seq(S) /\ Len(f) = n /\ DOMAIN f = 1..n
    <1>1. f \in [1..n -> S]
        OBVIOUS
    <1> QED BY <1>1, IsASeq, LenProperties

\* A new row is a row, whatever the sizes of the tables.
LEMMA BlankIsJob ==
    ASSUME NEW n \in Nat, NEW m \in Nat, NEW c \in Nat
    PROVE  Blank \in Job(n, m, c)
    BY DEF Blank, Job, JobStates, Pending, Kinds, Reasons, Outcomes, Places, Codes, NoJob, NoGroup

\* The largest of finitely many numbers is one of them.
LEMMA LargestExists ==
    ASSUME NEW n \in Nat, NEW S, S \subseteq 1..n, S # {}
    PROVE  /\ MaxOf(S) \in S
           /\ \A x \in S : x <= MaxOf(S)
    <1> DEFINE T == {n - k : k \in S}
    <1>1. T \subseteq Nat /\ T # {}
        OBVIOUS
    <1>2. PICK x \in T : \A y \in T : ~(<<y, x>> \in OpToRel(<, Nat))
        BY <1>1, NatLessThanWellFounded, WFMin
    <1>3. PICK k \in S : x = n - k
        BY <1>2
    <1>4. \A m \in S : m <= k
        <2> SUFFICES ASSUME NEW m \in S, m > k PROVE FALSE
            BY <1>3
        <2>1. n - m \in T /\ n - m \in Nat /\ x \in Nat /\ n - m < x
            BY <1>3
        <2>2. <<n - m, x>> \in Nat \X Nat
            BY <2>1
        <2>3. <<n - m, x>> \in OpToRel(<, Nat)
            BY <2>1, <2>2 DEF OpToRel
        <2> QED
            BY <1>2, <2>1, <2>3
    <1>5. \E j \in S : \A m \in S : m <= j
        BY <1>3, <1>4
    <1> QED
        BY <1>5 DEF MaxOf

-----------------------------------------------------------------------------
(* What a step does to the tables *)

\* A row keeps where it comes from; a job that ended stays as it ended.
Later(a, b) ==
    /\ b.kind = a.kind
    /\ b.from = a.from
    /\ b.why = a.why
    /\ b.corr = a.corr
    /\ b.roll = a.roll
    /\ b.group = a.group
    /\ b.retry = a.retry
    /\ b.base = a.base
    /\ a.state \in TerminalJobStates => b.state = a.state /\ b.tree = a.tree
    /\ a.state = "succeeded" => b.outcome = a.outcome
    /\ b.state \in Pending => b.outcome = a.outcome
    /\ b.state = "queued" => a.state = "queued"

\* New jobs are queued.
Grows(J, K) ==
    /\ Len(J) <= Len(K)
    /\ \A j \in 1..Len(J) : Later(J[j], K[j])
    /\ \A j \in 1..Len(K) : j > Len(J) =>
        /\ K[j].state = "queued"
        /\ K[j].kind \in {"review", "rollout_review"} => K[j].outcome = "none"

\* A group keeps whom it answers, its promotion once it has one, and its end.
Ripens(G, H) ==
    /\ Len(G) <= Len(H)
    /\ \A g \in 1..Len(G) :
        /\ H[g].worker = G[g].worker
        /\ H[g].reviewer = G[g].reviewer
        /\ G[g].promotion # NoJob => H[g].promotion = G[g].promotion /\ H[g].winner = G[g].winner
        /\ G[g].state \notin ActiveGroup => H[g].state = G[g].state

\* Groups left alone have ripened.
LEMMA Unripened == ASSUME NEW G, Len(G) \in Nat PROVE Ripens(G, G)
    BY DEF Ripens

\* New rows that know where they come from keep the lineage of all.
LEMMA LineageGrows ==
    ASSUME NEW J, NEW G, NEW c, Tables(J, G, c), NEW K, NEW H, NEW d, Tables(K, H, d),
           Lineage(J, G), Grows(J, K), Ripens(G, H),
           \A j \in 1..Len(K) : j > Len(J) => Descends(K, H, j),
           \A g \in 1..Len(H) :
               g > Len(G) \/ H[g].promotion # G[g].promotion \/ H[g].state # G[g].state
               => Answers(K, H, g)
    PROVE  Lineage(K, H)
    <1>1. /\ Len(J) \in Nat /\ DOMAIN J = 1..Len(J)
          /\ Len(K) \in Nat /\ DOMAIN K = 1..Len(K)
          /\ Len(G) \in Nat /\ DOMAIN G = 1..Len(G)
          /\ Len(H) \in Nat /\ DOMAIN H = 1..Len(H)
          /\ Len(J) <= Len(K) /\ Len(G) <= Len(H)
        BY Rows DEF Grows, Ripens
    <1>2. \A j \in 1..Len(J) : J[j].from \in 0..Len(J) /\ J[j].group \in 0..Len(G)
        BY Rows DEF Job
    <1>3. \A g \in 1..Len(G) :
            /\ G[g].worker \in 1..Len(J) /\ G[g].reviewer \in 1..Len(J)
            /\ G[g].promotion \in 0..Len(J) /\ G[g].winner \in 0..Len(J)
        BY Rows DEF Group
    <1>4. ASSUME NEW j \in 1..Len(J) PROVE Descends(K, H, j)
        <2>1. Descends(J, G, j) /\ Later(J[j], K[j])
            BY <1>1 DEF Lineage, Grows
        <2>2. J[j].from # NoJob => J[j].from \in 1..Len(J) /\ Later(J[J[j].from], K[J[j].from])
            BY <1>1, <1>2 DEF Grows, NoJob
        <2>3. J[j].group # NoGroup => J[j].group \in 1..Len(G)
            BY <1>1, <1>2 DEF NoGroup
        <2>4. J[j].kind = "promotion" =>
                /\ H[J[j].group].promotion = G[J[j].group].promotion
                /\ H[J[j].group].winner = G[J[j].group].winner
            BY <2>1, <2>3 DEF Descends, Ripens, NoJob
        <2> QED BY <2>1, <2>2, <2>3, <2>4 DEF Descends, Later, Foreground
    <1>5. ASSUME NEW g \in 1..Len(G), H[g].promotion = G[g].promotion, H[g].state = G[g].state
          PROVE  Answers(K, H, g)
        <2>1. Answers(J, G, g)
            BY <1>1 DEF Lineage
        <2>2. /\ H[g].worker = G[g].worker
              /\ H[g].reviewer = G[g].reviewer
              /\ G[g].promotion # NoJob => H[g].winner = G[g].winner
            BY DEF Ripens
        <2>3. /\ Later(J[G[g].worker], K[G[g].worker])
              /\ Later(J[G[g].reviewer], K[G[g].reviewer])
              /\ G[g].promotion # NoJob => Later(J[G[g].promotion], K[G[g].promotion])
              /\ G[g].promotion # NoJob /\ G[g].winner # NoJob => Later(J[G[g].winner], K[G[g].winner])
            BY <1>3 DEF Grows, NoJob
        <2> QED BY <2>1, <2>2, <2>3, <1>5 DEF Answers, Later, Foreground
    <1>6. /\ K # <<>>
          /\ K[1].kind = "foreground"
        <2>1. J # <<>> /\ J[1].kind = "foreground"
            BY DEF Lineage
        <2>2. Len(J) > 0
            BY <2>1, <1>1, EmptySeq DEF Tables
        <2>3. Later(J[1], K[1])
            BY <2>2, <1>1 DEF Grows
        <2> QED BY <2>1, <2>2, <2>3, <1>1, EmptySeq DEF Later
    <1>7. \A j \in DOMAIN K : Descends(K, H, j)
        BY <1>1, <1>4
    <1>8. \A g \in DOMAIN H : Answers(K, H, g)
        BY <1>1, <1>5
    <1> QED BY <1>6, <1>7, <1>8 DEF Lineage

\* What Progress says of the promotion p
Promotes(J, G, p) ==
    /\ J[p].state = "applied" => J[p].tree = J[J[p].from].tree
    /\ J[p].state \in {"queued", "running", "applied"} => G[J[p].group].state \in ActiveGroup
    /\ J[p].state = "succeeded" => G[J[p].group].state = "promoted"

\* The review that approved the winner of the promotion p
HasApproval(J, p) ==
    \E r \in DOMAIN J : /\ J[r].kind = "rollout_review"
                        /\ J[r].from = J[p].from
                        /\ J[r].state = "succeeded"
                        /\ J[r].outcome = "approved"

\* Progress survives a step that ends reviews with their worker done and adds no second
\* review of a candidate.
LEMMA ProgressGrows ==
    ASSUME NEW J, NEW G, NEW c, Tables(J, G, c), NEW K, NEW H, NEW d, Tables(K, H, d),
           Lineage(J, G), Progress(J, G), Grows(J, K), Lineage(K, H),
           \A r \in 1..Len(K) : r > Len(J) =>
             /\ K[r].kind \in {"review", "rollout_review"} => K[K[r].from].state = "succeeded"
             /\ K[r].kind = "rollout_review" =>
                  \A s \in 1..Len(K) : K[s].kind = "rollout_review" /\ K[s].from = K[r].from => r = s
             /\ K[r].kind = "promotion" => HasApproval(K, r) /\ H[K[r].group].state \in ActiveGroup,
           \A p \in 1..Len(J) : K[p].kind = "promotion" => Promotes(K, H, p)
    PROVE  Progress(K, H)
    <1>1. /\ Len(J) \in Nat /\ DOMAIN J = 1..Len(J)
          /\ Len(K) \in Nat /\ DOMAIN K = 1..Len(K)
          /\ Len(J) <= Len(K)
        BY Rows DEF Grows
    <1>2. \A j \in 1..Len(J) : J[j].from \in 0..Len(J) /\ Later(J[j], K[j])
        BY Rows DEF Job, Grows
    <1>3. \A j \in 1..Len(K) : j > Len(J) =>
            K[j].state = "queued" /\ (K[j].kind \in {"review", "rollout_review"} => K[j].outcome = "none")
        BY DEF Grows
    <1>4. ASSUME NEW r \in DOMAIN K
          PROVE  /\ K[r].kind \in {"review", "rollout_review"} => K[K[r].from].state = "succeeded"
                 /\ K[r].kind \in {"review", "rollout_review"} /\ K[r].state \in Pending
                    => K[r].outcome = "none"
        <2>1. CASE r > Len(J)
            BY <2>1, <1>1, <1>3
        <2>2. CASE r <= Len(J)
            <3>1. r \in 1..Len(J)
                BY <2>2, <1>1
            <3>2. J[r].kind \in {"review", "rollout_review"} => J[r].from # NoJob
                BY <3>1, <1>1 DEF Lineage, Descends
            <3>3. J[r].from # NoJob => Later(J[J[r].from], K[J[r].from])
                BY <3>1, <1>2 DEF NoJob
            <3>4. Later(J[r], K[r])
                BY <3>1, <1>2
            <3>5. /\ J[r].kind \in {"review", "rollout_review"} => J[J[r].from].state = "succeeded"
                  /\ J[r].kind \in {"review", "rollout_review"} /\ J[r].state \in Pending
                     => J[r].outcome = "none"
                BY <3>1, <1>1 DEF Progress
            <3>6. J[r].state \in Pending \cup TerminalJobStates
                BY <3>1, Rows DEF Job, JobStates
            <3>7. K[r].state \in Pending => J[r].state \in Pending
                BY <3>4, <3>6 DEF Later, Pending, Running, TerminalJobStates
            <3> QED BY <3>2, <3>3, <3>4, <3>5, <3>7 DEF Later, TerminalJobStates
        <2> QED BY <2>1, <2>2, <1>1
    <1>5. ASSUME NEW r \in DOMAIN K, NEW s \in DOMAIN K,
                 K[r].kind = "rollout_review", K[s].kind = "rollout_review", K[r].from = K[s].from
          PROVE  r = s
        <2>1. CASE r > Len(J) \/ s > Len(J)
            BY <2>1, <1>1, <1>5
        <2>2. CASE r <= Len(J) /\ s <= Len(J)
            <3>1. r \in 1..Len(J) /\ s \in 1..Len(J)
                BY <2>2, <1>1
            <3> QED BY <3>1, <1>1, <1>2, <1>5 DEF Progress, Later
        <2> QED BY <2>1, <2>2, <1>1
    <1>6. ASSUME NEW p \in DOMAIN K, K[p].kind = "promotion"
          PROVE  HasApproval(K, p) /\ Promotes(K, H, p)
        <2>1. CASE p > Len(J)
            BY <2>1, <1>1, <1>3, <1>6 DEF Promotes
        <2>2. CASE p <= Len(J)
            <3>1. p \in 1..Len(J)
                BY <2>2, <1>1
            <3>2. J[p].kind = "promotion" /\ K[p].from = J[p].from
                BY <3>1, <1>2, <1>6 DEF Later
            <3>3. PICK r \in DOMAIN J : /\ J[r].kind = "rollout_review"
                                        /\ J[r].from = J[p].from
                                        /\ J[r].state = "succeeded"
                                        /\ J[r].outcome = "approved"
                BY <3>1, <3>2, <1>1 DEF Progress
            <3>4. /\ r \in DOMAIN K
                  /\ Later(J[r], K[r])
                BY <1>1, <1>2
            <3> QED BY <3>1, <3>2, <3>3, <3>4, <1>6 DEF Later, HasApproval, TerminalJobStates
        <2> QED BY <2>1, <2>2, <1>1
    <1> QED BY <1>4, <1>5, <1>6 DEF Progress, HasApproval, Promotes

\* A promotion the step does not carry on
Rests(a, b) ==
    b.kind = "promotion" =>
        /\ b.state = "applied" => a.state = "applied" /\ b.tree = a.tree
        /\ b.state = "succeeded" => a.state = "succeeded"
        /\ b.state \in {"queued", "running", "applied"} => a.state \in {"queued", "running", "applied"}

\* A promotion keeps its approval and its tree.
LEMMA PromotionsRest ==
    ASSUME NEW J, NEW G, NEW c, Tables(J, G, c), NEW K, NEW H,
           Lineage(J, G), Progress(J, G), Grows(J, K), Ripens(G, H),
           NEW p \in 1..Len(J), K[p].kind = "promotion", Rests(J[p], K[p]),
           /\ K[p].state \in {"queued", "running", "applied"}
           /\ G[J[p].group].state \in ActiveGroup
           => H[J[p].group].state \in ActiveGroup
    PROVE  Promotes(K, H, p)
    <1>1. /\ DOMAIN J = 1..Len(J)
          /\ Len(G) \in Nat
          /\ J[p].from \in 0..Len(J)
          /\ J[p].group \in 0..Len(G)
        BY Rows DEF Job
    <1>2. Later(J[p], K[p])
        BY DEF Grows
    <1>3. J[p].kind = "promotion" /\ K[p].from = J[p].from /\ K[p].group = J[p].group
        BY <1>2 DEF Later
    <1>4. Promotes(J, G, p) /\ HasApproval(J, p)
        BY <1>1, <1>3 DEF Progress, Promotes, HasApproval
    <1>5. J[p].group \in 1..Len(G)
        BY <1>1, <1>3 DEF Lineage, Descends, NoGroup
    <1>6. J[p].from \in 1..Len(J) /\ J[J[p].from].state = "succeeded"
        BY <1>1, <1>4 DEF Progress, HasApproval, Lineage, Descends, NoJob
    <1>7. Later(J[J[p].from], K[J[p].from])
        BY <1>6 DEF Grows
    <1>8. K[p].state = "applied" => K[p].tree = K[K[p].from].tree
        BY <1>3, <1>4, <1>6, <1>7 DEF Rests, Promotes, Later, TerminalJobStates
    <1>9. K[p].state \in {"queued", "running", "applied"} => H[K[p].group].state \in ActiveGroup
        BY <1>3, <1>4 DEF Rests, Promotes
    <1>10. K[p].state = "succeeded" => H[K[p].group].state = "promoted"
        BY <1>3, <1>4, <1>5 DEF Rests, Promotes, Ripens, ActiveGroup
    <1> QED BY <1>8, <1>9, <1>10 DEF Promotes

\* No foreground job starts in this step.
Waits(a, b) ==
    b.kind \in {"foreground", "promotion"} /\ b.state \notin {"queued", "cancelled"}
    => a.state \notin {"queued", "cancelled"}

\* The order survives a step that starts no foreground job before an older one.
LEMMA InOrderGrows ==
    ASSUME NEW J, NEW G, NEW c, Tables(J, G, c), NEW K, NEW H, NEW d, Tables(K, H, d),
           InOrder(J), Grows(J, K), \A j \in 1..Len(J) : Waits(J[j], K[j])
    PROVE  InOrder(K)
    <1>1. /\ Len(J) \in Nat /\ DOMAIN J = 1..Len(J)
          /\ Len(K) \in Nat /\ DOMAIN K = 1..Len(K)
        BY Rows
    <1>2. ASSUME NEW i \in DOMAIN K, NEW j \in DOMAIN K, Foreground(K, i), Foreground(K, j),
                 i < j, K[i].state = "queued"
          PROVE  K[j].state \in {"queued", "cancelled"}
        <2>1. CASE j > Len(J)
            BY <2>1, <1>1 DEF Grows
        <2>2. CASE j <= Len(J)
            <3>1. i \in 1..Len(J) /\ j \in 1..Len(J)
                BY <2>2, <1>1, <1>2
            <3>2. /\ Later(J[i], K[i])
                  /\ Later(J[j], K[j])
                  /\ Waits(J[j], K[j])
                BY <3>1 DEF Grows
            <3>3. Foreground(J, i) /\ Foreground(J, j) /\ J[i].state = "queued"
                BY <3>2, <1>2 DEF Later, Foreground
            <3>4. J[j].state \in {"queued", "cancelled"}
                BY <3>1, <3>3, <1>1, <1>2 DEF InOrder
            <3> QED BY <3>2, <3>4, <1>2 DEF Waits, Foreground
        <2> QED BY <2>1, <2>2, <1>1
    <1> QED BY <1>2 DEF InOrder

\* While a group stays active, the task keeps its worktree and only the group's
\* promotion joins the queue.
LEMMA ReservedGrows ==
    ASSUME NEW J, NEW G, NEW c, Tables(J, G, c), NEW K, NEW H, NEW d, Tables(K, H, d),
           NEW t, NEW u, Reserved(J, G, t), Grows(J, K), Ripens(G, H),
           \A g \in ActiveIn(H) : g <= Len(G),
           ActiveIn(H) # {} /\ t.owned => u.owned,
           \A j \in 1..Len(K) : j > Len(J) /\ Foreground(K, j) =>
               \A g \in ActiveIn(H) : K[j].group = g
    PROVE  Reserved(K, H, u)
    <1>1. /\ Len(J) \in Nat /\ DOMAIN J = 1..Len(J)
          /\ Len(K) \in Nat /\ DOMAIN K = 1..Len(K)
          /\ Len(G) \in Nat /\ DOMAIN G = 1..Len(G)
          /\ Len(H) \in Nat /\ DOMAIN H = 1..Len(H)
          /\ Len(J) <= Len(K)
        BY Rows DEF Grows
    <1>2. \A j \in 1..Len(J) : J[j].state \in Pending \cup TerminalJobStates
        BY Rows DEF Job, JobStates
    <1>3. ActiveIn(H) \subseteq ActiveIn(G)
        BY <1>1 DEF ActiveIn, Ripens
    <1>4. ASSUME NEW g \in ActiveIn(H)
          PROVE  /\ ActiveIn(H) = {g}
                 /\ u.owned
                 /\ \A j \in DOMAIN K : Foreground(K, j) /\ K[j].state \in Pending => K[j].group = g
                 /\ \A j \in DOMAIN K : Foreground(K, j) /\ j > H[g].worker => K[j].group = g
        <2>1. g \in ActiveIn(G)
            BY <1>3
        <2>2. /\ ActiveIn(G) = {g}
              /\ t.owned
              /\ \A j \in DOMAIN J : Foreground(J, j) /\ J[j].state \in Pending => J[j].group = g
              /\ \A j \in DOMAIN J : Foreground(J, j) /\ j > G[g].worker => J[j].group = g
            BY <2>1 DEF Reserved
        <2>3. H[g].worker = G[g].worker
            BY <1>1, <2>1 DEF Ripens, ActiveIn
        <2>4. ASSUME NEW j \in DOMAIN K, Foreground(K, j), K[j].state \in Pending \/ j > H[g].worker
              PROVE  K[j].group = g
            <3>1. CASE j > Len(J)
                BY <3>1, <2>4, <1>1
            <3>2. CASE j <= Len(J)
                <4>1. j \in 1..Len(J)
                    BY <3>2, <1>1
                <4>2. Later(J[j], K[j])
                    BY <4>1 DEF Grows
                <4>3. K[j].state \in Pending => J[j].state \in Pending
                    BY <4>1, <4>2, <1>2 DEF Later, Pending, Running, TerminalJobStates
                <4> QED BY <4>1, <4>2, <4>3, <2>2, <2>3, <2>4, <1>1 DEF Later, Foreground
            <3> QED BY <3>1, <3>2, <1>1
        <2> QED BY <2>2, <2>4, <1>3
    <1> QED BY <1>4 DEF Reserved

\* Answers stay unique when each new job answers what nobody answered.
LEMMA AnsweredInTurnGrows ==
    ASSUME NEW J, NEW G, NEW c, Tables(J, G, c), NEW K, NEW H, NEW d, Tables(K, H, d),
           AnsweredInTurn(J, G), Grows(J, K), Ripens(G, H),
           \A g, h \in 1..Len(H) : g > Len(G) /\ H[g].reviewer = H[h].reviewer => g = h,
           \A i \in 1..Len(K) : i > Len(J) =>
             /\ K[i].kind = "foreground" /\ K[i].why # "request" =>
                  \A j \in 1..Len(K) :
                     /\ K[j].kind = "foreground"
                     /\ K[j].why = K[i].why
                     /\ K[i].from = K[j].from
                     => i = j
             /\ K[i].kind = "review" /\ K[i].retry =>
                  \E q \in 1..Len(J) :
                     /\ K[q].kind = "review" /\ ~K[q].retry /\ K[q].from = K[i].from
                     /\ \A s \in 1..Len(K) : K[s].kind = "review" /\ K[s].from = K[i].from => s <= q \/ i <= s
    PROVE  AnsweredInTurn(K, H)
    <1>1. /\ Len(J) \in Nat /\ DOMAIN J = 1..Len(J)
          /\ Len(K) \in Nat /\ DOMAIN K = 1..Len(K)
          /\ Len(G) \in Nat /\ DOMAIN G = 1..Len(G)
          /\ Len(H) \in Nat /\ DOMAIN H = 1..Len(H)
          /\ Len(J) <= Len(K)
        BY Rows DEF Grows
    <1>2. \A j \in 1..Len(J) : Later(J[j], K[j])
        BY DEF Grows
    <1>3. ASSUME NEW g \in DOMAIN H, NEW h \in DOMAIN H, H[g].reviewer = H[h].reviewer
          PROVE  g = h
        <2>1. CASE g > Len(G) \/ h > Len(G)
            BY <2>1, <1>1, <1>3
        <2>2. CASE g <= Len(G) /\ h <= Len(G)
            <3>1. g \in 1..Len(G) /\ h \in 1..Len(G)
                BY <2>2, <1>1
            <3> QED BY <3>1, <1>1, <1>3 DEF AnsweredInTurn, Ripens
        <2> QED BY <2>1, <2>2, <1>1
    <1>4. ASSUME NEW i \in DOMAIN K, NEW j \in DOMAIN K,
                 K[i].kind = "foreground", K[i].why # "request",
                 K[j].kind = "foreground", K[j].why = K[i].why,
                 K[i].from = K[j].from
          PROVE  i = j
        <2>1. CASE i > Len(J) \/ j > Len(J)
            BY <2>1, <1>1, <1>4
        <2>2. CASE i <= Len(J) /\ j <= Len(J)
            <3>1. i \in 1..Len(J) /\ j \in 1..Len(J)
                BY <2>2, <1>1
            <3> QED BY <3>1, <1>1, <1>2, <1>4 DEF AnsweredInTurn, Later
        <2> QED BY <2>1, <2>2, <1>1
    <1>5. ASSUME NEW r \in DOMAIN K, K[r].kind = "review", K[r].retry
          PROVE  \E q \in DOMAIN K :
                    /\ q < r
                    /\ K[q].kind = "review" /\ ~K[q].retry /\ K[q].from = K[r].from
                    /\ \A s \in DOMAIN K : K[s].kind = "review" /\ K[s].from = K[r].from => s <= q \/ r <= s
        <2>1. CASE r > Len(J)
            <3>1. PICK q \in 1..Len(J) :
                     /\ K[q].kind = "review" /\ ~K[q].retry /\ K[q].from = K[r].from
                     /\ \A s \in 1..Len(K) : K[s].kind = "review" /\ K[s].from = K[r].from => s <= q \/ r <= s
                BY <2>1, <1>1, <1>5
            <3>2. q \in DOMAIN K /\ q < r
                BY <3>1, <2>1, <1>1
            <3> QED BY <3>1, <3>2, <1>1
        <2>2. CASE r <= Len(J)
            <3>1. r \in 1..Len(J) /\ J[r].kind = "review" /\ J[r].retry
                BY <2>2, <1>1, <1>2, <1>5 DEF Later
            <3>2. PICK q \in DOMAIN J :
                    /\ q < r
                    /\ J[q].kind = "review" /\ ~J[q].retry /\ J[q].from = J[r].from
                    /\ \A s \in DOMAIN J : J[s].kind = "review" /\ J[s].from = J[r].from => s <= q \/ r <= s
                BY <3>1, <1>1 DEF AnsweredInTurn
            <3>3. ASSUME NEW s \in DOMAIN K, K[s].kind = "review", K[s].from = K[r].from
                  PROVE  s <= q \/ r <= s
                <4>1. CASE s > Len(J)
                    BY <4>1, <3>1, <1>1
                <4>2. CASE s <= Len(J)
                    <5>1. s \in 1..Len(J)
                        BY <4>2, <1>1
                    <5> QED BY <5>1, <3>1, <3>2, <3>3, <1>1, <1>2 DEF Later
                <4> QED BY <4>1, <4>2, <1>1
            <3> QED BY <3>1, <3>2, <3>3, <1>1, <1>2 DEF Later
        <2> QED BY <2>1, <2>2, <1>1
    <1> QED BY <1>3, <1>4, <1>5 DEF AnsweredInTurn

\* A promotion has replaced the work of w.
Superseded(G, w) == \E g \in DOMAIN G : G[g].worker = w /\ G[g].state = "promoted"
HasGroup(G, r) == \E g \in DOMAIN G : G[g].reviewer = r

\* A promoted group stays promoted, a reviewer that has a group keeps it.
LEMMA EndsStay ==
    ASSUME NEW G, NEW H, Ripens(G, H), NEW x,
           Len(G) \in Nat, DOMAIN G = 1..Len(G), Len(H) \in Nat, DOMAIN H = 1..Len(H)
    PROVE  /\ Superseded(G, x) => Superseded(H, x)
           /\ HasGroup(G, x) => HasGroup(H, x)
    <1>1. ASSUME NEW g \in DOMAIN G
          PROVE  /\ g \in DOMAIN H
                 /\ H[g].worker = G[g].worker
                 /\ H[g].reviewer = G[g].reviewer
                 /\ G[g].state = "promoted" => H[g].state = "promoted"
        BY DEF Ripens, ActiveGroup
    <1> QED BY <1>1 DEF Superseded, HasGroup

\* What was answered stays answered, and what a step leaves open is left behind or awaited.
LEMMA AnsweredGrows ==
    ASSUME NEW J, NEW G, NEW c, Tables(J, G, c), NEW K, NEW H, NEW d, Tables(K, H, d),
           NEW left, NEW waiting, NEW left2, NEW waiting2,
           Lineage(J, G), Answered(J, G, left, waiting), Grows(J, K), Ripens(G, H),
           \A r \in 1..Len(J) :
             K[r].kind = "review" /\ K[r].state \in {"failed", "cancelled"} /\ Latest(K, r) =>
                 \/ J[r].state = K[r].state /\ J[r].outcome = K[r].outcome /\ (r \in left => r \in left2)
                 \/ K[r].outcome = "none" /\ r \in left2
                 \/ K[K[r].from].skip,
           \A w \in 1..Len(J) : J[w].skip =>
                 \/ K[w].skip
                 \/ Superseded(H, w)
                 \/ \E s \in 1..Len(K) : s > Len(J) /\ K[s].kind = "review" /\ K[s].from = w,
           \A r \in 1..Len(J) : K[r].kind = "review" /\ K[r].outcome = "refuted" /\ Latest(K, r) =>
                 \/ J[r].outcome = "refuted" /\ (r \in waiting => r \in waiting2 \/ HasGroup(H, r))
                 \/ r \in waiting2
    PROVE  Answered(K, H, left2, waiting2)
    <1>1. /\ Len(J) \in Nat /\ DOMAIN J = 1..Len(J)
          /\ Len(K) \in Nat /\ DOMAIN K = 1..Len(K)
          /\ Len(G) \in Nat /\ DOMAIN G = 1..Len(G)
          /\ Len(H) \in Nat /\ DOMAIN H = 1..Len(H)
          /\ Len(J) <= Len(K)
          /\ Len(G) <= Len(H)
        BY Rows DEF Grows, Ripens
    <1>2. \A j \in 1..Len(J) : Later(J[j], K[j]) /\ J[j].from \in 0..Len(J)
        BY Rows DEF Grows, Job
    <1>3. ASSUME NEW r \in DOMAIN K, K[r].kind = "review", Latest(K, r), r <= Len(J)
          PROVE  /\ r \in 1..Len(J)
                 /\ J[r].kind = "review"
                 /\ Latest(J, r)
                 /\ J[r].from = K[r].from
                 /\ J[r].from \in 1..Len(J)
        <2>1. r \in 1..Len(J)
            BY <1>1, <1>3
        <2>2. J[r].kind = "review" /\ J[r].from = K[r].from
            BY <2>1, <1>2, <1>3 DEF Later
        <2>3. J[r].from \in 1..Len(J)
            BY <2>1, <2>2, <1>1, <1>2 DEF Lineage, Descends, NoJob
        <2>4. Latest(J, r)
            BY <2>1, <2>2, <1>1, <1>2, <1>3 DEF Latest, Later
        <2> QED BY <2>1, <2>2, <2>3, <2>4
    <1>4. ASSUME NEW r \in DOMAIN K, K[r].kind = "review", Latest(K, r), K[r].state \in {"failed", "cancelled"}
          PROVE  \/ K[r].outcome = "none" /\ r \in left2
                 \/ K[K[r].from].skip
                 \/ Superseded(H, K[r].from)
        <2>1. r <= Len(J)
            BY <1>1, <1>4 DEF Grows
        <2>2. /\ r \in 1..Len(J)
              /\ J[r].kind = "review"
              /\ Latest(J, r)
              /\ J[r].from = K[r].from
              /\ J[r].from \in 1..Len(J)
            BY <1>3, <1>4, <2>1
        <2>3. CASE /\ J[r].state = K[r].state
                   /\ J[r].outcome = K[r].outcome
                   /\ r \in left => r \in left2
            <3>1. \/ J[r].outcome = "none" /\ r \in left
                  \/ J[J[r].from].skip
                  \/ Superseded(G, J[r].from)
                BY <2>2, <2>3, <1>1, <1>4 DEF Answered, Superseded
            <3>2. Superseded(G, J[r].from) => Superseded(H, J[r].from)
                BY <1>1, EndsStay
            <3>3. CASE J[J[r].from].skip
                <4>1. ~\E s \in 1..Len(K) : s > Len(J) /\ K[s].kind = "review" /\ K[s].from = J[r].from
                    BY <2>2, <2>1, <1>1, <1>4 DEF Latest
                <4> QED BY <4>1, <3>3, <2>2
            <3> QED BY <3>1, <3>2, <3>3, <2>2, <2>3
        <2> QED BY <2>2, <2>3, <1>4
    <1>5. ASSUME NEW r \in DOMAIN K, K[r].kind = "review", Latest(K, r),
                 K[r].outcome = "refuted", K[r].corr > 0, K[K[r].from].roll > 0
          PROVE  r \in waiting2 \/ HasGroup(H, r)
        <2>1. r <= Len(J)
            BY <1>1, <1>5 DEF Grows
        <2>2. /\ r \in 1..Len(J)
              /\ J[r].kind = "review"
              /\ Latest(J, r)
              /\ J[r].from = K[r].from
              /\ J[r].from \in 1..Len(J)
            BY <1>3, <1>5, <2>1
        <2>3. J[r].corr > 0 /\ J[J[r].from].roll > 0
            BY <2>2, <1>2, <1>5 DEF Later
        <2>4. CASE J[r].outcome = "refuted" /\ (r \in waiting => r \in waiting2 \/ HasGroup(H, r))
            <3>1. r \in waiting \/ HasGroup(G, r)
                BY <2>2, <2>3, <2>4, <1>1 DEF Answered, HasGroup
            <3>2. HasGroup(G, r) => HasGroup(H, r)
                BY <1>1, EndsStay
            <3> QED BY <3>1, <3>2, <2>4
        <2> QED BY <2>2, <2>4, <1>5
    <1> QED BY <1>4, <1>5 DEF Answered, Superseded, HasGroup

-----------------------------------------------------------------------------
(* Steps that create at most one job, a review or a foreground job *)

\* K has at most one job more than J, made as its creator must make it; H are the
\* groups after the step.
Admitted(J, H, K) ==
    LET n == Len(K)
    IN  /\ n <= Len(J) + 1
        /\ n > Len(J) =>
             /\ Descends(K, H, n)
             /\ K[n].kind \in {"foreground", "review"}
             /\ K[n].kind = "review" => K[K[n].from].state = "succeeded"
             /\ K[n].kind = "review" /\ K[n].retry =>
                  \E q \in 1..Len(J) : /\ J[q].kind = "review" /\ ~J[q].retry /\ J[q].from = K[n].from
                                       /\ Latest(J, q)
             /\ K[n].kind = "foreground" => ActiveIn(H) = {}
             /\ K[n].kind = "foreground" /\ K[n].why # "request" =>
                  \A i \in 1..Len(J) : J[i].kind = "foreground" /\ J[i].why # "request"
                                       => J[i].from # K[n].from

\* Groups change their state and nothing else that others rely on.
Turns(G, H) ==
    /\ Ripens(G, H)
    /\ Len(H) = Len(G)
    /\ \A g \in 1..Len(G) :
        /\ H[g].promotion = G[g].promotion
        /\ H[g].winner = G[g].winner
        /\ H[g].state = "running" => H[g].promotion = NoJob
        /\ H[g].state = "promoting" => H[g].promotion # NoJob

\* What does not depend on who settles what
Standing(J, G, t) ==
    /\ Lineage(J, G)
    /\ Progress(J, G)
    /\ InOrder(J)
    /\ Reserved(J, G, t)
    /\ AnsweredInTurn(J, G)

\* The conjuncts about the tables survive a step that is described by them.
LEMMA StandingKept ==
    ASSUME NEW J, NEW G, NEW c, Tables(J, G, c), NEW K, NEW H, NEW d, Tables(K, H, d),
           NEW t, NEW u, Standing(J, G, t),
           Grows(J, K), Turns(G, H), Admitted(J, H, K), InOrder(K),
           ActiveIn(H) # {} /\ t.owned => u.owned,
           \A p \in 1..Len(J) : K[p].kind = "promotion" => Promotes(K, H, p)
    PROVE  Standing(K, H, u)
    <1>1. /\ Len(J) \in Nat /\ DOMAIN J = 1..Len(J)
          /\ Len(K) \in Nat /\ DOMAIN K = 1..Len(K)
          /\ Len(G) \in Nat /\ DOMAIN G = 1..Len(G)
          /\ Len(H) = Len(G) /\ DOMAIN H = 1..Len(G)
          /\ Len(J) <= Len(K) /\ Len(K) <= Len(J) + 1
          /\ Ripens(G, H)
        BY Rows DEF Grows, Turns, Admitted
    <1>2. \A j \in 1..Len(K) : j > Len(J) => j = Len(K)
        <2> DEFINE n == Len(K)
                   m == Len(J)
        <2>1. n \in Nat /\ m \in Nat /\ n <= m + 1
            BY <1>1
        <2> HIDE DEF n, m
        <2>2. \A j \in 1..n : j > m => j = n
            BY <2>1
        <2> QED BY <2>2 DEF n, m
    <1>3. Lineage(J, G) /\ Progress(J, G) /\ Reserved(J, G, t) /\ AnsweredInTurn(J, G)
        BY DEF Standing
    <1>4. Lineage(K, H)
        <2>1. \A j \in 1..Len(K) : j > Len(J) => Descends(K, H, j)
            BY <1>1, <1>2 DEF Admitted
        <2>2. ASSUME NEW g \in 1..Len(G) PROVE Answers(K, H, g)
            <3>1. Answers(J, G, g)
                BY <1>1, <1>3 DEF Lineage
            <3>2. /\ H[g].worker = G[g].worker
                  /\ H[g].reviewer = G[g].reviewer
                  /\ H[g].promotion = G[g].promotion
                  /\ H[g].winner = G[g].winner
                  /\ H[g].state = "running" => H[g].promotion = NoJob
                  /\ H[g].state = "promoting" => H[g].promotion # NoJob
                BY <1>1 DEF Turns, Ripens
            <3>3. /\ G[g].worker \in 1..Len(J) /\ G[g].reviewer \in 1..Len(J)
                  /\ G[g].promotion \in 0..Len(J) /\ G[g].winner \in 0..Len(J)
                BY Rows DEF Group
            <3>4. /\ Later(J[G[g].worker], K[G[g].worker])
                  /\ Later(J[G[g].reviewer], K[G[g].reviewer])
                  /\ G[g].promotion # NoJob => Later(J[G[g].promotion], K[G[g].promotion])
                  /\ G[g].promotion # NoJob /\ G[g].winner # NoJob => Later(J[G[g].winner], K[G[g].winner])
                <4>1. \A i \in 1..Len(J) : Later(J[i], K[i])
                    BY DEF Grows
                <4> QED BY <3>3, <4>1 DEF NoJob
            <3> QED BY <3>1, <3>2, <3>4 DEF Answers, Later, Foreground
        <2> QED BY <2>1, <2>2, <1>1, <1>3, LineageGrows
    <1>5. Progress(K, H)
        BY <1>1, <1>2, <1>3, <1>4, ProgressGrows DEF Admitted
    <1>6. Reserved(K, H, u)
        <2>1. \A g \in ActiveIn(H) : g <= Len(G)
            BY <1>1 DEF ActiveIn
        <2>2. \A j \in 1..Len(K) : j > Len(J) /\ Foreground(K, j) =>
                 \A g \in ActiveIn(H) : K[j].group = g
            BY <1>1, <1>2 DEF Admitted, Foreground
        <2> QED BY <2>1, <2>2, <1>1, <1>3, ReservedGrows
    <1>7. AnsweredInTurn(K, H)
        <2>1. \A g, h \in 1..Len(H) : g > Len(G) /\ H[g].reviewer = H[h].reviewer => g = h
            BY <1>1
        <2>2. \A j \in 1..Len(J) : Later(J[j], K[j])
            BY DEF Grows
        <2>3. ASSUME NEW i \in 1..Len(K), i > Len(J), K[i].kind = "foreground", K[i].why # "request",
                     NEW j \in 1..Len(K), K[j].kind = "foreground", K[j].why = K[i].why, K[i].from = K[j].from
              PROVE  i = j
            <3>1. i = Len(K) /\ Len(K) > Len(J)
                BY <1>2, <2>3
            <3>2. CASE j <= Len(J)
                <4>1. j \in 1..Len(J)
                    BY <3>2, <1>1
                <4>2. J[j].from # K[i].from
                    BY <4>1, <3>1, <2>2, <2>3 DEF Admitted, Later
                <4> QED BY <4>1, <4>2, <2>2, <2>3 DEF Later
            <3> QED BY <3>1, <3>2, <1>1, <1>2
        <2>4. ASSUME NEW i \in 1..Len(K), i > Len(J), K[i].kind = "review", K[i].retry
              PROVE  \E q \in 1..Len(J) :
                     /\ K[q].kind = "review" /\ ~K[q].retry /\ K[q].from = K[i].from
                     /\ \A s \in 1..Len(K) : K[s].kind = "review" /\ K[s].from = K[i].from => s <= q \/ i <= s
            <3>1. i = Len(K) /\ Len(K) > Len(J)
                BY <1>2, <2>4
            <3>2. PICK q \in 1..Len(J) : /\ J[q].kind = "review" /\ ~J[q].retry /\ J[q].from = K[i].from
                                         /\ Latest(J, q)
                BY <3>1, <2>4 DEF Admitted
            <3>3. K[q].kind = "review" /\ ~K[q].retry /\ K[q].from = K[i].from
                BY <3>2, <2>2 DEF Later
            <3>4. ASSUME NEW s \in 1..Len(K), K[s].kind = "review", K[s].from = K[i].from
                  PROVE  s <= q \/ i <= s
                <4>1. CASE s <= Len(J)
                    <5>1. s \in 1..Len(J)
                        BY <4>1, <1>1
                    <5> QED BY <5>1, <3>2, <3>4, <2>2, <1>1 DEF Latest, Later
                <4> QED BY <4>1, <3>1, <1>1, <1>2
            <3> QED BY <3>3, <3>4
        <2> QED BY <2>1, <2>3, <2>4, <1>1, <1>3, AnsweredInTurnGrows
    <1> QED BY <1>4, <1>5, <1>6, <1>7 DEF Standing

\* The steps that start no foreground job and end no promotion well
LEMMA StandingRests ==
    ASSUME NEW J, NEW G, NEW c, Tables(J, G, c), NEW K, NEW H, NEW d, Tables(K, H, d),
           NEW t, NEW u, Standing(J, G, t),
           Grows(J, K), Turns(G, H), Admitted(J, H, K),
           ActiveIn(H) # {} /\ t.owned => u.owned,
           \A j \in 1..Len(J) : Waits(J[j], K[j]) /\ Rests(J[j], K[j]),
           \A p \in 1..Len(J) :
               /\ K[p].kind = "promotion"
               /\ K[p].state \in {"queued", "running", "applied"}
               /\ G[J[p].group].state \in ActiveGroup
               => H[J[p].group].state \in ActiveGroup
    PROVE  Standing(K, H, u)
    <1>1. InOrder(K)
        BY InOrderGrows DEF Standing
    <1>2. \A p \in 1..Len(J) : K[p].kind = "promotion" => Promotes(K, H, p)
        BY PromotionsRest DEF Standing, Turns
    <1> QED BY <1>1, <1>2, StandingKept

-----------------------------------------------------------------------------
(* Rows and tables of one step *)

\* Nothing that other jobs rely on changes.
SameRow(a, b) ==
    /\ b.kind = a.kind
    /\ b.from = a.from
    /\ b.why = a.why
    /\ b.corr = a.corr
    /\ b.roll = a.roll
    /\ b.group = a.group
    /\ b.retry = a.retry
    /\ b.base = a.base
    /\ b.state = a.state
    /\ b.outcome = a.outcome
    /\ b.tree = a.tree

\* A job that ran ends.
EndRow(a, b) ==
    /\ b.kind = a.kind
    /\ b.from = a.from
    /\ b.why = a.why
    /\ b.corr = a.corr
    /\ b.roll = a.roll
    /\ b.group = a.group
    /\ b.retry = a.retry
    /\ b.base = a.base
    /\ a.state \in Running
    /\ b.state \in TerminalJobStates

\* A queued job is cancelled, a running one is asked to stop; others stay as they are.
StopRow(a, b) ==
    /\ b.kind = a.kind
    /\ b.from = a.from
    /\ b.why = a.why
    /\ b.corr = a.corr
    /\ b.roll = a.roll
    /\ b.group = a.group
    /\ b.retry = a.retry
    /\ b.base = a.base
    /\ b.tree = a.tree
    /\ \/ a.state = "queued" /\ b.state = "cancelled"
       \/ a.state \in Running /\ b.state = "cancel_requested" /\ b.outcome = a.outcome

\* Rows whose state stays add nothing to prove.
LEMMA SameRowRests ==
    ASSUME NEW a, NEW b, SameRow(a, b)
    PROVE  Later(a, b) /\ Waits(a, b) /\ Rests(a, b)
    BY DEF SameRow, Later, Waits, Rests

\* Rows of jobs that end add nothing to prove.
LEMMA EndRowRests ==
    ASSUME NEW a, NEW b, EndRow(a, b)
    PROVE  /\ Later(a, b)
           /\ Waits(a, b)
           /\ (b.kind = "promotion" => b.state # "succeeded") => Rests(a, b)
    BY DEF EndRow, Later, Waits, Rests, Running, TerminalJobStates, Pending

\* Rows of jobs that are cancelled add nothing to prove.
LEMMA StopRowRests ==
    ASSUME NEW a, NEW b, StopRow(a, b)
    PROVE  Later(a, b) /\ Waits(a, b) /\ Rests(a, b)
    BY DEF StopRow, Later, Waits, Rests, Running, TerminalJobStates, Pending

\* A table whose rows are replaced one by one
LEMMA Replaced ==
    ASSUME NEW J, NEW S, NEW T, J \in Seq(S),
           NEW K, K = [i \in 1..Len(J) |-> K[i]], \A i \in 1..Len(J) : K[i] \in T
    PROVE  K \in Seq(T) /\ Len(K) = Len(J) /\ DOMAIN K = 1..Len(J)
    <1>1. Len(J) \in Nat
        BY LenProperties
    <1> QED BY <1>1, TableIsSeq

\* A table with a queued row more has grown.
LEMMA AppendGrows ==
    ASSUME NEW J, NEW K, Len(J) \in Nat, Len(K) \in Nat, Len(J) <= Len(K), Len(K) <= Len(J) + 1,
           \A j \in 1..Len(J) : Later(J[j], K[j]),
           Len(K) > Len(J) => K[Len(K)].state = "queued" /\ K[Len(K)].outcome = "none"
    PROVE  Grows(J, K)
    <1> DEFINE n == Len(K)
               m == Len(J)
    <1>1. n \in Nat /\ m \in Nat /\ n <= m + 1
        OBVIOUS
    <1> HIDE DEF n, m
    <1>2. \A j \in 1..n : j > m => j = n
        BY <1>1
    <1>3. \A j \in 1..Len(K) : j > Len(J) => j = Len(K)
        BY <1>2 DEF n, m
    <1> QED BY <1>3 DEF Grows

\* Without new rows nothing has to be admitted.
LEMMA NoneAdmitted ==
    ASSUME NEW J, NEW H, NEW K, Len(J) \in Nat, Len(K) = Len(J)
    PROVE  Admitted(J, H, K)
    BY DEF Admitted

\* A correction, an escalation or a request, made while nobody continued the room
LEMMA SuccessorAdmitted ==
    ASSUME NEW J, NEW G, NEW c, Tables(J, G, c), NEW H, NEW K, Lineage(J, G), Grows(J, K),
           Len(K) = Len(J) + 1,
           K[Len(K)].kind = "foreground",
           K[Len(K)].group = NoGroup,
           ActiveIn(H) = {},
           K[Len(K)].from # NoJob =>
             /\ K[Len(K)].from \in 1..Len(J)
             /\ Foreground(J, K[Len(K)].from)
             /\ \A i \in 1..Len(J) : Foreground(J, i) => i <= K[Len(K)].from,
           K[Len(K)].from = NoJob => K[Len(K)].why = "request"
    PROVE  Admitted(J, H, K)
    <1> DEFINE n == Len(K)
               w == K[n].from
    <1>1. Len(J) \in Nat /\ DOMAIN J = 1..Len(J) /\ n > Len(J)
        BY Rows
    <1>2. w # NoJob => w < n /\ Foreground(K, w)
        <2>1. w # NoJob => w \in 1..Len(J) /\ Later(J[w], K[w])
            BY DEF Grows
        <2> QED BY <2>1, <1>1 DEF Later, Foreground
    <1>3. Descends(K, H, n)
        BY <1>1, <1>2 DEF Descends, NoJob
    <1>4. ASSUME K[n].why # "request", NEW i \in 1..Len(J), J[i].kind = "foreground"
          PROVE  J[i].from # w
        <2>1. w # NoJob
            BY <1>4
        <2>2. i <= w
            BY <2>1, <1>4 DEF Foreground
        <2>3. J[i].from < i
            BY <1>1 DEF Lineage, Descends
        <2>4. J[i].from \in Nat /\ w \in Nat
            BY <2>1, Rows DEF Job
        <2> QED BY <2>2, <2>3, <2>4
    <1> QED BY <1>1, <1>3, <1>4 DEF Admitted

\* A review of a finished job
LEMMA ReviewAdmitted ==
    ASSUME NEW J, NEW G, NEW c, Tables(J, G, c), NEW H, NEW K, Grows(J, K),
           Len(K) = Len(J) + 1,
           K[Len(K)].kind = "review",
           K[Len(K)].group = NoGroup,
           K[Len(K)].base = 0,
           NEW w \in 1..Len(J), K[Len(K)].from = w,
           Foreground(J, w),
           K[Len(K)].corr = J[w].corr,
           K[w].state = "succeeded",
           K[Len(K)].retry =>
             \E q \in 1..Len(J) : J[q].kind = "review" /\ ~J[q].retry /\ J[q].from = w /\ Latest(J, q)
    PROVE  Admitted(J, H, K)
    <1>1. Len(J) \in Nat /\ Len(K) > Len(J)
        BY Rows
    <1>2. Later(J[w], K[w])
        BY DEF Grows
    <1>3. Descends(K, H, Len(K))
        BY <1>1, <1>2 DEF Descends, Foreground, Later, NoJob
    <1> QED BY <1>1, <1>3 DEF Admitted

-----------------------------------------------------------------------------
(* Steps of the event loop *)

LEMMA InvariantTables ==
    ASSUME RolloutsInv
    PROVE  /\ Tables(jobs, groups, contents)
           /\ Standing(jobs, groups, task)
           /\ Lineage(jobs, groups)
           /\ Len(jobs) \in Nat
           /\ DOMAIN jobs = 1..Len(jobs)
           /\ Len(groups) \in Nat
           /\ DOMAIN groups = 1..Len(groups)
           /\ contents \in Nat
           /\ \A j \in 1..Len(jobs) : jobs[j] \in Job(Len(jobs), Len(groups), contents)
           /\ \A g \in 1..Len(groups) : groups[g] \in Group(Len(jobs), contents)
           /\ \A j \in 1..Len(jobs) : /\ jobs[j].from \in 0..Len(jobs)
                                      /\ jobs[j].group \in 0..Len(groups)
                                      /\ jobs[j].state \in Pending \cup TerminalJobStates
    <1>1. Tables(jobs, groups, contents)
        BY DEF RolloutsInv, TypeOK, Tables
    <1>2. \A j \in 1..Len(jobs) : jobs[j] \in Job(Len(jobs), Len(groups), contents)
        BY <1>1, Rows
    <1>3. \A j \in 1..Len(jobs) : /\ jobs[j].from \in 0..Len(jobs)
                                  /\ jobs[j].group \in 0..Len(groups)
                                  /\ jobs[j].state \in Pending \cup TerminalJobStates
        BY <1>2 DEF Job, JobStates
    <1> QED BY <1>1, <1>3, Rows DEF RolloutsInv, Standing, TypeOK

\* The tables after a step that keeps the types.
LEMMA NextTables ==
    ASSUME TypeOK'
    PROVE  /\ Tables(jobs', groups', contents')
           /\ Len(jobs') \in Nat
           /\ DOMAIN jobs' = 1..Len(jobs')
           /\ Len(groups') \in Nat
           /\ DOMAIN groups' = 1..Len(groups')
    <1>1. Tables(jobs', groups', contents')
        BY DEF TypeOK, Tables
    <1> QED BY <1>1, Rows

\* Nothing a reviewer or its worker says is taken back.
Silent(a, b) ==
    /\ b.kind = "review" =>
         /\ b.outcome = a.outcome
         /\ b.state \in {"failed", "cancelled"} => b.state = a.state
    /\ a.skip => b.skip

\* A step that ends no review and takes no mark back leaves every answer.
LEMMA AnsweredSilently ==
    ASSUME RolloutsInv, TypeOK', Grows(jobs, jobs'), Ripens(groups, groups'),
           \A j \in 1..Len(jobs) : Silent(jobs[j], jobs'[j]),
           LeftBehind \subseteq LeftBehind', Awaited \subseteq Awaited'
    PROVE  Answered(jobs, groups, LeftBehind, Awaited)'
    <1>1. /\ Tables(jobs, groups, contents)
          /\ Tables(jobs', groups', contents')
          /\ Lineage(jobs, groups)
          /\ Answered(jobs, groups, LeftBehind, Awaited)
        BY InvariantTables, NextTables DEF RolloutsInv
    <1>2. /\ \A r \in 1..Len(jobs) :
             jobs'[r].kind = "review" /\ jobs'[r].state \in {"failed", "cancelled"} /\ Latest(jobs', r) =>
                 jobs[r].state = jobs'[r].state /\ jobs[r].outcome = jobs'[r].outcome
                 /\ (r \in LeftBehind => r \in LeftBehind')
          /\ \A w \in 1..Len(jobs) : jobs[w].skip => jobs'[w].skip
          /\ \A r \in 1..Len(jobs) :
             jobs'[r].kind = "review" /\ jobs'[r].outcome = "refuted" /\ Latest(jobs', r) =>
                 jobs[r].outcome = "refuted" /\ (r \in Awaited => r \in Awaited')
        BY DEF Silent
    <1> QED BY <1>1, <1>2, AnsweredGrows

\* The event loop is in no stretch: nobody was left behind, and a refutation without
\* a group was refused.
LEMMA TurnAwaits ==
    ASSUME Turn
    PROVE  LeftBehind = {} /\ Awaited = declined
    BY DEF Turn, LeftBehind, Awaited

\* In the stretch of the event loop, what the step leaves open is in settling.
LEMMA AnsweredInTheStretch ==
    ASSUME RolloutsInv, TypeOK', Turn, daemon' = "up", declined \subseteq declined',
           Grows(jobs, jobs'), Ripens(groups, groups'),
           \A r \in 1..Len(jobs) :
             jobs'[r].kind = "review" /\ jobs'[r].state \in {"failed", "cancelled"} /\ Latest(jobs', r) =>
                 \/ jobs[r].state = jobs'[r].state /\ jobs[r].outcome = jobs'[r].outcome
                 \/ jobs'[jobs'[r].from].skip,
           \A w \in 1..Len(jobs) : jobs[w].skip =>
                 \/ jobs'[w].skip
                 \/ Superseded(groups', w)
                 \/ \E s \in 1..Len(jobs') : s > Len(jobs) /\ jobs'[s].kind = "review" /\ jobs'[s].from = w,
           \A r \in 1..Len(jobs) :
             jobs'[r].kind = "review" /\ jobs'[r].outcome = "refuted" /\ Latest(jobs', r) =>
                 jobs[r].outcome = "refuted" \/ [job |-> r, step |-> "settle"] \in settling'
    PROVE  Answered(jobs, groups, LeftBehind, Awaited)'
    <1>1. /\ Tables(jobs, groups, contents)
          /\ Tables(jobs', groups', contents')
          /\ Lineage(jobs, groups)
          /\ Answered(jobs, groups, LeftBehind, Awaited)
          /\ Len(jobs) \in Nat
          /\ Len(jobs') \in Nat
          /\ DOMAIN jobs' = 1..Len(jobs')
          /\ Len(jobs) <= Len(jobs')
        BY InvariantTables, NextTables DEF RolloutsInv, Grows
    <1>2. LeftBehind = {} /\ Awaited = declined
        BY TurnAwaits
    <1>3. declined' \subseteq Awaited'
        BY DEF Awaited
    <1>4. \A r \in 1..Len(jobs) : [job |-> r, step |-> "settle"] \in settling' => r \in Awaited'
        BY <1>1 DEF Awaited
    <1>5. /\ \A r \in 1..Len(jobs) :
             jobs'[r].kind = "review" /\ jobs'[r].state \in {"failed", "cancelled"} /\ Latest(jobs', r) =>
                 \/ jobs[r].state = jobs'[r].state /\ jobs[r].outcome = jobs'[r].outcome
                    /\ (r \in LeftBehind => r \in LeftBehind')
                 \/ jobs'[jobs'[r].from].skip
          /\ \A r \in 1..Len(jobs) :
             jobs'[r].kind = "review" /\ jobs'[r].outcome = "refuted" /\ Latest(jobs', r) =>
                 \/ jobs[r].outcome = "refuted" /\ (r \in Awaited => r \in Awaited')
                 \/ r \in Awaited'
        BY <1>2, <1>3, <1>4
    <1> QED BY <1>1, <1>5, AnsweredGrows

\* The task keeps its worktree while a group is active.
LEMMA OwnedWhileActive ==
    ASSUME NEW outcome, NEW K, NEW H, task.owned, ActiveIn(H) # {},
           task \in [state : {"working", "completed", "checkpointed", "blocked", "unknown", "cancelled"},
                     paused : BOOLEAN, owned : BOOLEAN]
    PROVE  TaskIn(outcome, K, H).owned /\ TaskAfterEnd(outcome, K, H).owned
    BY DEF TaskIn, TaskAfterEnd, CanReleaseTaskOwnership

\* What becomes of the task is a task.
LEMMA TaskTypes ==
    ASSUME NEW outcome \in {"working", "completed", "checkpointed", "blocked", "unknown", "cancelled"},
           NEW K, NEW H,
           task \in [state : {"working", "completed", "checkpointed", "blocked", "unknown", "cancelled"},
                     paused : BOOLEAN, owned : BOOLEAN]
    PROVE  /\ TaskIn(outcome, K, H) \in
                [state : {"working", "completed", "checkpointed", "blocked", "unknown", "cancelled"},
                 paused : BOOLEAN, owned : BOOLEAN]
           /\ TaskAfterEnd(outcome, K, H) \in
                [state : {"working", "completed", "checkpointed", "blocked", "unknown", "cancelled"},
                 paused : BOOLEAN, owned : BOOLEAN]
    BY DEF TaskIn, TaskAfterEnd

\* Tables keep their types when contents are made.
LEMMA TablesWiden ==
    ASSUME NEW J, NEW G, NEW c, Tables(J, G, c), NEW k \in Nat, NEW l \in Nat, NEW d \in Nat,
           Len(J) <= k, Len(G) <= l, c <= d
    PROVE  /\ J \in Seq(Job(k, l, d))
           /\ G \in Seq(Group(k, d))
    <1>1. Len(J) \in Nat /\ Len(G) \in Nat /\ c \in Nat
        BY Rows DEF Tables
    <1> DEFINE n == Len(J)
               m == Len(G)
    <1>2. ASSUME NEW x \in Job(n, m, c) PROVE x \in Job(k, l, d)
        <2>1. n \in Nat /\ m \in Nat /\ n <= k /\ m <= l
            BY <1>1
        <2> HIDE DEF n, m
        <2>2. 0..n \subseteq 0..k /\ 0..m \subseteq 0..l /\ 0..c \subseteq 0..d
            BY <2>1, <1>1
        <2> QED BY <1>2, <2>2 DEF Job
    <1>3. ASSUME NEW x \in Group(n, c) PROVE x \in Group(k, d)
        <2>1. n \in Nat /\ n <= k
            BY <1>1
        <2> HIDE DEF n
        <2> QED BY <1>1, <1>3, <2>1, GroupWider
    <1>4. /\ Job(Len(J), Len(G), c) \subseteq Job(k, l, d)
          /\ Group(Len(J), c) \subseteq Group(k, d)
        BY <1>2, <1>3
    <1>5. J \in Seq(Job(Len(J), Len(G), c)) /\ G \in Seq(Group(Len(J), c))
        BY DEF Tables
    <1>6. J \in Seq(Job(k, l, d))
        BY <1>4, <1>5, SeqMonotonic
    <1>7. G \in Seq(Group(k, d))
        BY <1>4, <1>5, SeqMonotonic
    <1> QED BY <1>6, <1>7

\* Types after a step that leaves the groups alone.
LEMMA SameGroups ==
    ASSUME RolloutsInv
    PROVE  Ripens(groups, groups) /\ Turns(groups, groups)
    <1>1. Len(groups) \in Nat /\ DOMAIN groups = 1..Len(groups) /\ Lineage(jobs, groups)
        BY InvariantTables
    <1>2. \A g \in 1..Len(groups) :
            /\ groups[g].state = "running" => groups[g].promotion = NoJob
            /\ groups[g].state = "promoting" => groups[g].promotion # NoJob
        BY <1>1 DEF Lineage, Answers
    <1> QED BY <1>1, <1>2, Unripened DEF Turns

\* A table left alone has grown.
LEMMA SameJobs ==
    ASSUME RolloutsInv
    PROVE  /\ Grows(jobs, jobs)
           /\ \A j \in 1..Len(jobs) :
                Later(jobs[j], jobs[j]) /\ Waits(jobs[j], jobs[j]) /\ Rests(jobs[j], jobs[j])
    <1>1. Len(jobs) \in Nat
        BY InvariantTables
    <1>2. \A j \in 1..Len(jobs) :
            Later(jobs[j], jobs[j]) /\ Waits(jobs[j], jobs[j]) /\ Rests(jobs[j], jobs[j])
        BY SameRowRests DEF SameRow
    <1> QED BY <1>1, <1>2 DEF Grows

\* The step replaces one row.
Replaces(j, x) ==
    /\ jobs' = [i \in 1..Len(jobs) |-> jobs'[i]]
    /\ jobs'[j] = x
    /\ \A i \in 1..Len(jobs) : i # j => jobs'[i] = jobs[i]

\* One row is replaced by a row of the same job.
LEMMA RowStep ==
    ASSUME RolloutsInv, NEW j \in 1..Len(jobs), NEW x, Replaces(j, x), Later(jobs[j], x),
           contents' \in Nat, contents <= contents',
           x \in Job(Len(jobs), Len(groups), contents'),
           groups' = groups
    PROVE  /\ jobs' \in Seq(Job(Len(jobs'), Len(groups'), contents'))
           /\ groups' \in Seq(Group(Len(jobs'), contents'))
           /\ Len(jobs') = Len(jobs)
           /\ DOMAIN jobs' = 1..Len(jobs)
           /\ Tables(jobs', groups', contents')
           /\ Grows(jobs, jobs')
           /\ Turns(groups, groups')
           /\ Ripens(groups, groups')
           /\ Admitted(jobs, groups', jobs')
    <1>1. /\ Tables(jobs, groups, contents)
          /\ Len(jobs) \in Nat /\ Len(groups) \in Nat /\ contents \in Nat
          /\ \A i \in 1..Len(jobs) : jobs[i] \in Job(Len(jobs), Len(groups), contents)
        BY InvariantTables
    <1>2. ASSUME NEW i \in 1..Len(jobs) PROVE jobs'[i] \in Job(Len(jobs), Len(groups), contents')
        <2>1. CASE i = j
            BY <2>1 DEF Replaces
        <2>2. CASE i # j
            <3>1. jobs'[i] = jobs[i]
                BY <2>2, <1>1 DEF Replaces
            <3>2. jobs \in Seq(Job(Len(jobs), Len(groups), contents'))
                BY <1>1, TablesWiden
            <3>3. jobs[i] \in Job(Len(jobs), Len(groups), contents')
                BY <3>2, ElementOfSeq
            <3> QED BY <3>1, <3>3
        <2> QED BY <2>1, <2>2
    <1>3. jobs' \in Seq(Job(Len(jobs), Len(groups), contents')) /\ Len(jobs') = Len(jobs)
          /\ DOMAIN jobs' = 1..Len(jobs)
        BY <1>1, <1>2, Replaced DEF Replaces, Tables
    <1>4. groups \in Seq(Group(Len(jobs), contents'))
        BY <1>1, TablesWiden
    <1>5. Tables(jobs', groups', contents')
        BY <1>3, <1>4 DEF Tables
    <1>6. \A i \in 1..Len(jobs) : Later(jobs[i], jobs'[i])
        BY SameJobs DEF Replaces
    <1>7. Grows(jobs, jobs')
        BY <1>1, <1>3, <1>6 DEF Grows
    <1>8. Admitted(jobs, groups', jobs')
        BY <1>1, <1>3, NoneAdmitted
    <1> QED BY <1>3, <1>4, <1>5, <1>7, <1>8, SameGroups

\* EXCEPT replaces one row.
LEMMA ExceptReplaces ==
    ASSUME RolloutsInv, NEW j \in DOMAIN jobs, NEW x, jobs' = [jobs EXCEPT ![j] = x]
    PROVE  Replaces(j, x)
    <1>1. DOMAIN jobs = 1..Len(jobs)
        BY InvariantTables
    <1> QED BY <1>1 DEF Replaces

\* No queued job came before a foreground job that starts.
LEMMA OldestFirst ==
    ASSUME RolloutsInv, NEW j \in DOMAIN jobs, MayDispatch(j), Foreground(jobs, j),
           NEW i \in DOMAIN jobs, Foreground(jobs, i), i < j
    PROVE  jobs[i].state # "queued"
    <1> DEFINE Q == {k \in 1..Len(jobs) : k < j /\ Foreground(jobs, k) /\ jobs[k].state = "queued"}
    <1>1. /\ Len(jobs) \in Nat
          /\ DOMAIN jobs = 1..Len(jobs)
          /\ DOMAIN groups = 1..Len(groups)
          /\ \A k \in 1..Len(jobs) : /\ jobs[k].from \in 0..Len(jobs)
                                      /\ jobs[k].group \in 0..Len(groups)
          /\ Standing(jobs, groups, task)
        BY InvariantTables
    <1>2. ASSUME Q # {} PROVE FALSE
        <2>1. Q \subseteq Nat
            BY <1>1
        <2>2. PICK k \in Q : \A y \in Q : ~(<<y, k>> \in OpToRel(<, Nat))
            BY <1>2, <2>1, NatLessThanWellFounded, WFMin
        <2>3. \A y \in Q : ~(y < k)
            <3> SUFFICES ASSUME NEW y \in Q, y < k PROVE FALSE
                OBVIOUS
            <3>1. y \in Nat /\ k \in Nat
                BY <2>1
            <3>2. <<y, k>> \in OpToRel(<, Nat)
                BY <3>1 DEF OpToRel
            <3> QED BY <3>2, <2>2
        <2>4. /\ Eligible(j)
              /\ ~Eligible(k) /\ ~Abandoned(k)
            BY <1>1 DEF MayDispatch, Reaches
        <2>5. /\ k \in DOMAIN jobs /\ k < j
              /\ Foreground(jobs, k) /\ jobs[k].state = "queued"
            BY <1>1
        <2>6. /\ MayCreateForeground(groups, jobs[j].group)
              /\ ~task.paused
              /\ \A q \in DOMAIN jobs : Foreground(jobs, q) => ~Unresolved(jobs, q)
            BY <2>4 DEF Eligible
        <2>7. jobs[k].kind = "foreground" /\ jobs[k].group = NoGroup /\ ActiveIn(groups) = {}
            <3>1. CASE ActiveIn(groups) = {}
                <4>1. jobs[k].kind # "promotion"
                    <5> SUFFICES ASSUME jobs[k].kind = "promotion" PROVE FALSE
                        OBVIOUS
                    <5>1. jobs[k].group \in 1..Len(groups)
                        BY <2>5, <1>1 DEF Standing, Lineage, Descends, NoGroup
                    <5>2. groups[jobs[k].group].state \in ActiveGroup
                        BY <2>5, <1>1 DEF Standing, Progress
                    <5> QED BY <5>1, <5>2, <3>1, <1>1 DEF ActiveIn
                <4> QED BY <4>1, <3>1, <2>5, <1>1 DEF Foreground, Standing, Lineage, Descends
            <3>2. CASE ActiveIn(groups) # {}
                <4>1. PICK g \in ActiveIn(groups) : TRUE
                    BY <3>2
                <4>2. jobs[k].group = g /\ jobs[j].group = g
                    BY <2>4, <2>5, <1>1 DEF Eligible, Standing, Reserved, Pending
                <4>3. g # NoGroup
                    BY <4>1, <1>1 DEF ActiveIn, NoGroup
                <4>4. jobs[k].kind = "promotion" /\ jobs[j].kind = "promotion"
                    BY <4>2, <4>3, <2>5, <1>1 DEF Standing, Lineage, Descends, Foreground
                <4> QED BY <4>2, <4>4, <2>5, <1>1 DEF Standing, Lineage, Descends
            <3> QED BY <3>1, <3>2
        <2>8. MayCreateForeground(groups, jobs[k].group)
            BY <2>7 DEF MayCreateForeground
        <2>9. Follows(k, Pending \cup {"failed", "cancelled"})
            BY <2>4, <2>5, <2>6, <2>7, <2>8 DEF Eligible
        <2>10. ~Follows(k, {"failed", "cancelled"})
            BY <2>4, <2>5, <2>7, <2>8 DEF Abandoned
        <2>11. /\ jobs[k].from # NoJob
               /\ jobs[jobs[k].from].state \in Pending
            BY <2>9, <2>10 DEF Follows
        <2>12. /\ jobs[k].from < k
               /\ Foreground(jobs, jobs[k].from)
               /\ jobs[k].from \in 1..Len(jobs)
            BY <2>5, <2>7, <2>11, <1>1 DEF Standing, Lineage, Descends, NoJob
        <2>13. jobs[jobs[k].from].state = "queued"
            BY <2>6, <2>11, <2>12, <1>1 DEF Unresolved, Pending
        <2>14. jobs[k].from \in Q
            BY <2>5, <2>12, <2>13, <1>1
        <2> QED BY <2>3, <2>12, <2>14
    <1> QED BY <1>1, <1>2

TaskRows == [state : {"working", "completed", "checkpointed", "blocked", "unknown", "cancelled"},
             paused : BOOLEAN, owned : BOOLEAN]

\* A job starts: nothing queued before it, and no promotion is touched.
LEMMA StartKeeps ==
    ASSUME RolloutsInv, NEW j \in DOMAIN jobs, MayDispatch(j), NEW x, Replaces(j, x),
           Later(jobs[j], x), x.state # "queued",
           Tables(jobs', groups', contents'), groups' = groups,
           task' \in TaskRows, ActiveIn(groups) # {} /\ task.owned => task'.owned,
           Len(jobs') = Len(jobs), Grows(jobs, jobs'),
           x.kind = "promotion" => Promotes(jobs', groups, j)
    PROVE  Standing(jobs, groups, task)'
    <1>1. /\ Len(jobs) \in Nat
          /\ DOMAIN jobs = 1..Len(jobs)
          /\ DOMAIN jobs' = 1..Len(jobs)
          /\ Standing(jobs, groups, task)
          /\ Tables(jobs, groups, contents)
        BY InvariantTables, Rows
    <1>2. InOrder(jobs')
        <2> SUFFICES ASSUME NEW i \in 1..Len(jobs), NEW k \in 1..Len(jobs),
                            Foreground(jobs', i), Foreground(jobs', k), i < k, jobs'[i].state = "queued"
                     PROVE  jobs'[k].state \in {"queued", "cancelled"}
            BY <1>1 DEF InOrder
        <2>1. i # j /\ jobs'[i] = jobs[i]
            BY DEF Replaces
        <2>2. Foreground(jobs, i) /\ jobs[i].state = "queued"
            BY <2>1 DEF Foreground
        <2>3. CASE k = j
            <3>1. Foreground(jobs, j)
                BY <2>3, <1>1 DEF Foreground, Later, Grows
            <3> QED BY <2>2, <2>3, <3>1, <1>1, OldestFirst
        <2>4. CASE k # j
            <3>1. jobs'[k] = jobs[k]
                BY <2>4 DEF Replaces
            <3> QED BY <2>2, <3>1, <1>1 DEF InOrder, Standing, Foreground
        <2> QED BY <2>3, <2>4
    <1>3. ASSUME NEW p \in 1..Len(jobs), jobs'[p].kind = "promotion"
          PROVE  Promotes(jobs', groups, p)
        <2>1. CASE p = j
            BY <2>1, <1>3 DEF Replaces
        <2>2. CASE p # j
            <3>1. Rests(jobs[p], jobs'[p])
                BY <2>2, SameJobs DEF Replaces
            <3> QED BY <3>1, <1>1, <1>3, PromotionsRest, SameGroups DEF Standing
        <2> QED BY <2>1, <2>2
    <1>4. Admitted(jobs, groups, jobs')
        BY <1>1, NoneAdmitted
    <1> QED BY <1>1, <1>2, <1>3, <1>4, SameGroups, StandingKept

\* Dispatch starts the oldest job whose turn it is, or fails a stale correction.
LEMMA DispatchKeeps ==
    ASSUME RolloutsInv, NEW j \in DOMAIN jobs, Dispatch(j)
    PROVE  RolloutsInv'
    <1> DEFINE x == IF jobs[j].base \notin {0, tree}
                    THEN [jobs[j] EXCEPT !.state = "failed", !.code = "review_stale"]
                    ELSE [jobs[j] EXCEPT !.state = "running"]
    <1>1. /\ MayDispatch(j)
          /\ jobs[j].state = "queued"
          /\ jobs[j].kind # "promotion"
          /\ Turn
        BY DEF Dispatch, MayDispatch, Reaches, Eligible
    <1>2. /\ DOMAIN jobs = 1..Len(jobs)
          /\ jobs[j] \in Job(Len(jobs), Len(groups), contents)
          /\ contents \in Nat
          /\ task \in TaskRows
        BY InvariantTables DEF RolloutsInv, TypeOK, TaskRows
    <1>3. Replaces(j, x)
        <2>1. jobs' = [jobs EXCEPT ![j] = x]
            BY DEF Dispatch
        <2> QED BY <2>1, ExceptReplaces
    <1>4. x \in Job(Len(jobs), Len(groups), contents)
        <2>1. {"failed", "running"} \subseteq JobStates /\ "review_stale" \in Codes
            BY DEF JobStates, TerminalJobStates, Pending, Running, Codes
        <2>2. [jobs[j] EXCEPT !.state = "failed", !.code = "review_stale"]
              \in Job(Len(jobs), Len(groups), contents)
            BY <1>2, <2>1 DEF Job
        <2>3. [jobs[j] EXCEPT !.state = "running"] \in Job(Len(jobs), Len(groups), contents)
            BY <1>2, <2>1 DEF Job
        <2> QED BY <2>2, <2>3
    <1>5. /\ Later(jobs[j], x)
          /\ x.kind = jobs[j].kind
          /\ x.skip = jobs[j].skip
          /\ x.outcome = jobs[j].outcome
          /\ x.state = IF jobs[j].base \notin {0, tree} THEN "failed" ELSE "running"
        BY <1>1, <1>2 DEF Later, Job, TerminalJobStates, Pending, Running
    <1> HIDE DEF x
    <1>6. groups' = groups /\ contents' = contents /\ failing' = {} /\ daemon' = "up"
        BY <1>1 DEF Dispatch, Turn
    <1>7. /\ jobs' \in Seq(Job(Len(jobs'), Len(groups'), contents'))
          /\ groups' \in Seq(Group(Len(jobs'), contents'))
          /\ Len(jobs') = Len(jobs)
          /\ DOMAIN jobs' = 1..Len(jobs)
          /\ Tables(jobs', groups', contents')
          /\ Grows(jobs, jobs')
          /\ Ripens(groups, groups')
        BY <1>2, <1>3, <1>4, <1>5, <1>6, RowStep
    <1>8. /\ task' \in TaskRows
          /\ ActiveIn(groups) # {} /\ task.owned => task'.owned
        <2>1. CASE jobs[j].base \notin {0, tree}
            <3>1. task' = TaskAfterEnd("blocked", jobs', groups)
                BY <2>1 DEF Dispatch
            <3> QED BY <3>1, <1>2, OwnedWhileActive, TaskTypes DEF TaskRows
        <2>2. CASE jobs[j].base \in {0, tree}
            <3>1. task' = IF Foreground(jobs, j) THEN [task EXCEPT !.state = "working", !.owned = TRUE] ELSE task
                BY <2>2 DEF Dispatch
            <3> QED BY <3>1, <1>2 DEF TaskRows
        <2> QED BY <2>1, <2>2
    <1>9. TypeOK'
        BY <1>1, <1>2, <1>6, <1>7, <1>8 DEF Dispatch, Turn, RolloutsInv, TypeOK, TaskRows
    <1>10. Standing(jobs, groups, task)'
        BY <1>1, <1>3, <1>5, <1>6, <1>7, <1>8, StartKeeps
    <1>11. Answered(jobs, groups, LeftBehind, Awaited)'
        <2>1. jobs[j].kind = "review" => x.state = "running"
            BY <1>2, <1>5, InvariantTables DEF Lineage, Descends
        <2>2. ASSUME NEW i \in 1..Len(jobs) PROVE Silent(jobs[i], jobs'[i])
            BY <1>3, <1>5, <2>1 DEF Replaces, Silent
        <2>3. LeftBehind \subseteq LeftBehind' /\ Awaited \subseteq Awaited'
            BY <1>1, <1>6, TurnAwaits DEF Awaited, Dispatch
        <2> QED BY <1>7, <1>9, <2>2, <2>3, AnsweredSilently
    <1> QED BY <1>6, <1>9, <1>10, <1>11 DEF RolloutsInv, Standing, Failing

\* One row changes, and no foreground job starts or is promoted.
LEMMA RowRests ==
    ASSUME RolloutsInv, TypeOK', NEW j \in DOMAIN jobs, NEW x, Replaces(j, x), Len(jobs') = Len(jobs),
           Later(jobs[j], x), Waits(jobs[j], x), Rests(jobs[j], x), Silent(jobs[j], x),
           groups' = groups,
           ActiveIn(groups) # {} /\ task.owned => task'.owned,
           LeftBehind \subseteq LeftBehind', Awaited \subseteq Awaited'
    PROVE  /\ Standing(jobs, groups, task)'
           /\ Answered(jobs, groups, LeftBehind, Awaited)'
    <1>1. /\ Tables(jobs, groups, contents)
          /\ Tables(jobs', groups', contents')
          /\ Len(jobs) \in Nat
          /\ DOMAIN jobs = 1..Len(jobs)
          /\ Standing(jobs, groups, task)
        BY InvariantTables, NextTables
    <1>2. \A i \in 1..Len(jobs) :
            /\ Later(jobs[i], jobs'[i])
            /\ Waits(jobs[i], jobs'[i])
            /\ Rests(jobs[i], jobs'[i])
            /\ Silent(jobs[i], jobs'[i])
        BY SameJobs DEF Replaces, Silent
    <1>3. Grows(jobs, jobs') /\ Admitted(jobs, groups', jobs')
        BY <1>1, <1>2, NoneAdmitted DEF Grows
    <1>4. Standing(jobs, groups, task)'
        BY <1>1, <1>2, <1>3, SameGroups, StandingRests
    <1>5. Answered(jobs, groups, LeftBehind, Awaited)'
        BY <1>2, <1>3, SameGroups, AnsweredSilently
    <1> QED BY <1>4, <1>5

\* The jobs are left alone.
LEMMA JobsRest ==
    ASSUME RolloutsInv, TypeOK', jobs' = jobs, Turns(groups, groups'),
           \A g \in 1..Len(groups) : groups[g].state \in ActiveGroup => groups'[g].state \in ActiveGroup,
           ActiveIn(groups') # {} /\ task.owned => task'.owned,
           LeftBehind \subseteq LeftBehind', Awaited \subseteq Awaited'
    PROVE  /\ Standing(jobs, groups, task)'
           /\ Answered(jobs, groups, LeftBehind, Awaited)'
    <1>1. /\ Tables(jobs, groups, contents)
          /\ Tables(jobs', groups', contents')
          /\ Len(jobs) \in Nat
          /\ DOMAIN jobs = 1..Len(jobs)
          /\ Standing(jobs, groups, task)
        BY InvariantTables, NextTables
    <1>2. /\ Grows(jobs, jobs')
          /\ \A i \in 1..Len(jobs) : Waits(jobs[i], jobs'[i]) /\ Rests(jobs[i], jobs'[i])
          /\ \A i \in 1..Len(jobs) : Silent(jobs[i], jobs'[i])
        BY SameJobs DEF Silent
    <1>3. Admitted(jobs, groups', jobs')
        BY <1>1, NoneAdmitted
    <1>4. \A p \in 1..Len(jobs) : jobs'[p].kind = "promotion" => jobs[p].group \in 1..Len(groups)
        BY <1>1, InvariantTables DEF Lineage, Descends, NoGroup
    <1>5. Standing(jobs, groups, task)'
        BY <1>1, <1>2, <1>3, <1>4, StandingRests
    <1>6. Answered(jobs, groups, LeftBehind, Awaited)'
        BY <1>2, AnsweredSilently DEF Turns
    <1> QED BY <1>5, <1>6

\* The invariant, from its parts.
LEMMA Assembled ==
    ASSUME TypeOK', Standing(jobs, groups, task)', Answered(jobs, groups, LeftBehind, Awaited)', Failing'
    PROVE  RolloutsInv'
    BY DEF RolloutsInv, Standing

\* People edit the canonical tree: no table changes.
LEMMA EditKeeps ==
    ASSUME RolloutsInv, Edit
    PROVE  RolloutsInv'
    <1>1. /\ Tables(jobs, groups, contents)
          /\ Len(jobs) \in Nat /\ Len(groups) \in Nat /\ contents \in Nat
        BY InvariantTables
    <1>2. /\ jobs \in Seq(Job(Len(jobs), Len(groups), contents + 1))
          /\ groups \in Seq(Group(Len(jobs), contents + 1))
        BY <1>1, TablesWiden
    <1>3. TypeOK'
        BY <1>1, <1>2 DEF Edit, RolloutsInv, TypeOK
    <1>4. LeftBehind' = LeftBehind /\ Awaited' = Awaited /\ Failing'
        BY DEF Edit, LeftBehind, Awaited, Failing, RolloutsInv, IsReview
    <1>5. Standing(jobs, groups, task)' /\ Answered(jobs, groups, LeftBehind, Awaited)'
        BY <1>3, <1>4, SameGroups, JobsRest DEF Edit
    <1> QED BY <1>3, <1>4, <1>5, Assembled

\* A crash loses the memory of the stretch; everything is left behind for start().
LEMMA CrashKeeps ==
    ASSUME RolloutsInv, Crash
    PROVE  RolloutsInv'
    <1>1. TypeOK'
        BY DEF Crash, RolloutsInv, TypeOK
    <1>2. LeftBehind \subseteq LeftBehind' /\ Awaited \subseteq Awaited' /\ Failing'
        BY DEF Crash, LeftBehind, Awaited, Failing, RolloutsInv, TypeOK
    <1>3. Standing(jobs, groups, task)' /\ Answered(jobs, groups, LeftBehind, Awaited)'
        BY <1>1, <1>2, SameGroups, JobsRest DEF Crash
    <1> QED BY <1>1, <1>2, <1>3, Assembled

\* A worktree is released only when no group is active.
LEMMA ReleaseKeeps ==
    ASSUME RolloutsInv, NEW j \in DOMAIN jobs, ReleaseTaskOwnershipIfSafe(j)
    PROVE  RolloutsInv'
    <1>1. task \in TaskRows
        BY DEF RolloutsInv, TypeOK, TaskRows
    <1>2. task' \in TaskRows /\ (ActiveIn(groups) # {} /\ task.owned => task'.owned)
        BY <1>1 DEF ReleaseTaskOwnershipIfSafe, CanReleaseTaskOwnership, TaskRows
    <1>3. TypeOK'
        BY <1>2 DEF ReleaseTaskOwnershipIfSafe, RolloutsInv, TypeOK, TaskRows
    <1>4. LeftBehind \subseteq LeftBehind' /\ Awaited \subseteq Awaited' /\ Failing'
        BY DEF ReleaseTaskOwnershipIfSafe, LeftBehind, Awaited, Failing, RolloutsInv, IsReview
    <1>5. Standing(jobs, groups, task)' /\ Answered(jobs, groups, LeftBehind, Awaited)'
        BY <1>2, <1>3, <1>4, SameGroups, JobsRest DEF ReleaseTaskOwnershipIfSafe
    <1> QED BY <1>3, <1>4, <1>5, Assembled

\* Groups that only change their state within the active ones
LEMMA GroupsTurn ==
    ASSUME RolloutsInv,
           groups' = [g \in DOMAIN groups |-> groups'[g]],
           \A g \in DOMAIN groups :
             /\ groups'[g] = [groups[g] EXCEPT !.state = groups'[g].state]
             /\ groups[g].state \notin ActiveGroup => groups'[g].state = groups[g].state
             /\ groups[g].state \in ActiveGroup => groups'[g].state \in ActiveGroup
             /\ groups'[g].state = "running" => groups[g].promotion = NoJob
             /\ groups'[g].state = "promoting" => groups[g].promotion # NoJob
    PROVE  /\ groups' \in Seq(Group(Len(jobs), contents))
           /\ Len(groups') = Len(groups)
           /\ Turns(groups, groups')
           /\ ActiveIn(groups') = ActiveIn(groups)
    <1>1. /\ Len(groups) \in Nat
          /\ DOMAIN groups = 1..Len(groups)
          /\ \A g \in 1..Len(groups) : groups[g] \in Group(Len(jobs), contents)
        BY InvariantTables
    <1>2. ASSUME NEW g \in 1..Len(groups) PROVE groups'[g] \in Group(Len(jobs), contents)
        <2>1. groups[g] \in Group(Len(jobs), contents)
            BY <1>1
        <2>2. groups'[g].state \in ActiveGroup \cup {"promoted", "exhausted", "failed", "stale", "cancelled"}
            BY <2>1, <1>1 DEF Group
        <2> QED BY <2>1, <2>2, <1>1 DEF Group
    <1>3. groups' \in Seq(Group(Len(jobs), contents)) /\ Len(groups') = Len(groups)
          /\ DOMAIN groups' = 1..Len(groups)
        BY <1>1, <1>2, TableIsSeq
    <1>4. ASSUME NEW g \in 1..Len(groups)
          PROVE  /\ groups'[g].worker = groups[g].worker
                 /\ groups'[g].reviewer = groups[g].reviewer
                 /\ groups'[g].promotion = groups[g].promotion
                 /\ groups'[g].winner = groups[g].winner
        BY <1>1 DEF Group
    <1>5. Turns(groups, groups')
        BY <1>1, <1>3, <1>4 DEF Turns, Ripens
    <1>6. ActiveIn(groups') = ActiveIn(groups)
        BY <1>1, <1>3 DEF ActiveIn
    <1> QED BY <1>3, <1>5, <1>6

\* Pausing leaves active groups active.
LEMMA PauseKeeps ==
    ASSUME RolloutsInv, Pause
    PROVE  RolloutsInv'
    <1>1. /\ DOMAIN groups = 1..Len(groups)
          /\ \A g \in 1..Len(groups) : groups[g] \in Group(Len(jobs), contents)
          /\ Lineage(jobs, groups)
        BY InvariantTables
    <1>2. groups' = [g \in DOMAIN groups |->
                    IF groups[g].state \in ActiveGroup THEN [groups[g] EXCEPT !.state = "paused"]
                    ELSE groups[g]]
        BY DEF Pause
    <1>3. ASSUME NEW g \in DOMAIN groups
          PROVE  /\ groups'[g] = [groups[g] EXCEPT !.state = groups'[g].state]
                 /\ groups[g].state \notin ActiveGroup => groups'[g].state = groups[g].state
                 /\ groups[g].state \in ActiveGroup => groups'[g].state \in ActiveGroup
                 /\ groups'[g].state = "running" => groups[g].promotion = NoJob
                 /\ groups'[g].state = "promoting" => groups[g].promotion # NoJob
        <2>1. groups[g] \in Group(Len(jobs), contents) /\ Answers(jobs, groups, g)
            BY <1>1 DEF Lineage
        <2>2. groups[g] = [groups[g] EXCEPT !.state = groups[g].state]
            BY <2>1 DEF Group
        <2>3. CASE groups[g].state \notin ActiveGroup
            <3>1. groups'[g] = groups[g]
                BY <2>3, <1>2
            <3> QED BY <2>1, <2>2, <2>3, <3>1 DEF ActiveGroup, Answers
        <2>4. CASE groups[g].state \in ActiveGroup
            <3> DEFINE s == "paused"
            <3>1. groups'[g] = [groups[g] EXCEPT !.state = s]
                BY <2>4, <1>2
            <3> HIDE DEF s
            <3>2. groups'[g].state = s
                BY <3>1, <2>1 DEF Group
            <3> QED BY <2>4, <3>1, <3>2 DEF ActiveGroup, s
        <2> QED BY <2>3, <2>4
    <1>4. /\ groups' \in Seq(Group(Len(jobs), contents))
          /\ Len(groups') = Len(groups)
          /\ Turns(groups, groups')
          /\ ActiveIn(groups') = ActiveIn(groups)
        BY <1>2, <1>3, GroupsTurn
    <1>5. TypeOK'
        BY <1>4 DEF Pause, RolloutsInv, TypeOK
    <1>6. LeftBehind \subseteq LeftBehind' /\ Awaited \subseteq Awaited' /\ Failing'
        BY DEF Pause, LeftBehind, Awaited, Failing, RolloutsInv, IsReview
    <1>7. task.owned => task'.owned
        BY DEF Pause, RolloutsInv, TypeOK
    <1>8. Standing(jobs, groups, task)' /\ Answered(jobs, groups, LeftBehind, Awaited)'
        BY <1>1, <1>3, <1>4, <1>5, <1>6, <1>7, JobsRest DEF Pause
    <1> QED BY <1>5, <1>6, <1>8, Assembled

\* Resuming settles the running groups.
LEMMA ResumeKeeps ==
    ASSUME RolloutsInv, Resume
    PROVE  RolloutsInv'
    <1>1. /\ DOMAIN groups = 1..Len(groups)
          /\ \A g \in 1..Len(groups) : groups[g] \in Group(Len(jobs), contents)
          /\ Lineage(jobs, groups)
          /\ Len(jobs) \in Nat /\ DOMAIN jobs = 1..Len(jobs)
        BY InvariantTables
    <1>2. groups' = [g \in DOMAIN groups |->
                    IF groups[g].state # "paused" THEN groups[g]
                    ELSE [groups[g] EXCEPT !.state = IF groups[g].promotion = NoJob THEN "running"
                                                     ELSE "promoting"]]
        BY DEF Resume
    <1>3. ASSUME NEW g \in DOMAIN groups
          PROVE  /\ groups'[g] = [groups[g] EXCEPT !.state = groups'[g].state]
                 /\ groups[g].state \notin ActiveGroup => groups'[g].state = groups[g].state
                 /\ groups[g].state \in ActiveGroup => groups'[g].state \in ActiveGroup
                 /\ groups'[g].state = "running" => groups[g].promotion = NoJob
                 /\ groups'[g].state = "promoting" => groups[g].promotion # NoJob
        <2>1. groups[g] \in Group(Len(jobs), contents) /\ Answers(jobs, groups, g)
            BY <1>1 DEF Lineage
        <2>2. groups[g] = [groups[g] EXCEPT !.state = groups[g].state]
            BY <2>1 DEF Group
        <2>3. CASE groups[g].state # "paused"
            <3>1. groups'[g] = groups[g]
                BY <2>3, <1>2
            <3> QED BY <2>1, <2>2, <2>3, <3>1 DEF ActiveGroup, Answers
        <2>4. CASE groups[g].state = "paused"
            <3> DEFINE s == IF groups[g].promotion = NoJob THEN "running" ELSE "promoting"
            <3>1. groups'[g] = [groups[g] EXCEPT !.state = s]
                BY <2>4, <1>2
            <3> HIDE DEF s
            <3>2. groups'[g].state = s
                BY <3>1, <2>1 DEF Group
            <3> QED BY <2>4, <3>1, <3>2 DEF ActiveGroup, s
        <2> QED BY <2>3, <2>4
    <1>4. /\ groups' \in Seq(Group(Len(jobs), contents))
          /\ Len(groups') = Len(groups)
          /\ Turns(groups, groups')
          /\ ActiveIn(groups') = ActiveIn(groups)
        BY <1>2, <1>3, GroupsTurn
    <1>5. settling' \subseteq [job : DOMAIN jobs, step : {"settle", "release"}]
        <2>1. \A g \in DOMAIN groups : groups'[g].worker \in DOMAIN jobs
            BY <1>1, <1>4 DEF Turns, Ripens, Group
        <2>2. settling' = {[job |-> groups'[g].worker, step |-> "settle"] :
                              g \in {h \in DOMAIN groups : groups'[h].state = "running"}}
            BY DEF Resume
        <2> QED BY <2>1, <2>2
    <1>6. TypeOK'
        BY <1>4, <1>5 DEF Resume, RolloutsInv, TypeOK
    <1>7. LeftBehind \subseteq LeftBehind' /\ Awaited \subseteq Awaited' /\ Failing'
        BY TurnAwaits DEF Resume, Awaited, Failing, Turn
    <1>8. task.owned => task'.owned
        BY DEF Resume, RolloutsInv, TypeOK
    <1>9. Standing(jobs, groups, task)' /\ Answered(jobs, groups, LeftBehind, Awaited)'
        BY <1>1, <1>3, <1>4, <1>6, <1>7, <1>8, JobsRest DEF Resume
    <1> QED BY <1>6, <1>7, <1>9, Assembled

\* Members of the enumerations.
LEMMA States ==
    /\ Running \subseteq Pending
    /\ Pending \subseteq JobStates
    /\ TerminalJobStates \subseteq JobStates
    /\ {"queued", "running", "applied", "cancel_requested", "succeeded", "failed", "cancelled"} \subseteq JobStates
    /\ Pending \cap TerminalJobStates = {}
    /\ "queued" \in Pending \ Running
    /\ {"running", "applied", "cancel_requested"} \subseteq Running
    /\ {"succeeded", "failed", "cancelled"} \subseteq TerminalJobStates
    /\ {"none", "quality_gate", "policy", "environment", "protocol", "user",
        "review_stale", "rollout_conflict", "daemon_restart"} \subseteq Codes
    /\ {"none", "failed", "exhausted", "promoting", "promoted"} \subseteq Places
    /\ {"none", "approved", "refuted", "inconclusive", "protocol_failed", "reviewer_failed"} \subseteq Outcomes
    BY DEF JobStates, Pending, Running, TerminalJobStates, Codes, Places, Outcomes

\* An execution ends that nobody waited for.
LEMMA ResolveKeeps ==
    ASSUME RolloutsInv, NEW j \in DOMAIN jobs, Resolve(j)
    PROVE  RolloutsInv'
    <1> DEFINE x == [jobs[j] EXCEPT !.open = FALSE]
    <1>1. /\ DOMAIN jobs = 1..Len(jobs)
          /\ jobs[j] \in Job(Len(jobs), Len(groups), contents)
          /\ contents \in Nat
        BY InvariantTables
    <1>2. Replaces(j, x)
        <2>1. jobs' = [jobs EXCEPT ![j] = x]
            BY DEF Resolve
        <2> QED BY <2>1, ExceptReplaces
    <1>3. x \in Job(Len(jobs), Len(groups), contents)
        BY <1>1 DEF Job
    <1>4. SameRow(jobs[j], x) /\ x.skip = jobs[j].skip
        BY <1>1 DEF SameRow, Job
    <1> HIDE DEF x
    <1>5. groups' = groups /\ contents' = contents /\ failing' = {} /\ task' = task
        BY DEF Resolve, Turn
    <1>6. /\ jobs' \in Seq(Job(Len(jobs'), Len(groups'), contents'))
          /\ groups' \in Seq(Group(Len(jobs'), contents'))
          /\ Len(jobs') = Len(jobs)
          /\ DOMAIN jobs' = 1..Len(jobs)
        BY <1>1, <1>2, <1>3, <1>4, <1>5, SameRowRests, RowStep
    <1>7. TypeOK'
        BY <1>1, <1>5, <1>6 DEF Resolve, RolloutsInv, TypeOK, Turn
    <1>8. Silent(jobs[j], x)
        BY <1>4 DEF SameRow, Silent
    <1>9. LeftBehind \subseteq LeftBehind' /\ Awaited \subseteq Awaited' /\ Failing'
        BY <1>5, TurnAwaits DEF Resolve, Awaited, Failing, Turn
    <1>10. Standing(jobs, groups, task)' /\ Answered(jobs, groups, LeftBehind, Awaited)'
        BY <1>2, <1>4, <1>5, <1>6, <1>7, <1>8, <1>9, SameRowRests, RowRests
    <1> QED BY <1>7, <1>9, <1>10, Assembled

\* The pass cancels a follow-up whose predecessor did not succeed.
LEMMA SweepKeeps ==
    ASSUME RolloutsInv, NEW j \in DOMAIN jobs, Sweep(j)
    PROVE  RolloutsInv'
    <1> DEFINE x == [jobs[j] EXCEPT !.state = "cancelled", !.code = "user"]
    <1>1. /\ DOMAIN jobs = 1..Len(jobs)
          /\ jobs[j] \in Job(Len(jobs), Len(groups), contents)
          /\ contents \in Nat
          /\ task \in TaskRows
        BY InvariantTables DEF RolloutsInv, TypeOK, TaskRows
    <1>2. /\ jobs[j].state = "queued"
          /\ jobs[j].kind = "foreground"
          /\ Turn
        BY DEF Sweep, Reaches, Abandoned
    <1>3. Replaces(j, x)
        <2>1. jobs' = [jobs EXCEPT ![j] = x]
            BY DEF Sweep
        <2> QED BY <2>1, ExceptReplaces
    <1>4. x \in Job(Len(jobs), Len(groups), contents)
        <2>1. "cancelled" \in JobStates /\ "user" \in Codes
            BY States
        <2> QED BY <1>1, <2>1 DEF Job
    <1>5. StopRow(jobs[j], x) /\ Silent(jobs[j], x)
        BY <1>1, <1>2 DEF StopRow, Silent, Job
    <1> HIDE DEF x
    <1>6. groups' = groups /\ contents' = contents /\ failing' = {}
        BY <1>2 DEF Sweep, Turn
    <1>7. /\ jobs' \in Seq(Job(Len(jobs'), Len(groups'), contents'))
          /\ groups' \in Seq(Group(Len(jobs'), contents'))
          /\ Len(jobs') = Len(jobs)
          /\ DOMAIN jobs' = 1..Len(jobs)
        BY <1>1, <1>3, <1>4, <1>5, <1>6, StopRowRests, RowStep
    <1>8. task' \in TaskRows /\ (ActiveIn(groups) # {} /\ task.owned => task'.owned)
        <2>1. PICK outcome \in {"cancelled", "blocked"} : task' = TaskAfterEnd(outcome, jobs', groups)
            BY DEF Sweep
        <2> QED BY <2>1, <1>1, OwnedWhileActive, TaskTypes DEF TaskRows
    <1>9. TypeOK'
        BY <1>1, <1>2, <1>6, <1>7, <1>8 DEF Sweep, RolloutsInv, TypeOK, Turn, TaskRows
    <1>10. LeftBehind \subseteq LeftBehind' /\ Awaited \subseteq Awaited' /\ Failing'
        BY <1>2, <1>6, TurnAwaits DEF Sweep, Awaited, Failing, Turn
    <1>11. Standing(jobs, groups, task)' /\ Answered(jobs, groups, LeftBehind, Awaited)'
        BY <1>3, <1>5, <1>6, <1>7, <1>8, <1>9, <1>10, StopRowRests, RowRests
    <1> QED BY <1>9, <1>10, <1>11, Assembled

\* A candidate completes.
LEMMA CompleteCandidateKeeps ==
    ASSUME RolloutsInv, NEW j \in DOMAIN jobs, CompleteCandidate(j)
    PROVE  RolloutsInv'
    <1> DEFINE x == [jobs[j] EXCEPT !.state = "succeeded", !.tree = contents']
    <1>1. /\ DOMAIN jobs = 1..Len(jobs)
          /\ Len(jobs) \in Nat /\ Len(groups) \in Nat
          /\ Tables(jobs, groups, contents)
          /\ contents \in Nat
        BY InvariantTables
    <1>2. /\ jobs[j].state = "running"
          /\ jobs[j].kind = "rollout_candidate"
          /\ Turn
          /\ contents' = contents + 1
          /\ groups' = groups /\ failing' = {} /\ daemon' = "up" /\ task' = task
          /\ settling' = {[job |-> j, step |-> "settle"]}
        BY DEF CompleteCandidate, Ends, Turn
    <1>3. Replaces(j, x)
        <2>1. jobs' = [jobs EXCEPT ![j] = x]
            BY DEF CompleteCandidate
        <2> QED BY <2>1, ExceptReplaces
    <1>4. jobs[j] \in Job(Len(jobs), Len(groups), contents')
        BY <1>1, <1>2, TablesWiden, ElementOfSeq
    <1>5. x \in Job(Len(jobs), Len(groups), contents')
        <2>1. "succeeded" \in JobStates /\ contents' \in 0..contents'
            BY <1>1, <1>2, States
        <2> QED BY <1>4, <2>1 DEF Job
    <1>6. /\ EndRow(jobs[j], x) /\ Silent(jobs[j], x)
          /\ x.kind # "promotion"
        BY <1>2, <1>4 DEF EndRow, Silent, Job, Running, TerminalJobStates
    <1> HIDE DEF x
    <1>7. /\ jobs' \in Seq(Job(Len(jobs'), Len(groups'), contents'))
          /\ groups' \in Seq(Group(Len(jobs'), contents'))
          /\ Len(jobs') = Len(jobs)
          /\ DOMAIN jobs' = 1..Len(jobs)
        BY <1>1, <1>2, <1>3, <1>5, <1>6, EndRowRests, RowStep
    <1>8. TypeOK'
        BY <1>1, <1>2, <1>7 DEF CompleteCandidate, Ends, RolloutsInv, TypeOK
    <1>9. LeftBehind \subseteq LeftBehind' /\ Awaited \subseteq Awaited' /\ Failing'
        BY <1>2, TurnAwaits DEF CompleteCandidate, Ends, Awaited, Failing
    <1>10. Standing(jobs, groups, task)' /\ Answered(jobs, groups, LeftBehind, Awaited)'
        BY <1>2, <1>3, <1>6, <1>7, <1>8, <1>9, EndRowRests, RowRests
    <1> QED BY <1>8, <1>9, <1>10, Assembled

\* A promotion is refused after it was applied.
LEMMA RefusePromotionKeeps ==
    ASSUME RolloutsInv, NEW j \in DOMAIN jobs, RefusePromotion(j)
    PROVE  RolloutsInv'
    <1> DEFINE x == [jobs[j] EXCEPT !.state = "failed", !.code = "review_stale"]
    <1>1. /\ DOMAIN jobs = 1..Len(jobs)
          /\ jobs[j] \in Job(Len(jobs), Len(groups), contents)
          /\ contents \in Nat
          /\ task \in TaskRows
        BY InvariantTables DEF RolloutsInv, TypeOK, TaskRows
    <1>2. /\ jobs[j].state = "applied"
          /\ jobs[j].kind = "promotion"
          /\ Turn
          /\ contents' = contents
          /\ groups' = groups /\ failing' = {} /\ daemon' = "up"
          /\ settling' = {[job |-> j, step |-> "settle"]}
          /\ declined' = declined
        BY DEF RefusePromotion, Ends, Turn
    <1>3. Replaces(j, x)
        <2>1. jobs' = [jobs EXCEPT ![j] = x]
            BY DEF RefusePromotion
        <2> QED BY <2>1, ExceptReplaces
    <1>4. x \in Job(Len(jobs), Len(groups), contents)
        <2>1. "failed" \in JobStates /\ "review_stale" \in Codes
            BY States
        <2> QED BY <1>1, <2>1 DEF Job
    <1>5. /\ EndRow(jobs[j], x) /\ Silent(jobs[j], x)
          /\ x.state = "failed"
        BY <1>1, <1>2 DEF EndRow, Silent, Job, Running, TerminalJobStates
    <1> HIDE DEF x
    <1>6. Later(jobs[j], x) /\ Waits(jobs[j], x) /\ Rests(jobs[j], x)
        BY <1>5, EndRowRests
    <1>7. /\ jobs' \in Seq(Job(Len(jobs'), Len(groups'), contents'))
          /\ groups' \in Seq(Group(Len(jobs'), contents'))
          /\ Len(jobs') = Len(jobs)
          /\ DOMAIN jobs' = 1..Len(jobs)
        BY <1>1, <1>2, <1>3, <1>4, <1>6, RowStep
    <1>8. task' \in TaskRows /\ (ActiveIn(groups) # {} /\ task.owned => task'.owned)
        BY <1>1, OwnedWhileActive, TaskTypes DEF RefusePromotion, TaskRows
    <1>9. TypeOK'
        BY <1>1, <1>2, <1>7, <1>8 DEF RefusePromotion, Ends, RolloutsInv, TypeOK, TaskRows
    <1>10. LeftBehind \subseteq LeftBehind' /\ Awaited \subseteq Awaited' /\ Failing'
        BY <1>2, TurnAwaits DEF Awaited, Failing
    <1>11. Standing(jobs, groups, task)' /\ Answered(jobs, groups, LeftBehind, Awaited)'
        BY <1>2, <1>3, <1>5, <1>6, <1>7, <1>8, <1>9, <1>10, RowRests
    <1> QED BY <1>9, <1>10, <1>11, Assembled

\* The promotion of a group that is not active has ended; one promotion per group.
LEMMA PromotionFacts ==
    ASSUME RolloutsInv, NEW j \in DOMAIN jobs, jobs[j].kind = "promotion"
    PROVE  /\ jobs[j].group \in DOMAIN groups
           /\ groups[jobs[j].group].promotion = j
           /\ groups[jobs[j].group].winner = jobs[j].from
           /\ jobs[j].from \in 1..Len(jobs)
           /\ jobs[j].from < j
           /\ jobs[jobs[j].from].state = "succeeded"
           /\ Promotes(jobs, groups, j)
           /\ HasApproval(jobs, j)
    <1>1. /\ DOMAIN jobs = 1..Len(jobs)
          /\ DOMAIN groups = 1..Len(groups)
          /\ jobs[j].from \in 0..Len(jobs)
          /\ jobs[j].group \in 0..Len(groups)
          /\ Lineage(jobs, groups)
          /\ Progress(jobs, groups)
        BY InvariantTables DEF RolloutsInv
    <1>2. Promotes(jobs, groups, j) /\ HasApproval(jobs, j)
        BY <1>1 DEF Progress, Promotes, HasApproval
    <1>3. PICK r \in DOMAIN jobs : /\ jobs[r].kind = "rollout_review"
                                   /\ jobs[r].from = jobs[j].from
                                   /\ jobs[r].state = "succeeded"
                                   /\ jobs[r].outcome = "approved"
        BY <1>2 DEF HasApproval
    <1>4. jobs[j].from # NoJob /\ jobs[jobs[j].from].state = "succeeded"
        BY <1>1, <1>3 DEF Lineage, Descends, Progress
    <1> QED BY <1>1, <1>2, <1>4 DEF Lineage, Descends, NoGroup, NoJob

\* A promotion is applied, or fails on another tree than its group was admitted on.
LEMMA StartPromotionKeeps ==
    ASSUME RolloutsInv, NEW j \in DOMAIN jobs, StartPromotion(j)
    PROVE  RolloutsInv'
    <1> DEFINE conflict == tree # groups[jobs[j].group].base
               x == IF conflict
                    THEN [jobs[j] EXCEPT !.state = "failed", !.code = "rollout_conflict"]
                    ELSE [jobs[j] EXCEPT !.state = "applied", !.tree = jobs[jobs[j].from].tree]
    <1>1. /\ MayDispatch(j)
          /\ jobs[j].state = "queued"
          /\ jobs[j].kind = "promotion"
          /\ Turn
          /\ groups' = groups /\ contents' = contents /\ failing' = {} /\ daemon' = "up"
          /\ declined' = declined
        BY DEF StartPromotion, MayDispatch, Reaches, Eligible, Turn
    <1>2. /\ DOMAIN jobs = 1..Len(jobs)
          /\ \A i \in 1..Len(jobs) : jobs[i] \in Job(Len(jobs), Len(groups), contents)
          /\ contents \in Nat
          /\ task \in TaskRows
        BY InvariantTables DEF RolloutsInv, TypeOK, TaskRows
    <1>3. /\ jobs[j].from \in 1..Len(jobs)
          /\ jobs[j].from < j
          /\ groups[jobs[j].group].state \in ActiveGroup
        BY <1>1, PromotionFacts DEF Promotes
    <1>4. jobs[jobs[j].from].tree \in 0..contents
        BY <1>2, <1>3 DEF Job
    <1>5. Replaces(j, x)
        <2>1. jobs' = [jobs EXCEPT ![j] = x]
            BY DEF StartPromotion
        <2> QED BY <2>1, ExceptReplaces
    <1>6. x \in Job(Len(jobs), Len(groups), contents)
        <2>1. {"failed", "applied"} \subseteq JobStates /\ "rollout_conflict" \in Codes
            BY States
        <2>2. jobs[j] \in Job(Len(jobs), Len(groups), contents)
            BY <1>2
        <2>3. [jobs[j] EXCEPT !.state = "failed", !.code = "rollout_conflict"]
              \in Job(Len(jobs), Len(groups), contents)
            BY <2>1, <2>2 DEF Job
        <2>4. [jobs[j] EXCEPT !.state = "applied", !.tree = jobs[jobs[j].from].tree]
              \in Job(Len(jobs), Len(groups), contents)
            BY <1>4, <2>1, <2>2 DEF Job
        <2> QED BY <2>3, <2>4
    <1>7. /\ x.kind = "promotion"
          /\ x.group = jobs[j].group
          /\ x.from = jobs[j].from
          /\ x.skip = jobs[j].skip
          /\ conflict => x.state = "failed"
          /\ ~conflict => x.state = "applied" /\ x.tree = jobs[jobs[j].from].tree
          /\ Later(jobs[j], x)
        BY <1>1, <1>2 DEF Later, Job, TerminalJobStates, Pending, Running
    <1>8. x.state \in {"failed", "applied"}
        BY <1>7
    <1> HIDE DEF x, conflict
    <1>9. /\ jobs' \in Seq(Job(Len(jobs'), Len(groups'), contents'))
          /\ groups' \in Seq(Group(Len(jobs'), contents'))
          /\ Len(jobs') = Len(jobs)
          /\ DOMAIN jobs' = 1..Len(jobs)
          /\ Tables(jobs', groups', contents')
          /\ Grows(jobs, jobs')
          /\ Ripens(groups, groups')
        BY <1>1, <1>2, <1>5, <1>6, <1>7, RowStep
    <1>10. Promotes(jobs', groups, j)
        <2>1. jobs'[j] = x /\ jobs'[jobs[j].from] = jobs[jobs[j].from]
            BY <1>2, <1>3, <1>5 DEF Replaces
        <2> QED BY <1>3, <1>7, <1>8, <2>1 DEF Promotes
    <1>11. /\ task' \in TaskRows
           /\ task.owned => task'.owned
        <2>1. CASE conflict
            <3>1. task' = [TaskAfterEnd("blocked", jobs', groups) EXCEPT !.owned = TRUE]
                BY <2>1 DEF StartPromotion, conflict
            <3>2. TaskAfterEnd("blocked", jobs', groups) \in TaskRows
                BY <1>2, TaskTypes DEF TaskRows
            <3> QED BY <3>1, <3>2 DEF TaskRows
        <2>2. CASE ~conflict
            <3>1. task' = [task EXCEPT !.state = "working", !.owned = TRUE]
                BY <2>2 DEF StartPromotion, conflict
            <3> QED BY <3>1, <1>2 DEF TaskRows
        <2> QED BY <2>1, <2>2
    <1>12. settling' \subseteq [job : DOMAIN jobs, step : {"settle", "release"}]
           /\ tree' \in 0..contents
        BY <1>1, <1>4 DEF StartPromotion, RolloutsInv, TypeOK, Turn
    <1>13. TypeOK'
        BY <1>1, <1>2, <1>9, <1>11, <1>12 DEF RolloutsInv, TypeOK, TaskRows
    <1>14. Standing(jobs, groups, task)'
        BY <1>1, <1>5, <1>7, <1>8, <1>9, <1>10, <1>11, StartKeeps
    <1>15. Answered(jobs, groups, LeftBehind, Awaited)'
        <2>1. ASSUME NEW i \in 1..Len(jobs) PROVE Silent(jobs[i], jobs'[i])
            BY <1>5, <1>7 DEF Replaces, Silent
        <2>2. LeftBehind \subseteq LeftBehind' /\ Awaited \subseteq Awaited'
            BY <1>1, TurnAwaits DEF Awaited
        <2> QED BY <1>9, <1>13, <2>1, <2>2, AnsweredSilently
    <1>16. Failing'
        BY <1>1 DEF Failing
    <1> QED BY <1>13, <1>14, <1>15, <1>16, Assembled

\* A table with one row replaced.
LEMMA RowSet ==
    ASSUME NEW J, NEW S, J \in Seq(S), NEW j \in 1..Len(J), NEW x \in S
    PROVE  /\ [J EXCEPT ![j] = x] \in Seq(S)
           /\ Len([J EXCEPT ![j] = x]) = Len(J)
           /\ \A i \in 1..Len(J) : [J EXCEPT ![j] = x][i] = IF i = j THEN x ELSE J[i]
    BY ExceptSeq

-----------------------------------------------------------------------------
(* What a settlement adds *)

\* A table with one more job
LEMMA AppendRow ==
    ASSUME NEW S, NEW T, NEW n \in Nat, NEW J, J \in Seq(S), Len(J) = n, S \subseteq T, NEW x \in T
    PROVE  /\ Append(J, x) \in Seq(T)
           /\ Len(Append(J, x)) = n + 1
           /\ \A i \in 1..n : Append(J, x)[i] = J[i]
           /\ Append(J, x)[n + 1] = x
    <1>1. J \in Seq(T)
        BY SeqMonotonic
    <1> QED BY <1>1, AppendProperties

\* K is J with the next rung's job, if the ladder has one for w.
Laddered(J, w, n, m, c, K) ==
    /\ K \in Seq(Job(Len(K), m, c))
    /\ Len(K) \in n..(n + 1)
    /\ \A i \in 1..n : K[i] = J[i]
    /\ Len(K) > n =>
         /\ Escalates(J, w)
         /\ K[n + 1].kind = "foreground"
         /\ K[n + 1].state = "queued"
         /\ K[n + 1].outcome = "none"
         /\ K[n + 1].from = w
         /\ K[n + 1].why = "escalation"
         /\ K[n + 1].group = NoGroup

\* The ladder adds at most one job, an escalation.
LEMMA LadderAdds ==
    ASSUME NEW n \in Nat, NEW m \in Nat, NEW c \in Nat, NEW J, J \in Seq(Job(n, m, c)), n = Len(J),
           NEW w \in 1..n, NEW open
    PROVE  Laddered(J, w, n, m, c, LadderAfterFailure(J, w, open))
    <1> DEFINE K == LadderAfterFailure(J, w, open)
               x == [Blank EXCEPT !.from = w, !.why = "escalation", !.corr = J[w].corr,
                                  !.roll = J[w].roll, !.rung = J[w].rung + 1]
    <1>1. CASE ~(Escalates(J, w) /\ open)
        <2>1. K = J
            BY <1>1 DEF LadderAfterFailure
        <2> HIDE DEF K
        <2>2. Len(K) = n /\ Len(K) \in n..(n + 1) /\ ~(Len(K) > n) /\ K \in Seq(Job(Len(K), m, c))
            BY <2>1
        <2>3. \A i \in 1..n : K[i] = J[i]
            BY <2>1
        <2> QED BY <2>2, <2>3 DEF K, Laddered
    <1>2. CASE Escalates(J, w) /\ open
        <2>1. K = Append(J, x)
            BY <1>2 DEF LadderAfterFailure
        <2>2. J[w] \in Job(n, m, c)
            BY ElementOfSeq
        <2>3. /\ J[w].corr \in 0..2 /\ J[w].roll \in 0..3 /\ J[w].rung + 1 \in 1..Rungs
              /\ w \in 0..(n + 1) /\ "escalation" \in Reasons
            <3>1. J[w].corr \in 0..2 /\ J[w].roll \in 0..3 /\ J[w].rung \in 1..Rungs
                BY <2>2 DEF Job
            <3>2. J[w].rung < Rungs /\ Rungs \in Nat
                BY <1>2 DEF Escalates
            <3> QED BY <3>1, <3>2 DEF Reasons
        <2>4. Blank \in Job(n + 1, m, c)
            BY BlankIsJob
        <2>5. x \in Job(n + 1, m, c)
            BY <2>3, <2>4 DEF Job
        <2>6. /\ x.kind = "foreground" /\ x.state = "queued" /\ x.outcome = "none"
              /\ x.from = w /\ x.why = "escalation" /\ x.group = NoGroup
            BY DEF Blank
        <2> HIDE DEF x
        <2>7. /\ Append(J, x) \in Seq(Job(n + 1, m, c))
              /\ Len(Append(J, x)) = n + 1
              /\ \A i \in 1..n : Append(J, x)[i] = J[i]
              /\ Append(J, x)[n + 1] = x
            <3>1. Job(n, m, c) \subseteq Job(n + 1, m, c)
                BY JobWider
            <3> QED BY <2>5, <3>1, AppendRow
        <2> HIDE DEF K
        <2>8. K \in Seq(Job(Len(K), m, c))
            BY <2>1, <2>7
        <2>9. Len(K) = n + 1 /\ K[n + 1] = x /\ \A i \in 1..n : K[i] = J[i]
            BY <2>1, <2>7
        <2>10. Len(K) \in n..(n + 1)
            BY <2>9
        <2>11. K[n + 1].kind = "foreground" /\ K[n + 1].state = "queued" /\ K[n + 1].outcome = "none"
               /\ K[n + 1].from = w /\ K[n + 1].why = "escalation" /\ K[n + 1].group = NoGroup
            BY <2>6, <2>9
        <2> QED BY <1>2, <2>8, <2>9, <2>10, <2>11 DEF K, Laddered
    <1> QED BY <1>1, <1>2

\* K is J with a review of w, or says that it is skipped.
Requested(J, w, open, n, m, c, K) ==
    /\ K \in Seq(Job(Len(K), m, c))
    /\ Len(K) = IF open THEN n + 1 ELSE n
    /\ \A i \in 1..n : i # w => K[i] = J[i]
    /\ K[w] = [J[w] EXCEPT !.skip = ~open]
    /\ open =>
         /\ K[n + 1].kind = "review"
         /\ K[n + 1].state = "queued"
         /\ K[n + 1].outcome = "none"
         /\ K[n + 1].from = w
         /\ K[n + 1].group = NoGroup
         /\ K[n + 1].base = 0
         /\ K[n + 1].retry = FALSE
         /\ K[n + 1].corr = J[w].corr

\* A request for a review adds a reviewer or marks the worker.
LEMMA RequestAdds ==
    ASSUME NEW n \in Nat, NEW m \in Nat, NEW c \in Nat, NEW J, J \in Seq(Job(n, m, c)), n = Len(J),
           NEW w \in 1..n, NEW complete \in BOOLEAN, NEW open \in BOOLEAN
    PROVE  Requested(J, w, open, n, m, c, RequestReview(J, w, complete, open))
    <1> DEFINE K == RequestReview(J, w, complete, open)
               x == [Blank EXCEPT !.kind = "review", !.from = w, !.corr = J[w].corr, !.complete = complete]
               y == [J[w] EXCEPT !.skip = ~open]
               L == [J EXCEPT ![w] = y]
    <1>1. J[w] \in Job(n, m, c)
        BY ElementOfSeq
    <1>2. y \in Job(n, m, c)
        BY <1>1 DEF Job
    <1> HIDE DEF y
    <1>3. /\ L \in Seq(Job(n, m, c))
          /\ Len(L) = n
          /\ \A i \in 1..n : L[i] = IF i = w THEN y ELSE J[i]
        BY <1>2, RowSet
    <1>4. CASE ~open
        <2>1. K = L
            BY <1>4 DEF RequestReview, y
        <2> HIDE DEF K, L
        <2> QED BY <1>3, <1>4, <2>1 DEF K, y, Requested
    <1>5. CASE open
        <2>1. K = Append(L, x)
            BY <1>5 DEF RequestReview, y
        <2>2. /\ J[w].corr \in 0..2 /\ w \in 0..(n + 1) /\ "review" \in Kinds
            <3>1. J[w].corr \in 0..2
                BY <1>1 DEF Job
            <3>2. w \in 0..(n + 1)
                OBVIOUS
            <3> QED BY <3>1, <3>2 DEF Kinds
        <2>3. Blank \in Job(n + 1, m, c)
            BY BlankIsJob
        <2>4. x \in Job(n + 1, m, c)
            BY <2>2, <2>3 DEF Job
        <2>5. /\ x.kind = "review" /\ x.state = "queued" /\ x.outcome = "none"
              /\ x.from = w /\ x.group = NoGroup /\ x.base = 0 /\ x.retry = FALSE /\ x.corr = J[w].corr
            BY DEF Blank
        <2> HIDE DEF x, L
        <2>6. /\ Append(L, x) \in Seq(Job(n + 1, m, c))
              /\ Len(Append(L, x)) = n + 1
              /\ \A i \in 1..n : Append(L, x)[i] = L[i]
              /\ Append(L, x)[n + 1] = x
            <3>1. Job(n, m, c) \subseteq Job(n + 1, m, c)
                BY JobWider
            <3> QED BY <1>3, <2>4, <3>1, AppendRow
        <2> HIDE DEF K
        <2>7. K \in Seq(Job(Len(K), m, c)) /\ Len(K) = n + 1
            BY <2>1, <2>6
        <2>8. K[w] = y /\ \A i \in 1..n : i # w => K[i] = J[i]
            BY <1>3, <2>1, <2>6
        <2> QED BY <1>5, <2>1, <2>5, <2>6, <2>7, <2>8 DEF K, y, Requested
    <1> QED BY <1>4, <1>5

\* A reviewer that failed says so and nothing else.
ToldRow(a, b) ==
    /\ b.kind = a.kind
    /\ b.from = a.from
    /\ b.why = a.why
    /\ b.corr = a.corr
    /\ b.roll = a.roll
    /\ b.group = a.group
    /\ b.retry = a.retry
    /\ b.base = a.base
    /\ b.state = a.state
    /\ b.tree = a.tree
    /\ b.skip = a.skip
    /\ b.outcome \in {"protocol_failed", "reviewer_failed"}

\* K is J where r says that it failed, with one more reviewer or w's review skipped.
FailureTold(J, r, w, n, m, c, K) ==
    /\ K \in Seq(Job(Len(K), m, c))
    /\ Len(K) \in n..(n + 1)
    /\ \A i \in 1..n : i # r /\ i # w => K[i] = J[i]
    /\ ToldRow(J[r], K[r])
    /\ SameRow(J[w], K[w])
    /\ Len(K) = n /\ J[w].skip => K[w].skip
    /\ LatestReview(w) = r /\ J[r].kind = "review" /\ Len(K) = n => K[w].skip
    /\ Len(K) > n =>
         /\ LatestReview(w) = r
         /\ J[r].kind = "review"
         /\ ~J[r].retry
         /\ K[n + 1].kind = "review"
         /\ K[n + 1].state = "queued"
         /\ K[n + 1].outcome = "none"
         /\ K[n + 1].from = w
         /\ K[n + 1].group = NoGroup
         /\ K[n + 1].base = 0
         /\ K[n + 1].corr = J[r].corr

\* The settlement of a failed reviewer adds its retry or marks the worker.
LEMMA FailureAdds ==
    ASSUME NEW n \in Nat, NEW m \in Nat, NEW c \in Nat, NEW J, J \in Seq(Job(n, m, c)), n = Len(J),
           NEW r \in 1..n, NEW open, NEW w \in 1..n, w = J[r].from, w # r
    PROVE  FailureTold(J, r, w, n, m, c, SettleReviewFailure(J, r, open))
    <1> DEFINE K == SettleReviewFailure(J, r, open)
               o == IF J[r].code = "protocol" THEN "protocol_failed" ELSE "reviewer_failed"
               y == [J[r] EXCEPT !.outcome = o]
               L == [J EXCEPT ![r] = y]
               skip == IF LatestReview(w) # r THEN J[w].skip
                       ELSE IF RetriesReview(J, r, open) THEN FALSE
                       ELSE J[w].skip \/ J[r].kind = "review"
               z == [J[w] EXCEPT !.skip = skip]
               M == [L EXCEPT ![w] = z]
               x == [Blank EXCEPT !.kind = "review", !.from = w, !.corr = J[r].corr,
                                  !.complete = J[r].complete, !.retry = TRUE]
    <1>1. J[w] \in Job(n, m, c) /\ J[r] \in Job(n, m, c)
        BY ElementOfSeq
    <1>2. y \in Job(n, m, c) /\ ToldRow(J[r], y)
        <2>1. o \in Outcomes /\ o \in {"protocol_failed", "reviewer_failed"}
            BY DEF Outcomes
        <2> HIDE DEF o
        <2> QED BY <1>1, <2>1 DEF Job, ToldRow
    <1>3. z \in Job(n, m, c) /\ SameRow(J[w], z) /\ z.skip = skip
        <2>1. J[w].skip \in BOOLEAN
            BY <1>1 DEF Job
        <2>2. skip \in BOOLEAN
            BY <2>1
        <2> HIDE DEF skip
        <2> QED BY <1>1, <2>2 DEF Job, SameRow
    <1> HIDE DEF y, z
    <1>4. /\ L \in Seq(Job(n, m, c))
          /\ Len(L) = n
          /\ \A i \in 1..n : L[i] = IF i = r THEN y ELSE J[i]
        BY <1>2, RowSet
    <1> HIDE DEF L
    <1>5. /\ M \in Seq(Job(n, m, c))
          /\ Len(M) = n
          /\ \A i \in 1..n : M[i] = IF i = w THEN z ELSE L[i]
        BY <1>3, <1>4, RowSet
    <1> HIDE DEF M
    <1>6. /\ \A i \in 1..n : i # r /\ i # w => M[i] = J[i]
          /\ M[r] = y /\ M[w] = z
        BY <1>4, <1>5
    <1>7. L = [J EXCEPT ![r].outcome = o]
        BY DEF L, y
    <1>8. L[w] = J[w]
        BY <1>4
    <1>9. M = [L EXCEPT ![w].skip = skip]
        BY <1>8 DEF M, z
    <1>10. L = M \/ skip # J[w].skip
        <2> SUFFICES ASSUME skip = J[w].skip PROVE L = M
            OBVIOUS
        <2>1. z = J[w]
            BY <1>1 DEF z, Job
        <2>2. L = [L EXCEPT ![w] = J[w]]
            BY <1>4, <1>8
        <2> QED BY <2>1, <2>2 DEF M
    <1>11. CASE LatestReview(w) = r /\ RetriesReview(J, r, open)
        <2>1. K = Append(M, x)
            <3>1. K = Append([L EXCEPT ![w].skip = FALSE], x)
                BY <1>7, <1>11 DEF SettleReviewFailure
            <3>2. z = [J[w] EXCEPT !.skip = FALSE]
                BY <1>11 DEF z
            <3>3. M = [L EXCEPT ![w].skip = FALSE]
                BY <1>8, <3>2 DEF M
            <3> HIDE DEF skip, K, x
            <3> QED BY <3>1, <3>3
        <2>2. /\ J[r].corr \in 0..2 /\ J[r].complete \in BOOLEAN /\ w \in 0..(n + 1) /\ "review" \in Kinds
            <3>1. J[r].corr \in 0..2 /\ J[r].complete \in BOOLEAN
                BY <1>1 DEF Job
            <3>2. w \in 0..(n + 1)
                OBVIOUS
            <3> QED BY <3>1, <3>2 DEF Kinds
        <2>3. Blank \in Job(n + 1, m, c)
            BY BlankIsJob
        <2>4. x \in Job(n + 1, m, c)
            BY <2>2, <2>3 DEF Job
        <2>5. /\ x.kind = "review" /\ x.state = "queued" /\ x.outcome = "none"
              /\ x.from = w /\ x.group = NoGroup /\ x.base = 0 /\ x.corr = J[r].corr
            BY DEF Blank
        <2> HIDE DEF x
        <2>6. /\ Append(M, x) \in Seq(Job(n + 1, m, c))
              /\ Len(Append(M, x)) = n + 1
              /\ \A i \in 1..n : Append(M, x)[i] = M[i]
              /\ Append(M, x)[n + 1] = x
            <3>1. Job(n, m, c) \subseteq Job(n + 1, m, c)
                BY JobWider
            <3> QED BY <1>5, <2>4, <3>1, AppendRow
        <2> HIDE DEF K
        <2>7. K \in Seq(Job(Len(K), m, c)) /\ Len(K) = n + 1 /\ Len(K) \in n..(n + 1) /\ Len(K) # n
            BY <2>1, <2>6
        <2>8. (\A i \in 1..n : i # r /\ i # w => K[i] = J[i]) /\ K[r] = y /\ K[w] = z /\ K[n + 1] = x
            BY <1>6, <2>1, <2>6
        <2>9. J[r].kind = "review" /\ ~J[r].retry
            BY <1>11 DEF RetriesReview
        <2> QED BY <1>2, <1>3, <1>11, <2>5, <2>7, <2>8, <2>9 DEF K, FailureTold
    <1>12. CASE ~(LatestReview(w) = r /\ RetriesReview(J, r, open))
        <2>1. K = M
            <3>1. CASE LatestReview(w) # r
                <4>1. K = L
                    BY <3>1, <1>7 DEF SettleReviewFailure
                <4>2. skip = J[w].skip
                    BY <3>1
                <4> QED BY <4>1, <4>2, <1>10
            <3>2. CASE LatestReview(w) = r
                <4>1. K = [L EXCEPT ![w].skip = @ \/ J[r].kind = "review"]
                    BY <3>2, <1>12, <1>7 DEF SettleReviewFailure
                <4>2. skip = (L[w].skip \/ J[r].kind = "review")
                    BY <3>2, <1>12, <1>8
                <4> HIDE DEF skip, K
                <4> QED BY <4>1, <4>2, <1>9
            <3> QED BY <3>1, <3>2
        <2> HIDE DEF K
        <2>2. Len(K) = n /\ Len(K) \in n..(n + 1) /\ ~(Len(K) > n) /\ K \in Seq(Job(Len(K), m, c))
            BY <1>5, <2>1
        <2>3. (\A i \in 1..n : i # r /\ i # w => K[i] = J[i]) /\ K[r] = y /\ K[w] = z
            BY <1>6, <2>1
        <2>4. /\ J[w].skip => z.skip
              /\ LatestReview(w) = r /\ J[r].kind = "review" => z.skip
            BY <1>3, <1>12
        <2> QED BY <1>2, <1>3, <2>2, <2>3, <2>4 DEF K, FailureTold
    <1> QED BY <1>11, <1>12

\* The jobs of the next state are the jobs, changed row by row, and at most one more.
LEMMA GrowStep ==
    ASSUME RolloutsInv, groups' = groups, contents' \in Nat, contents <= contents',
           jobs' \in Seq(Job(Len(jobs'), Len(groups), contents')),
           Len(jobs') \in Len(jobs)..(Len(jobs) + 1),
           \A i \in 1..Len(jobs) : Later(jobs[i], jobs'[i]),
           Len(jobs') > Len(jobs) =>
               jobs'[Len(jobs) + 1].state = "queued" /\ jobs'[Len(jobs) + 1].outcome = "none"
    PROVE  /\ jobs' \in Seq(Job(Len(jobs'), Len(groups'), contents'))
           /\ groups' \in Seq(Group(Len(jobs'), contents'))
           /\ Tables(jobs', groups', contents')
           /\ Len(jobs') \in Nat
           /\ DOMAIN jobs \subseteq DOMAIN jobs'
           /\ Len(jobs) <= Len(jobs')
           /\ Len(jobs') = Len(jobs) \/ Len(jobs') = Len(jobs) + 1
           /\ Grows(jobs, jobs')
           /\ Ripens(groups, groups')
           /\ Turns(groups, groups')
    <1> DEFINE n == Len(jobs)
               k == Len(jobs')
               l == Len(groups)
    <1>1. /\ Tables(jobs, groups, contents)
          /\ n \in Nat /\ l \in Nat /\ contents \in Nat
          /\ DOMAIN jobs = 1..n
          /\ k \in Nat
          /\ DOMAIN jobs' = 1..k
        BY InvariantTables, LenProperties
    <1>2. k \in n..(n + 1)
        OBVIOUS
    <1>3. n <= k /\ k <= n + 1 /\ (k = n \/ k = n + 1) /\ 1..n \subseteq 1..k /\ l <= l
        <2> HIDE DEF n, k, l
        <2> QED BY <1>1, <1>2
    <1>4. groups \in Seq(Group(Len(jobs'), contents'))
        <2>1. /\ Len(jobs') \in Nat /\ Len(jobs) <= Len(jobs')
              /\ Len(groups) \in Nat /\ Len(groups) <= Len(groups)
            BY <1>1, <1>3
        <2>2. Tables(jobs, groups, contents)
            BY <1>1
        <2> QED BY <2>1, <2>2, TablesWiden
    <1>5. Tables(jobs', groups', contents')
        BY <1>4 DEF Tables
    <1>6. k > n => k = n + 1
        <2> HIDE DEF n, k
        <2> QED BY <1>1, <1>3
    <1>7. Grows(jobs, jobs')
        BY <1>1, <1>3, <1>6, AppendGrows
    <1> QED BY <1>1, <1>3, <1>4, <1>5, <1>7, SameGroups

\* A step of a stretch that is described by the tables keeps the invariant.
LEMMA StretchKeeps ==
    ASSUME RolloutsInv, TypeOK', Turn, daemon' = "up", failing' = {},
           declined \subseteq declined', groups' = groups,
           Grows(jobs, jobs'), Admitted(jobs, groups, jobs'),
           \A i \in 1..Len(jobs) : Waits(jobs[i], jobs'[i]) /\ Rests(jobs[i], jobs'[i]),
           ActiveIn(groups) # {} /\ task.owned => task'.owned,
           \A r \in 1..Len(jobs) :
             jobs'[r].kind = "review" /\ jobs'[r].state \in {"failed", "cancelled"} /\ Latest(jobs', r) =>
                 \/ jobs[r].state = jobs'[r].state /\ jobs[r].outcome = jobs'[r].outcome
                 \/ jobs'[jobs'[r].from].skip,
           \A w \in 1..Len(jobs) : jobs[w].skip =>
                 \/ jobs'[w].skip
                 \/ \E s \in 1..Len(jobs') : s > Len(jobs) /\ jobs'[s].kind = "review" /\ jobs'[s].from = w,
           \A r \in 1..Len(jobs) :
             jobs'[r].kind = "review" /\ jobs'[r].outcome = "refuted" /\ Latest(jobs', r) =>
                 jobs[r].outcome = "refuted" \/ [job |-> r, step |-> "settle"] \in settling'
    PROVE  RolloutsInv'
    <1>1. /\ Tables(jobs, groups, contents)
          /\ Tables(jobs', groups', contents')
          /\ Standing(jobs, groups, task)
        BY InvariantTables, NextTables
    <1>2. Standing(jobs, groups, task)'
        BY <1>1, SameGroups, StandingRests
    <1>3. Answered(jobs, groups, LeftBehind, Awaited)'
        BY SameGroups, AnsweredInTheStretch
    <1>4. Failing'
        BY DEF Failing
    <1> QED BY <1>2, <1>3, <1>4, Assembled

-----------------------------------------------------------------------------
(* Reviews *)

LEMMA ReviewFacts ==
    ASSUME RolloutsInv, NEW r \in DOMAIN jobs, IsReview(r)
    PROVE  /\ jobs[r].from \in 1..Len(jobs)
           /\ jobs[r].from < r
           /\ jobs[r].from # r
           /\ jobs[jobs[r].from].state = "succeeded"
           /\ jobs[r].state \in Pending => jobs[r].outcome = "none"
           /\ jobs[r].kind = "review" =>
                /\ Foreground(jobs, jobs[r].from)
                /\ jobs[r].group = NoGroup
                /\ jobs[r].corr = jobs[jobs[r].from].corr
           /\ jobs[r].kind = "rollout_review" =>
                /\ jobs[jobs[r].from].kind = "rollout_candidate"
                /\ jobs[jobs[r].from].group = jobs[r].group
                /\ jobs[r].group # NoGroup
    <1>1. /\ Len(jobs) \in Nat
          /\ DOMAIN jobs = 1..Len(jobs)
          /\ Lineage(jobs, groups)
          /\ Progress(jobs, groups)
          /\ jobs[r].from \in 0..Len(jobs)
        BY InvariantTables DEF RolloutsInv
    <1>2. Descends(jobs, groups, r) /\ jobs[r].kind \in {"review", "rollout_review"}
        BY <1>1 DEF Lineage, IsReview
    <1>3. jobs[r].from # NoJob /\ jobs[r].from < r
        BY <1>2 DEF Descends
    <1>4. /\ jobs[jobs[r].from].state = "succeeded"
          /\ jobs[r].state \in Pending => jobs[r].outcome = "none"
        BY <1>1, <1>2 DEF Progress
    <1> QED BY <1>1, <1>2, <1>3, <1>4 DEF Descends, NoJob

\* The latest review of a foreground job is its latest ordinary review.
LEMMA LatestIsLatest ==
    ASSUME RolloutsInv, NEW r \in DOMAIN jobs, jobs[r].kind = "review"
    PROVE  LatestReview(jobs[r].from) = r <=> Latest(jobs, r)
    <1> DEFINE w == jobs[r].from
    <1>1. /\ Len(jobs) \in Nat
          /\ DOMAIN jobs = 1..Len(jobs)
          /\ Foreground(jobs, w)
        BY ReviewFacts, InvariantTables DEF IsReview
    <1>2. ASSUME NEW s \in DOMAIN jobs
          PROVE  s \in Reviews(w) <=> jobs[s].kind = "review" /\ jobs[s].from = w
        <2>1. jobs[s].kind = "rollout_review" => jobs[s].from # w
            BY <1>1, ReviewFacts DEF IsReview, Foreground
        <2> QED BY <2>1 DEF Reviews, IsReview
    <1>3. /\ Reviews(w) \subseteq 1..Len(jobs)
          /\ r \in Reviews(w)
        BY <1>1, <1>2 DEF Reviews
    <1>4. /\ LatestReview(w) \in Reviews(w)
          /\ \A s \in Reviews(w) : s <= LatestReview(w)
        BY <1>1, <1>3, LargestExists DEF LatestReview
    <1> HIDE DEF w
    <1>5. ASSUME Latest(jobs, r) PROVE LatestReview(w) = r
        <2>1. \A s \in Reviews(w) : s <= r
            BY <1>2, <1>3, <1>1, <1>5 DEF Latest, w
        <2>2. LatestReview(w) <= r /\ r <= LatestReview(w)
            BY <1>3, <1>4, <2>1
        <2>3. LatestReview(w) \in Nat /\ r \in Nat
            BY <1>1, <1>3, <1>4
        <2> QED BY <2>2, <2>3
    <1>6. ASSUME LatestReview(w) = r PROVE Latest(jobs, r)
        BY <1>2, <1>4, <1>6 DEF Latest, w
    <1> QED BY <1>5, <1>6 DEF w

\* r ends, or ended, without a verdict in the table J.
Unfinished(r, J) ==
    /\ J \in Seq(Job(Len(jobs), Len(groups), contents))
    /\ Len(J) = Len(jobs)
    /\ \A i \in 1..Len(jobs) : i # r => J[i] = jobs[i]
    /\ J[r].kind = jobs[r].kind
    /\ J[r].from = jobs[r].from
    /\ J[r].why = jobs[r].why
    /\ J[r].corr = jobs[r].corr
    /\ J[r].roll = jobs[r].roll
    /\ J[r].group = jobs[r].group
    /\ J[r].retry = jobs[r].retry
    /\ J[r].base = jobs[r].base
    /\ J[r].tree = jobs[r].tree
    /\ J[r].skip = jobs[r].skip
    /\ J[r].state \in {"failed", "cancelled"}
    /\ jobs[r].state \in TerminalJobStates => J[r].state = jobs[r].state

\* The settlement of a failed reviewer, as a change of the tables.
LEMMA FailureStep ==
    ASSUME RolloutsInv, NEW r \in DOMAIN jobs, IsReview(r),
           NEW J, Unfinished(r, J), NEW open \in BOOLEAN,
           jobs' = SettleReviewFailure(J, r, open), groups' = groups, contents' = contents
    PROVE  /\ jobs' \in Seq(Job(Len(jobs'), Len(groups), contents'))
           /\ Len(jobs') \in Len(jobs)..(Len(jobs) + 1)
           /\ \A i \in 1..Len(jobs) :
                /\ Later(jobs[i], jobs'[i])
                /\ Waits(jobs[i], jobs'[i])
                /\ Rests(jobs[i], jobs'[i])
           /\ Len(jobs') > Len(jobs) =>
                jobs'[Len(jobs) + 1].state = "queued" /\ jobs'[Len(jobs) + 1].outcome = "none"
           /\ Admitted(jobs, groups, jobs')
           /\ \A q \in 1..Len(jobs) :
                jobs'[q].kind = "review" /\ jobs'[q].state \in {"failed", "cancelled"} /\ Latest(jobs', q) =>
                    \/ jobs[q].state = jobs'[q].state /\ jobs[q].outcome = jobs'[q].outcome /\ q # r
                    \/ jobs'[jobs'[q].from].skip
           /\ \A w \in 1..Len(jobs) : jobs[w].skip =>
                \/ jobs'[w].skip
                \/ \E s \in 1..Len(jobs') : s > Len(jobs) /\ jobs'[s].kind = "review" /\ jobs'[s].from = w
           /\ \A q \in 1..Len(jobs) : jobs'[q].outcome = "refuted" => jobs[q].outcome = "refuted"
           /\ jobs'[r].outcome # "none"
           /\ \A i \in 1..Len(jobs) : i # r =>
                jobs'[i].kind = jobs[i].kind /\ jobs'[i].state = jobs[i].state /\ jobs'[i].outcome = jobs[i].outcome
    <1> DEFINE n == Len(jobs)
               m == Len(groups)
               w == jobs[r].from
               K == SettleReviewFailure(J, r, open)
    <1>1. /\ Tables(jobs, groups, contents)
          /\ n \in Nat /\ m \in Nat /\ contents \in Nat
          /\ DOMAIN jobs = 1..n
          /\ r \in 1..n
        BY InvariantTables
    <1>2. /\ w \in 1..n
          /\ w # r
          /\ jobs[w].state = "succeeded"
          /\ jobs[r].state \in Pending => jobs[r].outcome = "none"
          /\ jobs[r].kind = "review" =>
                /\ Foreground(jobs, w)
                /\ jobs[r].corr = jobs[w].corr
          /\ jobs[r].state \in Pending \cup TerminalJobStates
        BY ReviewFacts, InvariantTables
    <1>3. J \in Seq(Job(n, m, contents)) /\ n = Len(J) /\ w = J[r].from
        BY DEF Unfinished
    <1>4. /\ K \in Seq(Job(Len(K), m, contents))
          /\ Len(K) \in n..(n + 1)
          /\ \A i \in 1..n : i # r /\ i # w => K[i] = J[i]
          /\ ToldRow(J[r], K[r])
          /\ SameRow(J[w], K[w])
          /\ Len(K) = n /\ J[w].skip => K[w].skip
          /\ LatestReview(w) = r /\ J[r].kind = "review" /\ Len(K) = n => K[w].skip
          /\ Len(K) > n =>
               /\ LatestReview(w) = r
               /\ J[r].kind = "review"
               /\ ~J[r].retry
               /\ K[n + 1].kind = "review"
               /\ K[n + 1].state = "queued"
               /\ K[n + 1].outcome = "none"
               /\ K[n + 1].from = w
               /\ K[n + 1].group = NoGroup
               /\ K[n + 1].base = 0
               /\ K[n + 1].corr = J[r].corr
        <2> HIDE DEF n, m, w
        <2>1. FailureTold(J, r, w, n, m, contents, SettleReviewFailure(J, r, open))
            BY <1>1, <1>2, <1>3, FailureAdds
        <2> QED BY <2>1 DEF FailureTold
    <1>5. K = jobs'
        OBVIOUS
    <1> HIDE DEF K
    <1>6. /\ \A i \in 1..n : i # r /\ i # w => K[i] = jobs[i]
          /\ SameRow(jobs[w], K[w])
          /\ Len(K) = n /\ jobs[w].skip => K[w].skip
        BY <1>2, <1>4 DEF Unfinished
    <1>7. Later(jobs[r], K[r]) /\ Waits(jobs[r], K[r]) /\ Rests(jobs[r], K[r])
        <2>1. jobs[r].kind \in {"review", "rollout_review"}
            BY DEF IsReview
        <2> QED BY <1>2, <1>4, <2>1
                DEF ToldRow, Unfinished, Later, Waits, Rests, TerminalJobStates, Pending, Running
    <1>8. ASSUME NEW i \in 1..n
          PROVE  Later(jobs[i], K[i]) /\ Waits(jobs[i], K[i]) /\ Rests(jobs[i], K[i])
        <2>1. CASE i = r
            BY <2>1, <1>7
        <2>2. CASE i = w
            BY <2>2, <1>6, SameRowRests
        <2>3. CASE i # r /\ i # w
            BY <2>3, <1>6, SameJobs
        <2> QED BY <2>1, <2>2, <2>3
    <1>9. Len(K) = n \/ Len(K) = n + 1
        <2> HIDE DEF n
        <2> QED BY <1>1, <1>4
    <1>10. n + 1 > n /\ n + 1 \in 1..(n + 1) /\ r <= n /\ ~(n + 1 <= r)
        <2> HIDE DEF n
        <2> QED BY <1>1
    <1>11. Len(K) = n + 1 =>
            /\ n + 1 \in 1..Len(K) /\ n + 1 > n
            /\ K[n + 1].kind = "review"
            /\ K[n + 1].from = w
        BY <1>4, <1>10
    <1>12. Grows(jobs, K) /\ (Len(K) > n => K[n + 1].state = "queued" /\ K[n + 1].outcome = "none")
        <2>1. Len(K) > n => K[n + 1].state = "queued" /\ K[n + 1].outcome = "none"
            BY <1>4
        <2>2. Len(K) \in Nat /\ n <= Len(K) /\ Len(K) <= n + 1
            <3> HIDE DEF n
            <3> QED BY <1>1, <1>9
        <2>3. Len(K) > n => K[Len(K)].state = "queued" /\ K[Len(K)].outcome = "none"
            BY <2>1, <1>9
        <2> QED BY <1>1, <1>8, <2>1, <2>2, <2>3, AppendGrows
    <1>13. Admitted(jobs, groups, K)
        <2>1. CASE Len(K) = n
            BY <2>1, <1>1, NoneAdmitted
        <2>2. CASE Len(K) = n + 1
            <3>1. /\ LatestReview(w) = r
                  /\ jobs[r].kind = "review"
                  /\ ~jobs[r].retry
                  /\ K[Len(K)].kind = "review"
                  /\ K[Len(K)].from = w
                  /\ K[Len(K)].group = NoGroup
                  /\ K[Len(K)].base = 0
                  /\ K[Len(K)].corr = jobs[r].corr
                BY <2>2, <1>4, <1>10 DEF Unfinished
            <3>2. Latest(jobs, r)
                BY <3>1, LatestIsLatest
            <3>3. K[w].state = "succeeded"
                BY <1>2, <1>6 DEF SameRow
            <3> QED BY <1>1, <1>2, <1>12, <2>2, <3>1, <3>2, <3>3, ReviewAdmitted
        <2> QED BY <2>1, <2>2, <1>9
    <1>14. ASSUME NEW q \in 1..n, K[q].kind = "review", K[q].state \in {"failed", "cancelled"}, Latest(K, q)
           PROVE  \/ jobs[q].state = K[q].state /\ jobs[q].outcome = K[q].outcome /\ q # r
                  \/ K[K[q].from].skip
        <2>1. CASE q = r
            <3>1. K[r].from = w /\ J[r].kind = "review"
                BY <2>1, <1>4, <1>14 DEF ToldRow, Unfinished
            <3>2. Len(K) # n + 1
                <4>1. DOMAIN K = 1..Len(K)
                    BY <1>4, LenProperties
                <4> QED BY <2>1, <3>1, <4>1, <1>10, <1>11, <1>14 DEF Latest
            <3>3. Latest(jobs, r)
                <4> SUFFICES ASSUME NEW s \in DOMAIN jobs, jobs[s].kind = "review", jobs[s].from = jobs[r].from
                             PROVE  s <= r
                    BY DEF Latest
                <4>1. Later(jobs[s], K[s]) /\ s \in DOMAIN K
                    BY <1>1, <1>4, <1>8, <1>9, <3>2, LenProperties
                <4> QED BY <2>1, <3>1, <4>1, <1>14 DEF Latest, Later
            <3>4. LatestReview(w) = r
                BY <3>1, <3>3, LatestIsLatest DEF Unfinished
            <3> QED BY <2>1, <3>1, <3>2, <3>4, <1>4, <1>9
        <2>2. CASE q # r
            BY <2>2, <1>6 DEF SameRow
        <2> QED BY <2>1, <2>2
    <1>15. ASSUME NEW v \in 1..n, jobs[v].skip
           PROVE  K[v].skip \/ \E s \in 1..Len(K) : s > n /\ K[s].kind = "review" /\ K[s].from = v
        <2>1. CASE v = r
            BY <2>1, <1>15, <1>4 DEF ToldRow, Unfinished
        <2>2. CASE v = w
            BY <2>2, <1>15, <1>6, <1>9, <1>11
        <2>3. CASE v # r /\ v # w
            BY <2>3, <1>15, <1>6
        <2> QED BY <2>1, <2>2, <2>3
    <1>16. \A i \in 1..n : i # r => K[i].kind = jobs[i].kind /\ K[i].state = jobs[i].state /\ K[i].outcome = jobs[i].outcome
        BY <1>6 DEF SameRow
    <1>17. K[r].outcome \in {"protocol_failed", "reviewer_failed"}
        BY <1>4 DEF ToldRow
    <1>18. \A q \in 1..n : K[q].outcome = "refuted" => jobs[q].outcome = "refuted"
        BY <1>16, <1>17
    <1> QED BY <1>4, <1>5, <1>8, <1>12, <1>13, <1>14, <1>15, <1>16, <1>17, <1>18

\* A reviewer ends without a verdict.
LEMMA FailReviewKeeps ==
    ASSUME RolloutsInv, NEW r \in DOMAIN jobs, NEW code, FailReview(r, code)
    PROVE  RolloutsInv'
    <1>1. PICK open \in BOOLEAN, quarantined \in BOOLEAN :
            jobs' = SettleReviewFailure(
                     [jobs EXCEPT ![r].state = IF code = "user" THEN "cancelled" ELSE "failed",
                                  ![r].code = code, ![r].open = quarantined], r, open)
        BY DEF FailReview
    <1> DEFINE y == [jobs[r] EXCEPT !.state = IF code = "user" THEN "cancelled" ELSE "failed",
                                    !.code = code, !.open = quarantined]
               J == [jobs EXCEPT ![r] = y]
    <1>2. /\ IsReview(r)
          /\ jobs[r].state \in {"running", "cancel_requested"}
          /\ code \in {"protocol", "environment", "user"}
          /\ Turn
          /\ contents' = contents /\ groups' = groups /\ task' = task /\ tree' = tree
          /\ settling' = {[job |-> r, step |-> "settle"]}
          /\ declined' = declined /\ daemon' = "up" /\ failing' = {}
        BY DEF FailReview, Ends, Turn
    <1>3. /\ DOMAIN jobs = 1..Len(jobs)
          /\ Tables(jobs, groups, contents)
          /\ jobs[r] \in Job(Len(jobs), Len(groups), contents)
          /\ contents \in Nat
        BY InvariantTables
    <1>4. y \in Job(Len(jobs), Len(groups), contents)
        <2>1. {"cancelled", "failed"} \subseteq JobStates /\ code \in Codes
            BY <1>2, States
        <2> QED BY <1>3, <2>1 DEF Job
    <1>5. /\ y.kind = jobs[r].kind
          /\ y.from = jobs[r].from
          /\ y.why = jobs[r].why
          /\ y.corr = jobs[r].corr
          /\ y.roll = jobs[r].roll
          /\ y.group = jobs[r].group
          /\ y.retry = jobs[r].retry
          /\ y.base = jobs[r].base
          /\ y.tree = jobs[r].tree
          /\ y.skip = jobs[r].skip
          /\ y.state \in {"failed", "cancelled"}
        BY <1>3 DEF Job
    <1> HIDE DEF y
    <1>6. /\ J \in Seq(Job(Len(jobs), Len(groups), contents))
          /\ Len(J) = Len(jobs)
          /\ \A i \in 1..Len(jobs) : J[i] = IF i = r THEN y ELSE jobs[i]
        BY <1>3, <1>4, RowSet DEF Tables
    <1>7. jobs' = SettleReviewFailure(J, r, open)
        BY <1>1 DEF y
    <1> HIDE DEF J
    <1>8. Unfinished(r, J)
        <2>1. jobs[r].state \notin TerminalJobStates
            BY <1>2 DEF TerminalJobStates
        <2> QED BY <1>3, <1>5, <1>6, <2>1 DEF Unfinished
    <1>9. /\ jobs' \in Seq(Job(Len(jobs'), Len(groups), contents'))
          /\ Len(jobs') \in Len(jobs)..(Len(jobs) + 1)
          /\ \A i \in 1..Len(jobs) :
               /\ Later(jobs[i], jobs'[i])
               /\ Waits(jobs[i], jobs'[i])
               /\ Rests(jobs[i], jobs'[i])
          /\ Len(jobs') > Len(jobs) =>
               jobs'[Len(jobs) + 1].state = "queued" /\ jobs'[Len(jobs) + 1].outcome = "none"
          /\ Admitted(jobs, groups, jobs')
          /\ \A q \in 1..Len(jobs) :
               jobs'[q].kind = "review" /\ jobs'[q].state \in {"failed", "cancelled"} /\ Latest(jobs', q) =>
                   \/ jobs[q].state = jobs'[q].state /\ jobs[q].outcome = jobs'[q].outcome
                   \/ jobs'[jobs'[q].from].skip
          /\ \A w \in 1..Len(jobs) : jobs[w].skip =>
               \/ jobs'[w].skip
               \/ \E s \in 1..Len(jobs') : s > Len(jobs) /\ jobs'[s].kind = "review" /\ jobs'[s].from = w
          /\ \A q \in 1..Len(jobs) : jobs'[q].outcome = "refuted" => jobs[q].outcome = "refuted"
        BY <1>2, <1>7, <1>8, FailureStep
    <1>10. contents <= contents'
        BY <1>2, <1>3
    <1>11. /\ jobs' \in Seq(Job(Len(jobs'), Len(groups'), contents'))
           /\ groups' \in Seq(Group(Len(jobs'), contents'))
           /\ DOMAIN jobs \subseteq DOMAIN jobs'
           /\ Grows(jobs, jobs')
        BY <1>2, <1>3, <1>9, <1>10, GrowStep
    <1>12. TypeOK'
        <2>1. declined' \subseteq DOMAIN jobs' /\ failing' \subseteq DOMAIN jobs'
              /\ settling' \subseteq [job : DOMAIN jobs', step : {"settle", "release"}]
            BY <1>2, <1>11 DEF RolloutsInv, TypeOK
        <2> QED BY <1>2, <1>11, <2>1 DEF RolloutsInv, TypeOK
    <1> QED BY <1>2, <1>9, <1>11, <1>12, StretchKeeps

\* start() settles a reviewer that a crash interrupted.
LEMMA SettleInterruptedReviewKeeps ==
    ASSUME RolloutsInv, NEW r \in DOMAIN jobs, SettleInterruptedReview(r)
    PROVE  RolloutsInv'
    <1>1. PICK open \in BOOLEAN : jobs' = SettleReviewFailure(jobs, r, open)
        BY DEF SettleInterruptedReview
    <1>2. /\ r \in failing
          /\ daemon = "up" /\ daemon' = "up"
          /\ failing' = failing \ {r}
          /\ contents' = contents /\ groups' = groups /\ task' = task /\ tree' = tree
          /\ settling' = settling /\ declined' = declined
        BY DEF SettleInterruptedReview
    <1>3. /\ DOMAIN jobs = 1..Len(jobs)
          /\ Len(jobs) \in Nat
          /\ Tables(jobs, groups, contents)
          /\ Standing(jobs, groups, task)
          /\ Lineage(jobs, groups)
          /\ contents \in Nat
          /\ failing \subseteq DOMAIN jobs
          /\ Answered(jobs, groups, LeftBehind, Awaited)
        BY InvariantTables DEF RolloutsInv, TypeOK
    <1>4. IsReview(r) /\ jobs[r].state \in {"failed", "cancelled"}
        BY <1>2 DEF RolloutsInv, Failing
    <1>5. Unfinished(r, jobs)
        BY <1>3, <1>4 DEF Unfinished, Tables
    <1>6. /\ jobs' \in Seq(Job(Len(jobs'), Len(groups), contents'))
          /\ Len(jobs') \in Len(jobs)..(Len(jobs) + 1)
          /\ \A i \in 1..Len(jobs) :
               /\ Later(jobs[i], jobs'[i])
               /\ Waits(jobs[i], jobs'[i])
               /\ Rests(jobs[i], jobs'[i])
          /\ Len(jobs') > Len(jobs) =>
               jobs'[Len(jobs) + 1].state = "queued" /\ jobs'[Len(jobs) + 1].outcome = "none"
          /\ Admitted(jobs, groups, jobs')
          /\ \A q \in 1..Len(jobs) :
               jobs'[q].kind = "review" /\ jobs'[q].state \in {"failed", "cancelled"} /\ Latest(jobs', q) =>
                   \/ jobs[q].state = jobs'[q].state /\ jobs[q].outcome = jobs'[q].outcome /\ q # r
                   \/ jobs'[jobs'[q].from].skip
          /\ \A w \in 1..Len(jobs) : jobs[w].skip =>
               \/ jobs'[w].skip
               \/ \E s \in 1..Len(jobs') : s > Len(jobs) /\ jobs'[s].kind = "review" /\ jobs'[s].from = w
          /\ \A q \in 1..Len(jobs) : jobs'[q].outcome = "refuted" => jobs[q].outcome = "refuted"
          /\ \A i \in 1..Len(jobs) : i # r =>
               jobs'[i].kind = jobs[i].kind /\ jobs'[i].state = jobs[i].state /\ jobs'[i].outcome = jobs[i].outcome
        BY <1>1, <1>2, <1>4, <1>5, FailureStep
    <1>7. contents <= contents'
        BY <1>2, <1>3
    <1>8. /\ jobs' \in Seq(Job(Len(jobs'), Len(groups'), contents'))
          /\ groups' \in Seq(Group(Len(jobs'), contents'))
          /\ Tables(jobs', groups', contents')
          /\ DOMAIN jobs \subseteq DOMAIN jobs'
          /\ Grows(jobs, jobs')
          /\ Ripens(groups, groups')
          /\ Turns(groups, groups')
        BY <1>2, <1>3, <1>6, <1>7, GrowStep
    <1>9. TypeOK'
        <2>1. declined' \subseteq DOMAIN jobs' /\ failing' \subseteq DOMAIN jobs'
              /\ settling' \subseteq [job : DOMAIN jobs', step : {"settle", "release"}]
            BY <1>2, <1>3, <1>8 DEF RolloutsInv, TypeOK
        <2> QED BY <1>2, <1>8, <2>1 DEF RolloutsInv, TypeOK
    <1>10. Standing(jobs, groups, task)'
        <2>1. Admitted(jobs, groups', jobs')
            BY <1>2, <1>6
        <2> QED BY <1>2, <1>3, <1>6, <1>8, <2>1, StandingRests
    <1>11. Answered(jobs, groups, LeftBehind, Awaited)'
        <2>1. LeftBehind = failing /\ LeftBehind' = failing \ {r}
            BY <1>2 DEF LeftBehind
        <2>2. DOMAIN jobs' = 1..Len(jobs')
            BY <1>8, Rows
        <2>3. Awaited \subseteq Awaited'
            BY <1>2, <1>8 DEF Awaited
        <2>4. \A q \in 1..Len(jobs) :
                jobs'[q].kind = "review" /\ jobs'[q].state \in {"failed", "cancelled"} /\ Latest(jobs', q) =>
                    \/ /\ jobs[q].state = jobs'[q].state /\ jobs[q].outcome = jobs'[q].outcome
                       /\ q \in LeftBehind => q \in LeftBehind'
                    \/ jobs'[jobs'[q].from].skip
            BY <1>6, <2>1
        <2>5. \A q \in 1..Len(jobs) : jobs'[q].kind = "review" /\ jobs'[q].outcome = "refuted" /\ Latest(jobs', q) =>
                jobs[q].outcome = "refuted" /\ (q \in Awaited => q \in Awaited')
            BY <1>6, <2>3
        <2> QED BY <1>3, <1>6, <1>8, <2>4, <2>5, AnsweredGrows
    <1>12. Failing'
        <2>1. ASSUME NEW q \in failing'
              PROVE  /\ jobs'[q].kind \in {"review", "rollout_review"}
                     /\ jobs'[q].state \in {"failed", "cancelled"}
                     /\ jobs'[q].outcome = "none"
            <3>1. q \in failing /\ q # r /\ q \in 1..Len(jobs)
                BY <1>2, <1>3
            <3>2. IsReview(q) /\ jobs[q].state \in {"failed", "cancelled"} /\ jobs[q].outcome = "none"
                BY <3>1 DEF RolloutsInv, Failing
            <3> QED BY <3>1, <3>2, <1>6 DEF IsReview
        <2> QED BY <2>1 DEF Failing, IsReview
    <1> QED BY <1>9, <1>10, <1>11, <1>12, Assembled

\* A step in the stretch of a finished job: rows end, nobody starts, at most one job
\* is created, and whoever is not answered says so.
Lengthens ==
    /\ jobs' \in Seq(Job(Len(jobs'), Len(groups), contents'))
    /\ Len(jobs') \in Len(jobs)..(Len(jobs) + 1)
    /\ \A i \in 1..Len(jobs) :
         /\ Later(jobs[i], jobs'[i])
         /\ Waits(jobs[i], jobs'[i])
         /\ Rests(jobs[i], jobs'[i])
    /\ Len(jobs') > Len(jobs) =>
         jobs'[Len(jobs) + 1].state = "queued" /\ jobs'[Len(jobs) + 1].outcome = "none"
    /\ Admitted(jobs, groups, jobs')
    /\ \A q \in 1..Len(jobs) :
         jobs'[q].kind = "review" /\ jobs'[q].state \in {"failed", "cancelled"} /\ Latest(jobs', q) =>
             \/ jobs[q].state = jobs'[q].state /\ jobs[q].outcome = jobs'[q].outcome
             \/ jobs'[jobs'[q].from].skip
    /\ \A w \in 1..Len(jobs) : jobs[w].skip =>
         \/ jobs'[w].skip
         \/ \E s \in 1..Len(jobs') : s > Len(jobs) /\ jobs'[s].kind = "review" /\ jobs'[s].from = w
    /\ \A q \in 1..Len(jobs) : jobs'[q].kind = "review" /\ jobs'[q].outcome = "refuted" =>
         jobs[q].outcome = "refuted" \/ [job |-> q, step |-> "settle"] \in settling'

\* A step that adds at most one job keeps the invariant.
LEMMA LengthensKeeps ==
    ASSUME RolloutsInv, Lengthens, Turn, daemon' = "up", failing' = {}, declined' = declined,
           groups' = groups, contents' \in Nat, contents <= contents', tree' \in 0..contents',
           settling' \subseteq [job : DOMAIN jobs, step : {"settle", "release"}],
           task' \in TaskRows, ActiveIn(groups) # {} /\ task.owned => task'.owned
    PROVE  RolloutsInv'
    <1>1. /\ jobs' \in Seq(Job(Len(jobs'), Len(groups'), contents'))
          /\ groups' \in Seq(Group(Len(jobs'), contents'))
          /\ DOMAIN jobs \subseteq DOMAIN jobs'
          /\ Grows(jobs, jobs')
        BY GrowStep DEF Lengthens
    <1>2. TypeOK'
        <2>1. declined' \subseteq DOMAIN jobs' /\ failing' \subseteq DOMAIN jobs'
              /\ settling' \subseteq [job : DOMAIN jobs', step : {"settle", "release"}]
            BY <1>1 DEF RolloutsInv, TypeOK
        <2> QED BY <1>1, <2>1 DEF RolloutsInv, TypeOK, TaskRows
    <1> QED BY <1>1, <1>2, StretchKeeps DEF Lengthens

\* A finished job asks for a review, or notes that it gets none.
LEMMA RequestStep ==
    ASSUME RolloutsInv, NEW j \in DOMAIN jobs, Foreground(jobs, j),
           NEW complete \in BOOLEAN, NEW open \in BOOLEAN,
           contents' \in Nat, contents <= contents',
           NEW J, J \in Seq(Job(Len(jobs), Len(groups), contents')), Len(J) = Len(jobs),
           \A i \in 1..Len(jobs) : i # j => J[i] = jobs[i],
           SameRow(jobs[j], J[j]) \/ (EndRow(jobs[j], J[j]) /\ jobs[j].kind = "foreground"),
           J[j].state = "succeeded",
           jobs' = RequestReview(J, j, complete, open), groups' = groups
    PROVE  Lengthens
    <1> DEFINE n == Len(jobs)
               m == Len(groups)
               K == RequestReview(J, j, complete, open)
    <1>1. /\ Tables(jobs, groups, contents)
          /\ n \in Nat /\ m \in Nat
          /\ DOMAIN jobs = 1..n
          /\ j \in 1..n
        BY InvariantTables
    <1>2. J[j] \in Job(n, m, contents')
        BY <1>1, ElementOfSeq
    <1>3. /\ K \in Seq(Job(Len(K), m, contents'))
          /\ Len(K) = IF open THEN n + 1 ELSE n
          /\ \A i \in 1..n : i # j => K[i] = J[i]
          /\ K[j] = [J[j] EXCEPT !.skip = ~open]
          /\ open =>
               /\ K[n + 1].kind = "review"
               /\ K[n + 1].state = "queued"
               /\ K[n + 1].outcome = "none"
               /\ K[n + 1].from = j
               /\ K[n + 1].group = NoGroup
               /\ K[n + 1].base = 0
               /\ K[n + 1].retry = FALSE
               /\ K[n + 1].corr = J[j].corr
        <2> HIDE DEF n, m
        <2>1. n = Len(J) /\ J \in Seq(Job(n, m, contents'))
            BY DEF n, m
        <2>2. Requested(J, j, open, n, m, contents', RequestReview(J, j, complete, open))
            BY <1>1, <2>1, RequestAdds
        <2> QED BY <2>2 DEF Requested
    <1>4. K = jobs'
        OBVIOUS
    <1> HIDE DEF K
    <1>5. \A i \in 1..n : i # j => K[i] = jobs[i]
        BY <1>3
    <1>6. SameRow(J[j], K[j]) /\ K[j].skip = ~open
        BY <1>2, <1>3 DEF SameRow, Job
    <1>7. SameRow(jobs[j], K[j]) \/ (EndRow(jobs[j], K[j]) /\ jobs[j].kind = "foreground")
        BY <1>6 DEF SameRow, EndRow
    <1>8. ASSUME NEW i \in 1..n
          PROVE  Later(jobs[i], K[i]) /\ Waits(jobs[i], K[i]) /\ Rests(jobs[i], K[i])
        <2>1. CASE i = j
            <3>1. CASE SameRow(jobs[j], K[j])
                BY <2>1, <3>1, SameRowRests
            <3>2. CASE EndRow(jobs[j], K[j]) /\ jobs[j].kind = "foreground"
                <4>1. K[j].kind # "promotion"
                    BY <3>2 DEF EndRow
                <4> QED BY <2>1, <3>2, <4>1, EndRowRests
            <3> QED BY <3>1, <3>2, <1>7
        <2>2. CASE i # j
            BY <2>2, <1>5, SameJobs
        <2> QED BY <2>1, <2>2
    <1>9. (open => Len(K) = n + 1) /\ (~open => Len(K) = n)
        BY <1>3
    <1>10. n + 1 > n /\ n + 1 \in 1..(n + 1) /\ n \in n..(n + 1) /\ n + 1 \in n..(n + 1) /\ ~(n > n)
        <2> HIDE DEF n
        <2> QED BY <1>1
    <1>11. Len(K) \in n..(n + 1) /\ (Len(K) > n => open)
        BY <1>9, <1>10
    <1>12. Grows(jobs, K)
        <2>1. Len(K) \in Nat /\ n <= Len(K) /\ Len(K) <= n + 1
            <3> HIDE DEF n
            <3> QED BY <1>1, <1>11
        <2>2. Len(K) > n => K[Len(K)].state = "queued" /\ K[Len(K)].outcome = "none"
            BY <1>3, <1>9, <1>11
        <2> QED BY <1>1, <1>8, <2>1, <2>2, AppendGrows
    <1>13. Admitted(jobs, groups, K)
        <2>1. CASE ~open
            BY <2>1, <1>1, <1>9, NoneAdmitted
        <2>2. CASE open
            <3>1. /\ Len(K) = n + 1
                  /\ K[Len(K)].kind = "review"
                  /\ K[Len(K)].from = j
                  /\ K[Len(K)].group = NoGroup
                  /\ K[Len(K)].base = 0
                  /\ ~K[Len(K)].retry
                  /\ K[Len(K)].corr = jobs[j].corr
                BY <2>2, <1>3, <1>9 DEF SameRow, EndRow
            <3>2. K[j].state = "succeeded"
                BY <1>6 DEF SameRow
            <3> QED BY <1>1, <1>12, <3>1, <3>2, ReviewAdmitted
        <2> QED BY <2>1, <2>2
    <1>14. jobs[j].kind # "review"
        BY DEF Foreground
    <1>15. K[j].kind # "review"
        BY <1>7, <1>14 DEF SameRow, EndRow
    <1>16. ASSUME NEW v \in 1..n, jobs[v].skip
           PROVE  K[v].skip \/ \E s \in 1..Len(K) : s > n /\ K[s].kind = "review" /\ K[s].from = v
        <2>1. CASE v = j /\ ~open
            BY <2>1, <1>6
        <2>2. CASE v = j /\ open
            BY <2>2, <1>3, <1>9, <1>10
        <2>3. CASE v # j
            BY <2>3, <1>16, <1>5
        <2> QED BY <2>1, <2>2, <2>3
    <1>17. Len(K) > n => K[n + 1].state = "queued" /\ K[n + 1].outcome = "none"
        BY <1>3, <1>11
    <1>18. \A q \in 1..n : K[q].kind = "review" => K[q] = jobs[q]
        BY <1>5, <1>15
    <1> QED BY <1>3, <1>4, <1>8, <1>11, <1>13, <1>16, <1>17, <1>18 DEF Lengthens

\* A foreground job completes and asks for its review.
LEMMA CompleteWorkKeeps ==
    ASSUME RolloutsInv, NEW j \in DOMAIN jobs, CompleteWork(j)
    PROVE  RolloutsInv'
    <1>1. PICK complete \in BOOLEAN, open \in BOOLEAN :
            jobs' = RequestReview([jobs EXCEPT ![j].state = "succeeded", ![j].tree = contents'],
                                  j, complete, open)
        BY DEF CompleteWork
    <1> DEFINE y == [jobs[j] EXCEPT !.state = "succeeded", !.tree = contents']
               J == [jobs EXCEPT ![j] = y]
    <1>2. /\ jobs[j].kind = "foreground"
          /\ jobs[j].state = "running"
          /\ Turn
          /\ contents' = contents + 1 /\ groups' = groups /\ tree' = contents'
          /\ task' = FinishedTask([jobs EXCEPT ![j].state = "succeeded"])
          /\ settling' = {[job |-> j, step |-> "settle"]}
          /\ declined' = declined /\ daemon' = "up" /\ failing' = {}
        BY DEF CompleteWork, Ends, Turn
    <1>3. /\ DOMAIN jobs = 1..Len(jobs)
          /\ Len(jobs) \in Nat /\ Len(groups) \in Nat
          /\ Tables(jobs, groups, contents)
          /\ contents \in Nat
          /\ task \in TaskRows
        BY InvariantTables DEF RolloutsInv, TypeOK, TaskRows
    <1>4. contents' \in Nat /\ contents <= contents' /\ contents' \in 0..contents'
        BY <1>2, <1>3
    <1>5. jobs \in Seq(Job(Len(jobs), Len(groups), contents')) /\ jobs[j] \in Job(Len(jobs), Len(groups), contents')
        BY <1>3, <1>4, TablesWiden, ElementOfSeq
    <1>6. y \in Job(Len(jobs), Len(groups), contents')
        <2>1. "succeeded" \in JobStates
            BY States
        <2> QED BY <1>4, <1>5, <2>1 DEF Job
    <1>7. EndRow(jobs[j], y) /\ y.state = "succeeded"
        BY <1>2, <1>5 DEF EndRow, Job, Running, TerminalJobStates
    <1> HIDE DEF y
    <1>8. /\ J \in Seq(Job(Len(jobs), Len(groups), contents'))
          /\ Len(J) = Len(jobs)
          /\ \A i \in 1..Len(jobs) : J[i] = IF i = j THEN y ELSE jobs[i]
        BY <1>3, <1>5, <1>6, RowSet
    <1>9. jobs' = RequestReview(J, j, complete, open)
        BY <1>1 DEF y
    <1> HIDE DEF J
    <1>10. Lengthens
        <2>1. /\ \A i \in 1..Len(jobs) : i # j => J[i] = jobs[i]
              /\ EndRow(jobs[j], J[j]) /\ J[j].state = "succeeded"
            BY <1>3, <1>7, <1>8
        <2>2. Foreground(jobs, j)
            BY <1>2 DEF Foreground
        <2> QED BY <1>2, <1>4, <1>8, <1>9, <2>1, <2>2, RequestStep
    <1>11. task' \in TaskRows /\ (ActiveIn(groups) # {} /\ task.owned => task'.owned)
        <2>1. PICK outcome \in {"checkpointed", "working", "completed"} :
                task' = TaskIn(outcome, [jobs EXCEPT ![j].state = "succeeded"], groups)
            BY <1>2 DEF FinishedTask
        <2> QED BY <2>1, <1>3, OwnedWhileActive, TaskTypes DEF TaskRows
    <1> QED BY <1>2, <1>4, <1>10, <1>11, LengthensKeeps

\* The operator asks for a further review.
LEMMA ReviewJobKeeps ==
    ASSUME RolloutsInv, NEW j \in DOMAIN jobs, ReviewJob(j)
    PROVE  RolloutsInv'
    <1>1. /\ jobs' = RequestReview(jobs, j, TRUE, TRUE)
          /\ Foreground(jobs, j)
          /\ jobs[j].state = "succeeded"
          /\ Turn
          /\ contents' = contents /\ groups' = groups /\ tree' = tree /\ task' = task
          /\ settling' = {} /\ declined' = declined /\ daemon' = "up" /\ failing' = {}
        BY DEF ReviewJob, Turn
    <1>2. /\ Tables(jobs, groups, contents)
          /\ contents \in Nat
          /\ task \in TaskRows
          /\ tree \in 0..contents
        BY InvariantTables DEF RolloutsInv, TypeOK, TaskRows
    <1>3. contents' \in Nat /\ contents <= contents'
        BY <1>1, <1>2
    <1>4. Lengthens
        <2>1. /\ jobs \in Seq(Job(Len(jobs), Len(groups), contents'))
              /\ SameRow(jobs[j], jobs[j])
            BY <1>1, <1>2 DEF Tables, SameRow
        <2> QED BY <1>1, <1>3, <2>1, RequestStep
    <1> QED BY <1>1, <1>2, <1>3, <1>4, LengthensKeeps

\* A foreground job outside every group is created only while no group is active.
LEMMA NoActiveGroup ==
    ASSUME RolloutsInv, MayCreateForeground(groups, NoGroup)
    PROVE  ActiveIn(groups) = {}
    <1>1. DOMAIN groups = 1..Len(groups)
        BY InvariantTables
    <1>2. NoGroup \notin ActiveIn(groups)
        BY <1>1 DEF ActiveIn, NoGroup
    <1> QED BY <1>2 DEF MayCreateForeground

\* One job joins the table, and nothing else changes there.
LEMMA JoinStep ==
    ASSUME RolloutsInv, contents' = contents, groups' = groups,
           NEW x \in Job(Len(jobs) + 1, Len(groups), contents), jobs' = Append(jobs, x),
           x.kind = "foreground", x.state = "queued", x.outcome = "none", x.group = NoGroup,
           ActiveIn(groups) = {},
           x.from # NoJob =>
             /\ x.from \in 1..Len(jobs)
             /\ Foreground(jobs, x.from)
             /\ \A i \in 1..Len(jobs) : Foreground(jobs, i) => i <= x.from,
           x.from = NoJob => x.why = "request"
    PROVE  Lengthens
    <1> DEFINE n == Len(jobs)
               m == Len(groups)
               K == Append(jobs, x)
    <1>1. /\ Tables(jobs, groups, contents)
          /\ Lineage(jobs, groups)
          /\ n \in Nat /\ m \in Nat /\ contents \in Nat
          /\ DOMAIN jobs = 1..n
          /\ jobs \in Seq(Job(n, m, contents))
        BY InvariantTables DEF Tables
    <1>2. /\ K \in Seq(Job(n + 1, m, contents))
          /\ Len(K) = n + 1
          /\ \A i \in 1..n : K[i] = jobs[i]
          /\ K[n + 1] = x
        <2> HIDE DEF n, m
        <2>1. n = Len(jobs) /\ x \in Job(n + 1, m, contents)
            BY DEF n, m
        <2>2. Job(n, m, contents) \subseteq Job(n + 1, m, contents)
            BY <1>1, JobWider
        <2> QED BY <1>1, <2>1, <2>2, AppendRow
    <1>3. K = jobs'
        OBVIOUS
    <1> HIDE DEF K
    <1>4. \A i \in 1..n : Later(jobs[i], K[i]) /\ Waits(jobs[i], K[i]) /\ Rests(jobs[i], K[i])
        BY <1>2, SameJobs
    <1>5. K \in Seq(Job(Len(K), m, contents)) /\ K[Len(K)] = x
        BY <1>2
    <1>6. Len(K) \in Nat /\ n <= Len(K) /\ Len(K) <= n + 1 /\ Len(K) \in n..(n + 1)
        <2> HIDE DEF n
        <2> QED BY <1>1, <1>2
    <1>7. Grows(jobs, K)
        BY <1>1, <1>4, <1>5, <1>6, AppendGrows
    <1>8. Admitted(jobs, groups, K)
        BY <1>1, <1>2, <1>5, <1>7, SuccessorAdmitted
    <1> QED BY <1>2, <1>3, <1>4, <1>5, <1>6, <1>8 DEF Lengthens

\* An operator continues the room.
LEMMA RequestKeeps ==
    ASSUME RolloutsInv, Request
    PROVE  RolloutsInv'
    <1> DEFINE F == {j \in DOMAIN jobs : Foreground(jobs, j)}
               prior == MaxOf(F)
    <1>1. PICK s \in FollowUps :
            jobs' = Append(jobs, [Blank EXCEPT
                        !.corr = s.corr, !.roll = s.roll, !.rung = s.rung,
                        !.from = IF jobs[prior].state \in Pending THEN prior ELSE NoJob])
        BY DEF Request
    <1> DEFINE from == IF jobs[prior].state \in Pending THEN prior ELSE NoJob
               x == [Blank EXCEPT !.corr = s.corr, !.roll = s.roll, !.rung = s.rung, !.from = from]
    <1>2. /\ MayCreateForeground(groups, NoGroup)
          /\ Turn
          /\ contents' = contents /\ groups' = groups /\ tree' = tree /\ task' = Queued(task)
          /\ settling' = {} /\ declined' = declined /\ daemon' = "up" /\ failing' = {}
        BY DEF Request, Turn
    <1>3. /\ DOMAIN jobs = 1..Len(jobs)
          /\ Len(jobs) \in Nat /\ Len(groups) \in Nat
          /\ Lineage(jobs, groups)
          /\ jobs \in Seq(Job(Len(jobs), Len(groups), contents))
          /\ contents \in Nat
          /\ task \in TaskRows
          /\ tree \in 0..contents
        BY InvariantTables DEF RolloutsInv, TypeOK, TaskRows
    <1>4. prior \in 1..Len(jobs) /\ Foreground(jobs, prior) /\ \A i \in 1..Len(jobs) : Foreground(jobs, i) => i <= prior
        <2>1. 1 \in F
            <3>1. Len(jobs) # 0
                BY <1>3, EmptySeq DEF Lineage
            <3>2. 1 \in 1..Len(jobs)
                <4> DEFINE n == Len(jobs)
                <4>1. n \in Nat /\ n # 0
                    BY <1>3, <3>1
                <4> HIDE DEF n
                <4>2. 1 \in 1..n
                    BY <4>1
                <4> QED BY <4>2 DEF n
            <3> QED BY <3>2, <1>3 DEF Lineage, Foreground
        <2>2. F \subseteq 1..Len(jobs) /\ F # {}
            BY <2>1, <1>3
        <2>3. prior \in F /\ \A i \in F : i <= prior
            <3> HIDE DEF F
            <3> QED BY <2>2, <1>3, LargestExists
        <2> QED BY <2>3, <1>3
    <1> HIDE DEF prior
    <1>5. from \in 0..Len(jobs) /\ (from # NoJob => from = prior)
        BY <1>3, <1>4 DEF NoJob
    <1>6. jobs' = Append(jobs, x)
        BY <1>1 DEF prior
    <1> HIDE DEF from
    <1>7. x \in Job(Len(jobs) + 1, Len(groups), contents)
        <2> DEFINE n == Len(jobs)
        <2>1. n \in Nat /\ from \in 0..n
            BY <1>3, <1>5
        <2> HIDE DEF n
        <2>2. from \in 0..(n + 1) /\ n + 1 \in Nat
            BY <2>1
        <2>3. Blank \in Job(n + 1, Len(groups), contents)
            BY <1>3, <2>2, BlankIsJob
        <2>4. s.corr \in 0..2 /\ s.roll \in 0..3 /\ s.rung \in 1..Rungs
            OBVIOUS
        <2>5. x \in Job(n + 1, Len(groups), contents)
            BY <2>2, <2>3, <2>4 DEF Job
        <2> QED BY <2>5 DEF n
    <1>8. /\ x.kind = "foreground" /\ x.state = "queued" /\ x.outcome = "none" /\ x.group = NoGroup
          /\ x.from = from /\ x.why = "request"
        BY DEF Blank
    <1> HIDE DEF x
    <1>9. ActiveIn(groups) = {}
        BY <1>2, NoActiveGroup
    <1>10. Lengthens
        BY <1>2, <1>4, <1>5, <1>6, <1>7, <1>8, <1>9, JoinStep
    <1>11. task' \in TaskRows
        BY <1>2, <1>3 DEF Queued, TaskRows
    <1>12. contents' \in Nat /\ contents <= contents'
        BY <1>2, <1>3
    <1> QED BY <1>2, <1>3, <1>9, <1>10, <1>11, <1>12, LengthensKeeps

\* The rows of J follow those of the jobs; no reviewer lost its answer.
Carries(J) ==
    /\ J \in Seq(Job(Len(jobs), Len(groups), contents'))
    /\ Len(J) = Len(jobs)
    /\ \A i \in 1..Len(jobs) :
         /\ Later(jobs[i], J[i])
         /\ Waits(jobs[i], J[i])
         /\ Rests(jobs[i], J[i])
         /\ jobs[i].skip => J[i].skip
         /\ J[i].kind = "review" =>
              /\ J[i].state \in {"failed", "cancelled"} =>
                   jobs[i].state = J[i].state /\ jobs[i].outcome = J[i].outcome
              /\ J[i].outcome = "refuted" =>
                   jobs[i].outcome = "refuted" \/ [job |-> i, step |-> "settle"] \in settling'

\* K is J, or J and a successor of the latest foreground job.
Follow(J, K) ==
    /\ K \in Seq(Job(Len(K), Len(groups), contents'))
    /\ Len(K) \in Len(jobs)..(Len(jobs) + 1)
    /\ \A i \in 1..Len(jobs) : K[i] = J[i]
    /\ Len(K) > Len(jobs) =>
         LET x == K[Len(jobs) + 1]
         IN  /\ x.kind = "foreground"
             /\ x.state = "queued"
             /\ x.outcome = "none"
             /\ x.group = NoGroup
             /\ x.from \in 1..Len(jobs)
             /\ Foreground(jobs, x.from)
             /\ \A i \in 1..Len(jobs) : Foreground(jobs, i) => i <= x.from
             /\ ActiveIn(groups) = {}

\* A step that carries the rows over and lets at most one job follow lengthens the table.
LEMMA FollowStep ==
    ASSUME RolloutsInv, NEW J, Carries(J), Follow(J, jobs'), groups' = groups
    PROVE  Lengthens
    <1> DEFINE n == Len(jobs)
               K == jobs'
    <1>1. /\ Tables(jobs, groups, contents)
          /\ Lineage(jobs, groups)
          /\ n \in Nat
          /\ DOMAIN jobs = 1..n
        BY InvariantTables
    <1>2. /\ K \in Seq(Job(Len(K), Len(groups), contents'))
          /\ Len(K) \in n..(n + 1)
          /\ \A i \in 1..n : K[i] = J[i]
          /\ Len(K) > n => K[n + 1].state = "queued" /\ K[n + 1].outcome = "none"
        BY DEF Follow
    <1>3. ASSUME NEW i \in 1..n
          PROVE  Later(jobs[i], K[i]) /\ Waits(jobs[i], K[i]) /\ Rests(jobs[i], K[i])
        BY <1>2 DEF Carries
    <1>4. /\ Len(K) \in Nat /\ n <= Len(K) /\ Len(K) <= n + 1
          /\ Len(K) = n \/ Len(K) = n + 1
          /\ Len(K) = n + 1 => Len(K) > n
        <2> HIDE DEF n, K
        <2> QED BY <1>1, <1>2
    <1>5. Grows(jobs, K)
        BY <1>1, <1>2, <1>3, <1>4, AppendGrows
    <1>6. Admitted(jobs, groups, K)
        <2>1. CASE Len(K) = n
            BY <2>1, <1>1, NoneAdmitted
        <2>2. CASE Len(K) = n + 1
            <3>1. /\ K[Len(K)].kind = "foreground"
                  /\ K[Len(K)].group = NoGroup
                  /\ K[Len(K)].from \in 1..n
                  /\ Foreground(jobs, K[Len(K)].from)
                  /\ \A i \in 1..n : Foreground(jobs, i) => i <= K[Len(K)].from
                  /\ ActiveIn(groups) = {}
                BY <2>2, <1>4 DEF Follow
            <3>2. K[Len(K)].from # NoJob
                BY <3>1 DEF NoJob
            <3> QED BY <1>1, <1>5, <2>2, <3>1, <3>2, SuccessorAdmitted
        <2> QED BY <2>1, <2>2, <1>4
    <1> QED BY <1>2, <1>3, <1>6 DEF Lengthens, Carries

\* Nobody continued the room after w: w is the latest foreground job.
LEMMA LatestWork ==
    ASSUME RolloutsInv, NEW w \in 1..Len(jobs),
           NEW J, DOMAIN J = 1..Len(jobs), \A i \in 1..Len(jobs) : J[i].kind = jobs[i].kind,
           ~\E i \in DOMAIN J : i > w /\ Foreground(J, i)
    PROVE  \A i \in 1..Len(jobs) : Foreground(jobs, i) => i <= w
    <1> SUFFICES ASSUME NEW i \in 1..Len(jobs), Foreground(jobs, i) PROVE i <= w
        OBVIOUS
    <1>1. Foreground(J, i)
        BY DEF Foreground
    <1>2. ~(i > w)
        BY <1>1
    <1>3. i \in Nat /\ w \in Nat
        BY InvariantTables
    <1> QED BY <1>2, <1>3

\* The ladder after a failed job, as a change of the tables.
LEMMA LadderStep ==
    ASSUME RolloutsInv, contents' \in Nat, NEW J, Carries(J), NEW w \in 1..Len(jobs), NEW open,
           jobs' = LadderAfterFailure(J, w, open), groups' = groups,
           Foreground(jobs, w) /\ (\A i \in 1..Len(jobs) : Foreground(jobs, i) => i <= w)
               => ActiveIn(groups) = {}
    PROVE  Lengthens
    <1> DEFINE n == Len(jobs)
               m == Len(groups)
    <1>1. /\ n \in Nat /\ m \in Nat
          /\ J \in Seq(Job(n, m, contents')) /\ n = Len(J)
          /\ DOMAIN J = 1..n
        BY InvariantTables, LenProperties DEF Carries
    <1>2. Laddered(J, w, n, m, contents', jobs')
        <2> HIDE DEF n, m
        <2>1. w \in 1..n
            BY DEF n
        <2>2. Laddered(J, w, n, m, contents', LadderAfterFailure(J, w, open))
            BY <1>1, <2>1, LadderAdds
        <2> QED BY <2>2
    <1>3. ASSUME Escalates(J, w)
          PROVE  /\ Foreground(jobs, w)
                 /\ \A i \in 1..n : Foreground(jobs, i) => i <= w
                 /\ ActiveIn(groups) = {}
        <2>1. Foreground(J, w) /\ ~\E i \in DOMAIN J : i > w /\ Foreground(J, i)
            BY <1>3 DEF Escalates, FailedForCapability
        <2>2. \A i \in 1..n : J[i].kind = jobs[i].kind
            BY DEF Carries, Later
        <2>3. \A i \in 1..n : Foreground(jobs, i) => i <= w
            BY <1>1, <2>1, <2>2, LatestWork
        <2> QED BY <2>1, <2>2, <2>3 DEF Foreground
    <1>4. Follow(J, jobs')
        BY <1>2, <1>3 DEF Laddered, Follow
    <1> QED BY <1>4, FollowStep

\* A job other than a review fails or ends cancelled.
LEMMA FailWorkKeeps ==
    ASSUME RolloutsInv, NEW j \in DOMAIN jobs, NEW code, FailWork(j, code)
    PROVE  RolloutsInv'
    <1>1. /\ jobs[j].kind \in {"foreground", "rollout_candidate", "promotion"}
          /\ jobs[j].state \in Running
          /\ code \in {"quality_gate", "policy", "environment", "user"}
          /\ Turn
          /\ groups' = groups
          /\ settling' = {[job |-> j, step |-> "settle"]}
          /\ declined' = declined /\ daemon' = "up" /\ failing' = {}
        BY DEF FailWork, Ends, Turn
    <1> DEFINE state == IF code = "user" THEN "cancelled" ELSE "failed"
               outcome == IF code = "user" THEN "cancelled" ELSE "blocked"
    <1>2. PICK changed \in BOOLEAN, open \in BOOLEAN, quarantined \in BOOLEAN :
            /\ jobs[j].kind # "foreground" => open /\ code # "policy" /\ (code = "environment" => quarantined)
            /\ code # "quality_gate" => open
            /\ changed <=> code \in {"quality_gate", "policy"} /\ jobs[j].kind = "foreground"
            /\ contents' = contents + (IF changed THEN 1 ELSE 0)
            /\ tree' = IF changed THEN contents' ELSE tree
            /\ quarantined => code = "environment"
            /\ LET s == [spent EXCEPT !.refusals = @ + (IF open THEN 0 ELSE 1),
                                      !.quarantines = @ + (IF quarantined THEN 1 ELSE 0)]
                   J == [jobs EXCEPT ![j].state = IF code = "user" THEN "cancelled" ELSE "failed",
                                     ![j].code = code, ![j].open = quarantined]
                   o == IF code = "user" THEN "cancelled" ELSE "blocked"
               IN  /\ Within(s)
                   /\ spent' = s
                   /\ jobs' = IF jobs[j].kind = "foreground" THEN LadderAfterFailure(J, j, open) ELSE J
                   /\ task' = IF ~Foreground(jobs, j) THEN task
                              ELSE IF Len(jobs') > Len(J) THEN Queued(TaskAfterEnd(o, J, groups))
                              ELSE TaskAfterEnd(o, J, groups)
        BY DEF FailWork
    <1> DEFINE y == [jobs[j] EXCEPT !.state = state, !.code = code, !.open = quarantined]
               J == [jobs EXCEPT ![j] = y]
    <1>3. /\ DOMAIN jobs = 1..Len(jobs)
          /\ Len(jobs) \in Nat /\ Len(groups) \in Nat
          /\ Tables(jobs, groups, contents)
          /\ contents \in Nat
          /\ task \in TaskRows
          /\ tree \in 0..contents
          /\ Reserved(jobs, groups, task) /\ Lineage(jobs, groups)
          /\ DOMAIN groups = 1..Len(groups)
        BY InvariantTables DEF RolloutsInv, TypeOK, TaskRows
    <1>4. contents' \in Nat /\ contents <= contents' /\ tree' \in 0..contents'
        BY <1>2, <1>3
    <1>5. jobs \in Seq(Job(Len(jobs), Len(groups), contents')) /\ jobs[j] \in Job(Len(jobs), Len(groups), contents')
        BY <1>3, <1>4, TablesWiden, ElementOfSeq
    <1>6. state \in {"failed", "cancelled"} /\ state \in JobStates /\ code \in Codes
        BY <1>1, States
    <1>7. outcome \in {"cancelled", "blocked"}
        OBVIOUS
    <1>8. /\ jobs' = IF jobs[j].kind = "foreground" THEN LadderAfterFailure(J, j, open) ELSE J
          /\ task' = IF ~Foreground(jobs, j) THEN task
                     ELSE IF Len(jobs') > Len(J) THEN Queued(TaskAfterEnd(outcome, J, groups))
                     ELSE TaskAfterEnd(outcome, J, groups)
        BY <1>2
    <1> HIDE DEF state, outcome
    <1>9. y \in Job(Len(jobs), Len(groups), contents')
        BY <1>5, <1>6 DEF Job
    <1>10. /\ EndRow(jobs[j], y) /\ y.state \in {"failed", "cancelled"} /\ y.skip = jobs[j].skip
           /\ y.kind # "review"
        BY <1>1, <1>5, <1>6 DEF EndRow, Job, TerminalJobStates
    <1> HIDE DEF y
    <1>11. /\ J \in Seq(Job(Len(jobs), Len(groups), contents'))
           /\ Len(J) = Len(jobs)
           /\ \A i \in 1..Len(jobs) : J[i] = IF i = j THEN y ELSE jobs[i]
        BY <1>3, <1>5, <1>9, RowSet
    <1> HIDE DEF J
    <1>12. Carries(J)
        <2> SUFFICES ASSUME NEW i \in 1..Len(jobs)
                     PROVE  /\ Later(jobs[i], J[i])
                            /\ Waits(jobs[i], J[i])
                            /\ Rests(jobs[i], J[i])
                            /\ jobs[i].skip => J[i].skip
                            /\ J[i].kind = "review" => jobs[i].state = J[i].state /\ jobs[i].outcome = J[i].outcome
            BY <1>11 DEF Carries
        <2>1. CASE i = j
            <3>1. y.state # "succeeded"
                BY <1>10
            <3> QED BY <2>1, <3>1, <1>10, <1>11, EndRowRests
        <2>2. CASE i # j
            BY <2>2, <1>11, SameJobs
        <2> QED BY <2>1, <2>2
    <1>13. Lengthens
        <2>1. CASE jobs[j].kind = "foreground"
            <3>1. ActiveIn(groups) = {}
                <4> SUFFICES ASSUME NEW g \in ActiveIn(groups) PROVE FALSE
                    OBVIOUS
                <4>1. jobs[j].group = g
                    BY <1>1, <1>3, <2>1 DEF Reserved, Foreground, Pending
                <4>2. jobs[j].group = NoGroup
                    BY <1>3, <2>1 DEF Lineage, Descends
                <4> QED BY <1>3, <4>1, <4>2 DEF ActiveIn, NoGroup
            <3>2. jobs' = LadderAfterFailure(J, j, open)
                BY <1>8, <2>1
            <3>3. j \in 1..Len(jobs)
                BY <1>3
            <3> QED BY <1>1, <1>4, <1>12, <3>1, <3>2, <3>3, LadderStep
        <2>2. CASE jobs[j].kind # "foreground"
            <3>1. jobs' = J
                BY <1>8, <2>2
            <3> DEFINE n == Len(jobs)
            <3>2. Len(jobs') = n /\ n \in Nat
                BY <1>3, <1>11, <3>1
            <3>3. Len(jobs') \in n..(n + 1) /\ ~(Len(jobs') > n)
                <4> HIDE DEF n
                <4> QED BY <3>2
            <3>4. Follow(J, jobs')
                BY <1>11, <3>1, <3>3 DEF Follow
            <3> QED BY <1>1, <1>12, <3>4, FollowStep
        <2> QED BY <2>1, <2>2
    <1>14. task' \in TaskRows /\ (ActiveIn(groups) # {} /\ task.owned => task'.owned)
        <2>1. /\ TaskAfterEnd(outcome, J, groups) \in TaskRows
              /\ ActiveIn(groups) # {} /\ task.owned => TaskAfterEnd(outcome, J, groups).owned
            BY <1>3, <1>7, OwnedWhileActive, TaskTypes DEF TaskRows
        <2> DEFINE t == TaskAfterEnd(outcome, J, groups)
        <2>2. task' \in {task, t, Queued(t)}
            BY <1>8
        <2> HIDE DEF t
        <2>3. t \in TaskRows => Queued(t) \in TaskRows /\ Queued(t).owned = t.owned
            BY DEF Queued, TaskRows
        <2> QED BY <1>3, <2>1, <2>2, <2>3 DEF t
    <1> QED BY <1>1, <1>4, <1>13, <1>14, LengthensKeeps

\* Whoever is refuted as the latest job of the room, and waits for no group, has none.
LEMMA NoGroupToWaitFor ==
    ASSUME RolloutsInv, NEW r \in DOMAIN jobs, jobs[r].kind = "review",
           ~(jobs[jobs[r].from].roll > 0 /\ jobs[r].corr > 0),
           \A i \in 1..Len(jobs) : Foreground(jobs, i) => i <= jobs[r].from
    PROVE  ActiveIn(groups) = {}
    <1> SUFFICES ASSUME NEW g \in ActiveIn(groups) PROVE FALSE
        OBVIOUS
    <1> DEFINE w == jobs[r].from
               v == groups[g].worker
    <1>1. /\ DOMAIN jobs = 1..Len(jobs)
          /\ DOMAIN groups = 1..Len(groups)
          /\ g \in 1..Len(groups)
          /\ groups[g].state \in ActiveGroup
          /\ groups[g] \in Group(Len(jobs), contents)
          /\ Lineage(jobs, groups)
          /\ Progress(jobs, groups)
          /\ Reserved(jobs, groups, task)
        BY InvariantTables DEF RolloutsInv, ActiveIn
    <1>2. /\ w \in 1..Len(jobs)
          /\ jobs[w].state = "succeeded"
          /\ Foreground(jobs, w)
          /\ jobs[r].corr = jobs[w].corr
        BY ReviewFacts DEF IsReview
    <1>3. /\ Foreground(jobs, v) /\ jobs[v].corr > 0 /\ jobs[v].roll > 0
          /\ v \in 1..Len(jobs)
        BY <1>1 DEF Lineage, Answers, Group
    <1>4. v # w
        BY <1>2, <1>3
    <1>5. v < w
        <2>1. v <= w
            BY <1>3
        <2>2. v \in Nat /\ w \in Nat
            BY <1>2, <1>3, InvariantTables
        <2> HIDE DEF v, w
        <2> QED BY <1>4, <2>1, <2>2
    <1>6. jobs[w].group = g
        BY <1>1, <1>2, <1>5 DEF Reserved
    <1>7. g # NoGroup
        BY <1>1 DEF NoGroup
    <1>8. jobs[w].kind = "promotion"
        BY <1>1, <1>2, <1>6, <1>7 DEF Lineage, Descends, Foreground
    <1>9. groups[g].state = "promoted"
        BY <1>1, <1>2, <1>6, <1>8 DEF Progress
    <1> QED BY <1>1, <1>9 DEF ActiveGroup

\* A reviewer gives its verdict.
LEMMA GiveVerdictKeeps ==
    ASSUME RolloutsInv, NEW r \in DOMAIN jobs, NEW verdict \in Verdicts, GiveVerdict(r, verdict)
    PROVE  RolloutsInv'
    <1> DEFINE outcome == IF verdict = "approved" /\ ~jobs[r].complete THEN "inconclusive" ELSE verdict
               w == jobs[r].from
               bad == IF jobs[r].kind = "review" /\ outcome \in {"approved", "refuted"}
                      THEN outcome = "refuted" ELSE jobs[w].bad
               y == [jobs[r] EXCEPT !.state = "succeeded", !.outcome = outcome]
               L == [jobs EXCEPT ![r] = y]
               z == [jobs[w] EXCEPT !.bad = bad]
               J == [L EXCEPT ![w] = z]
               M == [jobs EXCEPT ![r].state = "succeeded", ![r].outcome = outcome,
                        ![w].bad = IF jobs[r].kind = "review" /\ outcome \in {"approved", "refuted"}
                                   THEN outcome = "refuted" ELSE @]
               n == Len(jobs)
               m == Len(groups)
    <1>1. /\ IsReview(r)
          /\ jobs[r].state = "running"
          /\ Turn
          /\ groups' = groups /\ tree' = tree /\ contents' = contents
          /\ settling' = {[job |-> r, step |-> "settle"]}
          /\ declined' = declined /\ daemon' = "up" /\ failing' = {}
        BY DEF GiveVerdict, Ends, Turn
    <1>2. PICK open \in BOOLEAN :
            /\ Open(open)
            /\ ~open => outcome = "refuted"
            /\ jobs' = IF jobs[r].kind = "review" /\ outcome = "refuted"
                       THEN AfterReviewSettled(M, r, open) ELSE M
            /\ task' = IF Len(jobs') > Len(jobs) THEN Queued(task) ELSE task
        BY DEF GiveVerdict
    <1>3. /\ DOMAIN jobs = 1..n
          /\ n \in Nat /\ m \in Nat
          /\ jobs \in Seq(Job(n, m, contents'))
          /\ jobs[r] \in Job(n, m, contents')
          /\ contents' \in Nat /\ contents <= contents'
          /\ task \in TaskRows
          /\ tree \in 0..contents
        BY <1>1, InvariantTables DEF RolloutsInv, TypeOK, TaskRows
    <1>4. /\ w \in 1..n
          /\ w # r
          /\ jobs[r].kind = "review" => Foreground(jobs, w)
        BY <1>1, ReviewFacts
    <1>5. jobs[w] \in Job(n, m, contents')
        BY <1>3, <1>4, ElementOfSeq
    <1>6. outcome \in {"approved", "refuted", "inconclusive"} /\ outcome \in Outcomes
        BY DEF Verdicts, Outcomes
    <1>7. bad \in BOOLEAN
        BY <1>5 DEF Job
    <1>8. M = J
        <2> HIDE DEF outcome
        <2> QED BY <1>3, <1>4
    <1> HIDE DEF outcome, bad, M
    <1>9. y \in Job(n, m, contents')
        <2>1. "succeeded" \in JobStates
            BY States
        <2> QED BY <1>3, <1>6, <2>1 DEF Job
    <1>10. EndRow(jobs[r], y) /\ y.state = "succeeded" /\ y.skip = jobs[r].skip
        BY <1>1, <1>3, <1>6 DEF EndRow, Job, TerminalJobStates, Running
    <1>11. z \in Job(n, m, contents')
        BY <1>5, <1>7 DEF Job
    <1>12. SameRow(jobs[w], z) /\ z.skip = jobs[w].skip /\ z.rung = jobs[w].rung
        BY <1>5 DEF SameRow, Job
    <1> HIDE DEF y, z
    <1>13. /\ L \in Seq(Job(n, m, contents'))
           /\ Len(L) = n
           /\ \A i \in 1..n : L[i] = IF i = r THEN y ELSE jobs[i]
        BY <1>3, <1>9, RowSet
    <1> HIDE DEF L
    <1>14. /\ J \in Seq(Job(n, m, contents'))
           /\ Len(J) = n
           /\ \A i \in 1..n : J[i] = IF i = w THEN z ELSE L[i]
        BY <1>4, <1>11, <1>13, RowSet
    <1>15. /\ jobs' = IF jobs[r].kind = "review" /\ outcome = "refuted"
                      THEN AfterReviewSettled(J, r, open) ELSE J
           /\ task' = IF Len(jobs') > Len(jobs) THEN Queued(task) ELSE task
        BY <1>2, <1>8
    <1> HIDE DEF J
    <1>16. /\ \A i \in 1..n : i # r /\ i # w => J[i] = jobs[i]
           /\ J[r] = y /\ J[w] = z
        BY <1>3, <1>4, <1>13, <1>14
    <1>17. Carries(J)
        <2> SUFFICES ASSUME NEW i \in 1..n
                     PROVE  /\ Later(jobs[i], J[i])
                            /\ Waits(jobs[i], J[i])
                            /\ Rests(jobs[i], J[i])
                            /\ jobs[i].skip => J[i].skip
                            /\ J[i].kind = "review" =>
                                 /\ J[i].state \in {"failed", "cancelled"} =>
                                      jobs[i].state = J[i].state /\ jobs[i].outcome = J[i].outcome
                                 /\ J[i].outcome = "refuted" =>
                                      jobs[i].outcome = "refuted" \/ [job |-> i, step |-> "settle"] \in settling'
            BY <1>14 DEF Carries
        <2>1. CASE i = r
            <3>1. y.kind # "promotion"
                BY <1>1, <1>10 DEF EndRow, IsReview
            <3> QED BY <2>1, <3>1, <1>1, <1>10, <1>16, EndRowRests
        <2>2. CASE i = w
            BY <2>2, <1>12, <1>16, SameRowRests DEF SameRow
        <2>3. CASE i # r /\ i # w
            BY <2>3, <1>16, SameJobs
        <2> QED BY <2>1, <2>2, <2>3
    <1>18. /\ J[r].from = w
           /\ J[r].corr = jobs[r].corr
           /\ J[r].kind = jobs[r].kind
           /\ J[w].roll = jobs[w].roll
           /\ J[w].tree = jobs[w].tree
           /\ J[w].rung = jobs[w].rung
        BY <1>10, <1>12, <1>16 DEF EndRow, SameRow
    <1>19. Follow(J, J)
        <2> DEFINE k == Len(J)
        <2>1. k = n /\ n \in Nat
            BY <1>3, <1>14
        <2>2. k \in n..(n + 1) /\ ~(k > n)
            <3> HIDE DEF n, k
            <3> QED BY <2>1
        <2> QED BY <1>14, <2>2 DEF Follow
    <1>20. Lengthens
        <2>1. CASE jobs' = J
            BY <1>1, <1>17, <1>19, <2>1, FollowStep
        <2>2. CASE jobs' # J
            <3>1. /\ jobs[r].kind = "review"
                  /\ jobs' = AfterReviewSettled(J, r, open)
                BY <1>15, <2>2
            <3>2. /\ ~(jobs[w].roll > 0 /\ jobs[r].corr > 0)
                  /\ jobs' = Continue(J, r, open)
                BY <1>18, <2>2, <3>1 DEF AfterReviewSettled, LeftToRollouts
            <3>3. (\A i \in 1..n : Foreground(jobs, i) => i <= w) => ActiveIn(groups) = {}
                BY <3>1, <3>2, NoGroupToWaitFor
            <3>4. CASE J[r].corr = 0
                <4>1. jobs' = LadderAfterFailure(J, w, open)
                    BY <1>18, <3>2, <3>4 DEF Continue
                <4> HIDE DEF w
                <4> QED BY <1>1, <1>3, <1>4, <1>17, <3>3, <4>1, LadderStep
            <3>5. CASE J[r].corr # 0
                <4> DEFINE x == [Blank EXCEPT !.from = w, !.why = "correction", !.corr = J[r].corr - 1,
                                     !.roll = WorkflowRollouts, !.rung = J[w].rung, !.base = J[w].tree]
                <4>1. jobs' = Append(J, x) /\ ~LaterWorkJob(w)
                    BY <1>18, <2>2, <3>2, <3>5 DEF Continue
                <4>2. /\ \A i \in 1..n : Foreground(jobs, i) => i <= w
                      /\ ActiveIn(groups) = {}
                    <5>1. ~\E i \in DOMAIN jobs : i > w /\ Foreground(jobs, i)
                        BY <4>1 DEF LaterWorkJob
                    <5> HIDE DEF w
                    <5>2. \A i \in 1..n : Foreground(jobs, i) => i <= w
                        BY <1>3, <1>4, <5>1, LatestWork
                    <5> QED BY <3>3, <5>2
                <4>3. x \in Job(n + 1, m, contents')
                    <5>1. J[r].corr \in 0..2 /\ J[w].rung \in 1..Rungs /\ J[w].tree \in 0..contents'
                        BY <1>3, <1>5, <1>18 DEF Job
                    <5>2. J[r].corr - 1 \in 0..2
                        BY <3>5, <5>1
                    <5> HIDE DEF n, w
                    <5>3. w \in 0..(n + 1) /\ n + 1 \in Nat /\ "correction" \in Reasons
                        BY <1>3, <1>4 DEF Reasons
                    <5>4. Blank \in Job(n + 1, m, contents')
                        BY <1>3, <5>3, BlankIsJob
                    <5> QED BY <5>1, <5>2, <5>3, <5>4 DEF Job
                <4>4. /\ x.kind = "foreground" /\ x.state = "queued" /\ x.outcome = "none"
                      /\ x.group = NoGroup /\ x.from = w
                    BY DEF Blank
                <4> HIDE DEF x
                <4>5. /\ Append(J, x) \in Seq(Job(n + 1, m, contents'))
                      /\ Len(Append(J, x)) = n + 1
                      /\ \A i \in 1..n : Append(J, x)[i] = J[i]
                      /\ Append(J, x)[n + 1] = x
                    <5> HIDE DEF n, m
                    <5>1. Job(n, m, contents') \subseteq Job(n + 1, m, contents')
                        BY <1>3, JobWider
                    <5> QED BY <1>3, <1>14, <4>3, <5>1, AppendRow
                <4>6. /\ jobs' \in Seq(Job(Len(jobs'), m, contents'))
                      /\ Len(jobs') = n + 1
                      /\ \A i \in 1..n : jobs'[i] = J[i]
                      /\ jobs'[n + 1] = x
                    BY <4>1, <4>5
                <4>7. Len(jobs') \in n..(n + 1)
                    <5> HIDE DEF n
                    <5> QED BY <1>3, <4>6
                <4>8. Follow(J, jobs')
                    BY <1>3, <1>4, <3>1, <4>2, <4>4, <4>6, <4>7 DEF Follow
                <4> QED BY <1>1, <1>17, <4>8, FollowStep
            <3> QED BY <3>4, <3>5
        <2> QED BY <2>1, <2>2
    <1>21. task' \in TaskRows /\ (ActiveIn(groups) # {} /\ task.owned => task'.owned)
        <2>1. Queued(task) \in TaskRows /\ Queued(task).owned = task.owned
            BY <1>3 DEF Queued, TaskRows
        <2> QED BY <1>3, <1>15, <2>1
    <1>22. settling' \subseteq [job : DOMAIN jobs, step : {"settle", "release"}]
        BY <1>1
    <1>23. tree' \in 0..contents'
        BY <1>1, <1>3
    <1> QED BY <1>1, <1>3, <1>20, <1>21, <1>22, <1>23, LengthensKeeps

-----------------------------------------------------------------------------
(* Groups *)

\* The active group ends: there is none left.
LEMMA GroupEnds ==
    ASSUME RolloutsInv, NEW g \in DOMAIN groups, groups[g].state \in ActiveGroup,
           NEW s \in {"promoted", "exhausted", "failed", "stale", "cancelled"},
           groups' = [groups EXCEPT ![g].state = s]
    PROVE  /\ groups' \in Seq(Group(Len(jobs), contents))
           /\ Len(groups') = Len(groups)
           /\ Turns(groups, groups')
           /\ Ripens(groups, groups')
           /\ ActiveIn(groups) = {g}
           /\ ActiveIn(groups') = {}
           /\ groups'[g].state = s
           /\ groups'[g].worker = groups[g].worker
           /\ \A h \in DOMAIN groups : groups[h].state \in ActiveGroup => h = g
    <1> DEFINE z == [groups[g] EXCEPT !.state = s]
    <1>1. /\ Len(groups) \in Nat
          /\ DOMAIN groups = 1..Len(groups)
          /\ groups \in Seq(Group(Len(jobs), contents))
          /\ groups[g] \in Group(Len(jobs), contents)
          /\ Reserved(jobs, groups, task)
        BY InvariantTables DEF RolloutsInv, TypeOK
    <1>2. z \in Group(Len(jobs), contents)
        <2>1. s \in ActiveGroup \cup {"promoted", "exhausted", "failed", "stale", "cancelled"}
            OBVIOUS
        <2> QED BY <1>1, <2>1 DEF Group
    <1>3. groups' = [groups EXCEPT ![g] = z]
        OBVIOUS
    <1>4. /\ z.state = s /\ z.worker = groups[g].worker /\ z.reviewer = groups[g].reviewer
          /\ z.promotion = groups[g].promotion /\ z.winner = groups[g].winner
        BY <1>1 DEF Group
    <1> HIDE DEF z
    <1>5. /\ groups' \in Seq(Group(Len(jobs), contents))
          /\ Len(groups') = Len(groups)
          /\ \A h \in 1..Len(groups) : groups'[h] = IF h = g THEN z ELSE groups[h]
          /\ DOMAIN groups' = 1..Len(groups)
        BY <1>1, <1>2, <1>3, RowSet
    <1>6. ActiveIn(groups) = {g}
        BY DEF ActiveIn, RolloutsInv, Reserved
    <1>7. \A h \in DOMAIN groups : groups[h].state \in ActiveGroup => h = g
        BY <1>6 DEF ActiveIn
    <1>8. s \notin ActiveGroup /\ s # "running" /\ s # "promoting"
        BY DEF ActiveGroup
    <1>9. \A h \in 1..Len(groups) :
            /\ groups[h].state = "running" => groups[h].promotion = NoJob
            /\ groups[h].state = "promoting" => groups[h].promotion # NoJob
        BY <1>1, SameGroups DEF Turns
    <1>10. Ripens(groups, groups')
        BY <1>1, <1>4, <1>5 DEF Ripens
    <1>11. Turns(groups, groups')
        BY <1>1, <1>4, <1>5, <1>8, <1>9, <1>10 DEF Turns
    <1>12. ActiveIn(groups') = {}
        BY <1>1, <1>4, <1>5, <1>7, <1>8 DEF ActiveIn
    <1> QED BY <1>1, <1>4, <1>5, <1>6, <1>7, <1>10, <1>11, <1>12

\* The worker and the reviewer of a group finished before it.
LEMMA GroupFacts ==
    ASSUME RolloutsInv, NEW g \in DOMAIN groups
    PROVE  /\ groups[g].worker \in 1..Len(jobs)
           /\ groups[g].reviewer \in 1..Len(jobs)
           /\ Foreground(jobs, groups[g].worker)
           /\ jobs[groups[g].worker].state = "succeeded"
           /\ jobs[groups[g].reviewer].kind = "review"
           /\ jobs[groups[g].reviewer].from = groups[g].worker
           /\ groups[g].winner \in 0..Len(jobs)
           /\ groups[g].promotion \in 0..Len(jobs)
           /\ groups[g].promotion # NoJob =>
                /\ jobs[groups[g].promotion].kind = "promotion"
                /\ groups[g].winner \in 1..Len(jobs)
                /\ jobs[groups[g].winner].kind = "rollout_candidate"
    <1>1. /\ DOMAIN jobs = 1..Len(jobs)
          /\ DOMAIN groups = 1..Len(groups)
          /\ groups[g] \in Group(Len(jobs), contents)
          /\ Lineage(jobs, groups)
          /\ Progress(jobs, groups)
        BY InvariantTables DEF RolloutsInv
    <1>2. /\ groups[g].worker \in 1..Len(jobs)
          /\ groups[g].reviewer \in 1..Len(jobs)
          /\ groups[g].winner \in 0..Len(jobs)
          /\ groups[g].promotion \in 0..Len(jobs)
        BY <1>1 DEF Group
    <1>3. Answers(jobs, groups, g)
        BY <1>1 DEF Lineage
    <1>4. jobs[groups[g].worker].state = "succeeded"
        BY <1>1, <1>2, <1>3 DEF Answers, Progress
    <1> QED BY <1>2, <1>3, <1>4 DEF Answers, NoJob

\* The winner of a group is promoted.
LEMMA PromoteKeeps ==
    ASSUME RolloutsInv, NEW j \in DOMAIN jobs, Promote(j)
    PROVE  RolloutsInv'
    <1> DEFINE g == jobs[j].group
               c == jobs[j].from
               w == groups[g].worker
               y == [jobs[j] EXCEPT !.state = "succeeded", !.place = "promoted"]
               K1 == [jobs EXCEPT ![j] = y]
               z == [jobs[c] EXCEPT !.place = "promoted"]
               K2 == [K1 EXCEPT ![c] = z]
               v == [jobs[w] EXCEPT !.skip = FALSE]
               K == [K2 EXCEPT ![w] = v]
               n == Len(jobs)
               m == Len(groups)
    <1>1. /\ jobs[j].kind = "promotion"
          /\ jobs[j].state = "applied"
          /\ groups[g].state \in {"promoting", "paused"}
          /\ Turn
          /\ tree' = tree /\ contents' = contents
          /\ settling' = {[job |-> j, step |-> "settle"]}
          /\ declined' = declined /\ daemon' = "up" /\ failing' = {}
          /\ groups' = [groups EXCEPT ![g].state = "promoted"]
        BY DEF Promote, Ends, Turn, MayPromote, MayPromoteAnyTree
    <1>2. /\ DOMAIN jobs = 1..n
          /\ DOMAIN groups = 1..m
          /\ n \in Nat /\ m \in Nat
          /\ Tables(jobs, groups, contents)
          /\ Standing(jobs, groups, task)
          /\ jobs \in Seq(Job(n, m, contents))
          /\ contents \in Nat
          /\ task \in TaskRows
          /\ tree \in 0..contents
        BY InvariantTables DEF RolloutsInv, TypeOK, TaskRows
    <1>3. /\ g \in DOMAIN groups
          /\ groups[g].promotion = j
          /\ groups[g].winner = c
          /\ c \in 1..n
          /\ c < j
        BY <1>1, PromotionFacts
    <1>4. /\ w \in 1..n
          /\ jobs[w].state = "succeeded"
          /\ Foreground(jobs, w)
        BY <1>3, GroupFacts
    <1>5. jobs[c].kind = "rollout_candidate"
        <2>1. j # NoJob
            BY <1>2 DEF NoJob
        <2> QED BY <1>3, <2>1, GroupFacts
    <1>6. j # c /\ j # w /\ c # w
        BY <1>1, <1>4, <1>5 DEF Foreground
    <1>7. /\ jobs[j] \in Job(n, m, contents)
          /\ jobs[c] \in Job(n, m, contents)
          /\ jobs[w] \in Job(n, m, contents)
        BY <1>2, <1>3, <1>4, ElementOfSeq
    <1>8. y \in Job(n, m, contents) /\ EndRow(jobs[j], y) /\ y.state = "succeeded" /\ y.skip = jobs[j].skip
        <2>1. "succeeded" \in JobStates /\ "promoted" \in Places
            BY States
        <2>2. y \in Job(n, m, contents)
            BY <1>7, <2>1 DEF Job
        <2>3. EndRow(jobs[j], y) /\ y.state = "succeeded" /\ y.skip = jobs[j].skip
            BY <1>1, <1>7 DEF Job, EndRow, Running, TerminalJobStates
        <2> QED BY <2>2, <2>3
    <1>9. z \in Job(n, m, contents) /\ SameRow(jobs[c], z) /\ z.skip = jobs[c].skip
        <2>1. "promoted" \in Places
            BY States
        <2>2. z \in Job(n, m, contents)
            BY <1>7, <2>1 DEF Job
        <2>3. SameRow(jobs[c], z) /\ z.skip = jobs[c].skip
            BY <1>7 DEF Job, SameRow
        <2> QED BY <2>2, <2>3
    <1>10. v \in Job(n, m, contents) /\ SameRow(jobs[w], v)
        BY <1>7 DEF Job, SameRow
    <1> HIDE DEF y, z, v
    <1>11. /\ K1 \in Seq(Job(n, m, contents))
           /\ Len(K1) = n
           /\ \A i \in 1..n : K1[i] = IF i = j THEN y ELSE jobs[i]
        BY <1>2, <1>8, RowSet
    <1> HIDE DEF K1
    <1>12. /\ K2 \in Seq(Job(n, m, contents))
           /\ Len(K2) = n
           /\ \A i \in 1..n : K2[i] = IF i = c THEN z ELSE K1[i]
        BY <1>3, <1>9, <1>11, RowSet
    <1> HIDE DEF K2
    <1>13. /\ K \in Seq(Job(n, m, contents))
           /\ Len(K) = n
           /\ \A i \in 1..n : K[i] = IF i = w THEN v ELSE K2[i]
        BY <1>4, <1>10, <1>12, RowSet
    <1>14. jobs' = K /\ task' = TaskIn(IF task.paused THEN "checkpointed" ELSE "completed", K, groups')
        <2>1. [jobs EXCEPT ![j].state = "succeeded", ![j].place = "promoted",
                           ![c].place = "promoted", ![w].skip = FALSE] = K
            <3>1. [jobs EXCEPT ![j].state = "succeeded", ![j].place = "promoted"] = K1
                BY DEF K1, y
            <3>2. [K1 EXCEPT ![c].place = "promoted"] = K2
                <4>1. K1[c] = jobs[c]
                    BY <1>3, <1>6, <1>11
                <4> QED BY <4>1 DEF K2, z
            <3>3. [K2 EXCEPT ![w].skip = FALSE] = K
                <4>1. K2[w] = jobs[w]
                    BY <1>2, <1>4, <1>6, <1>11, <1>12
                <4> QED BY <4>1 DEF v
            <3>4. [[[jobs EXCEPT ![j].state = "succeeded", ![j].place = "promoted"]
                     EXCEPT ![c].place = "promoted"] EXCEPT ![w].skip = FALSE] = K
                BY <3>1, <3>2, <3>3
            <3> QED BY <3>4
        <2> QED BY <2>1 DEF Promote
    <1> HIDE DEF K
    <1>15. /\ K[j] = y /\ K[c] = z /\ K[w] = v
           /\ \A i \in 1..n : i # j /\ i # c /\ i # w => K[i] = jobs[i]
        BY <1>2, <1>3, <1>4, <1>6, <1>11, <1>12, <1>13
    <1>16. /\ groups' \in Seq(Group(n, contents))
           /\ Len(groups') = m
           /\ Turns(groups, groups')
           /\ Ripens(groups, groups')
           /\ ActiveIn(groups') = {}
           /\ groups'[g].state = "promoted"
           /\ groups'[g].worker = w
           /\ \A h \in DOMAIN groups : groups[h].state \in ActiveGroup => h = g
        BY <1>1, <1>3, GroupEnds DEF ActiveGroup
    <1>17. task' \in TaskRows
        <2>1. PICK outcome \in {"checkpointed", "completed"} : task' = TaskIn(outcome, K, groups')
            BY <1>14
        <2> QED BY <2>1, <1>2, TaskTypes DEF TaskRows
    <1>18. TypeOK'
        <2>1. jobs' \in Seq(Job(Len(jobs'), Len(groups'), contents')) /\ groups' \in Seq(Group(Len(jobs'), contents'))
              /\ DOMAIN jobs' = DOMAIN jobs
            BY <1>1, <1>2, <1>13, <1>14, <1>16, LenProperties
        <2>2. declined' \subseteq DOMAIN jobs' /\ failing' \subseteq DOMAIN jobs'
              /\ settling' \subseteq [job : DOMAIN jobs', step : {"settle", "release"}]
            BY <1>1, <2>1 DEF RolloutsInv, TypeOK
        <2> QED BY <1>1, <1>2, <1>17, <2>1, <2>2 DEF RolloutsInv, TypeOK, TaskRows
    <1>19. ASSUME NEW i \in 1..n
           PROVE  Later(jobs[i], K[i]) /\ Waits(jobs[i], K[i]) /\ (i # j => Rests(jobs[i], K[i]))
        <2>1. CASE i = j
            BY <2>1, <1>8, <1>15, EndRowRests
        <2>2. CASE i = c
            BY <2>2, <1>9, <1>15, SameRowRests
        <2>3. CASE i = w
            BY <2>3, <1>10, <1>15, SameRowRests
        <2>4. CASE i # j /\ i # c /\ i # w
            BY <2>4, <1>15, SameJobs
        <2> QED BY <2>1, <2>2, <2>3, <2>4
    <1>20. Grows(jobs, jobs') /\ Admitted(jobs, groups', jobs') /\ Tables(jobs', groups', contents')
        BY <1>2, <1>13, <1>14, <1>18, <1>19, NoneAdmitted, NextTables DEF Grows
    <1>21. InOrder(jobs')
        BY <1>2, <1>14, <1>19, <1>20, InOrderGrows DEF Standing
    <1>22. ASSUME NEW p \in 1..n, K[p].kind = "promotion" PROVE Promotes(jobs', groups', p)
        <2>1. CASE p = j
            <3>1. K[j].group = g
                BY <1>8, <1>15 DEF EndRow
            <3> QED BY <1>8, <1>14, <1>15, <1>16, <2>1, <3>1 DEF Promotes
        <2>2. CASE p # j
            <3>1. Rests(jobs[p], K[p])
                BY <1>19, <2>2
            <3>2. jobs[p].kind = "promotion"
                BY <1>19, <1>22 DEF Later
            <3>3. jobs[p].group \in DOMAIN groups /\ groups[jobs[p].group].promotion = p
                BY <1>2, <3>2, PromotionFacts
            <3>4. groups[jobs[p].group].state \notin ActiveGroup
                BY <1>3, <1>16, <2>2, <3>3
            <3> QED BY <1>2, <1>14, <1>16, <1>20, <1>22, <3>1, <3>4, PromotionsRest DEF Standing
        <2> QED BY <2>1, <2>2
    <1>23. Standing(jobs, groups, task)'
        BY <1>2, <1>14, <1>16, <1>20, <1>21, <1>22, StandingKept
    <1>24. Answered(jobs, groups, LeftBehind, Awaited)'
        <2>1. Superseded(groups', w)
            <3>1. g \in DOMAIN groups'
                BY <1>2, <1>3, <1>16, LenProperties
            <3> QED BY <1>16, <3>1 DEF Superseded
        <2>2. ASSUME NEW q \in 1..n
              PROVE  /\ K[q].kind = "review" =>
                          jobs[q].state = K[q].state /\ jobs[q].outcome = K[q].outcome
                     /\ jobs[q].skip => K[q].skip \/ q = w
            <3>1. CASE q = j
                <4>1. K[q].kind # "review"
                    BY <3>1, <1>1, <1>8, <1>15 DEF EndRow
                <4> QED BY <3>1, <4>1, <1>8, <1>15
            <3>2. CASE q = c
                BY <3>2, <1>9, <1>15 DEF SameRow
            <3>3. CASE q = w
                BY <3>3, <1>10, <1>15 DEF SameRow
            <3>4. CASE q # j /\ q # c /\ q # w
                BY <3>4, <1>15
            <3> QED BY <3>1, <3>2, <3>3, <3>4
        <2>3. /\ \A q \in 1..n :
                    jobs'[q].kind = "review" => jobs[q].state = jobs'[q].state /\ jobs[q].outcome = jobs'[q].outcome
              /\ \A q \in 1..n : jobs[q].skip => jobs'[q].skip \/ Superseded(groups', q)
            BY <1>14, <2>1, <2>2
        <2> QED BY <1>1, <1>16, <1>18, <1>20, <2>3, AnsweredInTheStretch
    <1>25. Failing'
        BY <1>1 DEF Failing
    <1> QED BY <1>18, <1>23, <1>24, <1>25, Assembled

-----------------------------------------------------------------------------
(* Cancellation *)

\* A cancelled row keeps its place, unless it is a review that never ran.
LEMMA StoppedRow ==
    ASSUME NEW n \in Nat, NEW m \in Nat, NEW c \in Nat, NEW a \in Job(n, m, c)
    PROVE  /\ Stopped(a) \in Job(n, m, c)
           /\ Stopped(a) = a \/ StopRow(a, Stopped(a))
           /\ Stopped(a).skip = a.skip
           /\ a.state \notin Pending => Stopped(a) = a
           /\ a.state \in Pending => StopRow(a, Stopped(a))
           /\ Stopped(a).state \in {"failed", "cancelled"} => Stopped(a).state = a.state \/ a.state = "queued"
           /\ Stopped(a).outcome = a.outcome
           /\ a.state = "queued" => Stopped(a).state = "cancelled"
    <1> DEFINE x == [a EXCEPT !.state = "cancelled", !.code = "user"]
               y == [a EXCEPT !.state = "cancel_requested"]
    <1>1. "cancelled" \in JobStates /\ "cancel_requested" \in JobStates /\ "user" \in Codes
        BY States
    <1>2. CASE a.state = "queued"
        <2>1. Stopped(a) = x
            BY <1>2 DEF Stopped
        <2>2. x \in Job(n, m, c)
            BY <1>1 DEF Job
        <2>3. StopRow(a, x) /\ x.skip = a.skip /\ x.outcome = a.outcome /\ x.state = "cancelled"
            BY <1>2 DEF Job, StopRow
        <2> HIDE DEF x
        <2>4. a.state \in Pending
            BY <1>2, States
        <2> QED BY <1>2, <2>1, <2>2, <2>3, <2>4
    <1>3. CASE a.state \in Running
        <2>1. Stopped(a) = y /\ a.state # "queued"
            BY <1>3 DEF Stopped, Running
        <2>2. y \in Job(n, m, c)
            BY <1>1 DEF Job
        <2>3. StopRow(a, y) /\ y.skip = a.skip /\ y.outcome = a.outcome /\ y.state = "cancel_requested"
            BY <1>3 DEF Job, StopRow
        <2> HIDE DEF y
        <2>4. a.state \in Pending
            BY <1>3, States
        <2> QED BY <2>1, <2>2, <2>3, <2>4
    <1>4. CASE a.state # "queued" /\ a.state \notin Running
        <2>1. Stopped(a) = a /\ a.state \notin Pending
            BY <1>4 DEF Stopped, Pending
        <2> QED BY <1>4, <2>1
    <1> QED BY <1>2, <1>3, <1>4

\* cancelJob, of a job that no active group holds
LEMMA CancelOneKeeps ==
    ASSUME RolloutsInv, NEW j \in DOMAIN jobs, Turn, jobs[j].state \in Pending,
           NEW K, K = [jobs EXCEPT ![j] = Stopped(jobs[j])],
           jobs' = IF IsReview(j) /\ jobs[j].state = "queued" THEN SettleReviewFailure(K, j, TRUE) ELSE K,
           task' = TaskIn("cancelled", K, groups) \/ task' = task,
           groups' = groups, tree' = tree, contents' = contents,
           declined' = declined, daemon' = daemon, failing' = failing, settling' = settling
    PROVE  RolloutsInv'
    <1> DEFINE x == Stopped(jobs[j])
    <1>1. /\ DOMAIN jobs = 1..Len(jobs)
          /\ Len(jobs) \in Nat
          /\ Len(groups) \in Nat
          /\ jobs \in Seq(Job(Len(jobs), Len(groups), contents))
          /\ jobs[j] \in Job(Len(jobs), Len(groups), contents)
          /\ contents \in Nat
          /\ tree \in 0..contents
          /\ task \in TaskRows
        BY InvariantTables DEF RolloutsInv, TypeOK, TaskRows
    <1>2. daemon' = "up" /\ failing' = {} /\ settling = {}
        BY DEF Turn
    <1>3. x \in Job(Len(jobs), Len(groups), contents) /\ StopRow(jobs[j], x) /\ x.skip = jobs[j].skip
          /\ x.outcome = jobs[j].outcome
          /\ (x.state \in {"failed", "cancelled"} => x.state = jobs[j].state \/ jobs[j].state = "queued")
          /\ (jobs[j].state = "queued" => x.state = "cancelled")
        BY <1>1, StoppedRow
    <1> HIDE DEF x
    <1>4. /\ K \in Seq(Job(Len(jobs), Len(groups), contents))
          /\ Len(K) = Len(jobs)
          /\ \A i \in 1..Len(jobs) : K[i] = IF i = j THEN x ELSE jobs[i]
        <2>1. K = [jobs EXCEPT ![j] = x]
            BY DEF x
        <2> QED BY <1>1, <1>3, <2>1, RowSet
    <1>5. task' \in TaskRows /\ (ActiveIn(groups) # {} /\ task.owned => task'.owned)
        BY <1>1, OwnedWhileActive, TaskTypes DEF TaskRows
    <1>6. CASE IsReview(j) /\ jobs[j].state = "queued"
        <2>1. Unfinished(j, K)
            <3>1. jobs[j].state \notin TerminalJobStates
                BY <1>6, States
            <3>2. x.state = "cancelled"
                BY <1>3, <1>6
            <3> QED BY <1>1, <1>3, <1>4, <3>1, <3>2 DEF Unfinished, StopRow
        <2>2. jobs' = SettleReviewFailure(K, j, TRUE)
            BY <1>6
        <2>3. /\ jobs' \in Seq(Job(Len(jobs'), Len(groups), contents'))
              /\ Len(jobs') \in Len(jobs)..(Len(jobs) + 1)
              /\ \A i \in 1..Len(jobs) :
                   /\ Later(jobs[i], jobs'[i])
                   /\ Waits(jobs[i], jobs'[i])
                   /\ Rests(jobs[i], jobs'[i])
              /\ Len(jobs') > Len(jobs) =>
                   jobs'[Len(jobs) + 1].state = "queued" /\ jobs'[Len(jobs) + 1].outcome = "none"
              /\ Admitted(jobs, groups, jobs')
              /\ \A q \in 1..Len(jobs) :
                   jobs'[q].kind = "review" /\ jobs'[q].state \in {"failed", "cancelled"} /\ Latest(jobs', q) =>
                       \/ jobs[q].state = jobs'[q].state /\ jobs[q].outcome = jobs'[q].outcome
                       \/ jobs'[jobs'[q].from].skip
              /\ \A w \in 1..Len(jobs) : jobs[w].skip =>
                   \/ jobs'[w].skip
                   \/ \E s \in 1..Len(jobs') : s > Len(jobs) /\ jobs'[s].kind = "review" /\ jobs'[s].from = w
              /\ \A q \in 1..Len(jobs) : jobs'[q].outcome = "refuted" => jobs[q].outcome = "refuted"
            BY <1>6, <2>1, <2>2, FailureStep
        <2>4. Lengthens
            BY <2>3 DEF Lengthens
        <2>5. contents <= contents' /\ contents' \in Nat /\ tree' \in 0..contents'
              /\ settling' \subseteq [job : DOMAIN jobs, step : {"settle", "release"}]
            BY <1>1, <1>2
        <2> QED BY <1>2, <1>5, <2>4, <2>5, LengthensKeeps
    <1>7. CASE ~(IsReview(j) /\ jobs[j].state = "queued")
        <2>1. Replaces(j, x)
            BY <1>7, ExceptReplaces DEF x
        <2>2. Silent(jobs[j], x)
            <3>1. x.kind = "review" => jobs[j].state # "queued"
                BY <1>3, <1>7 DEF IsReview, StopRow
            <3> QED BY <1>3, <3>1 DEF Silent
        <2>3. /\ jobs' \in Seq(Job(Len(jobs'), Len(groups'), contents'))
              /\ groups' \in Seq(Group(Len(jobs'), contents'))
              /\ Len(jobs') = Len(jobs)
              /\ DOMAIN jobs' = 1..Len(jobs)
            <3>1. contents' \in Nat /\ contents <= contents' /\ Later(jobs[j], x)
                BY <1>1, <1>3, StopRowRests
            <3>2. x \in Job(Len(jobs), Len(groups), contents')
                BY <1>3
            <3> QED BY <1>1, <2>1, <3>1, <3>2, RowStep
        <2>4. TypeOK'
            BY <1>1, <1>2, <1>5, <2>3 DEF RolloutsInv, TypeOK, TaskRows
        <2>5. LeftBehind \subseteq LeftBehind' /\ Awaited \subseteq Awaited' /\ Failing'
            BY <1>2, TurnAwaits DEF Awaited, Failing, Turn
        <2>6. Standing(jobs, groups, task)' /\ Answered(jobs, groups, LeftBehind, Awaited)'
            BY <1>3, <1>5, <2>1, <2>2, <2>3, <2>4, <2>5, StopRowRests, RowRests
        <2> QED BY <2>4, <2>5, <2>6, Assembled
    <1> QED BY <1>6, <1>7

\* CancelRolloutGroup stops the members of the group.
LEMMA CancelGroupKeeps ==
    ASSUME RolloutsInv, Turn, NEW g \in DOMAIN groups, groups[g].state \in ActiveGroup,
           CancelRolloutGroup(g), tree' = tree, contents' = contents,
           declined' = declined, daemon' = daemon, failing' = failing, settling' = settling
    PROVE  RolloutsInv'
    <1> DEFINE n == Len(jobs)
               m == Len(groups)
    <1>1. /\ DOMAIN jobs = 1..n
          /\ DOMAIN groups = 1..m
          /\ n \in Nat
          /\ m \in Nat
          /\ Tables(jobs, groups, contents)
          /\ Standing(jobs, groups, task)
          /\ jobs \in Seq(Job(n, m, contents))
          /\ contents \in Nat
          /\ tree \in 0..contents
          /\ task \in TaskRows
          /\ Lineage(jobs, groups)
        BY InvariantTables DEF RolloutsInv, TypeOK, TaskRows
    <1>2. daemon' = "up" /\ failing' = {} /\ settling' = {} /\ declined' = declined
        BY DEF Turn
    <1>3. /\ groups' \in Seq(Group(n, contents))
          /\ Len(groups') = m
          /\ Turns(groups, groups')
          /\ Ripens(groups, groups')
          /\ ActiveIn(groups') = {}
          /\ \A h \in DOMAIN groups : groups[h].state \in ActiveGroup => h = g
        BY GroupEnds DEF CancelRolloutGroup
    <1>4. \A i \in 1..n : jobs[i].kind = "review" => jobs[i].group = NoGroup
        BY <1>1 DEF Lineage, Descends
    <1>5. jobs' = [i \in 1..n |-> IF jobs[i].group = g THEN StoppedMember(jobs[i]) ELSE jobs[i]]
        BY <1>1 DEF CancelRolloutGroup
    <1>6. ASSUME NEW i \in 1..n
          PROVE  /\ jobs'[i] \in Job(n, m, contents)
                 /\ Later(jobs[i], jobs'[i])
                 /\ Waits(jobs[i], jobs'[i])
                 /\ Rests(jobs[i], jobs'[i])
                 /\ Silent(jobs[i], jobs'[i])
                 /\ jobs'[i].kind = "promotion" /\ jobs[i].group = g =>
                      jobs'[i].state \notin {"queued", "running", "applied"}
        <2>1. jobs[i] \in Job(n, m, contents)
            BY <1>1, ElementOfSeq
        <2>2. CASE jobs[i].group # g
            <3>1. jobs'[i] = jobs[i]
                BY <1>5, <2>2
            <3> QED BY <2>1, <2>2, <3>1, SameJobs DEF Silent
        <2>3. CASE jobs[i].group = g
            <3> DEFINE y == [Stopped(jobs[i]) EXCEPT !.outcome = "reviewer_failed"]
            <3>1. /\ Stopped(jobs[i]) \in Job(n, m, contents)
                  /\ Stopped(jobs[i]) = jobs[i] \/ StopRow(jobs[i], Stopped(jobs[i]))
                  /\ Stopped(jobs[i]).skip = jobs[i].skip
                  /\ jobs[i].state = "queued" => Stopped(jobs[i]).state = "cancelled"
                BY <1>1, <2>1, StoppedRow
            <3>2. jobs[i].kind # "review"
                BY <1>1, <1>4, <2>3 DEF NoGroup
            <3>3. CASE jobs[i].kind = "rollout_review" /\ jobs[i].state = "queued"
                <4>1. jobs'[i] = y
                    BY <1>5, <2>3, <3>3 DEF StoppedMember
                <4>2. y \in Job(n, m, contents)
                    <5>1. "reviewer_failed" \in Outcomes
                        BY States
                    <5> QED BY <3>1, <5>1 DEF Job
                <4>3. StopRow(jobs[i], y) /\ y.skip = jobs[i].skip
                    <5>1. StopRow(jobs[i], Stopped(jobs[i]))
                        BY <3>1, <3>3
                    <5> QED BY <3>1, <3>3, <5>1 DEF Job, StopRow
                <4> HIDE DEF y
                <4>4. y.kind = "rollout_review"
                    BY <3>3, <4>3 DEF StopRow
                <4> QED BY <4>1, <4>2, <4>3, <4>4, StopRowRests DEF Silent
            <3>4. CASE ~(jobs[i].kind = "rollout_review" /\ jobs[i].state = "queued")
                <4>1. jobs'[i] = Stopped(jobs[i])
                    BY <1>5, <2>3, <3>4 DEF StoppedMember
                <4>2. CASE jobs[i].state \notin Pending
                    <5>1. jobs'[i] = jobs[i]
                        BY <1>1, <2>1, <4>1, <4>2, StoppedRow
                    <5>2. jobs[i].state \notin {"queued", "running", "applied"}
                        BY <4>2 DEF Pending, Running
                    <5> QED BY <2>1, <5>1, <5>2, SameJobs DEF Silent
                <4>3. CASE jobs[i].state \in Pending
                    <5>1. StopRow(jobs[i], Stopped(jobs[i]))
                        BY <1>1, <2>1, <4>3, StoppedRow
                    <5>2. Stopped(jobs[i]).kind # "review" /\ Stopped(jobs[i]).state \notin {"queued", "running", "applied"}
                        BY <3>2, <5>1 DEF StopRow
                    <5> QED BY <3>1, <4>1, <5>1, <5>2, StopRowRests DEF Silent
                <4> QED BY <4>2, <4>3
            <3> QED BY <3>3, <3>4
        <2> QED BY <2>2, <2>3
    <1>7. jobs' \in Seq(Job(n, m, contents)) /\ Len(jobs') = n /\ DOMAIN jobs' = 1..n
        <2>1. jobs' = [i \in 1..n |-> jobs'[i]]
            BY <1>5
        <2> HIDE DEF n, m
        <2> QED BY <1>1, <1>6, <2>1, TableIsSeq
    <1>8. task' \in TaskRows
        <2>1. task' = TaskIn("cancelled", jobs', groups')
            BY DEF CancelRolloutGroup
        <2> QED BY <1>1, <2>1, TaskTypes DEF TaskRows
    <1>9. TypeOK'
        <2>1. jobs' \in Seq(Job(Len(jobs'), Len(groups'), contents')) /\ groups' \in Seq(Group(Len(jobs'), contents'))
            BY <1>3, <1>7
        <2> QED BY <1>1, <1>2, <1>7, <1>8, <2>1 DEF RolloutsInv, TypeOK, TaskRows
    <1>10. Grows(jobs, jobs') /\ Tables(jobs', groups', contents')
        BY <1>1, <1>6, <1>7, <1>9, NextTables DEF Grows
    <1>11. Admitted(jobs, groups', jobs')
        BY <1>1, <1>7, NoneAdmitted
    <1>12. LeftBehind \subseteq LeftBehind' /\ Awaited \subseteq Awaited' /\ Failing'
        BY <1>2, TurnAwaits DEF Awaited, Failing, Turn
    <1>13. Answered(jobs, groups, LeftBehind, Awaited)'
        BY <1>1, <1>3, <1>6, <1>9, <1>10, <1>12, AnsweredSilently
    <1>14. Standing(jobs, groups, task)'
        <2>1. ASSUME NEW p \in 1..n, jobs'[p].kind = "promotion",
                     jobs'[p].state \in {"queued", "running", "applied"},
                     groups[jobs[p].group].state \in ActiveGroup
              PROVE  groups'[jobs[p].group].state \in ActiveGroup
            <3>1. jobs[p].kind = "promotion"
                BY <1>6, <2>1 DEF Later
            <3>2. jobs[p].group \in DOMAIN groups
                BY <1>1, <3>1, PromotionFacts
            <3>3. jobs[p].group = g
                BY <1>3, <2>1, <3>2
            <3> QED BY <1>6, <2>1, <3>3
        <2> QED BY <1>1, <1>3, <1>6, <1>10, <1>11, <2>1, StandingRests
    <1> QED BY <1>9, <1>12, <1>13, <1>14, Assembled

\* An operator cancels a job, or the active group it belongs to.
LEMMA CancelJobKeeps ==
    ASSUME RolloutsInv, NEW j \in DOMAIN jobs, CancelJob(j)
    PROVE  RolloutsInv'
    <1> DEFINE g == GroupForJob(j)
               K == [jobs EXCEPT ![j] = Stopped(jobs[j])]
    <1>1. /\ Turn
          /\ tree' = tree /\ contents' = contents
          /\ declined' = declined /\ daemon' = daemon /\ failing' = failing /\ settling' = settling
        BY DEF CancelJob
    <1>2. DOMAIN groups = 1..Len(groups) /\ Len(groups) \in Nat
        BY InvariantTables
    <1>3. CASE g # NoGroup /\ groups[g].state \in ActiveGroup
        <2>1. g \in DOMAIN groups
            <3>1. GroupsOf(j) # {} /\ g = MaxOf(GroupsOf(j))
                BY <1>3 DEF GroupForJob
            <3>2. GroupsOf(j) \subseteq 1..Len(groups)
                BY <1>2 DEF GroupsOf
            <3>3. MaxOf(GroupsOf(j)) \in GroupsOf(j)
                BY <1>2, <3>1, <3>2, LargestExists
            <3> QED BY <1>2, <3>1, <3>2, <3>3
        <2>2. CancelRolloutGroup(g)
            BY <1>3 DEF CancelJob
        <2> HIDE DEF g
        <2> QED BY <1>1, <1>3, <2>1, <2>2, CancelGroupKeeps
    <1>4. CASE ~(g # NoGroup /\ groups[g].state \in ActiveGroup)
        <2>1. /\ jobs[j].state \in Pending
              /\ jobs' = IF IsReview(j) /\ jobs[j].state = "queued" THEN SettleReviewFailure(K, j, TRUE) ELSE K
              /\ task' = TaskIn("cancelled", K, groups) \/ task' = task
              /\ groups' = groups
            BY <1>4 DEF CancelJob
        <2>2. K = [jobs EXCEPT ![j] = Stopped(jobs[j])]
            OBVIOUS
        <2> HIDE DEF K, g
        <2> QED BY <1>1, <2>1, <2>2, CancelOneKeeps
    <1> QED BY <1>3, <1>4

-----------------------------------------------------------------------------
(* Recovery *)

LEMMA InterruptedRow ==
    ASSUME NEW n \in Nat, NEW m \in Nat, NEW c \in Nat, NEW a \in Job(n, m, c), a.state \in Running,
           NEW open \in BOOLEAN
    PROVE  /\ Interrupted(a, open) \in Job(n, m, c)
           /\ EndRow(a, Interrupted(a, open))
           /\ Interrupted(a, open).state # "succeeded"
           /\ Interrupted(a, open).skip = a.skip
           /\ Interrupted(a, open).outcome = a.outcome
    <1>1. /\ "cancelled" \in JobStates /\ "failed" \in JobStates
          /\ "user" \in Codes /\ "daemon_restart" \in Codes
        BY States
    <1> DEFINE s == IF a.state = "cancel_requested" THEN "cancelled" ELSE "failed"
               d == IF a.state = "cancel_requested" THEN "user" ELSE "daemon_restart"
    <1>2. s \in {"cancelled", "failed"} /\ s \in JobStates /\ d \in Codes
        BY <1>1
    <1>3. Interrupted(a, open) = [a EXCEPT !.state = s, !.code = d, !.open = open]
        BY DEF Interrupted
    <1> HIDE DEF s, d
    <1>4. [a EXCEPT !.state = s, !.code = d, !.open = open] \in Job(n, m, c)
        BY <1>2 DEF Job
    <1>5. s \in TerminalJobStates /\ s # "succeeded"
        BY <1>2 DEF TerminalJobStates
    <1>6. EndRow(a, [a EXCEPT !.state = s, !.code = d, !.open = open])
        BY <1>5 DEF Job, EndRow
    <1>7. /\ [a EXCEPT !.state = s, !.code = d, !.open = open].state # "succeeded"
          /\ [a EXCEPT !.state = s, !.code = d, !.open = open].skip = a.skip
          /\ [a EXCEPT !.state = s, !.code = d, !.open = open].outcome = a.outcome
        BY <1>5 DEF Job
    <1> QED BY <1>3, <1>4, <1>6, <1>7

\* start() ends what the crash interrupted and collects what is to be settled.
LEMMA RecoverKeeps ==
    ASSUME RolloutsInv, Recover
    PROVE  RolloutsInv'
    <1> DEFINE n == Len(jobs)
               m == Len(groups)
               interrupted == {j \in DOMAIN jobs : jobs[j].state \in Running}
               cut == \E j \in interrupted : Foreground(jobs, j)
    <1>1. PICK S \in SUBSET interrupted :
                jobs' = [j \in DOMAIN jobs |->
                              IF j \in interrupted THEN Interrupted(jobs[j], j \in S)
                              ELSE IF cut /\ Foreground(jobs, j) /\ jobs[j].state = "queued"
                                   THEN Stopped(jobs[j]) ELSE jobs[j]]
        BY DEF Recover
    <1>2. /\ daemon = "down" /\ daemon' = "up"
          /\ groups' = groups /\ tree' = tree /\ contents' = contents /\ declined' = declined
          /\ failing' = WithoutVerdict(jobs')
          /\ settling' = {[job |-> r, step |-> "settle"] :
                      r \in {q \in DOMAIN jobs : jobs[q].kind = "review" /\ jobs[q].outcome = "refuted"}
                            \cup {groups[g].worker : g \in ActiveIn(groups)}}
          /\ task' = IF cut THEN [task EXCEPT !.state = "unknown"] ELSE task
        BY DEF Recover
    <1>3. /\ DOMAIN jobs = 1..n
          /\ DOMAIN groups = 1..m
          /\ n \in Nat
          /\ m \in Nat
          /\ Tables(jobs, groups, contents)
          /\ Standing(jobs, groups, task)
          /\ jobs \in Seq(Job(n, m, contents))
          /\ groups \in Seq(Group(n, contents))
          /\ contents \in Nat
          /\ tree \in 0..contents
          /\ task \in TaskRows
          /\ Lineage(jobs, groups)
          /\ Progress(jobs, groups)
          /\ declined \subseteq DOMAIN jobs
          /\ Answered(jobs, groups, LeftBehind, Awaited)
        BY InvariantTables DEF RolloutsInv, TypeOK, TaskRows
    <1>4. ASSUME NEW i \in 1..n
          PROVE  /\ jobs'[i] \in Job(n, m, contents)
                 /\ Later(jobs[i], jobs'[i])
                 /\ Waits(jobs[i], jobs'[i])
                 /\ Rests(jobs[i], jobs'[i])
                 /\ jobs'[i].skip = jobs[i].skip
                 /\ jobs'[i].outcome = jobs[i].outcome
                 /\ jobs'[i].kind = "review" => jobs'[i].state = jobs[i].state \/ jobs[i].state \in Running
        <2>1. jobs[i] \in Job(n, m, contents)
            BY <1>3, ElementOfSeq
        <2>2. CASE i \in interrupted
            <3>1. PICK open \in BOOLEAN : jobs'[i] = Interrupted(jobs[i], open)
                <4>1. jobs'[i] = Interrupted(jobs[i], i \in S)
                    BY <1>1, <1>3, <2>2
                <4>2. (i \in S) = TRUE \/ (i \in S) = FALSE
                    OBVIOUS
                <4> QED BY <4>1, <4>2, Zenon
            <3>2. jobs[i].state \in Running
                BY <2>2
            <3> HIDE DEF n, m, interrupted, cut
            <3> QED BY <1>3, <2>1, <3>1, <3>2, InterruptedRow, EndRowRests
        <2>3. CASE i \notin interrupted /\ cut /\ Foreground(jobs, i) /\ jobs[i].state = "queued"
            <3>1. jobs'[i] = Stopped(jobs[i])
                BY <1>1, <1>3, <2>3
            <3>2. jobs[i].state \in Pending
                BY <2>3, States
            <3>3. jobs[i].kind # "review"
                BY <2>3 DEF Foreground
            <3> HIDE DEF n, m, interrupted, cut
            <3>4. StopRow(jobs[i], Stopped(jobs[i])) /\ Stopped(jobs[i]) \in Job(n, m, contents)
                  /\ Stopped(jobs[i]).skip = jobs[i].skip /\ Stopped(jobs[i]).outcome = jobs[i].outcome
                BY <1>3, <2>1, <3>2, StoppedRow
            <3>5. Stopped(jobs[i]).kind # "review"
                BY <3>3, <3>4 DEF StopRow
            <3> QED BY <3>1, <3>4, <3>5, StopRowRests
        <2>4. CASE i \notin interrupted /\ ~(cut /\ Foreground(jobs, i) /\ jobs[i].state = "queued")
            <3>1. jobs'[i] = jobs[i]
                BY <1>1, <1>3, <2>4
            <3> HIDE DEF m, interrupted, cut
            <3> QED BY <2>1, <3>1, SameJobs
        <2> QED BY <2>2, <2>3, <2>4
    <1>5. jobs' \in Seq(Job(n, m, contents)) /\ Len(jobs') = n /\ DOMAIN jobs' = 1..n
        <2>1. jobs' = [i \in 1..n |-> jobs'[i]]
            BY <1>1, <1>3
        <2> HIDE DEF n, m, interrupted, cut
        <2> QED BY <1>3, <1>4, <2>1, TableIsSeq
    <1>6. task' \in TaskRows /\ task'.owned = task.owned
        BY <1>2, <1>3 DEF TaskRows
    <1> HIDE DEF interrupted, cut
    <1>7. settling' \subseteq [job : DOMAIN jobs', step : {"settle", "release"}]
        <2>1. \A g \in ActiveIn(groups) : groups[g].worker \in 1..n
            BY GroupFacts DEF ActiveIn
        <2> QED BY <1>2, <1>3, <1>5, <2>1
    <1>8. TypeOK'
        <2>1. jobs' \in Seq(Job(Len(jobs'), Len(groups'), contents')) /\ groups' \in Seq(Group(Len(jobs'), contents'))
            BY <1>2, <1>3, <1>5
        <2>2. failing' \subseteq DOMAIN jobs'
            BY <1>2 DEF WithoutVerdict
        <2> QED BY <1>2, <1>3, <1>5, <1>6, <1>7, <2>1, <2>2 DEF TypeOK, TaskRows
    <1>9. Grows(jobs, jobs') /\ Tables(jobs', groups', contents')
        BY <1>3, <1>4, <1>5, <1>8, NextTables DEF Grows
    <1>10. Admitted(jobs, groups', jobs')
        BY <1>3, <1>5, NoneAdmitted
    <1>11. Turns(groups, groups') /\ Ripens(groups, groups')
        BY <1>2, SameGroups
    <1>12. Standing(jobs, groups, task)'
        BY <1>2, <1>3, <1>4, <1>6, <1>9, <1>10, <1>11, StandingRests
    <1>13. Answered(jobs, groups, LeftBehind, Awaited)'
        <2> DEFINE silent == {r \in DOMAIN jobs : jobs[r].outcome = "none"}
        <2>1. LeftBehind' = failing'
            BY <1>2 DEF LeftBehind
        <2>2. Answered(jobs, groups, silent, Awaited)
            BY <1>3 DEF Answered
        <2>3. ASSUME NEW r \in 1..n, jobs'[r].kind = "review", jobs'[r].state \in {"failed", "cancelled"}
              PROVE  \/ /\ jobs[r].state = jobs'[r].state
                        /\ jobs[r].outcome = jobs'[r].outcome
                        /\ r \in silent => r \in failing'
                     \/ jobs'[r].outcome = "none" /\ r \in failing'
            <3>1. CASE jobs'[r].outcome = "none"
                <4>1. r \in failing'
                    <5>1. jobs[r].kind = "review"
                        BY <1>4, <2>3 DEF Later
                    <5> QED BY <1>2, <1>5, <2>3, <3>1, <5>1 DEF WithoutVerdict, IsReview
                <4> QED BY <3>1, <4>1
            <3>2. CASE jobs'[r].outcome # "none"
                <4>1. jobs[r].kind = "review" /\ jobs[r].outcome # "none"
                    BY <1>4, <2>3, <3>2 DEF Later
                <4>2. jobs[r].state \notin Pending
                    BY <1>3, <4>1 DEF Progress
                <4>3. jobs[r].state = jobs'[r].state
                    BY <1>4, <2>3, <4>2, States
                <4>4. r \notin silent
                    BY <4>1
                <4> QED BY <1>4, <4>3, <4>4
            <3> QED BY <3>1, <3>2
        <2>4. ASSUME NEW r \in 1..n, jobs'[r].kind = "review", jobs'[r].outcome = "refuted"
              PROVE  r \in Awaited'
            <3>1. jobs[r].kind = "review" /\ jobs[r].outcome = "refuted"
                BY <1>4, <2>4 DEF Later
            <3>2. [job |-> r, step |-> "settle"] \in settling'
                BY <1>2, <1>3, <3>1
            <3>3. Awaited' = declined' \cup {q \in DOMAIN jobs' : [job |-> q, step |-> "settle"] \in settling'}
                BY <1>2 DEF Awaited
            <3> QED BY <1>5, <3>2, <3>3
        <2>5. \A w \in 1..n : jobs[w].skip => jobs'[w].skip
            BY <1>4
        <2> HIDE DEF silent
        <2>6. \A r \in 1..n :
                jobs'[r].kind = "review" /\ jobs'[r].state \in {"failed", "cancelled"} /\ Latest(jobs', r) =>
                    \/ jobs[r].state = jobs'[r].state /\ jobs[r].outcome = jobs'[r].outcome
                       /\ (r \in silent => r \in LeftBehind')
                    \/ jobs'[r].outcome = "none" /\ r \in LeftBehind'
                    \/ jobs'[jobs'[r].from].skip
            BY <2>1, <2>3
        <2>7. \A r \in 1..n : jobs'[r].kind = "review" /\ jobs'[r].outcome = "refuted" /\ Latest(jobs', r) =>
                r \in Awaited'
            BY <2>4
        <2> QED BY <1>3, <1>9, <1>11, <2>2, <2>5, <2>6, <2>7, AnsweredGrows
    <1>14. Failing'
        <2>1. \A i \in 1..n : jobs'[i].kind = jobs[i].kind
            BY <1>4 DEF Later
        <2> QED BY <1>2, <1>5, <2>1 DEF Failing, WithoutVerdict, IsReview
    <1> QED BY <1>8, <1>12, <1>13, <1>14, Assembled

-----------------------------------------------------------------------------
(* Settlement *)

\* What every settlement of a job shares
Settled(j) ==
    /\ daemon = "up" /\ daemon' = "up"
    /\ failing = {} /\ failing' = {}
    /\ [job |-> j, step |-> "settle"] \in settling
    /\ settling' = settling \ {[job |-> j, step |-> "settle"]}
    /\ tree' = tree
    /\ contents' = contents

\* A settled review is answered: it was not due, or it got its group or a refusal.
LEMMA SettledAnswers ==
    ASSUME RolloutsInv, TypeOK', NEW j \in DOMAIN jobs, Settled(j), declined \subseteq declined',
           Grows(jobs, jobs'), Ripens(groups, groups'),
           \A i \in 1..Len(jobs) : Silent(jobs[i], jobs'[i]),
           GroupIsDue(j) => j \in declined' \/ HasGroup(groups', j)
    PROVE  Answered(jobs, groups, LeftBehind, Awaited)'
    <1>1. /\ Tables(jobs, groups, contents)
          /\ Tables(jobs', groups', contents')
          /\ Lineage(jobs, groups)
          /\ Answered(jobs, groups, LeftBehind, Awaited)
          /\ Len(jobs) \in Nat
          /\ DOMAIN jobs = 1..Len(jobs)
          /\ Len(jobs') \in Nat
          /\ DOMAIN jobs' = 1..Len(jobs')
          /\ Len(jobs) <= Len(jobs')
        BY InvariantTables, NextTables DEF RolloutsInv, Grows
    <1>2. LeftBehind = {} /\ LeftBehind' = {}
        BY DEF LeftBehind, Settled
    <1>3. /\ Awaited = declined \cup {r \in DOMAIN jobs : [job |-> r, step |-> "settle"] \in settling}
          /\ Awaited' = declined' \cup {r \in DOMAIN jobs' : [job |-> r, step |-> "settle"] \in settling'}
        BY DEF Awaited, Settled
    <1> DEFINE waiting == {r \in Awaited : r # j \/ j \in declined \/ GroupIsDue(j)}
    <1>4. Answered(jobs, groups, LeftBehind, waiting)
        <2>1. ASSUME NEW r \in DOMAIN jobs, jobs[r].kind = "review", Latest(jobs, r),
                     jobs[r].outcome = "refuted", jobs[r].corr > 0, jobs[jobs[r].from].roll > 0,
                     ~HasGroup(groups, r), r \in Awaited
              PROVE  r \in waiting
            <3>1. CASE r # j \/ j \in declined
                BY <2>1, <3>1
            <3>2. CASE r = j /\ j \notin declined
                <4>1. LatestReview(jobs[j].from) = j
                    BY <2>1, <3>2, LatestIsLatest
                <4>2. GroupIsDue(j)
                    BY <2>1, <3>2, <4>1 DEF GroupIsDue, GroupDue, LeftToRollouts, HasGroup
                <4> QED BY <2>1, <4>2
            <3> QED BY <3>1, <3>2
        <2> HIDE DEF waiting
        <2> QED BY <1>1, <2>1 DEF Answered, HasGroup
    <1>5. \A r \in waiting : r \in 1..Len(jobs) => r \in Awaited' \/ HasGroup(groups', r)
        <2>1. ASSUME NEW r \in waiting, r \in 1..Len(jobs) PROVE r \in Awaited' \/ HasGroup(groups', r)
            <3>1. CASE r \in declined
                BY <1>3, <3>1
            <3>2. CASE r \notin declined /\ r # j
                <4>1. [job |-> r, step |-> "settle"] \in settling
                    BY <1>3, <2>1, <3>2
                <4>2. [job |-> r, step |-> "settle"] # [job |-> j, step |-> "settle"]
                    BY <3>2
                <4> QED BY <1>1, <1>3, <2>1, <4>1, <4>2 DEF Settled
            <3>3. CASE r \notin declined /\ r = j
                BY <1>3, <2>1, <3>3
            <3> QED BY <3>1, <3>2, <3>3
        <2> QED BY <2>1
    <1> HIDE DEF waiting
    <1>6. /\ \A r \in 1..Len(jobs) :
             jobs'[r].kind = "review" /\ jobs'[r].state \in {"failed", "cancelled"} /\ Latest(jobs', r) =>
                 jobs[r].state = jobs'[r].state /\ jobs[r].outcome = jobs'[r].outcome
                 /\ (r \in LeftBehind => r \in LeftBehind')
          /\ \A w \in 1..Len(jobs) : jobs[w].skip => jobs'[w].skip
          /\ \A r \in 1..Len(jobs) :
             jobs'[r].kind = "review" /\ jobs'[r].outcome = "refuted" /\ Latest(jobs', r) =>
                 jobs[r].outcome = "refuted" /\ (r \in waiting => r \in Awaited' \/ HasGroup(groups', r))
        BY <1>2, <1>5 DEF Silent
    <1> QED BY <1>1, <1>4, <1>6, AnsweredGrows

\* The rest of the settlement, once the tables are known to stand
LEMMA SettledKeeps ==
    ASSUME RolloutsInv, NEW j \in DOMAIN jobs, Settled(j), declined \subseteq declined',
           jobs' \in Seq(Job(Len(jobs'), Len(groups'), contents)),
           groups' \in Seq(Group(Len(jobs'), contents)),
           declined' \subseteq DOMAIN jobs', task' \in TaskRows,
           Grows(jobs, jobs'), Ripens(groups, groups'),
           \A i \in 1..Len(jobs) : Silent(jobs[i], jobs'[i]),
           GroupIsDue(j) => j \in declined' \/ HasGroup(groups', j),
           Standing(jobs', groups', task')
    PROVE  RolloutsInv'
    <1>1. /\ Len(jobs) \in Nat
          /\ DOMAIN jobs = 1..Len(jobs)
          /\ tree \in 0..contents
          /\ contents \in Nat
        BY InvariantTables DEF RolloutsInv, TypeOK
    <1>2. DOMAIN jobs' = 1..Len(jobs') /\ Len(jobs') \in Nat
        BY LenProperties
    <1>3. DOMAIN jobs \subseteq DOMAIN jobs'
        BY <1>1, <1>2 DEF Grows
    <1>4. settling' \subseteq [job : DOMAIN jobs', step : {"settle", "release"}]
        BY <1>3 DEF Settled, RolloutsInv, TypeOK
    <1>5. TypeOK'
        BY <1>1, <1>4 DEF Settled, TypeOK, TaskRows
    <1>6. Answered(jobs, groups, LeftBehind, Awaited)'
        BY <1>5, SettledAnswers
    <1>7. Failing'
        BY DEF Settled, Failing
    <1> QED BY <1>5, <1>6, <1>7, Assembled

\* Nothing to settle: at most the worktree of a cancelled group is given back.
LEMMA NothingSettled ==
    ASSUME RolloutsInv, NEW j \in DOMAIN jobs, Settled(j), declined' = declined,
           jobs' = jobs, groups' = groups, ~GroupIsDue(j),
           task' \in TaskRows, ActiveIn(groups) # {} /\ task.owned => task'.owned
    PROVE  RolloutsInv'
    <1>1. /\ Tables(jobs, groups, contents)
          /\ Standing(jobs, groups, task)
          /\ Len(jobs) \in Nat
          /\ DOMAIN jobs = 1..Len(jobs)
          /\ declined \subseteq DOMAIN jobs
          /\ jobs \in Seq(Job(Len(jobs), Len(groups), contents))
          /\ groups \in Seq(Group(Len(jobs), contents))
        BY InvariantTables DEF RolloutsInv, TypeOK
    <1>2. /\ Grows(jobs, jobs')
          /\ \A i \in 1..Len(jobs) : Waits(jobs[i], jobs'[i]) /\ Rests(jobs[i], jobs'[i])
          /\ \A i \in 1..Len(jobs) : Silent(jobs[i], jobs'[i])
        BY SameJobs DEF Silent
    <1>3. Admitted(jobs, groups', jobs')
        BY <1>1, NoneAdmitted
    <1>4. Tables(jobs', groups', contents)
        BY <1>1
    <1>5. Standing(jobs', groups', task')
        BY <1>1, <1>2, <1>3, <1>4, SameGroups, StandingRests
    <1> QED BY <1>1, <1>2, <1>5, SameGroups, SettledKeeps

\* The facts about a refutation that a group is due to
LEMMA DueFacts ==
    ASSUME RolloutsInv, NEW r \in DOMAIN jobs, GroupIsDue(r)
    PROVE  /\ jobs[r].kind = "review"
           /\ jobs[r].from \in 1..Len(jobs)
           /\ jobs[r].from # r
           /\ Foreground(jobs, jobs[r].from)
           /\ jobs[jobs[r].from].state = "succeeded"
           /\ jobs[r].corr = jobs[jobs[r].from].corr
           /\ jobs[r].corr \in 1..2
           /\ jobs[jobs[r].from].roll \in 1..3
           /\ ~\E g \in DOMAIN groups : groups[g].reviewer = r
    <1>1. IsReview(r) /\ jobs[r].kind = "review" /\ jobs[jobs[r].from].roll > 0 /\ jobs[r].corr > 0
        BY DEF GroupIsDue, GroupDue, IsReview, LeftToRollouts
    <1>2. /\ jobs[r].from \in 1..Len(jobs)
          /\ jobs[r].from # r
          /\ jobs[jobs[r].from].state = "succeeded"
          /\ Foreground(jobs, jobs[r].from)
          /\ jobs[r].corr = jobs[jobs[r].from].corr
        BY <1>1, ReviewFacts
    <1>3. jobs[r] \in Job(Len(jobs), Len(groups), contents)
          /\ jobs[jobs[r].from] \in Job(Len(jobs), Len(groups), contents)
        BY <1>2, InvariantTables
    <1>4. jobs[r].corr \in 0..2 /\ jobs[jobs[r].from].roll \in 0..3
        BY <1>3 DEF Job
    <1> QED BY <1>1, <1>2, <1>4 DEF GroupIsDue

\* openRolloutGroup records a refusal.
LEMMA RefuseGroupKeeps ==
    ASSUME RolloutsInv, NEW r \in DOMAIN jobs, Settled(r), GroupIsDue(r),
           declined' = declined \cup {r}, groups' = groups, task' = task,
           jobs' = [jobs EXCEPT ![jobs[r].from].skip = TRUE]
    PROVE  RolloutsInv'
    <1> DEFINE w == jobs[r].from
               x == [jobs[w] EXCEPT !.skip = TRUE]
               K == [jobs EXCEPT ![w] = x]
               n == Len(jobs)
               m == Len(groups)
    <1>1. /\ n \in Nat
          /\ m \in Nat
          /\ DOMAIN jobs = 1..n
          /\ jobs \in Seq(Job(n, m, contents))
          /\ groups \in Seq(Group(n, contents))
          /\ Tables(jobs, groups, contents)
          /\ Standing(jobs, groups, task)
          /\ task \in TaskRows
          /\ declined \subseteq DOMAIN jobs
          /\ contents \in Nat
        BY InvariantTables DEF RolloutsInv, TypeOK, TaskRows
    <1>2. w \in 1..n
        BY DueFacts
    <1>3. jobs[w] \in Job(n, m, contents)
        BY <1>1, <1>2, ElementOfSeq
    <1>4. x \in Job(n, m, contents) /\ SameRow(jobs[w], x) /\ x.skip
        BY <1>3 DEF Job, SameRow
    <1>5. jobs' = K
        OBVIOUS
    <1> HIDE DEF x, w
    <1>6. /\ jobs' \in Seq(Job(n, m, contents))
          /\ Len(jobs') = n
          /\ \A i \in 1..n : jobs'[i] = IF i = w THEN x ELSE jobs[i]
        <2>1. /\ K \in Seq(Job(n, m, contents))
              /\ Len(K) = n
              /\ \A i \in 1..n : K[i] = IF i = w THEN x ELSE jobs[i]
            BY <1>1, <1>2, <1>4, RowSet
        <2> HIDE DEF K
        <2> QED BY <1>5, <2>1
    <1> HIDE DEF K
    <1>7. ASSUME NEW i \in 1..n
          PROVE  /\ Later(jobs[i], jobs'[i])
                 /\ Waits(jobs[i], jobs'[i])
                 /\ Rests(jobs[i], jobs'[i])
                 /\ Silent(jobs[i], jobs'[i])
        <2>1. CASE i = w
            <3>1. jobs'[i] = x /\ jobs[i] = jobs[w]
                BY <1>6, <2>1
            <3>2. Silent(jobs[w], x)
                BY <1>4 DEF SameRow, Silent
            <3> QED BY <1>4, <3>1, <3>2, SameRowRests
        <2>2. CASE i # w
            <3>1. jobs'[i] = jobs[i]
                BY <1>6, <2>2
            <3>2. Silent(jobs[i], jobs[i])
                BY DEF Silent
            <3> QED BY <3>1, <3>2, SameJobs
        <2> QED BY <2>1, <2>2
    <1>8. Grows(jobs, jobs') /\ Admitted(jobs, groups', jobs') /\ Tables(jobs', groups', contents)
        <2>1. Tables(jobs', groups', contents)
            BY <1>1, <1>6 DEF Tables
        <2>2. Admitted(jobs, groups', jobs')
            BY <1>1, <1>6, NoneAdmitted
        <2>3. Grows(jobs, jobs')
            <3>1. Len(jobs) <= Len(jobs') /\ \A j \in 1..Len(jobs') : ~(j > Len(jobs))
                BY <1>1, <1>6
            <3>2. \A j \in 1..Len(jobs) : Later(jobs[j], jobs'[j])
                BY <1>7
            <3> QED BY <3>1, <3>2 DEF Grows
        <2> QED BY <2>1, <2>2, <2>3
    <1>9. Standing(jobs', groups', task')
        BY <1>1, <1>7, <1>8, SameGroups, StandingRests
    <1>10. declined' \subseteq DOMAIN jobs' /\ declined \subseteq declined' /\ r \in declined'
        BY <1>1, <1>6, LenProperties
    <1>11. /\ jobs' \in Seq(Job(Len(jobs'), Len(groups'), contents))
           /\ groups' \in Seq(Group(Len(jobs'), contents))
           /\ task' \in TaskRows
        BY <1>1, <1>6
    <1> QED BY <1>1, <1>7, <1>8, <1>9, <1>10, <1>11, SameGroups, SettledKeeps

\* Several rows of one kind are added at the end.
LEMMA JoinRows ==
    ASSUME NEW S, NEW n \in Nat, NEW J, J \in Seq(S), Len(J) = n, NEW k \in Nat, NEW x \in S,
           NEW T, T = [i \in 1..k |-> x]
    PROVE  /\ J \o T \in Seq(S)
           /\ Len(J \o T) = n + k
           /\ \A i \in 1..n : (J \o T)[i] = J[i]
           /\ \A i \in (n + 1)..(n + k) : (J \o T)[i] = x
    <1>1. T \in Seq(S) /\ Len(T) = k
        <2>1. T = [i \in 1..k |-> T[i]] /\ \A i \in 1..k : T[i] \in S
            OBVIOUS
        <2> QED BY <2>1, TableIsSeq
    <1>2. \A i \in 1..k : T[i] = x
        OBVIOUS
    <1>3. J \o T \in Seq(S) /\ Len(J \o T) = n + k
        BY <1>1, ConcatProperties
    <1>4. \A i \in 1..(n + k) : (J \o T)[i] = IF i <= n THEN J[i] ELSE T[i - n]
        BY <1>1, ConcatProperties
    <1>5. \A i \in (n + 1)..(n + k) : i - n \in 1..k /\ ~(i <= n) /\ i \in 1..(n + k)
        OBVIOUS
    <1>6. \A i \in 1..n : i <= n /\ i \in 1..(n + k)
        OBVIOUS
    <1>7. /\ \A i \in 1..n : (J \o T)[i] = J[i]
          /\ \A i \in (n + 1)..(n + k) : (J \o T)[i] = x
        BY <1>2, <1>4, <1>5, <1>6
    <1> QED BY <1>3, <1>7

\* Admits: no foreground job of the task waits or runs, and none came after the worker.
LEMMA NobodyWaits ==
    ASSUME RolloutsInv, NEW w \in 1..Len(jobs), Foreground(jobs, w), jobs[w].state = "succeeded", Admits(w)
    PROVE  /\ \A i \in 1..Len(jobs) : Foreground(jobs, i) => jobs[i].state \notin Pending
           /\ \A i \in 1..Len(jobs) : Foreground(jobs, i) => i <= w
           /\ ActiveIn(groups) = {}
    <1>1. DOMAIN jobs = 1..Len(jobs) /\ Len(jobs) \in Nat /\ InOrder(jobs)
        BY InvariantTables DEF RolloutsInv
    <1>2. \A i \in 1..Len(jobs) : Foreground(jobs, i) => i <= w
        BY <1>1 DEF Admits, LaterWorkJob
    <1>3. ASSUME NEW i \in 1..Len(jobs), Foreground(jobs, i) PROVE jobs[i].state \notin Pending
        <2>1. jobs[i].state \notin Running
            BY <1>1, <1>3 DEF Admits, Unresolved
        <2>2. jobs[i].state # "queued"
            <3>1. CASE i = w
                BY <3>1
            <3>2. CASE i < w
                BY <1>1, <1>3, <3>2 DEF InOrder
            <3> QED BY <1>2, <1>3, <3>1, <3>2
        <2> QED BY <2>1, <2>2 DEF Pending
    <1> QED BY <1>2, <1>3 DEF Admits

\* The rows a group opens with
OpeningCandidate(w, g, corr, rung) ==
    [Blank EXCEPT !.kind = "rollout_candidate", !.from = w, !.group = g, !.corr = corr - 1, !.rung = rung]
OpeningGroup(w, r, corr, t) ==
    [state |-> "running", worker |-> w, reviewer |-> r, winner |-> NoJob, promotion |-> NoJob,
     budget |-> corr, spent |-> 0, base |-> t]

Opens(x, y, n, g, c, w) ==
    /\ x \in Job(n, g, c)
    /\ y \in Group(n, c)
    /\ x.kind = "rollout_candidate" /\ x.from = w /\ x.group = g
    /\ x.base = 0 /\ x.state = "queued" /\ x.outcome = "none"

\* The rows of a new group and of its candidates.
LEMMA OpeningRows ==
    ASSUME NEW n \in Nat, NEW m \in Nat, NEW c \in Nat, NEW k \in Nat,
           NEW w \in 1..n, NEW r \in 1..n, NEW corr \in 1..2, NEW u \in 1..Rungs, NEW t \in 0..c,
           NEW x, x = OpeningCandidate(w, m + 1, corr, u),
           NEW y, y = OpeningGroup(w, r, corr, t)
    PROVE  Opens(x, y, n + k, m + 1, c, w)
    <1>2. "rollout_candidate" \in Kinds
        BY DEF Kinds
    <1>3. w \in 0..(n + k) /\ m + 1 \in 0..(m + 1) /\ corr - 1 \in 0..2 /\ n + k \in Nat /\ m + 1 \in Nat
        OBVIOUS
    <1>4. Blank \in Job(n + k, m + 1, c)
        BY <1>3, BlankIsJob
    <1> DEFINE N == n + k
               M == m + 1
               q == corr - 1
    <1>5. x = [Blank EXCEPT !.kind = "rollout_candidate", !.from = w, !.group = M, !.corr = q, !.rung = u]
        BY DEF OpeningCandidate
    <1>6. w \in 0..N /\ M \in 0..M /\ q \in 0..2 /\ u \in 1..Rungs /\ Blank \in Job(N, M, c)
        BY <1>3, <1>4
    <1>7. w \in 1..N /\ r \in 1..N /\ 0 \in 0..N /\ corr \in 1..2 /\ 0 \in 0..2 /\ t \in 0..c
        OBVIOUS
    <1> HIDE DEF N, M, q
    <1>8. x \in Job(N, M, c)
        <2> DEFINE x1 == [Blank EXCEPT !.kind = "rollout_candidate"]
                   x2 == [x1 EXCEPT !.from = w]
                   x3 == [x2 EXCEPT !.group = M]
                   x4 == [x3 EXCEPT !.corr = q]
                   x5 == [x4 EXCEPT !.rung = u]
        <2>1. x = x5
            BY <1>5
        <2>2. x1 \in Job(N, M, c)
            BY <1>2, <1>6 DEF Job
        <2> HIDE DEF x1
        <2>3. x2 \in Job(N, M, c)
            BY <1>6, <2>2 DEF Job
        <2> HIDE DEF x2
        <2>4. x3 \in Job(N, M, c)
            BY <1>6, <2>3 DEF Job
        <2> HIDE DEF x3
        <2>5. x4 \in Job(N, M, c)
            BY <1>6, <2>4 DEF Job
        <2> HIDE DEF x4
        <2>6. x5 \in Job(N, M, c)
            BY <1>6, <2>5 DEF Job
        <2> QED BY <2>1, <2>6
    <1>9. /\ x.kind = "rollout_candidate" /\ x.from = w /\ x.group = M
          /\ x.base = 0 /\ x.state = "queued" /\ x.outcome = "none"
        BY <1>5 DEF Blank
    <1>10. y \in Group(N, c)
        <2>1. "running" \in ActiveGroup \cup {"promoted", "exhausted", "failed", "stale", "cancelled"}
            BY DEF ActiveGroup
        <2>2. NoJob \in 0..N
            BY <1>7 DEF NoJob
        <2> QED BY <1>7, <2>1, <2>2 DEF Group, OpeningGroup
    <1> QED BY <1>8, <1>9, <1>10 DEF N, M, Opens

\* The group and its candidates are admitted in one transaction.
LEMMA AdmitGroupKeeps ==
    ASSUME RolloutsInv, NEW r \in DOMAIN jobs, Settled(r), GroupIsDue(r),
           NEW w, w = jobs[r].from, Admits(w), NEW k \in Nat,
           NEW x, x = [Blank EXCEPT !.kind = "rollout_candidate", !.from = w, !.group = Len(groups) + 1,
                                    !.corr = jobs[r].corr - 1, !.rung = jobs[w].rung],
           NEW y, y = [state |-> "running", worker |-> w, reviewer |-> r,
                       winner |-> NoJob, promotion |-> NoJob,
                       budget |-> jobs[r].corr, spent |-> 0, base |-> tree],
           jobs' = jobs \o [i \in 1..k |-> x], groups' = Append(groups, y),
           declined' = declined, task' = [task EXCEPT !.state = "working", !.owned = TRUE]
    PROVE  RolloutsInv'
    <1> DEFINE n == Len(jobs)
               m == Len(groups)
    <1>1. /\ n \in Nat
          /\ m \in Nat
          /\ DOMAIN jobs = 1..n
          /\ DOMAIN groups = 1..m
          /\ jobs \in Seq(Job(n, m, contents))
          /\ groups \in Seq(Group(n, contents))
          /\ Tables(jobs, groups, contents)
          /\ Standing(jobs, groups, task)
          /\ task \in TaskRows
          /\ declined \subseteq DOMAIN jobs
          /\ contents \in Nat
          /\ tree \in 0..contents
        BY InvariantTables DEF RolloutsInv, TypeOK, TaskRows
    <1>2. /\ jobs[r].kind = "review"
          /\ w \in 1..n
          /\ Foreground(jobs, w)
          /\ jobs[w].state = "succeeded"
          /\ jobs[r].corr = jobs[w].corr
          /\ jobs[r].corr \in 1..2
          /\ jobs[w].roll \in 1..3
          /\ \A g \in DOMAIN groups : groups[g].reviewer # r
        BY DueFacts
    <1>3. /\ \A i \in 1..n : Foreground(jobs, i) => jobs[i].state \notin Pending
          /\ \A i \in 1..n : Foreground(jobs, i) => i <= w
          /\ ActiveIn(groups) = {}
        BY <1>2, NobodyWaits
    <1>4. /\ x \in Job(n + k, m + 1, contents)
          /\ y \in Group(n + k, contents)
          /\ x.kind = "rollout_candidate" /\ x.from = w /\ x.group = m + 1
          /\ x.base = 0 /\ x.state = "queued" /\ x.outcome = "none"
        <2>1. jobs[r] \in Job(n, m, contents) /\ jobs[w] \in Job(n, m, contents)
            BY <1>1, <1>2, ElementOfSeq
        <2> HIDE DEF n, m
        <2>2. r \in 1..n
            BY <1>1
        <2>3. x = OpeningCandidate(w, m + 1, jobs[r].corr, jobs[w].rung)
            BY DEF m, OpeningCandidate
        <2>4. y = OpeningGroup(w, r, jobs[r].corr, tree)
            BY DEF OpeningGroup
        <2>5. jobs[w].rung \in 1..Rungs
            BY <2>1 DEF Job
        <2>6. Opens(x, y, n + k, m + 1, contents, w)
            <3> DEFINE corr == jobs[r].corr
                       u == jobs[w].rung
            <3>1. /\ n \in Nat /\ m \in Nat /\ contents \in Nat /\ k \in Nat
                  /\ w \in 1..n /\ r \in 1..n /\ corr \in 1..2 /\ u \in 1..Rungs /\ tree \in 0..contents
                  /\ x = OpeningCandidate(w, m + 1, corr, u)
                  /\ y = OpeningGroup(w, r, corr, tree)
                BY <1>1, <1>2, <2>2, <2>3, <2>4, <2>5
            <3> HIDE DEF corr, u
            <3> QED BY ONLY <3>1, OpeningRows
        <2> QED BY <2>6 DEF Opens
    <1>5. y.state = "running" /\ y.worker = w /\ y.reviewer = r /\ y.promotion = NoJob /\ y.winner = NoJob
        OBVIOUS
    <1>6. /\ jobs \in Seq(Job(n + k, m + 1, contents))
          /\ groups \in Seq(Group(n + k, contents))
        <2>1. n + k \in Nat /\ m + 1 \in Nat /\ n <= n + k /\ m <= m + 1 /\ contents <= contents
            BY <1>1
        <2> QED BY <1>1, <2>1, TablesWiden
    <1> DEFINE N == n + k
               M == m + 1
    <1>7. /\ jobs' \in Seq(Job(N, M, contents))
          /\ Len(jobs') = N
          /\ \A i \in 1..n : jobs'[i] = jobs[i]
          /\ \A i \in (n + 1)..N : jobs'[i] = x
        <2> DEFINE S == Job(N, M, contents)
                   T == [i \in 1..k |-> x]
                   L == jobs \o T
        <2>1. x \in S /\ jobs \in Seq(S) /\ Len(jobs) = n /\ n \in Nat
            BY <1>1, <1>4, <1>6
        <2>2. jobs' = L
            OBVIOUS
        <2>4. T = [i \in 1..k |-> x]
            OBVIOUS
        <2> HIDE DEF S, n, T
        <2>3. /\ L \in Seq(S)
              /\ Len(L) = n + k
              /\ \A i \in 1..n : L[i] = jobs[i]
              /\ \A i \in (n + 1)..(n + k) : L[i] = x
            <3>1. n \in Nat /\ jobs \in Seq(S) /\ Len(jobs) = n /\ k \in Nat /\ x \in S /\ T = [i \in 1..k |-> x]
                BY <2>1, <2>4
            <3> QED BY ONLY <3>1, JoinRows
        <2> HIDE DEF L
        <2> QED BY <2>2, <2>3 DEF S
    <1>8. /\ groups' \in Seq(Group(N, contents))
          /\ Len(groups') = M
          /\ \A i \in 1..m : groups'[i] = groups[i]
          /\ groups'[m + 1] = y
        <2> DEFINE S == Group(N, contents)
                   L == Append(groups, y)
        <2>1. y \in S /\ groups \in Seq(S) /\ Len(groups) = m /\ m \in Nat
            BY <1>1, <1>4, <1>6
        <2>2. groups' = L
            OBVIOUS
        <2> HIDE DEF S, m
        <2>3. /\ L \in Seq(S)
              /\ Len(L) = m + 1
              /\ \A i \in 1..m : L[i] = groups[i]
              /\ L[m + 1] = y
            BY <2>1, AppendRow
        <2> HIDE DEF L
        <2> QED BY <2>2, <2>3 DEF S
    <1> HIDE DEF N, M
    <1>9. N \in Nat /\ M \in Nat /\ n <= N /\ m <= M /\ M = m + 1
          /\ DOMAIN jobs' = 1..N /\ DOMAIN groups' = 1..M
          /\ (\A i \in 1..N : i <= n \/ i \in (n + 1)..N)
          /\ (\A i \in 1..M : i <= m \/ i = M)
          /\ Len(jobs) = n /\ Len(groups) = m /\ M # NoGroup /\ M \notin 1..m
        BY <1>1, <1>7, <1>8, LenProperties DEF N, M, NoGroup
    <1> HIDE DEF n, m
    <1>10. /\ \A i \in 1..N : i \in 1..n \/ (i > n /\ jobs'[i] = x)
           /\ \A i \in 1..n : i \in 1..N /\ jobs'[i] = jobs[i]
           /\ \A i \in 1..N : i > n => jobs'[i] = x
           /\ \A g \in 1..M : g \in 1..m \/ g = M
           /\ \A g \in 1..m : g \in 1..M /\ groups'[g] = groups[g]
           /\ groups'[M] = y
           /\ M \in 1..M
           /\ \A g \in 1..M : g > m => g = M
        <2>1. /\ n \in Nat /\ m \in Nat /\ N \in Nat /\ M \in Nat /\ n <= N /\ m <= M /\ M = m + 1
              /\ \A i \in 1..N : i <= n \/ i \in (n + 1)..N
              /\ \A i \in 1..M : i <= m \/ i = M
            BY <1>1, <1>9
        <2>2. /\ \A i \in 1..N : i \in 1..n \/ (i > n /\ i \in (n + 1)..N)
              /\ \A i \in 1..N : i > n => i \in (n + 1)..N
              /\ \A i \in 1..n : i \in 1..N
              /\ \A g \in 1..M : g \in 1..m \/ g = M
              /\ \A g \in 1..m : g \in 1..M
              /\ M \in 1..M
              /\ \A g \in 1..M : g > m => g = M
            BY ONLY <2>1
        <2>3. groups'[M] = y
            BY <1>8, <1>9
        <2> QED BY ONLY <1>7, <1>8, <2>2, <2>3
    <1>11. Tables(jobs', groups', contents)
        BY <1>1, <1>7, <1>8 DEF Tables
    <1>12. Grows(jobs, jobs')
        <2>1. \A i \in 1..n : Later(jobs[i], jobs'[i])
            BY <1>1, <1>9, <1>10, SameJobs
        <2> QED BY <1>4, <1>7, <1>9, <1>10, <2>1 DEF Grows
    <1>13. Ripens(groups, groups')
        BY <1>8, <1>9, <1>10 DEF Ripens
    <1>14. Lineage(jobs', groups')
        <2>1. ASSUME NEW j \in 1..N, j > n PROVE Descends(jobs', groups', j)
            <3>1. jobs'[j] = x
                BY <1>10, <2>1
            <3>2. w < j
                BY <1>1, <1>2, <2>1
            <3> QED BY <1>4, <1>9, <3>1, <3>2 DEF Descends
        <2>2. ASSUME NEW g \in 1..M,
                     g > m \/ groups'[g].promotion # groups[g].promotion \/ groups'[g].state # groups[g].state
              PROVE  Answers(jobs', groups', g)
            <3>1. g = M
                BY <1>10, <2>2
            <3>2. groups'[g] = y /\ jobs'[w] = jobs[w] /\ jobs'[r] = jobs[r]
                BY <1>1, <1>2, <1>10, <3>1
            <3>3. Foreground(jobs', w)
                BY <1>2, <3>2 DEF Foreground
            <3>4. jobs'[w].corr > 0 /\ jobs'[w].roll > 0
                <4>1. jobs'[w] = jobs[w] /\ jobs[w].corr \in 1..2 /\ jobs[w].roll \in 1..3
                    BY <1>2, <3>2
                <4> QED BY ONLY <4>1
            <3>5. y.state # "promoting"
                BY <1>5
            <3> QED BY <1>2, <1>5, <3>2, <3>3, <3>4, <3>5 DEF Answers, NoJob
        <2> QED BY <1>1, <1>7, <1>8, <1>9, <1>11, <1>12, <1>13, <2>1, <2>2, LineageGrows DEF Standing
    <1>15. Progress(jobs', groups')
        <2>1. ASSUME NEW p \in 1..n, jobs'[p].kind = "promotion" PROVE Promotes(jobs', groups', p)
            <3>1. jobs'[p] = jobs[p]
                BY <1>10
            <3>2. /\ jobs[p].group \in 1..m
                  /\ jobs[p].from \in 1..n
                  /\ Promotes(jobs, groups, p)
                BY <1>1, <1>9, <2>1, <3>1, PromotionFacts
            <3>3. groups'[jobs[p].group] = groups[jobs[p].group] /\ jobs'[jobs[p].from] = jobs[jobs[p].from]
                BY <1>10, <3>2
            <3> QED BY <3>1, <3>2, <3>3 DEF Promotes
        <2>2. ASSUME NEW q \in 1..N, q > n
              PROVE  jobs'[q].kind = "rollout_candidate"
            BY <1>4, <1>10, <2>2
        <2> QED BY <1>1, <1>7, <1>9, <1>11, <1>12, <1>14, <2>1, <2>2, ProgressGrows DEF Standing
    <1>16. InOrder(jobs')
        <2>1. \A i \in 1..n : Waits(jobs[i], jobs'[i])
            BY <1>9, <1>10, SameJobs
        <2> QED BY <1>1, <1>9, <1>11, <1>12, <2>1, InOrderGrows DEF Standing
    <1>17. Reserved(jobs', groups', task')
        <2>1. ActiveIn(groups') = {M}
            <3>1. \A g \in 1..m : groups[g].state \notin ActiveGroup
                BY <1>1, <1>3 DEF ActiveIn
            <3>2. y.state \in ActiveGroup
                BY <1>5 DEF ActiveGroup
            <3> QED BY <1>9, <1>10, <3>1, <3>2 DEF ActiveIn
        <2>2. task'.owned
            BY <1>1 DEF TaskRows
        <2>3. ASSUME NEW i \in 1..N, Foreground(jobs', i)
              PROVE  i \in 1..n /\ Foreground(jobs, i) /\ jobs'[i] = jobs[i]
            <3>1. i \in 1..n
                BY <1>4, <1>10, <2>3 DEF Foreground
            <3> QED BY <1>10, <2>3, <3>1 DEF Foreground
        <2>4. groups'[M].worker = w
            BY <1>5, <1>10
        <2>5. \A i \in 1..N : Foreground(jobs', i) => jobs'[i].state \notin Pending
            BY <1>3, <1>9, <2>3
        <2>6. \A i \in 1..N : Foreground(jobs', i) => ~(i > w)
            <3>1. n \in Nat /\ N \in Nat /\ w \in 1..n
                BY <1>1, <1>2, <1>9
            <3>2. \A i \in 1..N : Foreground(jobs', i) => i <= w
                BY <1>3, <2>3
            <3> QED BY ONLY <3>1, <3>2
        <2> QED BY <1>9, <2>1, <2>2, <2>4, <2>5, <2>6 DEF Reserved
    <1>18. AnsweredInTurn(jobs', groups')
        <2>1. ASSUME NEW g \in 1..M, NEW h \in 1..M, g > m, groups'[g].reviewer = groups'[h].reviewer
              PROVE  g = h
            <3>1. g = M /\ groups'[h].reviewer = r
                <4>1. g = M
                    BY <1>10, <2>1
                <4>2. groups'[M] = y /\ y.reviewer = r
                    BY <1>5, <1>10
                <4> QED BY ONLY <2>1, <4>1, <4>2
            <3>2. h \notin 1..m
                BY <1>1, <1>2, <1>10, <3>1
            <3> QED BY <1>10, <3>1, <3>2
        <2>2. \A i \in 1..N : i > n => jobs'[i].kind = "rollout_candidate"
            BY <1>4, <1>10
        <2> QED BY <1>1, <1>7, <1>8, <1>9, <1>11, <1>12, <1>13, <2>1, <2>2, AnsweredInTurnGrows DEF Standing
    <1>19. Standing(jobs', groups', task')
        BY <1>14, <1>15, <1>16, <1>17, <1>18 DEF Standing
    <1>20. \A i \in 1..n : Silent(jobs[i], jobs'[i])
        BY <1>10 DEF Silent
    <1>21. HasGroup(groups', r)
        BY <1>5, <1>9, <1>10 DEF HasGroup
    <1>22. task' \in TaskRows
        BY <1>1 DEF TaskRows
    <1>23. declined' \subseteq DOMAIN jobs' /\ declined \subseteq declined'
        BY <1>1, <1>9, <1>10
    <1>24. jobs' \in Seq(Job(Len(jobs'), Len(groups'), contents)) /\ groups' \in Seq(Group(Len(jobs'), contents))
        BY <1>7, <1>8
    <1> QED BY <1>9, <1>12, <1>13, <1>19, <1>20, <1>21, <1>22, <1>23, <1>24, SettledKeeps

-----------------------------------------------------------------------------
(* Groups are settled *)

\* A settlement only marks places: each row is the one it was.
Marked(J) ==
    /\ J \in Seq(Job(Len(jobs), Len(groups), contents))
    /\ Len(J) = Len(jobs)
    /\ \A i \in 1..Len(jobs) : SameRow(jobs[i], J[i]) /\ (jobs[i].skip => J[i].skip)

\* A table that is only marked adds nothing to prove.
LEMMA MarkedRests ==
    ASSUME RolloutsInv, NEW J, Marked(J), NEW i \in 1..Len(jobs)
    PROVE  /\ Later(jobs[i], J[i])
           /\ Waits(jobs[i], J[i])
           /\ Rests(jobs[i], J[i])
           /\ Silent(jobs[i], J[i])
           /\ J[i].kind = jobs[i].kind
    <1>1. SameRow(jobs[i], J[i]) /\ (jobs[i].skip => J[i].skip)
        BY DEF Marked
    <1> QED BY <1>1, SameRowRests DEF SameRow, Silent

\* A row that gets its place in the group stays the same job.
LEMMA PlaceRow ==
    ASSUME NEW n \in Nat, NEW m \in Nat, NEW c \in Nat, NEW a \in Job(n, m, c), NEW p \in Places
    PROVE  LET b == [a EXCEPT !.place = p]
           IN  b \in Job(n, m, c) /\ SameRow(a, b) /\ b.skip = a.skip
    BY DEF Job, SameRow

\* Pruning marks candidates that failed.
LEMMA PrunedIsMarked ==
    ASSUME RolloutsInv, NEW g
    PROVE  Marked(Pruned(g)) /\ Pruned(g) = [i \in 1..Len(jobs) |-> Pruned(g)[i]]
    <1> DEFINE J == Pruned(g)
               n == Len(jobs)
               m == Len(groups)
    <1>1. /\ n \in Nat /\ m \in Nat /\ contents \in Nat
          /\ DOMAIN jobs = 1..n
          /\ \A i \in 1..n : jobs[i] \in Job(n, m, contents)
        BY InvariantTables
    <1>2. J = [i \in 1..n |-> J[i]]
        BY <1>1 DEF Pruned
    <1>3. ASSUME NEW i \in 1..n
          PROVE  J[i] \in Job(n, m, contents) /\ SameRow(jobs[i], J[i]) /\ J[i].skip = jobs[i].skip
        <2>1. J[i] = jobs[i] \/ J[i] = [jobs[i] EXCEPT !.place = "failed"]
            BY <1>1 DEF Pruned
        <2>2. "failed" \in Places
            BY States
        <2>3. jobs[i] \in Job(n, m, contents) /\ SameRow(jobs[i], jobs[i])
            BY <1>1 DEF SameRow
        <2> DEFINE b == [jobs[i] EXCEPT !.place = "failed"]
        <2> HIDE DEF n, m, J
        <2>4. b \in Job(n, m, contents) /\ SameRow(jobs[i], b) /\ b.skip = jobs[i].skip
            BY <1>1, <2>2, <2>3, PlaceRow
        <2> QED BY <2>1, <2>3, <2>4
    <1> HIDE DEF J
    <1>4. J \in Seq(Job(n, m, contents)) /\ Len(J) = n
        <2> HIDE DEF n, m
        <2> QED BY <1>1, <1>2, <1>3, TableIsSeq
    <1>5. Marked(J)
        BY <1>3, <1>4 DEF Marked
    <1> QED BY <1>2, <1>5 DEF J

\* Judging marks candidates that were not approved.
LEMMA JudgedIsMarked ==
    ASSUME RolloutsInv, NEW J, Marked(J), NEW g
    PROVE  /\ Marked(Judged(J, g))
           /\ \A c \in 1..Len(jobs) : Judged(J, g)[c].place = "none" =>
                ~\E r \in MembersOfKind(g, "rollout_review") : jobs[r].from = c
    <1> DEFINE K == Judged(J, g)
               n == Len(jobs)
               m == Len(groups)
               judged(i) == \E r \in MembersOfKind(g, "rollout_review") : jobs[r].from = i
    <1>1. /\ n \in Nat /\ m \in Nat /\ contents \in Nat
          /\ J \in Seq(Job(n, m, contents)) /\ Len(J) = n /\ DOMAIN J = 1..n
          /\ \A i \in 1..n : SameRow(jobs[i], J[i]) /\ (jobs[i].skip => J[i].skip)
        BY InvariantTables, LenProperties DEF Marked
    <1>2. K = [i \in 1..n |-> IF J[i].place = "none" /\ judged(i)
                              THEN [J[i] EXCEPT !.place = "exhausted"] ELSE J[i]]
        BY <1>1 DEF Judged
    <1>3. ASSUME NEW i \in 1..n
          PROVE  /\ K[i] \in Job(n, m, contents) /\ SameRow(jobs[i], K[i]) /\ (jobs[i].skip => K[i].skip)
                 /\ K[i].place = "none" => ~judged(i)
        <2> DEFINE b == [J[i] EXCEPT !.place = "exhausted"]
        <2>1. J[i] \in Job(n, m, contents)
            BY <1>1, ElementOfSeq
        <2>2. b \in Job(n, m, contents) /\ SameRow(J[i], b) /\ b.skip = J[i].skip /\ b.place = "exhausted"
            <3>1. "exhausted" \in Places
                BY States
            <3>2. b.place = "exhausted"
                BY <2>1 DEF Job
            <3> HIDE DEF n, m
            <3> QED BY <1>1, <2>1, <3>1, <3>2, PlaceRow
        <2>3. CASE J[i].place = "none" /\ judged(i)
            <3>1. K[i] = b
                BY <1>2, <2>3
            <3> HIDE DEF b, K, judged
            <3> QED BY <1>1, <2>2, <3>1 DEF SameRow
        <2>4. CASE ~(J[i].place = "none" /\ judged(i))
            <3>1. K[i] = J[i]
                BY <1>2, <2>4
            <3> HIDE DEF b, K, judged
            <3> QED BY <1>1, <2>1, <2>4, <3>1
        <2> QED BY <2>3, <2>4
    <1>4. K = [i \in 1..n |-> K[i]]
        BY <1>2
    <1> HIDE DEF K
    <1>5. K \in Seq(Job(n, m, contents)) /\ Len(K) = n
        <2> HIDE DEF n, m
        <2> QED BY <1>1, <1>3, <1>4, TableIsSeq
    <1>6. Marked(K)
        BY <1>3, <1>5 DEF Marked
    <1>7. \A c \in 1..n : K[c].place = "none" => ~judged(c)
        BY <1>3
    <1> QED BY <1>6, <1>7 DEF K

\* finishRollout: the worker says that its review was skipped, and an exhausted group
\* may hand over to the ladder.
LEMMA FinishKeeps ==
    ASSUME RolloutsInv, NEW j \in DOMAIN jobs, Settled(j), ~GroupIsDue(j), declined' = declined,
           NEW g \in DOMAIN groups, groups[g].state \in ActiveGroup,
           groups[g].promotion # NoJob => jobs[groups[g].promotion].state \in {"failed", "cancelled"},
           NEW J, Marked(J), NEW s \in {"exhausted", "failed", "stale"}, NEW open,
           FinishRollout(J, g, s, open)
    PROVE  RolloutsInv'
    <1> DEFINE n == Len(jobs)
               m == Len(groups)
               w == groups[g].worker
               x == [J[w] EXCEPT !.skip = TRUE]
               K == [J EXCEPT ![w] = x]
    <1>1. /\ n \in Nat
          /\ m \in Nat
          /\ DOMAIN jobs = 1..n
          /\ DOMAIN groups = 1..m
          /\ Tables(jobs, groups, contents)
          /\ Standing(jobs, groups, task)
          /\ Lineage(jobs, groups)
          /\ task \in TaskRows
          /\ declined \subseteq DOMAIN jobs
          /\ contents \in Nat
        BY InvariantTables DEF RolloutsInv, TypeOK, TaskRows
    <1>2. w \in 1..n /\ Foreground(jobs, w)
        BY <1>1, GroupFacts
    <1>3. /\ J \in Seq(Job(n, m, contents))
          /\ Len(J) = n
          /\ \A i \in 1..n : SameRow(jobs[i], J[i]) /\ (jobs[i].skip => J[i].skip)
        BY DEF Marked
    <1>4. /\ groups' = [groups EXCEPT ![g].state = s]
          /\ jobs' = IF s = "exhausted" THEN LadderAfterFailure(K, w, open) ELSE K
          /\ task' = Queued(task) \/ task' = TaskIn("blocked", jobs', groups')
        <2>1. [J EXCEPT ![w].skip = TRUE] = K
            OBVIOUS
        <2>2. /\ groups' = [groups EXCEPT ![g].state = s]
              /\ jobs' = IF s = "exhausted" THEN LadderAfterFailure([J EXCEPT ![w].skip = TRUE], w, open)
                         ELSE [J EXCEPT ![w].skip = TRUE]
              /\ task' = Queued(task) \/ task' = TaskIn("blocked", jobs', groups')
            BY DEF FinishRollout
        <2> HIDE DEF K, x, w
        <2> QED BY <2>1, <2>2
    <1>5. /\ groups' \in Seq(Group(n, contents))
          /\ Len(groups') = m
          /\ Turns(groups, groups')
          /\ Ripens(groups, groups')
          /\ ActiveIn(groups) = {g}
          /\ ActiveIn(groups') = {}
          /\ \A h \in DOMAIN groups : groups[h].state \in ActiveGroup => h = g
        BY <1>4, GroupEnds
    <1>6. x \in Job(n, m, contents) /\ SameRow(J[w], x) /\ x.skip
        <2>1. J[w] \in Job(n, m, contents)
            BY <1>2, <1>3, ElementOfSeq
        <2> QED BY <2>1 DEF Job, SameRow
    <1> HIDE DEF w, x
    <1>7. /\ K \in Seq(Job(n, m, contents))
          /\ Len(K) = n
          /\ \A i \in 1..n : K[i] = IF i = w THEN x ELSE J[i]
        <2> HIDE DEF n, m
        <2> QED BY ONLY <1>2, <1>3, <1>6, RowSet
    <1> HIDE DEF K
    <1>8. \A i \in 1..n : SameRow(jobs[i], K[i]) /\ (jobs[i].skip => K[i].skip)
        <2>1. ASSUME NEW i \in 1..n PROVE SameRow(jobs[i], K[i]) /\ (jobs[i].skip => K[i].skip)
            <3>1. CASE i = w
                BY <1>3, <1>6, <1>7, <3>1 DEF SameRow
            <3>2. CASE i # w
                BY <1>3, <1>7, <3>2
            <3> QED BY <3>1, <3>2
        <2> QED BY <2>1
    <1>9. Marked(K)
        BY <1>7, <1>8 DEF Marked
    <1>10. \/ Laddered(K, w, n, m, contents, jobs')
           \/ jobs' = K
        <2>1. Laddered(K, w, n, m, contents, LadderAfterFailure(K, w, open))
            <3> HIDE DEF n, m
            <3> QED BY <1>1, <1>2, <1>7, LadderAdds
        <2> QED BY <1>4, <2>1
    <1>11. /\ jobs' \in Seq(Job(Len(jobs'), m, contents))
           /\ Len(jobs') \in n..(n + 1)
           /\ \A i \in 1..n : jobs'[i] = K[i]
           /\ Len(jobs') > n =>
                /\ Escalates(K, w)
                /\ jobs'[n + 1].kind = "foreground"
                /\ jobs'[n + 1].state = "queued"
                /\ jobs'[n + 1].outcome = "none"
                /\ jobs'[n + 1].from = w
                /\ jobs'[n + 1].group = NoGroup
        <2>1. CASE jobs' = K
            BY <1>1, <1>7, <2>1
        <2>2. CASE Laddered(K, w, n, m, contents, jobs')
            BY <2>2 DEF Laddered
        <2> QED BY <1>10, <2>1, <2>2
    <1>12. /\ Len(jobs') \in Nat
           /\ Len(jobs') = n \/ Len(jobs') = n + 1
           /\ n <= Len(jobs') /\ Len(jobs') <= n + 1
           /\ DOMAIN jobs' = 1..Len(jobs')
           /\ DOMAIN jobs \subseteq DOMAIN jobs'
        BY <1>1, <1>11, LenProperties
    <1>13. \A i \in 1..n : /\ Later(jobs[i], jobs'[i])
                           /\ Waits(jobs[i], jobs'[i])
                           /\ Rests(jobs[i], jobs'[i])
                           /\ Silent(jobs[i], jobs'[i])
                           /\ K[i].kind = jobs[i].kind
        BY <1>9, <1>11, MarkedRests
    <1>14. Grows(jobs, jobs')
        <2>1. Len(jobs') > Len(jobs) => jobs'[Len(jobs')].state = "queued" /\ jobs'[Len(jobs')].outcome = "none"
            <3>1. CASE Len(jobs') = n
                BY <1>1, <3>1
            <3>2. CASE Len(jobs') = n + 1
                <4>1. Len(jobs') > n
                    BY <1>1, <3>2
                <4> QED BY <1>11, <3>2, <4>1
            <3> QED BY <1>12, <3>1, <3>2
        <2> QED BY <1>1, <1>12, <1>13, <2>1, AppendGrows
    <1>15. /\ jobs' \in Seq(Job(Len(jobs'), Len(groups'), contents))
           /\ groups' \in Seq(Group(Len(jobs'), contents))
        <2>1. Tables(jobs, groups', contents)
            <3>1. Len(groups') = m
                BY <1>5
            <3> QED BY <1>1, <1>5, <3>1 DEF Tables
        <2>2. Len(groups') \in Nat /\ Len(groups') <= m /\ contents <= contents
            BY <1>1, <1>5
        <2>3. groups' \in Seq(Group(Len(jobs'), contents))
            BY <1>1, <1>12, <2>1, <2>2, TablesWiden
        <2> QED BY <1>5, <1>11, <2>3
    <1>16. Admitted(jobs, groups', jobs')
        <2>1. CASE Len(jobs') = n
            BY <1>1, <2>1, NoneAdmitted
        <2>2. CASE Len(jobs') = n + 1
            <3>1. Len(jobs') > n
                BY <1>1, <2>2
            <3>2. ~\E i \in DOMAIN K : i > w /\ Foreground(K, i)
                BY <1>11, <3>1 DEF Escalates, FailedForCapability
            <3>3. \A i \in 1..n : Foreground(jobs, i) => i <= w
                <4>1. DOMAIN K = 1..n
                    BY <1>7, LenProperties
                <4> QED BY <1>2, <1>13, <3>2, <4>1, LatestWork
            <3>4. /\ jobs'[Len(jobs')].kind = "foreground"
                  /\ jobs'[Len(jobs')].group = NoGroup
                  /\ jobs'[Len(jobs')].from = w
                  /\ w # NoJob
                BY <1>2, <1>11, <2>2, <3>1 DEF NoJob
            <3> QED BY <1>1, <1>2, <1>5, <1>14, <2>2, <3>3, <3>4, SuccessorAdmitted
        <2> QED BY <1>12, <2>1, <2>2
    <1>17. task' \in TaskRows
        <2>1. CASE task' = Queued(task)
            BY <1>1, <2>1 DEF Queued, TaskRows
        <2>2. CASE task' = TaskIn("blocked", jobs', groups')
            BY <1>1, <2>2, TaskTypes DEF TaskRows
        <2> QED BY <1>4, <2>1, <2>2
    <1>18. Tables(jobs', groups', contents)
        BY <1>1, <1>15 DEF Tables
    <1>19. Standing(jobs', groups', task')
        <2>1. ASSUME NEW p \in 1..n, jobs'[p].kind = "promotion",
                     jobs'[p].state \in {"queued", "running", "applied"},
                     groups[jobs[p].group].state \in ActiveGroup
              PROVE  groups'[jobs[p].group].state \in ActiveGroup
            <3>1. SameRow(jobs[p], jobs'[p])
                BY <1>8, <1>11
            <3>2. jobs[p].kind = "promotion" /\ jobs[p].state \in {"queued", "running", "applied"}
                BY <2>1, <3>1 DEF SameRow
            <3>3. jobs[p].group \in DOMAIN groups /\ groups[jobs[p].group].promotion = p
                BY <1>1, <3>2, PromotionFacts
            <3>4. jobs[p].group = g
                BY <1>5, <2>1, <3>3
            <3>5. p # NoJob
                BY DEF NoJob
            <3> QED BY <3>2, <3>3, <3>4, <3>5
        <2> QED BY <1>1, <1>5, <1>13, <1>14, <1>16, <1>18, <2>1, StandingRests
    <1>20. declined' \subseteq DOMAIN jobs'
        BY <1>1, <1>12
    <1> QED BY <1>5, <1>13, <1>14, <1>15, <1>17, <1>19, <1>20, SettledKeeps

\* A review of a candidate or the promotion of the winner joins the active group.
Joins(g, J, x, y) ==
    /\ Marked(J)
    /\ x \in Job(Len(jobs) + 1, Len(groups), contents)
    /\ x.state = "queued"
    /\ x.kind \in {"rollout_review", "promotion"}
    /\ x.group = g
    /\ x.from \in 1..Len(jobs)
    /\ y \in Group(Len(jobs) + 1, contents)
    /\ y.state \in ActiveGroup
    /\ y.worker = groups[g].worker
    /\ y.reviewer = groups[g].reviewer
    /\ groups[g].promotion # NoJob => y.promotion = groups[g].promotion /\ y.winner = groups[g].winner
    /\ x.kind = "rollout_review" =>
         /\ x.outcome = "none"
         /\ jobs[x.from].state = "succeeded"
         /\ \A q \in 1..Len(jobs) : ~(jobs[q].kind = "rollout_review" /\ jobs[q].from = x.from)
    /\ x.kind = "promotion" =>
         \E q \in 1..Len(jobs) : /\ jobs[q].kind = "rollout_review"
                                 /\ jobs[q].from = x.from
                                 /\ jobs[q].state = "succeeded"
                                 /\ jobs[q].outcome = "approved"

\* The tables after it
Joined(g, J, x, y) ==
    /\ jobs' \in Seq(Job(Len(jobs'), Len(groups'), contents))
    /\ groups' \in Seq(Group(Len(jobs'), contents))
    /\ Len(jobs') = Len(jobs) + 1
    /\ Len(groups') = Len(groups)
    /\ DOMAIN jobs' = 1..(Len(jobs) + 1)
    /\ \A i \in 1..Len(jobs) : jobs'[i] = J[i]
    /\ jobs'[Len(jobs) + 1] = x
    /\ \A h \in 1..Len(groups) : groups'[h] = IF h = g THEN y ELSE groups[h]

\* A group takes one more job.
LEMMA JoinTables ==
    ASSUME RolloutsInv, NEW g \in DOMAIN groups, NEW J, NEW x, NEW y, Joins(g, J, x, y),
           jobs' = Append(J, x), groups' = [groups EXCEPT ![g] = y]
    PROVE  Joined(g, J, x, y)
    <1> DEFINE n == Len(jobs)
               m == Len(groups)
               N == n + 1
    <1>1. /\ n \in Nat
          /\ m \in Nat
          /\ DOMAIN groups = 1..m
          /\ Tables(jobs, groups, contents)
          /\ contents \in Nat
        BY InvariantTables
    <1>2. /\ J \in Seq(Job(n, m, contents))
          /\ Len(J) = n
          /\ x \in Job(N, m, contents)
          /\ y \in Group(N, contents)
        BY DEF Joins, Marked
    <1>3. N \in Nat /\ n <= N
        BY <1>1
    <1>4. groups \in Seq(Group(N, contents))
        <2>1. m <= m /\ contents <= contents
            BY <1>1
        <2> QED BY <1>1, <1>3, <2>1, TablesWiden
    <1>5. Job(n, m, contents) \subseteq Job(N, m, contents)
        <2>1. m <= m /\ contents <= contents
            BY <1>1
        <2> HIDE DEF n, m, N
        <2> QED BY <1>1, <1>3, <2>1, JobWider
    <1> DEFINE K == Append(J, x)
               H == [groups EXCEPT ![g] = y]
    <1>6. jobs' = K /\ groups' = H
        OBVIOUS
    <1>7. /\ K \in Seq(Job(N, m, contents))
          /\ Len(K) = n + 1
          /\ \A i \in 1..n : K[i] = J[i]
          /\ K[n + 1] = x
        <2> DEFINE S == Job(n, m, contents)
                   T == Job(N, m, contents)
        <2>1. n \in Nat /\ J \in Seq(S) /\ Len(J) = n /\ S \subseteq T /\ x \in T
            BY <1>1, <1>2, <1>5
        <2> HIDE DEF S, T, n, m, N
        <2>2. /\ K \in Seq(T)
              /\ Len(K) = n + 1
              /\ \A i \in 1..n : K[i] = J[i]
              /\ K[n + 1] = x
            BY ONLY <2>1, AppendRow
        <2> HIDE DEF K
        <2> QED BY <2>2 DEF T
    <1>8. /\ H \in Seq(Group(N, contents))
          /\ Len(H) = m
          /\ \A h \in 1..m : H[h] = IF h = g THEN y ELSE groups[h]
        <2>1. g \in 1..Len(groups)
            BY <1>1
        <2> DEFINE S == Group(N, contents)
        <2>2. groups \in Seq(S) /\ y \in S /\ Len(groups) = m
            BY <1>2, <1>4
        <2> HIDE DEF S, m
        <2>3. /\ H \in Seq(S)
              /\ Len(H) = Len(groups)
              /\ \A h \in 1..Len(groups) : H[h] = IF h = g THEN y ELSE groups[h]
            BY ONLY <2>1, <2>2, RowSet
        <2> HIDE DEF H
        <2> QED BY <2>2, <2>3 DEF S
    <1> HIDE DEF K, H
    <1>9. DOMAIN jobs' = 1..(n + 1)
        BY <1>6, <1>7, LenProperties
    <1>10. /\ jobs' \in Seq(Job(Len(jobs'), Len(groups'), contents))
           /\ groups' \in Seq(Group(Len(jobs'), contents))
        BY <1>6, <1>7, <1>8
    <1> QED BY <1>6, <1>7, <1>8, <1>9, <1>10 DEF Joined

\* A group that takes one more job keeps the invariant.
LEMMA JoinGroupKeeps ==
    ASSUME RolloutsInv, NEW j \in DOMAIN jobs, Settled(j), ~GroupIsDue(j), declined' = declined,
           NEW g \in DOMAIN groups, groups[g].state \in ActiveGroup,
           NEW J, NEW x, NEW y, Joins(g, J, x, y), Joined(g, J, x, y),
           Descends(jobs', groups', Len(jobs) + 1), Answers(jobs', groups', g),
           task' \in TaskRows, task'.owned = task.owned
    PROVE  RolloutsInv'
    <1> DEFINE n == Len(jobs)
               m == Len(groups)
               N == n + 1
    <1>1. /\ n \in Nat
          /\ m \in Nat
          /\ DOMAIN jobs = 1..n
          /\ DOMAIN groups = 1..m
          /\ Tables(jobs, groups, contents)
          /\ Standing(jobs, groups, task)
          /\ declined \subseteq DOMAIN jobs
          /\ contents \in Nat
        BY InvariantTables DEF RolloutsInv, TypeOK
    <1>2. /\ Marked(J)
          /\ jobs' \in Seq(Job(Len(jobs'), Len(groups'), contents))
          /\ groups' \in Seq(Group(Len(jobs'), contents))
          /\ Len(jobs') = N
          /\ Len(groups') = m
          /\ DOMAIN jobs' = 1..N
          /\ \A i \in 1..n : jobs'[i] = J[i]
          /\ jobs'[N] = x
          /\ \A h \in 1..m : groups'[h] = IF h = g THEN y ELSE groups[h]
        BY DEF Joins, Joined
    <1>3. /\ x.state = "queued"
          /\ x.kind \in {"rollout_review", "promotion"}
          /\ x.group = g
          /\ x.from \in 1..n
          /\ y.state \in ActiveGroup
          /\ y.worker = groups[g].worker
          /\ y.reviewer = groups[g].reviewer
          /\ groups[g].promotion # NoJob => y.promotion = groups[g].promotion /\ y.winner = groups[g].winner
          /\ x.kind = "rollout_review" =>
               /\ x.outcome = "none"
               /\ jobs[x.from].state = "succeeded"
               /\ \A q \in 1..n : ~(jobs[q].kind = "rollout_review" /\ jobs[q].from = x.from)
          /\ x.kind = "promotion" =>
               \E q \in 1..n : /\ jobs[q].kind = "rollout_review"
                               /\ jobs[q].from = x.from
                               /\ jobs[q].state = "succeeded"
                               /\ jobs[q].outcome = "approved"
        BY DEF Joins
    <1>4. \A i \in 1..n : /\ Later(jobs[i], jobs'[i])
                          /\ Waits(jobs[i], jobs'[i])
                          /\ Rests(jobs[i], jobs'[i])
                          /\ Silent(jobs[i], jobs'[i])
                          /\ SameRow(jobs[i], jobs'[i])
        BY <1>2, MarkedRests DEF Marked
    <1>5. /\ \A i \in 1..N : i \in 1..n \/ i = N
          /\ \A i \in 1..N : i > n => i = N
          /\ \A i \in 1..n : i \in 1..N /\ i # N
          /\ N \in Nat /\ n <= N
        BY <1>1
    <1>6. Tables(jobs', groups', contents)
        BY <1>1, <1>2 DEF Tables
    <1>7. Grows(jobs, jobs')
        BY <1>2, <1>3, <1>4, <1>5 DEF Grows
    <1>8. /\ ActiveIn(groups) = {g}
          /\ ActiveIn(groups') = {g}
        <2>1. ActiveIn(groups) = {g}
            BY DEF ActiveIn, RolloutsInv, Reserved
        <2>2. DOMAIN groups' = 1..m
            BY <1>2, LenProperties
        <2> QED BY <1>1, <1>2, <1>3, <2>1, <2>2 DEF ActiveIn
    <1>9. Ripens(groups, groups')
        <2>1. \A h \in 1..m : h # g => groups'[h] = groups[h]
            BY <1>2
        <2>2. groups'[g] = y
            BY <1>1, <1>2
        <2>3. ASSUME NEW h \in 1..m
              PROVE  /\ groups'[h].worker = groups[h].worker
                     /\ groups'[h].reviewer = groups[h].reviewer
                     /\ groups[h].promotion # NoJob =>
                          groups'[h].promotion = groups[h].promotion /\ groups'[h].winner = groups[h].winner
                     /\ groups[h].state \notin ActiveGroup => groups'[h].state = groups[h].state
            <3>1. CASE h = g
                BY <1>3, <2>2, <3>1
            <3>2. CASE h # g
                BY <2>1, <3>2
            <3> QED BY <3>1, <3>2
        <2>4. Len(groups) <= Len(groups')
            BY <1>1, <1>2
        <2> QED BY <2>3, <2>4 DEF Ripens
    <1>10. Lineage(jobs', groups')
        <2>1. \A i \in 1..Len(jobs') : i > Len(jobs) => Descends(jobs', groups', i)
            BY <1>2, <1>5
        <2>2. \A h \in 1..Len(groups') :
               h > Len(groups) \/ groups'[h].promotion # groups[h].promotion \/ groups'[h].state # groups[h].state
               => Answers(jobs', groups', h)
            BY <1>1, <1>2
        <2> QED BY <1>1, <1>6, <1>7, <1>9, <2>1, <2>2, LineageGrows DEF Standing
    <1>11. Progress(jobs', groups')
        <2>1. ASSUME NEW p \in 1..n, jobs'[p].kind = "promotion" PROVE Promotes(jobs', groups', p)
            <3>1. jobs[p].kind = "promotion"
                BY <1>4, <2>1 DEF SameRow
            <3>2. jobs[p].group \in 1..m
                BY <1>1, <3>1, PromotionFacts
            <3>3. groups[jobs[p].group].state \in ActiveGroup => groups'[jobs[p].group].state \in ActiveGroup
                BY <1>2, <1>3, <3>2
            <3> QED BY <1>1, <1>4, <1>7, <1>9, <2>1, <3>3, PromotionsRest DEF Standing
        <2>2. x.kind = "rollout_review" =>
                /\ jobs'[x.from].state = "succeeded"
                /\ \A q \in 1..N : jobs'[q].kind = "rollout_review" /\ jobs'[q].from = x.from => N = q
            BY <1>3, <1>4, <1>5 DEF SameRow
        <2>3. x.kind = "promotion" => HasApproval(jobs', N) /\ groups'[x.group].state \in ActiveGroup
            <3>1. ASSUME x.kind = "promotion" PROVE HasApproval(jobs', N)
                <4>1. PICK q \in 1..n : /\ jobs[q].kind = "rollout_review"
                                        /\ jobs[q].from = x.from
                                        /\ jobs[q].state = "succeeded"
                                        /\ jobs[q].outcome = "approved"
                    BY <1>3, <3>1
                <4>2. /\ jobs'[q].kind = "rollout_review"
                      /\ jobs'[q].from = x.from
                      /\ jobs'[q].state = "succeeded"
                      /\ jobs'[q].outcome = "approved"
                    BY <1>4, <4>1 DEF SameRow
                <4> QED BY <1>2, <1>5, <4>2 DEF HasApproval
            <3>2. groups'[x.group].state \in ActiveGroup
                BY <1>1, <1>2, <1>3
            <3> QED BY <3>1, <3>2
        <2>4. \A q \in 1..Len(jobs') : q > Len(jobs) =>
                /\ jobs'[q].kind \in {"review", "rollout_review"} => jobs'[jobs'[q].from].state = "succeeded"
                /\ jobs'[q].kind = "rollout_review" =>
                     \A s \in 1..Len(jobs') : jobs'[s].kind = "rollout_review" /\ jobs'[s].from = jobs'[q].from => q = s
                /\ jobs'[q].kind = "promotion" => HasApproval(jobs', q) /\ groups'[jobs'[q].group].state \in ActiveGroup
            BY <1>2, <1>3, <1>5, <2>2, <2>3
        <2> QED BY <1>1, <1>6, <1>7, <1>10, <2>1, <2>4, ProgressGrows DEF Standing
    <1>12. InOrder(jobs')
        BY <1>1, <1>4, <1>6, <1>7, InOrderGrows DEF Standing
    <1>13. Reserved(jobs', groups', task')
        <2>1. \A h \in ActiveIn(groups') : h <= Len(groups)
            BY <1>1, <1>8
        <2>2. \A i \in 1..Len(jobs') : i > Len(jobs) /\ Foreground(jobs', i) =>
                \A h \in ActiveIn(groups') : jobs'[i].group = h
            BY <1>2, <1>3, <1>5, <1>8
        <2> QED BY <1>1, <1>6, <1>7, <1>9, <2>1, <2>2, ReservedGrows DEF Standing
    <1>14. AnsweredInTurn(jobs', groups')
        <2>1. \A h \in 1..Len(groups') : ~(h > Len(groups))
            BY <1>1, <1>2
        <2>2. \A i \in 1..Len(jobs') : i > Len(jobs) => jobs'[i].kind \notin {"foreground", "review"}
            BY <1>2, <1>3, <1>5
        <2> QED BY <1>1, <1>6, <1>7, <1>9, <2>1, <2>2, AnsweredInTurnGrows DEF Standing
    <1>15. Standing(jobs', groups', task')
        BY <1>10, <1>11, <1>12, <1>13, <1>14 DEF Standing
    <1>16. declined' \subseteq DOMAIN jobs' /\ declined \subseteq declined'
        BY <1>1, <1>2, <1>5
    <1> QED BY <1>2, <1>4, <1>7, <1>9, <1>15, <1>16, SettledKeeps

\* A group that takes one more job still answers its worker.
LEMMA JoinedAnswers ==
    ASSUME RolloutsInv, NEW g \in DOMAIN groups, NEW J, NEW x, NEW y, Joins(g, J, x, y), Joined(g, J, x, y),
           y.promotion # NoJob =>
             /\ y.promotion = Len(jobs) + 1
             /\ x.kind = "promotion"
             /\ y.winner \in 1..Len(jobs)
             /\ jobs[y.winner].kind = "rollout_candidate"
             /\ jobs[y.winner].group = g,
           y.state = "running" => y.promotion = NoJob,
           y.state = "promoting" => y.promotion # NoJob
    PROVE  Answers(jobs', groups', g)
    <1>1. /\ DOMAIN groups = 1..Len(groups)
          /\ DOMAIN jobs = 1..Len(jobs)
          /\ Lineage(jobs, groups)
          /\ groups[g].worker \in 1..Len(jobs)
          /\ groups[g].reviewer \in 1..Len(jobs)
        BY InvariantTables, GroupFacts
    <1>2. Answers(jobs, groups, g)
        BY <1>1 DEF Lineage
    <1>3. /\ groups'[g] = y
          /\ jobs'[Len(jobs) + 1] = x
          /\ y.worker = groups[g].worker
          /\ y.reviewer = groups[g].reviewer
          /\ x.group = g
          /\ \A i \in 1..Len(jobs) : SameRow(jobs[i], jobs'[i])
        BY <1>1 DEF Joins, Joined, Marked
    <1>4. SameRow(jobs[groups[g].worker], jobs'[groups[g].worker])
          /\ SameRow(jobs[groups[g].reviewer], jobs'[groups[g].reviewer])
        BY <1>1, <1>3
    <1>5. /\ Foreground(jobs', groups'[g].worker)
          /\ jobs'[groups'[g].reviewer].kind = "review"
          /\ jobs'[groups'[g].reviewer].from = groups'[g].worker
          /\ jobs'[groups'[g].worker].corr > 0
          /\ jobs'[groups'[g].worker].roll > 0
        BY <1>2, <1>3, <1>4 DEF Answers, SameRow, Foreground
    <1>6. y.promotion # NoJob =>
             /\ jobs'[y.promotion].kind = "promotion"
             /\ jobs'[y.promotion].group = g
             /\ y.winner # NoJob
             /\ jobs'[y.winner].kind = "rollout_candidate"
             /\ jobs'[y.winner].group = g
        BY <1>3 DEF SameRow, NoJob
    <1> QED BY <1>3, <1>5, <1>6 DEF Answers

\* A surviving candidate is reviewed, while the budget lasts.
LEMMA QueueReviewKeeps ==
    ASSUME RolloutsInv, NEW j \in DOMAIN jobs, Settled(j), ~GroupIsDue(j), declined' = declined,
           NEW g \in DOMAIN groups, groups[g].state = "running", BudgetLeft(g),
           NEW J, Marked(J), NEW c \in 1..Len(jobs),
           jobs[c].kind = "rollout_candidate", jobs[c].group = g, jobs[c].state = "succeeded",
           ~\E r \in MembersOfKind(g, "rollout_review") : jobs[r].from = c,
           jobs' = Append(J, [Blank EXCEPT !.kind = "rollout_review", !.from = c, !.group = g]),
           groups' = [groups EXCEPT ![g].spent = @ + 1], task' = task
    PROVE  RolloutsInv'
    <1> DEFINE n == Len(jobs)
               m == Len(groups)
               N == n + 1
               x == [Blank EXCEPT !.kind = "rollout_review", !.from = c, !.group = g]
               s == groups[g].spent + 1
               y == [groups[g] EXCEPT !.spent = s]
    <1>1. /\ n \in Nat
          /\ m \in Nat
          /\ DOMAIN jobs = 1..n
          /\ DOMAIN groups = 1..m
          /\ Lineage(jobs, groups)
          /\ contents \in Nat
          /\ task \in TaskRows
          /\ groups[g] \in Group(n, contents)
          /\ jobs[c] \in Job(n, m, contents)
        BY InvariantTables DEF RolloutsInv, TypeOK, TaskRows
    <1>2. groups[g].promotion = NoJob
        BY <1>1 DEF Lineage, Answers
    <1>3. /\ x \in Job(N, m, contents)
          /\ x.kind = "rollout_review" /\ x.state = "queued" /\ x.outcome = "none"
          /\ x.from = c /\ x.group = g /\ x.base = 0
        <2>1. "rollout_review" \in Kinds
            BY DEF Kinds
        <2>2. c \in 0..N /\ g \in 0..m /\ N \in Nat
            BY <1>1
        <2>3. Blank \in Job(N, m, contents)
            BY <1>1, <2>2, BlankIsJob
        <2> HIDE DEF N, m
        <2>4. x \in Job(N, m, contents)
            <3> DEFINE x1 == [Blank EXCEPT !.kind = "rollout_review"]
                       x2 == [x1 EXCEPT !.from = c]
            <3>1. x1 \in Job(N, m, contents)
                BY <2>1, <2>3 DEF Job
            <3>2. x = [x2 EXCEPT !.group = g]
                OBVIOUS
            <3> HIDE DEF x1, x
            <3>3. x2 \in Job(N, m, contents)
                BY <2>2, <3>1 DEF Job
            <3> HIDE DEF x2
            <3> QED BY <2>2, <3>2, <3>3 DEF Job
        <2>5. /\ x.kind = "rollout_review" /\ x.state = "queued" /\ x.outcome = "none"
              /\ x.from = c /\ x.group = g /\ x.base = 0
            BY DEF Blank
        <2> QED BY <2>4, <2>5
    <1>4. /\ y \in Group(N, contents)
          /\ y.state = "running" /\ y.worker = groups[g].worker /\ y.reviewer = groups[g].reviewer
          /\ y.promotion = NoJob
        <2>1. groups[g].spent \in 0..2 /\ groups[g].budget \in 1..2
            BY <1>1 DEF Group
        <2>2. s \in 0..2
            BY <2>1 DEF BudgetLeft
        <2>3. N \in Nat /\ n <= N /\ contents <= contents
            BY <1>1
        <2> HIDE DEF s, n, N
        <2>4. groups[g] \in Group(N, contents)
            BY <1>1, <2>3, GroupWider
        <2> QED BY <1>2, <2>2, <2>4 DEF Group
    <1>5. /\ jobs' = Append(J, x)
          /\ groups' = [groups EXCEPT ![g] = y]
        OBVIOUS
    <1> HIDE DEF x, y
    <1>6. \A q \in 1..n : ~(jobs[q].kind = "rollout_review" /\ jobs[q].from = c)
        <2>1. ASSUME NEW q \in 1..n, jobs[q].kind = "rollout_review", jobs[q].from = c
              PROVE  FALSE
            <3>1. jobs[q].group = g
                BY <1>1, <2>1 DEF Lineage, Descends
            <3>2. q \in MembersOfKind(g, "rollout_review")
                BY <1>1, <2>1, <3>1 DEF MembersOfKind, Members
            <3> QED BY <2>1, <3>2
        <2> QED BY <2>1
    <1>7. Joins(g, J, x, y)
        BY <1>2, <1>3, <1>4, <1>6 DEF Joins, ActiveGroup
    <1>8. Joined(g, J, x, y)
        BY <1>5, <1>7, JoinTables
    <1>9. Answers(jobs', groups', g)
        <2>1. y.promotion = NoJob /\ y.state # "promoting"
            BY <1>4
        <2> QED BY <1>7, <1>8, <2>1, JoinedAnswers
    <1>10. Descends(jobs', groups', N)
        <2>1. jobs'[N] = x /\ SameRow(jobs[c], jobs'[c])
            BY <1>1, <1>8 DEF Joined, Marked
        <2>2. c < N /\ c # NoJob /\ g # NoGroup
            BY <1>1 DEF NoJob, NoGroup
        <2>3. jobs'[c].kind = "rollout_candidate" /\ jobs'[c].group = g
            BY <2>1 DEF SameRow
        <2> HIDE DEF N
        <2> QED BY ONLY <1>3, <2>1, <2>2, <2>3 DEF Descends
    <1>11. groups[g].state \in ActiveGroup
        BY DEF ActiveGroup
    <1> QED BY <1>1, <1>7, <1>8, <1>9, <1>10, <1>11, JoinGroupKeeps

\* The approved candidate is promoted.
LEMMA QueuePromotionKeeps ==
    ASSUME RolloutsInv, NEW j \in DOMAIN jobs, Settled(j), ~GroupIsDue(j), declined' = declined,
           NEW g \in DOMAIN groups, groups[g].state = "running",
           NEW r \in MembersOfKind(g, "rollout_review"),
           jobs[r].state = "succeeded", jobs[r].outcome = "approved", QueuePromotion(g, r, TRUE)
    PROVE  RolloutsInv'
    <1> DEFINE n == Len(jobs)
               m == Len(groups)
               N == n + 1
               c == jobs[r].from
               P == Pruned(g)
               z == [P[c] EXCEPT !.place = "promoting"]
               J == [P EXCEPT ![c] = z]
               x == [jobs[c] EXCEPT !.kind = "promotion", !.state = "queued", !.from = c, !.tree = 0]
               y == [groups[g] EXCEPT !.state = "promoting", !.winner = c, !.promotion = N]
    <1>1. /\ n \in Nat
          /\ m \in Nat
          /\ DOMAIN jobs = 1..n
          /\ DOMAIN groups = 1..m
          /\ Lineage(jobs, groups)
          /\ contents \in Nat
          /\ task \in TaskRows
          /\ groups[g] \in Group(n, contents)
        BY InvariantTables DEF RolloutsInv, TypeOK, TaskRows
    <1>2. groups[g].promotion = NoJob
        BY <1>1 DEF Lineage, Answers
    <1>3. r \in 1..n /\ jobs[r].kind = "rollout_review" /\ jobs[r].group = g
        BY <1>1 DEF MembersOfKind, Members
    <1>4. /\ c \in 1..n
          /\ jobs[c].kind = "rollout_candidate"
          /\ jobs[c].group = g
        BY <1>1, <1>3, ReviewFacts DEF IsReview
    <1>5. jobs[c] \in Job(n, m, contents) /\ jobs[c].base = 0
        BY <1>1, <1>4, InvariantTables DEF Lineage, Descends
    <1>6. /\ jobs' = Append([P EXCEPT ![c].place = "promoting"], x)
          /\ groups' = [groups EXCEPT ![g].state = "promoting", ![g].winner = c, ![g].promotion = Len(jobs')]
          /\ task' = Queued(task)
        BY DEF QueuePromotion
    <1>7. /\ P \in Seq(Job(n, m, contents))
          /\ Len(P) = n
          /\ \A i \in 1..n : SameRow(jobs[i], P[i]) /\ (jobs[i].skip => P[i].skip)
        BY PrunedIsMarked DEF Marked
    <1>8. [P EXCEPT ![c].place = "promoting"] = J
        OBVIOUS
    <1>9. z \in Job(n, m, contents) /\ SameRow(P[c], z) /\ z.skip = P[c].skip
        <2>1. P[c] \in Job(n, m, contents)
            BY <1>4, <1>7, ElementOfSeq
        <2>2. "promoting" \in Places
            BY States
        <2> HIDE DEF n, m, P, c
        <2> QED BY <1>1, <2>1, <2>2, PlaceRow
    <1> HIDE DEF P, z
    <1>10. /\ J \in Seq(Job(n, m, contents))
           /\ Len(J) = n
           /\ \A i \in 1..n : J[i] = IF i = c THEN z ELSE P[i]
        <2> HIDE DEF n, m, c
        <2> QED BY ONLY <1>4, <1>7, <1>9, RowSet
    <1> HIDE DEF J
    <1>11. Marked(J)
        <2>1. ASSUME NEW i \in 1..n PROVE SameRow(jobs[i], J[i]) /\ (jobs[i].skip => J[i].skip)
            <3>1. CASE i = c
                BY <1>7, <1>9, <1>10, <3>1 DEF SameRow
            <3>2. CASE i # c
                BY <1>7, <1>10, <3>2
            <3> QED BY <3>1, <3>2
        <2> QED BY <1>10, <2>1 DEF Marked
    <1>12. Len(jobs') = N
        <2>1. jobs' = Append(J, x)
            BY <1>6, <1>8
        <2> HIDE DEF x
        <2> QED BY <1>10, <2>1, LenProperties
    <1>13. /\ jobs' = Append(J, x)
           /\ groups' = [groups EXCEPT ![g] = y]
        BY <1>6, <1>8, <1>12
    <1>14. /\ x \in Job(N, m, contents)
           /\ x.kind = "promotion" /\ x.state = "queued" /\ x.from = c /\ x.group = g /\ x.base = 0
        <2>1. N \in Nat /\ n <= N /\ m <= m /\ contents <= contents /\ c \in 0..N /\ 0 \in 0..contents
            BY <1>1, <1>4
        <2>2. "promotion" \in Kinds /\ "queued" \in JobStates
            BY States DEF Kinds
        <2> HIDE DEF n, m, N, c
        <2>3. jobs[c] \in Job(N, m, contents)
            BY <1>1, <1>5, <2>1, JobWider
        <2>4. x \in Job(N, m, contents)
            BY <2>1, <2>2, <2>3 DEF Job
        <2>5. x.kind = "promotion" /\ x.state = "queued" /\ x.from = c /\ x.group = g /\ x.base = 0
            BY <1>4, <1>5, <2>3 DEF Job
        <2> QED BY <2>4, <2>5
    <1>15. /\ y \in Group(N, contents)
           /\ y.state = "promoting" /\ y.worker = groups[g].worker /\ y.reviewer = groups[g].reviewer
           /\ y.promotion = N /\ y.winner = c
        <2>1. N \in Nat /\ n <= N /\ contents <= contents /\ c \in 0..N /\ N \in 0..N
            BY <1>1, <1>4
        <2>2. "promoting" \in ActiveGroup \cup {"promoted", "exhausted", "failed", "stale", "cancelled"}
            BY DEF ActiveGroup
        <2> HIDE DEF n, N, c
        <2>3. groups[g] \in Group(N, contents)
            BY <1>1, <2>1, GroupWider
        <2>4. y \in Group(N, contents)
            BY <2>1, <2>2, <2>3 DEF Group
        <2> QED BY <2>3, <2>4 DEF Group
    <1> HIDE DEF x, y
    <1>16. Joins(g, J, x, y)
        BY <1>1, <1>2, <1>3, <1>4, <1>11, <1>14, <1>15 DEF Joins, ActiveGroup
    <1>17. Joined(g, J, x, y)
        BY <1>13, <1>16, JoinTables
    <1>18. Answers(jobs', groups', g)
        <2>1. y.promotion # NoJob
            BY <1>1, <1>15 DEF NoJob
        <2> QED BY <1>4, <1>14, <1>15, <1>16, <1>17, <2>1, JoinedAnswers
    <1>19. Descends(jobs', groups', N)
        <2>1. jobs'[N] = x /\ groups'[g] = y
            BY <1>1, <1>17 DEF Joined
        <2>2. c < N /\ g # NoGroup
            BY <1>1, <1>4 DEF NoGroup
        <2> QED BY <1>14, <1>15, <2>1, <2>2 DEF Descends
    <1>20. groups[g].state \in ActiveGroup
        BY DEF ActiveGroup
    <1>21. task' \in TaskRows /\ task'.owned = task.owned
        BY <1>1, <1>6 DEF Queued, TaskRows
    <1> QED BY <1>1, <1>16, <1>17, <1>18, <1>19, <1>20, <1>21, JoinGroupKeeps

\* A settlement that only marks places
LEMMA MarkKeeps ==
    ASSUME RolloutsInv, NEW j \in DOMAIN jobs, Settled(j), ~GroupIsDue(j), declined' = declined,
           NEW J, Marked(J), jobs' = J, groups' = groups, task' = task
    PROVE  RolloutsInv'
    <1>1. /\ Len(jobs) \in Nat
          /\ DOMAIN jobs = 1..Len(jobs)
          /\ Tables(jobs, groups, contents)
          /\ Standing(jobs, groups, task)
          /\ groups \in Seq(Group(Len(jobs), contents))
          /\ declined \subseteq DOMAIN jobs
          /\ task \in TaskRows
          /\ contents \in Nat
        BY InvariantTables DEF RolloutsInv, TypeOK, TaskRows
    <1>2. jobs' \in Seq(Job(Len(jobs), Len(groups), contents)) /\ Len(jobs') = Len(jobs)
        BY DEF Marked
    <1>3. \A i \in 1..Len(jobs) : /\ Later(jobs[i], jobs'[i])
                                  /\ Waits(jobs[i], jobs'[i])
                                  /\ Rests(jobs[i], jobs'[i])
                                  /\ Silent(jobs[i], jobs'[i])
        BY MarkedRests
    <1>4. /\ jobs' \in Seq(Job(Len(jobs'), Len(groups'), contents))
          /\ groups' \in Seq(Group(Len(jobs'), contents))
          /\ DOMAIN jobs' = 1..Len(jobs)
        BY <1>1, <1>2, LenProperties
    <1>5. Tables(jobs', groups', contents)
        BY <1>1, <1>4 DEF Tables
    <1>6. Grows(jobs, jobs')
        <2>1. Len(jobs) <= Len(jobs') /\ \A i \in 1..Len(jobs') : ~(i > Len(jobs))
            BY <1>1, <1>2
        <2> QED BY <1>3, <2>1 DEF Grows
    <1>7. Admitted(jobs, groups', jobs')
        BY <1>1, <1>2, NoneAdmitted
    <1>8. Standing(jobs', groups', task')
        BY <1>1, <1>3, <1>5, <1>6, <1>7, SameGroups, StandingRests
    <1>9. declined' \subseteq DOMAIN jobs' /\ declined \subseteq declined'
        BY <1>1, <1>4
    <1> QED BY <1>1, <1>3, <1>4, <1>6, <1>8, <1>9, SameGroups, SettledKeeps

\* The group of a job is a group.
LEMMA GroupOfJob ==
    ASSUME RolloutsInv, NEW j, GroupForJob(j) # NoGroup
    PROVE  GroupForJob(j) \in DOMAIN groups
    <1>1. DOMAIN groups = 1..Len(groups) /\ Len(groups) \in Nat
        BY InvariantTables
    <1>2. GroupsOf(j) # {} /\ GroupForJob(j) = MaxOf(GroupsOf(j))
        BY DEF GroupForJob
    <1>3. GroupsOf(j) \subseteq 1..Len(groups)
        BY <1>1 DEF GroupsOf
    <1>4. MaxOf(GroupsOf(j)) \in GroupsOf(j)
        BY <1>1, <1>2, <1>3, LargestExists
    <1> QED BY <1>1, <1>2, <1>3, <1>4

\* A table left alone is marked.
LEMMA JobsAreMarked ==
    ASSUME RolloutsInv
    PROVE  Marked(jobs)
    BY InvariantTables DEF Marked, SameRow, Tables

\* A running group is taken one step further.
LEMMA SettleRunningKeeps ==
    ASSUME RolloutsInv, NEW j \in DOMAIN jobs, Settled(j), ~GroupIsDue(j), declined' = declined,
           NEW g \in DOMAIN groups, groups[g].state = "running", SettleRunning(g)
    PROVE  RolloutsInv'
    <1> DEFINE candidates == MembersOfKind(g, "rollout_candidate")
               reviews == MembersOfKind(g, "rollout_review")
               approved == {r \in reviews : jobs[r].state = "succeeded" /\ jobs[r].outcome = "approved"}
               P == Pruned(g)
               J == Judged(P, g)
               survivors == {c \in candidates : jobs[c].state = "succeeded" /\ J[c].place = "none"}
    <1>1. Marked(P)
        BY PrunedIsMarked
    <1>2. /\ Marked(J)
          /\ \A c \in 1..Len(jobs) : J[c].place = "none" =>
               ~\E r \in MembersOfKind(g, "rollout_review") : jobs[r].from = c
        <2> HIDE DEF P
        <2> QED BY <1>1, JudgedIsMarked
    <1>3. groups[g].promotion = NoJob /\ groups[g].state \in ActiveGroup /\ DOMAIN jobs = 1..Len(jobs)
        BY InvariantTables DEF Lineage, Answers, ActiveGroup
    <1>4. \/ jobs' = P /\ groups' = groups /\ task' = task
          \/ \E open \in BOOLEAN :
                \/ \E r \in approved : QueuePromotion(g, r, open)
                \/ FinishRollout(J, g, "exhausted", open)
                \/ BudgetLeft(g) /\ \E c \in survivors : QueueRolloutReview(J, g, c, open)
        BY DEF SettleRunning
    <1>5. CASE jobs' = P /\ groups' = groups /\ task' = task
        <2> HIDE DEF P, J, candidates, reviews, approved, survivors
        <2> QED BY <1>1, <1>5, MarkKeeps
    <1>6. ASSUME NEW open \in BOOLEAN, NEW r \in approved, QueuePromotion(g, r, open) PROVE RolloutsInv'
        <2>1. CASE open = TRUE
            <3>1. /\ QueuePromotion(g, r, TRUE)
                  /\ r \in MembersOfKind(g, "rollout_review")
                  /\ jobs[r].state = "succeeded" /\ jobs[r].outcome = "approved"
                BY <1>6, <2>1
            <3> HIDE DEF P, J, candidates, reviews, approved, survivors
            <3> QED BY <3>1, QueuePromotionKeeps
        <2>2. CASE open = FALSE
            <3>1. FinishRollout(P, g, "failed", FALSE)
                BY <1>6, <2>2 DEF QueuePromotion
            <3> HIDE DEF P, J, candidates, reviews, approved, survivors
            <3> QED BY <1>1, <1>3, <3>1, FinishKeeps
        <2> QED BY <2>1, <2>2
    <1>7. ASSUME NEW open \in BOOLEAN, FinishRollout(J, g, "exhausted", open) PROVE RolloutsInv'
        <2> HIDE DEF P, J, candidates, reviews, approved, survivors
        <2> QED BY <1>2, <1>3, <1>7, FinishKeeps
    <1>8. ASSUME NEW open \in BOOLEAN, BudgetLeft(g), NEW c \in survivors, QueueRolloutReview(J, g, c, open)
          PROVE  RolloutsInv'
        <2>1. CASE open = TRUE
            <3>1. /\ c \in 1..Len(jobs)
                  /\ jobs[c].kind = "rollout_candidate" /\ jobs[c].group = g /\ jobs[c].state = "succeeded"
                  /\ ~\E r \in MembersOfKind(g, "rollout_review") : jobs[r].from = c
                BY <1>2, <1>3 DEF MembersOfKind, Members
            <3> HIDE DEF P, J, candidates, reviews, approved, survivors
            <3>2. /\ jobs' = Append(J, [Blank EXCEPT !.kind = "rollout_review", !.from = c, !.group = g])
                  /\ groups' = [groups EXCEPT ![g].spent = @ + 1]
                  /\ task' = task
                BY <1>8, <2>1 DEF QueueRolloutReview
            <3> QED BY <1>2, <1>8, <3>1, <3>2, QueueReviewKeeps
        <2>2. CASE open = FALSE
            <3> HIDE DEF P, J, candidates, reviews, approved, survivors
            <3>1. FinishRollout(J, g, "failed", FALSE)
                BY <1>8, <2>2 DEF QueueRolloutReview
            <3> QED BY <1>2, <1>3, <3>1, FinishKeeps
        <2> QED BY <2>1, <2>2
    <1> QED BY <1>4, <1>5, <1>6, <1>7, <1>8

\* A group whose promotion ended without success ends.
LEMMA SettlePromotingKeeps ==
    ASSUME RolloutsInv, NEW j \in DOMAIN jobs, Settled(j), ~GroupIsDue(j), declined' = declined,
           NEW g \in DOMAIN groups, groups[g].state = "promoting", SettlePromoting(g)
    PROVE  RolloutsInv'
    <1> DEFINE p == jobs[groups[g].promotion]
               s == IF p.code = "rollout_conflict" THEN "stale" ELSE "failed"
    <1>1. Marked(jobs) /\ groups[g].state \in ActiveGroup /\ s \in {"exhausted", "failed", "stale"}
        BY JobsAreMarked DEF ActiveGroup
    <1>2. CASE p.state \in {"failed", "cancelled"}
        <2>1. FinishRollout(jobs, g, s, TRUE)
            BY <1>2 DEF SettlePromoting
        <2> HIDE DEF s
        <2> QED BY <1>1, <1>2, <2>1, FinishKeeps
    <1>3. CASE p.state \notin {"failed", "cancelled"}
        <2>1. jobs' = jobs /\ groups' = groups /\ task' = task
            BY <1>3 DEF SettlePromoting
        <2> QED BY <1>1, <2>1, MarkKeeps
    <1> QED BY <1>2, <1>3

\* Whatever a settlement does.
LEMMA SettleRolloutForJobKeeps ==
    ASSUME RolloutsInv, NEW j \in DOMAIN jobs, SettleRolloutForJob(j)
    PROVE  RolloutsInv'
    <1> DEFINE g == GroupForJob(j)
    <1>1. Settled(j)
        BY DEF SettleRolloutForJob, Settled
    <1>2. task \in TaskRows
        BY DEF RolloutsInv, TypeOK, TaskRows
    <1>3. CASE GroupIsDue(j) /\ OpenRolloutGroup(j)
        <2> DEFINE w == jobs[j].from
                   x == [Blank EXCEPT !.kind = "rollout_candidate", !.from = w, !.group = Len(groups) + 1,
                                      !.corr = jobs[j].corr - 1, !.rung = jobs[w].rung]
                   y == [state |-> "running", worker |-> w, reviewer |-> j,
                         winner |-> NoJob, promotion |-> NoJob,
                         budget |-> jobs[j].corr, spent |-> 0, base |-> tree]
                   k == Least(jobs[w].roll, Least(3, MaxActive))
        <2>1. PICK open \in BOOLEAN :
                 IF Admits(w) /\ open
                 THEN /\ groups' = Append(groups, y)
                      /\ jobs' = jobs \o [i \in 1..k |-> x]
                      /\ task' = [task EXCEPT !.state = "working", !.owned = TRUE]
                      /\ UNCHANGED declined
                 ELSE /\ declined' = declined \cup {j}
                      /\ jobs' = [jobs EXCEPT ![w].skip = TRUE]
                      /\ UNCHANGED <<groups, task>>
            BY <1>3 DEF OpenRolloutGroup
        <2>2. CASE Admits(w) /\ open
            <3>1. k \in Nat
                <4>1. jobs[w].roll \in 1..3
                    BY <1>3, DueFacts
                <4>2. MaxActive \in Nat
                    BY RolloutsAssumption
                <4> HIDE DEF w
                <4> QED BY ONLY <4>1, <4>2 DEF Least
            <3>2. /\ groups' = Append(groups, y)
                  /\ jobs' = jobs \o [i \in 1..k |-> x]
                  /\ task' = [task EXCEPT !.state = "working", !.owned = TRUE]
                  /\ declined' = declined
                BY <2>1, <2>2
            <3>3. /\ w = jobs[j].from
                  /\ x = [Blank EXCEPT !.kind = "rollout_candidate", !.from = w, !.group = Len(groups) + 1,
                                       !.corr = jobs[j].corr - 1, !.rung = jobs[w].rung]
                  /\ y = [state |-> "running", worker |-> w, reviewer |-> j,
                          winner |-> NoJob, promotion |-> NoJob,
                          budget |-> jobs[j].corr, spent |-> 0, base |-> tree]
                OBVIOUS
            <3> HIDE DEF x, y, w, k
            <3> QED BY <1>1, <1>3, <2>2, <3>1, <3>2, <3>3, AdmitGroupKeeps
        <2>3. CASE ~(Admits(w) /\ open)
            <3>1. /\ declined' = declined \cup {j}
                  /\ jobs' = [jobs EXCEPT ![w].skip = TRUE]
                  /\ groups' = groups /\ task' = task
                BY <2>1, <2>3
            <3> QED BY <1>1, <1>3, <3>1, RefuseGroupKeeps
        <2> QED BY <2>2, <2>3
    <1>4. CASE /\ ~GroupIsDue(j)
               /\ task' = [task EXCEPT !.owned = @ /\ ~(/\ g # NoGroup
                                                        /\ groups[g].state = "cancelled"
                                                        /\ CanReleaseTaskOwnership(jobs, groups))]
               /\ UNCHANGED <<jobs, groups, declined, spent>>
        <2>1. jobs' = jobs /\ groups' = groups /\ declined' = declined
            BY <1>4
        <2>2. task' \in TaskRows /\ (ActiveIn(groups) # {} /\ task.owned => task'.owned)
            <3> DEFINE o == task.owned /\ ~(/\ g # NoGroup
                                            /\ groups[g].state = "cancelled"
                                            /\ CanReleaseTaskOwnership(jobs, groups))
            <3>1. task' = [task EXCEPT !.owned = o]
                BY <1>4
            <3>2. o \in BOOLEAN
                OBVIOUS
            <3>3. ActiveIn(groups) # {} /\ task.owned => o
                BY DEF CanReleaseTaskOwnership
            <3> HIDE DEF o
            <3> QED BY <1>2, <3>1, <3>2, <3>3 DEF TaskRows
        <2> QED BY <1>1, <1>4, <2>1, <2>2, NothingSettled
    <1>5. CASE /\ ~GroupIsDue(j)
               /\ g # NoGroup
               /\ Settles(g)
               /\ IF groups[g].state = "running" THEN SettleRunning(g) ELSE SettlePromoting(g)
               /\ UNCHANGED declined
        <2>1. g \in DOMAIN groups
            BY <1>5, GroupOfJob
        <2>2. groups[g].state = "running" \/ groups[g].state = "promoting"
            BY <1>5 DEF Settles, RunningSettles
        <2> HIDE DEF g
        <2>3. CASE groups[g].state = "running"
            BY <1>1, <1>5, <2>1, <2>3, SettleRunningKeeps
        <2>4. CASE groups[g].state = "promoting"
            BY <1>1, <1>5, <2>1, <2>4, SettlePromotingKeeps
        <2> QED BY <2>2, <2>3, <2>4
    <1> QED BY <1>3, <1>4, <1>5 DEF SettleRolloutForJob

-----------------------------------------------------------------------------
(* The invariant of the specification *)

\* The first request is a foreground job that comes from nobody.
LEMMA InitHolds ==
    ASSUME Init
    PROVE  RolloutsInv
    <1>1. PICK s \in Specs : jobs = <<[Blank EXCEPT !.corr = s.corr, !.roll = s.roll, !.rung = s.rung]>>
        BY DEF Init
    <1> DEFINE x == [Blank EXCEPT !.corr = s.corr, !.roll = s.roll, !.rung = s.rung]
    <1>2. s.corr \in 0..2 /\ s.roll \in 0..3 /\ s.rung \in 1..Rungs
        <2>1. s \in [corr : 0..2, roll : 0..3, rung : 1..Rungs]
            BY DEF RolloutsAssumption
        <2> QED BY <2>1
    <1>3. x \in Job(1, 0, 0)
        <2>1. Blank \in Job(1, 0, 0)
            BY BlankIsJob
        <2> DEFINE x1 == [Blank EXCEPT !.corr = s.corr]
                   x2 == [x1 EXCEPT !.roll = s.roll]
        <2>2. x1 \in Job(1, 0, 0)
            BY <1>2, <2>1 DEF Job
        <2>3. x2 \in Job(1, 0, 0)
            BY <1>2, <2>2 DEF Job
        <2>4. [x2 EXCEPT !.rung = s.rung] \in Job(1, 0, 0)
            BY <1>2, <2>3 DEF Job
        <2>5. x = [x2 EXCEPT !.rung = s.rung]
            BY DEF Blank
        <2> QED BY <2>4, <2>5
    <1>4. /\ x.kind = "foreground" /\ x.state = "queued" /\ x.from = 0 /\ x.why = "request"
          /\ x.group = 0 /\ x.base = 0 /\ x.retry = FALSE
        BY DEF Blank, NoJob, NoGroup
    <1>5. jobs = <<x>>
        BY <1>1
    <1> HIDE DEF x
    <1>6. /\ Len(jobs) = 1 /\ DOMAIN jobs = 1..1 /\ jobs[1] = x
          /\ jobs \in Seq(Job(1, 0, 0))
        BY <1>3, <1>5
    <1>7. groups = <<>> /\ Len(groups) = 0 /\ DOMAIN groups = {} /\ contents = 0 /\ groups \in Seq(Group(1, 0))
        BY DEF Init
    <1>8. \A j \in DOMAIN jobs : j = 1
        BY <1>6
    <1>9. TypeOK
        BY <1>6, <1>7 DEF Init, TypeOK
    <1>10. Lineage(jobs, groups)
        <2>1. Descends(jobs, groups, 1)
            BY <1>4, <1>6 DEF Descends, NoJob, NoGroup
        <2> QED BY <1>4, <1>5, <1>6, <1>7, <1>8, <2>1 DEF Lineage
    <1>11. Progress(jobs, groups)
        BY <1>4, <1>6, <1>8 DEF Progress
    <1>12. InOrder(jobs)
        BY <1>8 DEF InOrder
    <1>13. Reserved(jobs, groups, task)
        BY <1>7 DEF Reserved, ActiveIn
    <1>14. AnsweredInTurn(jobs, groups)
        BY <1>4, <1>6, <1>7, <1>8 DEF AnsweredInTurn
    <1>15. Answered(jobs, groups, LeftBehind, Awaited)
        BY <1>4, <1>6, <1>8 DEF Answered
    <1>16. Failing
        BY DEF Init, Failing
    <1> QED BY <1>9, <1>10, <1>11, <1>12, <1>13, <1>14, <1>15, <1>16 DEF RolloutsInv

\* The invariant speaks of the variables only.
LEMMA StutterKeeps ==
    ASSUME RolloutsInv, UNCHANGED vars
    PROVE  RolloutsInv'
    <1>1. /\ jobs' = jobs /\ groups' = groups /\ task' = task /\ tree' = tree /\ contents' = contents
          /\ declined' = declined /\ daemon' = daemon /\ failing' = failing /\ settling' = settling
        BY DEF vars
    <1>2. TypeOK'
        BY <1>1 DEF RolloutsInv, TypeOK
    <1>3. LeftBehind' = LeftBehind /\ Awaited' = Awaited
        BY <1>1 DEF LeftBehind, Awaited
    <1>4. Failing'
        BY <1>1 DEF RolloutsInv, Failing, IsReview
    <1>5. Standing(jobs, groups, task)' /\ Answered(jobs, groups, LeftBehind, Awaited)'
        <2>1. Standing(jobs, groups, task) /\ Answered(jobs, groups, LeftBehind, Awaited)
            BY DEF RolloutsInv, Standing
        <2> QED BY <1>1, <1>3, <2>1
    <1> QED BY <1>2, <1>4, <1>5, Assembled

\* Whatever a job does or has done to it.
LEMMA JobStepKeeps ==
    ASSUME RolloutsInv, NEW j \in DOMAIN jobs,
           \/ Dispatch(j) \/ StartPromotion(j) \/ Sweep(j) \/ Finish(j) \/ Settle(j)
           \/ Resolve(j) \/ ReviewJob(j) \/ CancelJob(j)
    PROVE  RolloutsInv'
    <1>1. ASSUME Finish(j) PROVE RolloutsInv'
        <2>1. CASE CompleteWork(j)
            BY <2>1, CompleteWorkKeeps
        <2>2. CASE CompleteCandidate(j)
            BY <2>2, CompleteCandidateKeeps
        <2>3. CASE \E code \in Failures : FailWork(j, code)
            BY <2>3, FailWorkKeeps
        <2>4. CASE \E code \in Failures : FailReview(j, code)
            BY <2>4, FailReviewKeeps
        <2>5. CASE \E verdict \in Verdicts : GiveVerdict(j, verdict)
            BY <2>5, GiveVerdictKeeps
        <2>6. CASE Promote(j)
            BY <2>6, PromoteKeeps
        <2>7. CASE RefusePromotion(j)
            BY <2>7, RefusePromotionKeeps
        <2> QED BY <1>1, <2>1, <2>2, <2>3, <2>4, <2>5, <2>6, <2>7 DEF Finish
    <1>2. ASSUME Settle(j) PROVE RolloutsInv'
        <2>1. CASE SettleRolloutForJob(j)
            BY <2>1, SettleRolloutForJobKeeps
        <2>2. CASE ReleaseTaskOwnershipIfSafe(j)
            BY <2>2, ReleaseKeeps
        <2>3. CASE SettleInterruptedReview(j)
            BY <2>3, SettleInterruptedReviewKeeps
        <2> QED BY <1>2, <2>1, <2>2, <2>3 DEF Settle
    <1>3. CASE Dispatch(j)
        BY <1>3, DispatchKeeps
    <1>4. CASE StartPromotion(j)
        BY <1>4, StartPromotionKeeps
    <1>5. CASE Sweep(j)
        BY <1>5, SweepKeeps
    <1>6. CASE Resolve(j)
        BY <1>6, ResolveKeeps
    <1>7. CASE ReviewJob(j)
        BY <1>7, ReviewJobKeeps
    <1>8. CASE CancelJob(j)
        BY <1>8, CancelJobKeeps
    <1> QED BY <1>1, <1>2, <1>3, <1>4, <1>5, <1>6, <1>7, <1>8

\* The invariant is inductive.
LEMMA NextKeeps ==
    ASSUME RolloutsInv, [Next]_vars
    PROVE  RolloutsInv'
    <1>1. CASE \E j \in DOMAIN jobs : \/ Dispatch(j) \/ StartPromotion(j) \/ Sweep(j) \/ Finish(j)
                                      \/ Settle(j) \/ Resolve(j) \/ ReviewJob(j) \/ CancelJob(j)
        BY <1>1, JobStepKeeps
    <1>2. CASE Request
        BY <1>2, RequestKeeps
    <1>3. CASE Edit
        BY <1>3, EditKeeps
    <1>4. CASE Pause
        BY <1>4, PauseKeeps
    <1>5. CASE Resume
        BY <1>5, ResumeKeeps
    <1>6. CASE Crash
        BY <1>6, CrashKeeps
    <1>7. CASE Recover
        BY <1>7, RecoverKeeps
    <1>8. CASE UNCHANGED vars
        BY <1>8, StutterKeeps
    <1> QED BY <1>1, <1>2, <1>3, <1>4, <1>5, <1>6, <1>7, <1>8 DEF Next

\* Every state has the invariant: lineage of the jobs, what an active group may
\* count on, and what became of every review.
THEOREM RolloutsAlways == Spec => []RolloutsInv
    <1>1. Init => RolloutsInv
        BY InitHolds
    <1>2. RolloutsInv /\ [Next]_vars => RolloutsInv'
        BY NextKeeps
    <1> QED BY <1>1, <1>2, PTL DEF Spec

\* The tables of jobs and groups refer to rows that exist, and every value is of
\* its type.
THEOREM RolloutsTyped == Spec => []TypeOK
    <1>1. RolloutsInv => TypeOK
        BY DEF RolloutsInv
    <1> QED BY <1>1, RolloutsAlways, PTL

\* While a group is active it alone works for the task and keeps its worktree.
THEOREM GroupReserves == Spec => []GroupReservesTask
    <1>1. RolloutsInv => GroupReservesTask
        BY DEF RolloutsInv, Reserved, GroupReservesTask
    <1> QED BY <1>1, RolloutsAlways, PTL

\* No review is lost: a reviewer without a verdict was replaced or its worker says
\* so, and a refutation that asked for rollouts has its group or a refusal.
THEOREM ReviewsAreAnswered == Spec => []ReviewIsAnswered
    <1>1. ASSUME RolloutsInv, Turn, NEW r \in DOMAIN jobs,
                 jobs[r].kind = "review", LatestReview(jobs[r].from) = r
          PROVE  /\ jobs[r].state \in {"failed", "cancelled"} =>
                      \/ jobs[jobs[r].from].skip
                      \/ \E g \in DOMAIN groups : groups[g].worker = jobs[r].from /\ groups[g].state = "promoted"
                 /\ jobs[r].outcome = "refuted" /\ jobs[r].corr > 0 /\ jobs[jobs[r].from].roll > 0 =>
                      r \in declined \/ \E g \in DOMAIN groups : groups[g].reviewer = r
        <2>1. Latest(jobs, r)
            BY <1>1, LatestIsLatest
        <2>2. LeftBehind = {} /\ Awaited = declined
            BY <1>1, TurnAwaits
        <2>3. Answered(jobs, groups, {}, declined)
            BY <1>1, <2>2 DEF RolloutsInv
        <2> QED BY <1>1, <2>1, <2>3 DEF Answered
    <1>2. RolloutsInv => ReviewIsAnswered
        BY <1>1 DEF ReviewIsAnswered
    <1> QED BY <1>2, RolloutsAlways, PTL

-----------------------------------------------------------------------------
(* A refutation is answered once *)

\* Every retried reviewer replaces one that is not a retry, and each its own.
LEMMA RetriesReplace ==
    ASSUME RolloutsInv, NEW T, NEW F, NEW w,
           \A r \in T : r \in DOMAIN jobs /\ jobs[r].kind = "review" /\ jobs[r].retry /\ jobs[r].from = w,
           F = {r \in DOMAIN jobs : jobs[r].kind = "review" /\ ~jobs[r].retry /\ jobs[r].from = w}
    PROVE  Cardinality(T) <= Cardinality(F)
    <1> DEFINE replaces(q, r) ==
                   /\ q < r
                   /\ \A s \in DOMAIN jobs : jobs[s].kind = "review" /\ jobs[s].from = w => s <= q \/ r <= s
               f == [r \in T |-> CHOOSE q \in F : replaces(q, r)]
    <1>1. Len(jobs) \in Nat /\ DOMAIN jobs = 1..Len(jobs)
        BY InvariantTables
    <1>2. \A r \in T : \E q \in F : replaces(q, r)
        BY DEF RolloutsInv, AnsweredInTurn
    <1>3. \A r \in T : f[r] \in F /\ replaces(f[r], r)
        BY <1>2
    <1>4. \A r, s \in T : f[r] = f[s] => r = s
        <2>1. ASSUME NEW r \in T, NEW s \in T, f[r] = f[s] PROVE ~(r < s)
            <3>1. f[r] < r /\ (r <= f[s] \/ s <= r)
                BY <1>3
            <3>2. r \in Int /\ s \in Int /\ f[r] \in Int
                BY <1>1, <1>3
            <3> HIDE DEF f
            <3> QED BY <2>1, <3>1, <3>2
        <2>2. \A r \in T : r \in Int
            BY <1>1
        <2> HIDE DEF f
        <2> QED BY <2>1, <2>2
    <1>5. f \in Injection(T, F)
        <2>1. f \in [T -> F]
            BY <1>3
        <2> HIDE DEF f
        <2> QED BY <1>4, <2>1 DEF Injection, IsInjective
    <1>6. IsFiniteSet(F)
        <2>1. IsFiniteSet(1..Len(jobs))
            BY <1>1, FS_Interval
        <2>2. F \in SUBSET (1..Len(jobs))
            BY <1>1
        <2> QED BY <2>1, <2>2, FS_Subset
    <1> HIDE DEF f
    <1> QED BY <1>5, <1>6, FS_Injection

\* No reviewer opens two groups, no job gets two corrections or two escalations, and
\* no reviewer is replaced twice, across restarts and repeated settlements.
THEOREM RefutationsAnsweredOnce == Spec => []AnsweredOnce
    <1>1. ASSUME RolloutsInv, NEW w \in DOMAIN jobs
          PROVE  Cardinality({r \in Reviews(w) : jobs[r].kind = "review" /\ jobs[r].retry = TRUE})
                   <= Cardinality({r \in Reviews(w) : jobs[r].kind = "review" /\ jobs[r].retry = FALSE})
        <2> DEFINE T == {r \in Reviews(w) : jobs[r].kind = "review" /\ jobs[r].retry = TRUE}
                   F == {r \in Reviews(w) : jobs[r].kind = "review" /\ jobs[r].retry = FALSE}
        <2>1. \A r \in DOMAIN jobs : jobs[r].retry \in BOOLEAN
            BY <1>1, InvariantTables DEF Job
        <2>2. \A r \in T : r \in DOMAIN jobs /\ jobs[r].kind = "review" /\ jobs[r].retry /\ jobs[r].from = w
            BY DEF Reviews
        <2>3. F = {r \in DOMAIN jobs : jobs[r].kind = "review" /\ ~jobs[r].retry /\ jobs[r].from = w}
            BY <2>1 DEF Reviews, IsReview
        <2> HIDE DEF T, F
        <2>4. Cardinality(T) <= Cardinality(F)
            BY <1>1, <2>2, <2>3, RetriesReplace
        <2> QED BY <2>4 DEF T, F
    <1>2. RolloutsInv => AnsweredOnce
        <2> SUFFICES ASSUME RolloutsInv PROVE AnsweredOnce
            OBVIOUS
        <2>1. AnsweredInTurn(jobs, groups)
            BY DEF RolloutsInv
        <2> QED BY <1>1, <2>1 DEF AnsweredInTurn, AnsweredOnce
    <1> QED BY <1>2, RolloutsAlways, PTL

-----------------------------------------------------------------------------
(* What is promoted is what was reviewed *)

\* A group that is not promoted yet
Unpromoted(g) == g \in DOMAIN groups /\ groups[g].state # "promoted"

\* No group is promoted by replacing another's row, or its own by one that is not.
LEMMA ReplacedGroup ==
    ASSUME NEW g, Unpromoted(g), NEW h, NEW y, y.state # "promoted",
           groups' = [groups EXCEPT ![h] = y]
    PROVE  groups'[g].state # "promoted"
    BY DEF Unpromoted

\* No group is promoted when a group ends without a promotion.
LEMMA FinishedUnpromoted ==
    ASSUME RolloutsInv, NEW g, Unpromoted(g), NEW h \in DOMAIN groups, NEW J, NEW open,
           NEW s \in {"exhausted", "failed", "stale"}, FinishRollout(J, h, s, open)
    PROVE  groups'[g].state # "promoted"
    <1> DEFINE y == [groups[h] EXCEPT !.state = s]
    <1>1. groups[h] \in Group(Len(jobs), contents)
        BY InvariantTables
    <1>2. y.state # "promoted"
        BY <1>1 DEF Group
    <1>3. groups' = [groups EXCEPT ![h] = y]
        BY DEF FinishRollout
    <1> HIDE DEF y
    <1> QED BY <1>2, <1>3, ReplacedGroup

\* No group is promoted when a promotion is queued.
LEMMA QueuedUnpromoted ==
    ASSUME RolloutsInv, NEW g, Unpromoted(g), NEW h \in DOMAIN groups, NEW r, NEW open,
           QueuePromotion(h, r, open)
    PROVE  groups'[g].state # "promoted"
    <1>1. CASE open
        <2> DEFINE y == [groups[h] EXCEPT !.state = "promoting", !.winner = jobs[r].from,
                                          !.promotion = Len(jobs')]
        <2>1. groups[h] \in Group(Len(jobs), contents)
            BY InvariantTables
        <2>2. y.state # "promoted"
            BY <2>1 DEF Group
        <2>3. groups' = [groups EXCEPT ![h] = y]
            BY <1>1 DEF QueuePromotion
        <2> HIDE DEF y
        <2> QED BY <2>2, <2>3, ReplacedGroup
    <1>2. CASE ~open
        BY <1>2, FinishedUnpromoted DEF QueuePromotion
    <1> QED BY <1>1, <1>2

\* No group is promoted when a review of a candidate is queued.
LEMMA ReviewedUnpromoted ==
    ASSUME RolloutsInv, NEW g, Unpromoted(g), NEW h \in DOMAIN groups, groups[h].state # "promoted",
           NEW J, NEW c, NEW open, QueueRolloutReview(J, h, c, open)
    PROVE  groups'[g].state # "promoted"
    <1>1. CASE open
        <2> DEFINE y == [groups[h] EXCEPT !.spent = @ + 1]
        <2>1. groups[h] \in Group(Len(jobs), contents)
            BY InvariantTables
        <2>2. y.state # "promoted"
            BY <2>1 DEF Group
        <2>3. groups' = [groups EXCEPT ![h] = y]
            BY <1>1 DEF QueueRolloutReview
        <2> HIDE DEF y
        <2> QED BY <2>2, <2>3, ReplacedGroup
    <1>2. CASE ~open
        BY <1>2, FinishedUnpromoted DEF QueueRolloutReview
    <1> QED BY <1>1, <1>2

\* No group is promoted by settlement.
LEMMA SettledUnpromoted ==
    ASSUME RolloutsInv, NEW g, Unpromoted(g), NEW j \in DOMAIN jobs, SettleRolloutForJob(j)
    PROVE  groups'[g].state # "promoted"
    <1> DEFINE h == GroupForJob(j)
    <1>1. /\ Len(groups) \in Nat
          /\ DOMAIN groups = 1..Len(groups)
          /\ groups \in Seq(Group(Len(jobs), contents))
        BY InvariantTables DEF RolloutsInv, TypeOK
    <1>2. CASE groups' = groups
        BY <1>2 DEF Unpromoted
    <1>3. CASE OpenRolloutGroup(j)
        <2>1. groups' = groups \/ \E y : groups' = Append(groups, y)
            BY <1>3 DEF OpenRolloutGroup
        <2> QED BY <1>1, <1>2, <2>1 DEF Unpromoted
    <1>4. CASE /\ h # NoGroup
               /\ Settles(h)
               /\ IF groups[h].state = "running" THEN SettleRunning(h) ELSE SettlePromoting(h)
        <2>1. h \in DOMAIN groups
            BY <1>4, GroupOfJob
        <2> HIDE DEF h
        <2>2. CASE groups[h].state = "running"
            <3>1. SettleRunning(h)
                BY <1>4, <2>2
            <3>2. \/ groups' = groups
                  \/ \E r, open : QueuePromotion(h, r, open)
                  \/ \E open : FinishRollout(Judged(Pruned(h), h), h, "exhausted", open)
                  \/ \E c, open : QueueRolloutReview(Judged(Pruned(h), h), h, c, open)
                BY <3>1, Zenon DEF SettleRunning
            <3>3. CASE \E r, open : QueuePromotion(h, r, open)
                BY <2>1, <3>3, QueuedUnpromoted
            <3>4. CASE \E open : FinishRollout(Judged(Pruned(h), h), h, "exhausted", open)
                BY <2>1, <3>4, FinishedUnpromoted
            <3>5. CASE \E c, open : QueueRolloutReview(Judged(Pruned(h), h), h, c, open)
                BY <2>1, <2>2, <3>5, ReviewedUnpromoted
            <3> QED BY <1>2, <3>2, <3>3, <3>4, <3>5
        <2>3. CASE groups[h].state # "running"
            <3>1. SettlePromoting(h)
                BY <1>4, <2>3
            <3>2. \/ groups' = groups
                  \/ FinishRollout(jobs, h, IF jobs[groups[h].promotion].code = "rollout_conflict"
                                            THEN "stale" ELSE "failed", TRUE)
                BY <3>1 DEF SettlePromoting
            <3>3. CASE FinishRollout(jobs, h, IF jobs[groups[h].promotion].code = "rollout_conflict"
                                              THEN "stale" ELSE "failed", TRUE)
                BY <2>1, <3>3, FinishedUnpromoted
            <3> QED BY <1>2, <3>2, <3>3
        <2> QED BY <2>2, <2>3
    <1> QED BY <1>2, <1>3, <1>4 DEF SettleRolloutForJob

\* No group is promoted by a cancellation.
LEMMA CancelledUnpromoted ==
    ASSUME RolloutsInv, NEW g, Unpromoted(g), NEW j \in DOMAIN jobs, CancelJob(j)
    PROVE  groups'[g].state # "promoted"
    <1> DEFINE h == GroupForJob(j)
    <1>1. groups' = groups \/ (h # NoGroup /\ CancelRolloutGroup(h))
        BY DEF CancelJob
    <1>2. CASE h # NoGroup /\ CancelRolloutGroup(h)
        <2> DEFINE y == [groups[h] EXCEPT !.state = "cancelled"]
        <2>1. h \in DOMAIN groups
            BY <1>2, GroupOfJob
        <2>2. groups[h] \in Group(Len(jobs), contents)
            BY <2>1, InvariantTables
        <2>3. groups' = [groups EXCEPT ![h] = y]
            BY <1>2 DEF CancelRolloutGroup
        <2>4. y.state # "promoted"
            BY <2>2 DEF Group
        <2> HIDE DEF y, h
        <2> QED BY <2>3, <2>4, ReplacedGroup
    <1> QED BY <1>1, <1>2 DEF Unpromoted

\* No group is promoted by a pause or its end.
LEMMA TurnedUnpromoted ==
    ASSUME RolloutsInv, NEW g, Unpromoted(g), Pause \/ Resume
    PROVE  groups'[g].state # "promoted"
    <1>1. groups[g] \in Group(Len(jobs), contents)
        BY InvariantTables DEF Unpromoted
    <1>2. \/ groups'[g] = groups[g]
          \/ \E s \in {"paused", "running", "promoting"} : groups'[g] = [groups[g] EXCEPT !.state = s]
        BY DEF Pause, Resume, Unpromoted
    <1> QED BY <1>1, <1>2 DEF Group, Unpromoted

\* Only Promote makes a group promoted.
LEMMA OnlyPromotePromotes ==
    ASSUME RolloutsInv, [Next]_vars, NEW g, Unpromoted(g), groups'[g].state = "promoted"
    PROVE  \E j \in DOMAIN jobs : Promote(j)
    <1>1. groups' # groups
        BY DEF Unpromoted
    <1>2. ASSUME NEW j \in DOMAIN jobs, Finish(j) PROVE Promote(j)
        BY <1>1, <1>2 DEF Finish, CompleteWork, CompleteCandidate, FailWork, FailReview, GiveVerdict,
                          RefusePromotion
    <1>3. ASSUME NEW j \in DOMAIN jobs, Settle(j) PROVE FALSE
        BY <1>1, <1>3, SettledUnpromoted DEF Settle, ReleaseTaskOwnershipIfSafe, SettleInterruptedReview
    <1>4. ASSUME NEW j \in DOMAIN jobs,
                 Dispatch(j) \/ StartPromotion(j) \/ Sweep(j) \/ Resolve(j) \/ ReviewJob(j)
          PROVE  FALSE
        BY <1>1, <1>4 DEF Dispatch, StartPromotion, Sweep, Resolve, ReviewJob
    <1>5. ASSUME NEW j \in DOMAIN jobs, CancelJob(j) PROVE FALSE
        BY <1>5, CancelledUnpromoted
    <1>6. ~(Pause \/ Resume)
        BY TurnedUnpromoted
    <1>7. ~(Request \/ Edit \/ Crash \/ Recover \/ UNCHANGED vars)
        BY <1>1 DEF Request, Edit, Crash, Recover, vars
    <1> QED BY <1>2, <1>3, <1>4, <1>5, <1>6, <1>7 DEF Next

\* A promotion rests on the one review its candidate had.
LEMMA WinnerIsApproved ==
    ASSUME RolloutsInv, NEW j \in DOMAIN jobs, jobs[j].kind = "promotion"
    PROVE  jobs[LatestReview(jobs[j].from)].outcome = "approved"
    <1> DEFINE c == jobs[j].from
    <1>1. PICK r \in DOMAIN jobs : /\ jobs[r].kind = "rollout_review"
                                   /\ jobs[r].from = c
                                   /\ jobs[r].outcome = "approved"
        BY DEF RolloutsInv, Progress
    <1>2. jobs[c].kind = "rollout_candidate"
        BY <1>1, ReviewFacts DEF IsReview
    <1>3. Reviews(c) = {r}
        <2>1. r \in Reviews(c)
            BY <1>1 DEF Reviews, IsReview
        <2>2. ASSUME NEW s \in Reviews(c) PROVE s = r
            <3>1. s \in DOMAIN jobs /\ IsReview(s) /\ jobs[s].from = c
                BY DEF Reviews
            <3>2. jobs[s].kind = "rollout_review"
                <4>1. jobs[s].kind # "review"
                    BY <1>2, <3>1, ReviewFacts DEF Foreground
                <4> QED BY <3>1, <4>1 DEF IsReview
            <3> QED BY <1>1, <3>1, <3>2 DEF RolloutsInv, Progress
        <2> QED BY <2>1, <2>2
    <1>4. MaxOf({r}) = r
        <2>1. r \in 1..Len(jobs) /\ Len(jobs) \in Nat
            BY InvariantTables
        <2>2. MaxOf({r}) \in {r}
            BY <2>1, LargestExists
        <2> QED BY <2>2
    <1>5. LatestReview(c) = r
        BY <1>3, <1>4 DEF LatestReview
    <1> QED BY <1>1, <1>5

\* When a group becomes promoted the canonical tree holds exactly the content of its
\* winner, and the review of the winner approved it.
THEOREM PromotionsAreReviewed == Spec => PromotedIsReviewed
    <1>1. ASSUME RolloutsInv, [Next]_vars, NEW g \in DOMAIN groups,
                 groups[g].state # "promoted", groups'[g].state = "promoted"
          PROVE  /\ tree' = jobs[groups[g].winner].tree
                 /\ jobs[LatestReview(groups[g].winner)].outcome = "approved"
        <2>1. PICK j \in DOMAIN jobs : Promote(j)
            BY <1>1, OnlyPromotePromotes DEF Unpromoted
        <2>2. /\ jobs[j].kind = "promotion"
              /\ jobs[j].state = "applied"
              /\ tree = jobs[j].tree
              /\ tree' = tree
              /\ groups' = [groups EXCEPT ![jobs[j].group].state = "promoted"]
            BY <2>1 DEF Promote, MayPromote, MayPromoteAnyTree
        <2>3. g = jobs[j].group
            BY <1>1, <2>2
        <2>4. groups[g].winner = jobs[j].from
            BY <1>1, <2>2, <2>3, PromotionFacts
        <2>5. jobs[j].tree = jobs[jobs[j].from].tree
            BY <1>1, <2>2 DEF RolloutsInv, Progress
        <2>6. jobs[LatestReview(jobs[j].from)].outcome = "approved"
            BY <1>1, <2>2, WinnerIsApproved
        <2> QED BY <2>2, <2>4, <2>5, <2>6
    <1>2. RolloutsInv /\ [Next]_vars =>
            [\A g \in DOMAIN groups :
               groups[g].state # "promoted" /\ groups'[g].state = "promoted" =>
                 /\ tree' = jobs[groups[g].winner].tree
                 /\ jobs[LatestReview(groups[g].winner)].outcome = "approved"]_vars
        BY <1>1
    <1> QED BY <1>2, RolloutsAlways, PTL DEF Spec, PromotedIsReviewed

=============================================================================
