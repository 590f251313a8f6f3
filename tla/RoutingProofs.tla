--------------------------- MODULE RoutingProofs ---------------------------
(***************************************************************************)
(* Theorems about Routing, for every number of jobs, tiers and grades,     *)
(* every mode, and every threshold of the policy.                          *)
(***************************************************************************)
EXTENDS RoutingInvariant, FiniteSetTheorems, WellFoundedInduction, TLAPS

USE RoutingAssumption

-----------------------------------------------------------------------------
(* The rows *)

JobRows == [state : {"new", "active", "done"}, tier : Tiers, from : Jobs \cup {0},
            outcome : Outcomes, identified : BOOLEAN, cause : Causes,
            grade : Grades \cup {"none"}, source : Sources \cup {"none"}, complete : BOOLEAN]
PolicyRows == [tier : Tiers, reason : {"none", "seeded", "learned", "reverted", "pinned"},
               from : Tiers, pairs : SUBSET (Jobs \X Jobs), fresh : SUBSET Jobs]
LedgerRows == [rowid : Nat, job : Jobs, tier : Tiers, reward : {0, 1}]
Replays == SUBSET [rowid : Nat, reward : {0, 1}]
ArmRows == [prior : {1, 3}, replay : Replays, pinned : BOOLEAN]
Verdicts == [grade : Grades \cup {"none"}, complete : BOOLEAN]

\* A finite ledger that is not empty has a last row.
LEMMA LastRow ==
    ASSUME NEW L \in SUBSET LedgerRows, IsFiniteSet(L), L # {}
    PROVE  \E q \in L : \A r \in L : r.rowid <= q.rowid
<1> DEFINE Last(S) == \E q \in S : \A r \in S : r.rowid <= q.rowid
           Sized(n) == {S \in SUBSET L : S # {} /\ Cardinality(S) = n /\ ~Last(S)}
           Lastless == {n \in Nat : Sized(n) # {}}
<1>1. ASSUME Lastless # {} PROVE FALSE
    <2>1. Lastless \subseteq Nat
        OBVIOUS
    <2>2. PICK n \in Lastless : \A m \in Lastless : ~(<<m, n>> \in OpToRel(<, Nat))
        <3> HIDE DEF Lastless
        <3> QED BY <1>1, <2>1, NatLessThanWellFounded, WFMin
    <2>3. PICK S \in SUBSET L : S # {} /\ Cardinality(S) = n /\ ~Last(S)
        BY <2>2
    <2>4. PICK x \in S : TRUE
        BY <2>3
    <2>5. IsFiniteSet(S) /\ IsFiniteSet(S \ {x}) /\ Cardinality(S \ {x}) = n - 1 /\ Cardinality(S \ {x}) \in Nat
        BY <2>3, <2>4, FS_Subset, FS_RemoveElement, FS_CardinalityType
    <2>6. n \in Nat /\ n - 1 \in Nat /\ n - 1 < n
        <3>1. n \in Nat
            BY <2>2
        <3>2. n - 1 \in Nat
            BY ONLY <2>5
        <3> QED BY ONLY <3>1, <3>2
    <2>7. <<n - 1, n>> \in OpToRel(<, Nat)
        <3>1. <<n - 1, n>> \in Nat \X Nat
            BY <2>6
        <3> QED BY <2>6, <3>1 DEF OpToRel
    <2>8. n - 1 \notin Lastless
        BY <2>2, <2>7
    <2>9. S \ {x} = {} \/ Last(S \ {x})
        <3>1. S \ {x} \in SUBSET L
            BY <2>3
        <3> HIDE DEF Last
        <3> QED BY <2>5, <2>6, <2>8, <3>1
    <2>10. \A r \in S : r.rowid \in Nat
        BY <2>3 DEF LedgerRows
    <2>11. Last(S)
        BY <2>4, <2>9, <2>10
    <2> QED BY <2>3, <2>11
<1>2. Cardinality(L) \in Nat
    BY FS_CardinalityType
<1>3. Lastless = {}
    BY <1>1
<1>4. Last(L)
    <2> HIDE DEF Last
    <2> QED BY <1>2, <1>3
<1> QED BY <1>4

\* Row x, once a job is finished, says something of its outcome.
FinishedRows == {x \in JobRows : x.outcome # "none"}

LEMMA CauseType ==
    ASSUME NEW outcome \in Outcomes \ {"none"}, NEW grade
    PROVE  /\ FailureCause(outcome, grade) \in Causes
           /\ FailureCause(outcome, grade) = "environmental" => outcome = "environmental"
BY DEF FailureCause, Outcomes, Causes

LEMMA GradedType ==
    ASSUME NEW x \in FinishedRows, NEW grade \in Grades, NEW source \in Sources, NEW complete \in BOOLEAN
    PROVE  /\ Graded(x, grade, source, complete) \in FinishedRows
           /\ Graded(x, grade, source, complete).source = source
           /\ Graded(x, grade, source, complete).grade = grade
           /\ Graded(x, grade, source, complete).complete = complete
           /\ Graded(x, grade, source, complete).state = x.state
           /\ Graded(x, grade, source, complete).tier = x.tier
           /\ Graded(x, grade, source, complete).outcome = x.outcome
           /\ Graded(x, grade, source, complete).identified = x.identified
           /\ Graded(x, grade, source, complete).from = x.from
           /\ source = "agent" => Graded(x, grade, source, complete).cause = x.cause
           /\ (x.cause = "environmental" => x.outcome = "environmental") =>
                 (Graded(x, grade, source, complete).cause = "environmental" => x.outcome = "environmental")
<1>1. FailureCause(x.outcome, grade) \in Causes
      /\ (FailureCause(x.outcome, grade) = "environmental" => x.outcome = "environmental")
    BY CauseType DEF FinishedRows, JobRows
<1> DEFINE cause == CASE source = "agent" -> x.cause
                      [] source = "reviewer" /\ ~complete -> "none"
                      [] OTHER -> FailureCause(x.outcome, grade)
<1>2. /\ cause \in Causes
      /\ source = "agent" => cause = x.cause
      /\ (x.cause = "environmental" => x.outcome = "environmental") =>
            (cause = "environmental" => x.outcome = "environmental")
    BY <1>1 DEF FinishedRows, JobRows, Causes
<1> HIDE DEF cause
<1>3. Graded(x, grade, source, complete)
         = [x EXCEPT !.grade = grade, !.source = source, !.complete = complete, !.cause = cause]
    BY DEF Graded, cause, FinishedRows, JobRows
<1> QED BY <1>2, <1>3 DEF FinishedRows, JobRows

-----------------------------------------------------------------------------
(* The ledger *)

\* A new row comes after all others.
LEMMA NextRowidIsNew ==
    ASSUME ledger \in SUBSET LedgerRows, IsFiniteSet(ledger)
    PROVE  NextRowid \in Nat /\ \A r \in ledger : r.rowid < NextRowid
<1>1. CASE ledger = {}
    BY <1>1 DEF NextRowid
<1>2. CASE ledger # {}
    <2> DEFINE ids == {r.rowid : r \in ledger}
               n == CHOOSE m \in ids : \A r \in ledger : r.rowid <= m
    <2>1. \A r \in ledger : r.rowid \in Nat
        BY DEF LedgerRows
    <2>2. \E m \in ids : \A r \in ledger : r.rowid <= m
        BY <1>2, LastRow
    <2>3. n \in ids /\ \A r \in ledger : r.rowid <= n
        BY <2>2
    <2>4. n \in Nat
        BY <2>1, <2>3
    <2>5. NextRowid = 1 + n
        BY <1>2 DEF NextRowid
    <2> HIDE DEF n
    <2> QED BY <2>1, <2>3, <2>4, <2>5
<1> QED BY <1>1, <1>2

\* Ledger L differs from the ledger of now in the one row of job j, which has that value.
Enters(L, j, tier, value) ==
    /\ L \in SUBSET LedgerRows /\ IsFiniteSet(L)
    /\ \A r : r.job # j => (r \in L <=> r \in ledger)
    /\ \A r \in L : r.job = j => r.tier = tier /\ value # NoReward /\ r.reward = value
    /\ value # NoReward => \E r \in L : r.job = j
    /\ \A q, r \in L : q.job = r.job \/ q.rowid = r.rowid => q = r

LEMMA EnteredIsOneRow ==
    ASSUME ledger \in SUBSET LedgerRows, IsFiniteSet(ledger),
           \A q, r \in ledger : q.job = r.job \/ q.rowid = r.rowid => q = r,
           NEW j \in Jobs, NEW tier \in Tiers, NEW value \in {NoReward, 0, 1},
           \A r \in ledger : r.job = j => r.tier = tier
    PROVE  Enters(Entered(j, tier, value), j, tier, value)
<1>1. IsFiniteSet(ledger \ Rows(j)) /\ NoReward \notin {0, 1}
    BY FS_Subset DEF NoReward
<1>2. CASE value = NoReward
    <2>1. Entered(j, tier, value) = ledger \ Rows(j)
        BY <1>2 DEF Entered
    <2> QED BY <1>1, <1>2, <2>1 DEF Enters, Rows
<1>3. CASE value # NoReward /\ Rows(j) = {}
    <2> DEFINE new == [rowid |-> NextRowid, job |-> j, tier |-> tier, reward |-> value]
    <2>1. Entered(j, tier, value) = ledger \cup {new}
        BY <1>3 DEF Entered
    <2>2. NextRowid \in Nat /\ \A r \in ledger : r.rowid < NextRowid /\ r.rowid \in Nat
        BY NextRowidIsNew DEF LedgerRows
    <2>3. new \in LedgerRows
        BY <1>1, <1>3, <2>2 DEF LedgerRows
    <2>4. IsFiniteSet(ledger \cup {new})
        BY FS_AddElement
    <2>5. \A r \in ledger : r.job # j
        BY <1>3 DEF Rows
    <2>6. new.rowid = NextRowid /\ new.job = j /\ new.tier = tier /\ new.reward = value
        OBVIOUS
    <2> HIDE DEF new
    <2>7. \A r \in ledger : r.rowid # new.rowid
        BY <2>2, <2>6
    <2> QED BY <1>3, <2>1, <2>3, <2>4, <2>5, <2>6, <2>7 DEF Enters
<1>4. CASE value # NoReward /\ Rows(j) # {}
    <2>1. PICK o \in ledger : o.job = j
        BY <1>4 DEF Rows
    <2>2. Rows(j) = {o}
        BY <2>1 DEF Rows
    <2> DEFINE new == [o EXCEPT !.reward = value]
    <2>3. {[r EXCEPT !.reward = value] : r \in Rows(j)} = {new}
        BY <2>2
    <2>4. Entered(j, tier, value) = (ledger \ {o}) \cup {new}
        BY <1>4, <2>2, <2>3 DEF Entered
    <2>5. new \in LedgerRows /\ new.rowid = o.rowid /\ new.job = j /\ new.tier = tier /\ new.reward = value
        BY <1>1, <1>4, <2>1 DEF LedgerRows
    <2>6. IsFiniteSet((ledger \ {o}) \cup {new})
        BY <1>1, <2>2, FS_AddElement
    <2>7. \A r \in ledger \ {o} : r.job # j /\ r.rowid # o.rowid
        BY <2>1
    <2> HIDE DEF new
    <2> QED BY <1>4, <2>1, <2>4, <2>5, <2>6, <2>7 DEF Enters
<1> QED BY <1>2, <1>3, <1>4

\* What a reward is, once a job is finished: none, a loss or a win.
Value(x) == IF x.source = "reviewer" /\ ~x.complete THEN NoReward ELSE Reward(x)

LEMMA ValueType ==
    ASSUME NEW x
    PROVE  Value(x) \in {NoReward, 0, 1}
BY DEF Value, Reward

\* The arms replay the ledger.
Replayed == \A t \in Tiers : arms[t].replay = RewardsOf(ledger, t)

LEMMA ReplayType ==
    ASSUME NEW L \in SUBSET LedgerRows, NEW t
    PROVE  RewardsOf(L, t) \in Replays
BY DEF RewardsOf, Replays, LedgerRows

\* The ledger is right about job j: nobody else's row moves, and the row of j is its value.
LEMMA UpdateFacts ==
    ASSUME ledger \in SUBSET LedgerRows, IsFiniteSet(ledger),
           \A q, r \in ledger : q.job = r.job \/ q.rowid = r.rowid => q = r,
           arms \in [Tiers -> ArmRows],
           NEW j \in Jobs, NEW x \in JobRows, \A r \in ledger : r.job = j => r.tier = x.tier,
           UpdateReward(j, x)
    PROVE  /\ arms' \in [Tiers -> ArmRows]
           /\ IF setup.bandit /\ x.source # "agent" /\ ~IsPromotion(j)
              THEN Enters(ledger', j, x.tier, Value(x))
              ELSE ledger' = ledger /\ arms' = arms
           /\ Replayed => Replayed'
<1> DEFINE old == {r.reward : r \in Rows(j)}
           same == IF Value(x) = NoReward THEN old = {} ELSE old = {Value(x)}
<1>1. Value(x) \in {NoReward, 0, 1} /\ x.tier \in Tiers
    BY ValueType DEF JobRows
<1>2. CASE ~setup.bandit \/ x.source = "agent" \/ IsPromotion(j)
    BY <1>2 DEF UpdateReward, Replayed
<1>3. CASE ~(~setup.bandit \/ x.source = "agent" \/ IsPromotion(j)) /\ same
    <2>1. ledger' = ledger /\ arms' = arms
        BY <1>3 DEF UpdateReward, Value
    <2>2. \A r \in ledger : r.job = j => Value(x) # NoReward /\ r.reward = Value(x)
        BY <1>3 DEF Rows
    <2>3. Value(x) # NoReward => \E r \in ledger : r.job = j
        BY <1>3 DEF Rows
    <2> HIDE DEF same, old
    <2>4. Enters(ledger, j, x.tier, Value(x))
        BY <2>2, <2>3 DEF Enters
    <2> QED BY <1>3, <2>1, <2>4 DEF Replayed
<1>4. CASE ~(~setup.bandit \/ x.source = "agent" \/ IsPromotion(j)) /\ ~same
    <2>1. ledger' = Entered(j, x.tier, Value(x))
          /\ arms' = [arms EXCEPT ![x.tier].replay = RewardsOf(ledger', x.tier)]
        BY <1>4 DEF UpdateReward, Value
    <2>2. Enters(ledger', j, x.tier, Value(x))
        BY <1>1, <2>1, EnteredIsOneRow
    <2>3. RewardsOf(ledger', x.tier) \in Replays
        BY <2>2, ReplayType DEF Enters
    <2>4. arms' \in [Tiers -> ArmRows] /\ arms'[x.tier].replay = RewardsOf(ledger', x.tier)
          /\ \A t \in Tiers : t # x.tier => arms'[t] = arms[t]
        BY <1>1, <2>1, <2>3 DEF ArmRows
    <2>5. ASSUME NEW t \in Tiers, t # x.tier PROVE RewardsOf(ledger', t) = RewardsOf(ledger, t)
        <3>1. {q \in ledger' : q.tier = t} = {q \in ledger : q.tier = t}
            BY <2>2, <2>5 DEF Enters
        <3> QED BY <3>1 DEF RewardsOf
    <2> HIDE DEF same, old
    <2> QED BY <1>4, <2>2, <2>4, <2>5 DEF Replayed
<1> QED BY <1>2, <1>3, <1>4

-----------------------------------------------------------------------------
(* What a job is owed *)

\* What the ledger owes a job with row x, graded so: g.
OwedBy(x, g) ==
    LET verdict == g[IF g["human"].grade # "none" THEN "human" ELSE "reviewer"] IN
    IF ~x.identified \/ ~verdict.complete THEN {}
    ELSE CASE x.outcome = "quality_gate" -> {0}
           [] x.outcome = "completed" /\ verdict.grade = "good" -> {1}
           [] x.outcome = "completed" /\ verdict.grade = "bad" -> {0}
           [] OTHER -> {}

Worth(value) == IF value = NoReward THEN {} ELSE {value}

GivenRows == [Sources -> Verdicts]

\* The row of a finished job is enough to know what it is owed, unless only an agent graded it.
LEMMA OwedIsValue ==
    ASSUME NEW x \in FinishedRows, NEW g \in GivenRows, RowKeeps(x, g), x.source # "agent"
    PROVE  OwedBy(x, g) = Worth(Value(x))
<1>1. /\ g["human"].grade \in {"good", "bad", "none"} /\ g["reviewer"].grade \in {"good", "bad", "none"}
      /\ g["human"].complete \in BOOLEAN /\ g["reviewer"].complete \in BOOLEAN
    BY DEF GivenRows, Verdicts, Sources, Grades
<1>2. /\ x.outcome \in {"completed", "partial", "quality_gate", "environmental"}
      /\ x.identified \in BOOLEAN /\ x.complete \in BOOLEAN /\ x.source \in {"none", "reviewer", "human"}
    BY DEF FinishedRows, JobRows, Outcomes, Sources
<1> DEFINE verdict == IF g["human"].grade # "none" THEN g["human"] ELSE g["reviewer"]
<1>3. OwedBy(x, g) = IF ~x.identified \/ ~verdict.complete THEN {}
                     ELSE CASE x.outcome = "quality_gate" -> {0}
                            [] x.outcome = "completed" /\ verdict.grade = "good" -> {1}
                            [] x.outcome = "completed" /\ verdict.grade = "bad" -> {0}
                            [] OTHER -> {}
    BY DEF OwedBy
<1>4. x.cause = "environmental" => x.outcome = "environmental"
    BY DEF RowKeeps
<1>5. /\ verdict.complete <=> ~(x.source = "reviewer" /\ ~x.complete)
      /\ verdict.grade = "none" <=> x.source = "none"
      /\ verdict.grade \in {"good", "bad", "none"}
      /\ x.source # "none" => x.grade = verdict.grade
    <2>1. CASE g["human"].grade # "none"
        BY <1>1, <1>2, <2>1 DEF RowKeeps
    <2>2. CASE g["human"].grade = "none" /\ g["reviewer"].grade # "none"
        BY <1>1, <1>2, <2>2 DEF RowKeeps
    <2>3. CASE g["human"].grade = "none" /\ g["reviewer"].grade = "none"
        BY <1>1, <1>2, <2>3 DEF RowKeeps
    <2> QED BY <2>1, <2>2, <2>3
<1> HIDE DEF verdict
<1>6. CASE ~x.identified
    <2>1. Value(x) = NoReward
        BY <1>6 DEF Value, Reward
    <2> QED BY ONLY <1>3, <1>6, <2>1 DEF Worth
<1>7. CASE ~verdict.complete
    <2>1. Value(x) = NoReward
        BY <1>5, <1>7 DEF Value
    <2> QED BY ONLY <1>3, <1>7, <2>1 DEF Worth
<1> DEFINE sure == x.identified /\ verdict.complete
<1>8. CASE sure /\ x.outcome = "quality_gate"
    <2>1. Value(x) = 0
        BY <1>2, <1>4, <1>5, <1>8 DEF Value, Reward
    <2>2. OwedBy(x, g) = {0}
        BY ONLY <1>3, <1>8
    <2> QED BY <2>1, <2>2 DEF Worth, NoReward
<1>9. CASE sure /\ x.outcome = "completed"
    <2>1. CASE x.source = "none"
        <3>1. Value(x) = NoReward
            BY <1>2, <1>4, <1>5, <1>9, <2>1 DEF Value, Reward
        <3>2. OwedBy(x, g) = {}
            BY ONLY <1>3, <1>5, <1>9, <2>1
        <3> QED BY <3>1, <3>2 DEF Worth
    <2>2. CASE x.source # "none" /\ verdict.grade = "good"
        <3>1. Value(x) = 1
            BY <1>2, <1>4, <1>5, <1>9, <2>2 DEF Value, Reward
        <3>2. OwedBy(x, g) = {1}
            BY ONLY <1>3, <1>5, <1>9, <2>2
        <3> QED BY <3>1, <3>2 DEF Worth, NoReward
    <2>3. CASE x.source # "none" /\ verdict.grade = "bad"
        <3>1. Value(x) = 0
            BY <1>2, <1>4, <1>5, <1>9, <2>3 DEF Value, Reward
        <3>2. OwedBy(x, g) = {0}
            BY ONLY <1>3, <1>5, <1>9, <2>3
        <3> QED BY <3>1, <3>2 DEF Worth, NoReward
    <2> QED BY <1>5, <2>1, <2>2, <2>3
<1>10. CASE sure /\ x.outcome \in {"partial", "environmental"}
    <2>1. Value(x) = NoReward
        BY <1>2, <1>4, <1>5, <1>10 DEF Value, Reward
    <2>2. OwedBy(x, g) = {}
        BY ONLY <1>3, <1>10
    <2> QED BY <2>1, <2>2 DEF Worth
<1> QED BY <1>2, <1>6, <1>7, <1>8, <1>9, <1>10

\* The grades that were given, one more of them.
AlsoGiven(g, source, grade, complete) ==
    [g EXCEPT ![source] = [grade |-> grade, complete |-> complete]]

\* A grade that is not outranked is the one that counts, and an agent's changes nothing that
\* is owed.
LEMMA GradeKeeps ==
    ASSUME NEW x \in FinishedRows, NEW g \in GivenRows, RowKeeps(x, g),
           NEW grade \in Grades, NEW source \in Sources, NEW complete \in BOOLEAN,
           source # "reviewer" => complete,
           ~Outranked(x, source)
    PROVE  /\ AlsoGiven(g, source, grade, complete) \in GivenRows
           /\ RowKeeps(Graded(x, grade, source, complete), AlsoGiven(g, source, grade, complete))
           /\ source = "agent" =>
                OwedBy(Graded(x, grade, source, complete), AlsoGiven(g, source, grade, complete))
                  = OwedBy(x, g)
<1> DEFINE y == Graded(x, grade, source, complete)
           h == AlsoGiven(g, source, grade, complete)
<1>1. /\ y.source = source /\ y.grade = grade /\ y.complete = complete
      /\ y.outcome = x.outcome /\ y.identified = x.identified
      /\ (x.cause = "environmental" => x.outcome = "environmental") =>
            (y.cause = "environmental" => x.outcome = "environmental")
    BY GradedType
<1>2. /\ h \in GivenRows
      /\ h[source].grade = grade /\ h[source].complete = complete
      /\ \A s \in Sources : s # source => h[s] = g[s]
    BY DEF AlsoGiven, GivenRows, Verdicts
<1>3. /\ x.outcome # "none" /\ grade # "none" /\ x.source \in {"none", "agent", "reviewer", "human"}
      /\ {"human", "reviewer"} \subseteq Sources /\ source \in {"agent", "reviewer", "human"}
    BY DEF FinishedRows, JobRows, Grades, Sources
<1>4. /\ source = "agent" => x.source \in {"none", "agent"}
      /\ source = "reviewer" => x.source # "human"
    BY <1>3 DEF Outranked, Rank
<1> HIDE DEF y, h
<1>5. RowKeeps(y, h)
    <2>1. CASE source = "human"
        BY <1>1, <1>2, <1>3, <2>1 DEF RowKeeps
    <2>2. CASE source = "reviewer"
        BY <1>1, <1>2, <1>3, <1>4, <2>2 DEF RowKeeps
    <2>3. CASE source = "agent"
        BY <1>1, <1>2, <1>3, <1>4, <2>3 DEF RowKeeps
    <2> QED BY <1>3, <2>1, <2>2, <2>3
<1>6. source = "agent" => OwedBy(y, h) = OwedBy(x, g)
    BY <1>1, <1>2, <1>3 DEF OwedBy
<1> QED BY <1>2, <1>5, <1>6 DEF y, h

\* A job that nobody graded yet keeps what it says of its outcome.
LEMMA FinishKeeps ==
    ASSUME NEW x \in FinishedRows, NEW g \in GivenRows, \A s \in Sources : g[s] = Ungraded,
           x.source = "none", x.complete, x.cause = "environmental" => x.outcome = "environmental"
    PROVE  RowKeeps(x, g)
<1>1. g["human"] = Ungraded /\ g["reviewer"] = Ungraded
    BY DEF Sources
<1> QED BY <1>1 DEF RowKeeps, FinishedRows, Ungraded

-----------------------------------------------------------------------------
(* The invariant the proof carries *)

Due(j) == IF IsPromotion(j) THEN {} ELSE OwedBy(jobs[j], given[j])

\* The rows of a finished job are worth what it is due, and unless they were cleared all of it.
Settled ==
    setup.bandit =>
        /\ \A r \in ledger : r.reward \in Due(r.job)
        /\ \A j \in Done \ reset : \A v \in Due(j) : \E r \in ledger : r.job = j /\ r.reward = v
        /\ Replayed

Kept ==
    /\ TypeOK
    /\ GradesAgree
    /\ RowsAgree
    /\ PromotionsFollow
    /\ EvidenceIsDone
    /\ Settled
    /\ PromotionsRestOnEvidence

LEMMA DueIsOwed ==
    ASSUME NEW j \in Jobs
    PROVE  Due(j) = Owed(j)
BY DEF Due, Owed, OwedBy, Authority

LEMMA Types ==
    ASSUME TypeOK
    PROVE  /\ setup \in Setups
           /\ jobs \in [Jobs -> JobRows]
           /\ policy \in PolicyRows
           /\ ledger \in SUBSET LedgerRows
           /\ arms \in [Tiers -> ArmRows]
           /\ given \in [Jobs -> GivenRows]
           /\ reset \in SUBSET Jobs
           /\ spent \in [grades : 0..setup.grades, orders : 0..setup.orders]
BY DEF TypeOK, JobRows, PolicyRows, LedgerRows, ArmRows, Replays, GivenRows, Verdicts

\* What a step does that moves no reward.
LEMMA SameLedger ==
    ASSUME TypeOK, RowsAgree, Settled,
           ledger' = ledger, setup' = setup, reset' = reset,
           \A t \in Tiers : arms'[t].replay = arms[t].replay,
           Done' = Done,
           \A i \in Done : jobs'[i].tier = jobs[i].tier /\ Due(i)' = Due(i)
    PROVE  RowsAgree' /\ Settled'
<1>1. RowsAgree'
    BY DEF RowsAgree
<1>2. ASSUME setup.bandit PROVE Replayed'
    BY <1>2 DEF Settled, Replayed
<1>3. ASSUME setup.bandit, NEW r \in ledger PROVE r.reward \in Due(r.job)'
    BY <1>3 DEF Settled, RowsAgree
<1>4. ASSUME setup.bandit, NEW j \in Done \ reset, NEW v \in Due(j)'
      PROVE  \E r \in ledger : r.job = j /\ r.reward = v
    BY <1>4 DEF Settled
<1>5. Settled'
    BY <1>2, <1>3, <1>4 DEF Settled
<1> QED BY <1>1, <1>5

\* What a step does that settles the reward of job k: it was graded, or it finished.
LEMMA LedgerStep ==
    ASSUME TypeOK, RowsAgree, Settled,
           NEW k \in Jobs, UpdateReward(k, jobs'[k]),
           setup' = setup, reset' = reset,
           jobs'[k] \in FinishedRows, given'[k] \in GivenRows, RowKeeps(jobs'[k], given'[k]),
           k \in Done', jobs'[k].tier = jobs[k].tier,
           Done' \subseteq Done \cup {k}, Done \subseteq Done',
           \A i \in Done \ {k} : jobs'[i].tier = jobs[i].tier /\ Due(i)' = Due(i),
           jobs'[k].source = "agent" => k \in Done /\ Due(k)' = Due(k)
    PROVE  /\ RowsAgree' /\ Settled'
           /\ ledger' \in SUBSET LedgerRows /\ arms' \in [Tiers -> ArmRows]
<1> DEFINE x == jobs'[k]
<1>1. /\ ledger \in SUBSET LedgerRows /\ arms \in [Tiers -> ArmRows]
      /\ IsFiniteSet(ledger) /\ \A q, r \in ledger : q.job = r.job \/ q.rowid = r.rowid => q = r
    BY Types DEF RowsAgree
<1>2. x \in JobRows /\ \A r \in ledger : r.job = k => r.tier = x.tier
    BY DEF FinishedRows, RowsAgree
<1>3. /\ arms' \in [Tiers -> ArmRows]
      /\ IF setup.bandit /\ x.source # "agent" /\ ~IsPromotion(k)
         THEN Enters(ledger', k, x.tier, Value(x))
         ELSE ledger' = ledger /\ arms' = arms
      /\ Replayed => Replayed'
    BY <1>1, <1>2, UpdateFacts
<1>4. CASE setup.bandit /\ x.source # "agent" /\ ~IsPromotion(k)
    <2>1. Due(k)' = Worth(Value(x))
        <3>1. OwedBy(x, given'[k]) = Worth(Value(x))
            BY <1>4, OwedIsValue
        <3>2. IsPromotion(k)' = IsPromotion(k)
            BY DEF IsPromotion
        <3> QED BY <1>4, <3>1, <3>2 DEF Due
    <2> HIDE DEF x
    <2>2. RowsAgree'
        <3>1. ASSUME NEW r \in ledger' PROVE r.job \in Done' /\ r.tier = jobs'[r.job].tier
            <4>1. CASE r.job = k
                BY <1>3, <1>4, <4>1 DEF Enters, x
            <4>2. CASE r.job # k
                BY <1>3, <1>4, <4>2 DEF Enters, RowsAgree
            <4> QED BY <4>1, <4>2
        <3> QED BY <1>3, <1>4, <3>1 DEF Enters, RowsAgree
    <2>3. ASSUME NEW r \in ledger' PROVE r.reward \in Due(r.job)'
        <3>1. CASE r.job = k
            BY <1>3, <1>4, <2>1, <3>1 DEF Enters, Worth
        <3>2. CASE r.job # k
            <4>1. r \in ledger
                BY <1>3, <1>4, <3>2 DEF Enters
            <4>2. r.job \in Done \ {k} /\ r.reward \in Due(r.job)
                BY <1>4, <3>2, <4>1 DEF RowsAgree, Settled
            <4>3. Due(r.job)' = Due(r.job)
                BY <4>2
            <4> QED BY <4>2, <4>3
        <3> QED BY <3>1, <3>2
    <2>4. ASSUME NEW j \in Done' \ reset, NEW v \in Due(j)'
          PROVE  \E r \in ledger' : r.job = j /\ r.reward = v
        <3>1. CASE j = k
            BY <1>3, <1>4, <2>1, <2>4, <3>1 DEF Enters, Worth
        <3>2. CASE j # k
            <4>1. j \in (Done \ reset) \ {k}
                BY <2>4, <3>2
            <4>2. v \in Due(j)
                BY <2>4, <4>1
            <4>3. PICK r \in ledger : r.job = j /\ r.reward = v
                BY <1>4, <4>1, <4>2 DEF Settled
            <4> QED BY <1>3, <1>4, <3>2, <4>3 DEF Enters
        <3> QED BY <3>1, <3>2
    <2>5. Settled'
        BY <1>3, <1>4, <2>3, <2>4 DEF Settled
    <2> QED BY <1>3, <1>4, <2>2, <2>5 DEF Enters
<1>5. CASE ~(setup.bandit /\ x.source # "agent" /\ ~IsPromotion(k))
    <2>1. ledger' = ledger /\ arms' = arms
        BY <1>3, <1>5
    <2>2. IsPromotion(k)' = IsPromotion(k)
        BY DEF IsPromotion
    <2>3. RowsAgree'
        BY <2>1 DEF RowsAgree
    <2>4. ASSUME setup.bandit PROVE IF k \in Done THEN Due(k)' = Due(k) ELSE Due(k)' = {}
        <3>1. CASE x.source = "agent"
            BY <3>1
        <3>2. CASE IsPromotion(k)
            BY <2>2, <3>2 DEF Due
        <3> QED BY <1>5, <2>4, <3>1, <3>2
    <2>5. ASSUME setup.bandit, NEW r \in ledger PROVE r.reward \in Due(r.job)'
        <3>1. r.job \in Done /\ r.reward \in Due(r.job)
            BY <2>5 DEF RowsAgree, Settled
        <3>2. Due(r.job)' = Due(r.job)
            <4>1. CASE r.job = k
                BY <2>4, <2>5, <3>1, <4>1
            <4>2. CASE r.job # k
                BY <3>1, <4>2
            <4> QED BY <4>1, <4>2
        <3> QED BY <3>1, <3>2
    <2>6. ASSUME setup.bandit, NEW j \in Done' \ reset, NEW v \in Due(j)'
          PROVE  \E r \in ledger : r.job = j /\ r.reward = v
        <3>1. j \in Done \ reset /\ v \in Due(j)
            <4>1. CASE j = k
                BY <2>4, <2>6, <4>1
            <4>2. CASE j # k
                BY <2>6, <4>2
            <4> QED BY <4>1, <4>2
        <3> QED BY <2>6, <3>1 DEF Settled
    <2>7. Settled'
        BY <1>3, <2>1, <2>5, <2>6 DEF Settled
    <2> QED BY <1>1, <1>3, <2>1, <2>3, <2>7
<1> QED BY <1>4, <1>5

-----------------------------------------------------------------------------
(* The policy and its evidence *)

Finished(js) == {i \in Jobs : js[i].state = "done"}

SoundJobs(js) ==
    /\ js \in [Jobs -> JobRows]
    /\ IsFiniteSet(Finished(js))
    /\ \A i \in Jobs : js[i].state # "done" => js[i].cause = "none" /\ js[i].source = "none"

\* The pairs of policy row p that still hold, among jobs js.
Evidence(js, p) ==
    {x \in p.pairs : Good(js[x[2]]) /\ (js[x[1]].cause = "capability" \/ js[x[1]].source = "reviewer")}

SoundPolicy(js, p) ==
    /\ p \in PolicyRows
    /\ p.pairs \subseteq Finished(js) \X Finished(js)
    /\ setup.bandit => p.pairs = {}
    /\ p.pairs # {} => p.tier = p.from + 1 /\ Cardinality(Evidence(js, p)) >= PromotePairs

LEMMA SetType ==
    ASSUME NEW tier \in Tiers, NEW from \in Tiers, NEW pairs \in SUBSET (Jobs \X Jobs),
           NEW reason \in {"none", "seeded", "learned", "reverted", "pinned"}
    PROVE  Set(tier, reason, from, pairs) \in PolicyRows
BY DEF Set, PolicyRows

LEMMA SetIsSound ==
    ASSUME NEW js, NEW tier \in Tiers, NEW from \in Tiers,
           NEW reason \in {"none", "seeded", "learned", "reverted", "pinned"}
    PROVE  SoundPolicy(js, Set(tier, reason, from, {}))
<1>1. Set(tier, reason, from, {}) \in PolicyRows
    BY SetType
<1>2. Set(tier, reason, from, {}).pairs = {}
    BY DEF Set
<1> QED BY <1>1, <1>2 DEF SoundPolicy

LEMMA PairsAreFinite ==
    ASSUME NEW js, SoundJobs(js), NEW S \in SUBSET (Finished(js) \X Finished(js))
    PROVE  IsFiniteSet(S)
<1>1. IsFiniteSet(Finished(js) \X Finished(js))
    BY FS_Product DEF SoundJobs
<1> QED BY <1>1, FS_Subset

\* Evidence that only grows keeps a promotion.
LEMMA EvidenceGrows ==
    ASSUME NEW before, NEW js, NEW p, SoundPolicy(before, p), SoundJobs(js),
           Finished(before) \subseteq Finished(js), Evidence(before, p) \subseteq Evidence(js, p)
    PROVE  SoundPolicy(js, p)
<1>1. p.pairs \subseteq Finished(js) \X Finished(js)
    BY DEF SoundPolicy
<1>2. Evidence(js, p) \subseteq p.pairs
    BY DEF Evidence
<1>3. IsFiniteSet(Evidence(js, p))
    BY <1>1, <1>2, PairsAreFinite
<1>4. /\ Cardinality(Evidence(before, p)) \in Nat /\ Cardinality(Evidence(js, p)) \in Nat
      /\ Cardinality(Evidence(before, p)) <= Cardinality(Evidence(js, p))
    BY <1>3, FS_Subset, FS_CardinalityType
<1>5. PromotePairs \in Nat
    OBVIOUS
<1>6. p.pairs # {} => Cardinality(Evidence(js, p)) >= PromotePairs
    BY <1>4, <1>5 DEF SoundPolicy
<1> QED BY <1>1, <1>6 DEF SoundPolicy

\* A promotion rests on the pairs that made it; nothing else evolveRouting does rests on any.
LEMMA EvolvedIsSound ==
    ASSUME NEW js, NEW p, NEW j, SoundJobs(js), SoundPolicy(js, p), ~setup.bandit
    PROVE  SoundPolicy(js, Evolved(js, p, j))
<1>1. p.tier \in 1..MaxTier /\ MaxTier \in Nat /\ p.tier \in Tiers
    BY DEF SoundPolicy, PolicyRows, Tiers
<1>2. CASE Promotes(js, p)
    <2> DEFINE q == Set(p.tier + 1, "learned", p.tier, Pairs(js, p))
    <2>1. p.tier + 1 \in Tiers
        BY <1>1, <1>2 DEF Promotes, Tiers
    <2>2. ASSUME NEW x \in Pairs(js, p)
          PROVE  /\ x \in Jobs \X Jobs
                 /\ js[x[1]].cause = "capability" /\ Good(js[x[2]])
        BY DEF Pairs, Fixes, Good
    <2>3. Pairs(js, p) \subseteq Finished(js) \X Finished(js)
        <3>1. ASSUME NEW x \in Pairs(js, p) PROVE x[1] \in Finished(js) /\ x[2] \in Finished(js)
            <4>1. x[1] \in Jobs /\ x[2] \in Jobs
                BY <2>2
            <4>2. js[x[1]].cause # "none" /\ js[x[2]].source # "none"
                BY <2>2 DEF Good
            <4> QED BY <4>1, <4>2 DEF Finished, SoundJobs
        <3> QED BY <2>2, <3>1
    <2>4. q \in PolicyRows /\ q.pairs = Pairs(js, p) /\ q.tier = q.from + 1
        <3>1. Pairs(js, p) \in SUBSET (Jobs \X Jobs)
            BY <2>2
        <3>2. q \in PolicyRows
            BY <1>1, <2>1, <3>1, SetType
        <3> QED BY <3>2 DEF Set
    <2>5. Evidence(js, q) = Pairs(js, p)
        BY <2>2, <2>4 DEF Evidence
    <2>6. Cardinality(Pairs(js, p)) >= PromotePairs
        BY <1>2 DEF Promotes
    <2>7. SoundPolicy(js, q)
        BY <2>3, <2>4, <2>5, <2>6 DEF SoundPolicy
    <2>8. Evolved(js, p, j) \in {p, q}
        BY <1>2 DEF Evolved
    <2> QED BY <2>7, <2>8
<1>3. CASE ~Promotes(js, p) /\ Demotes(js, p)
    <2>1. p.tier - 1 \in Tiers
        BY <1>1, <1>3 DEF Demotes, Tiers
    <2>2. SoundPolicy(js, Set(p.tier - 1, "learned", p.tier, {}))
        BY <1>1, <2>1, SetIsSound
    <2>3. Evolved(js, p, j) \in {p, Set(p.tier - 1, "learned", p.tier, {})}
        BY <1>3 DEF Evolved
    <2> QED BY <2>2, <2>3
<1>4. CASE ~Promotes(js, p) /\ ~Demotes(js, p)
    <2>1. Evolved(js, p, j) = p
        BY <1>4 DEF Evolved
    <2> QED BY <2>1
<1> QED BY <1>2, <1>3, <1>4

\* Whoever grades job k, and was not outranked, leaves a policy that rests on its evidence: an
\* agent or a reviewer cannot take a pair away, and a human's grade is followed by a check.
LEMMA RelearnedIsSound ==
    ASSUME NEW before, SoundJobs(before), NEW p, SoundPolicy(before, p),
           NEW k \in Finished(before), before[k] \in FinishedRows,
           NEW grade \in Grades, NEW source \in Sources, NEW complete \in BOOLEAN,
           ~Outranked(before[k], source),
           NEW js \in [Jobs -> JobRows], js[k] = Graded(before[k], grade, source, complete),
           \A i \in Jobs \ {k} : js[i] = before[i]
    PROVE  SoundJobs(js) /\ Finished(js) = Finished(before) /\ SoundPolicy(js, Relearned(js, p, k, source))
<1> DEFINE x == before[k]
           y == Graded(before[k], grade, source, complete)
<1>1. /\ y \in FinishedRows /\ y.source = source /\ y.state = x.state /\ y.grade = grade
      /\ source = "agent" => y.cause = x.cause
    BY GradedType
<1> HIDE DEF y
<1>2. js \in [Jobs -> JobRows] /\ js[k] = y /\ k \in Jobs /\ \A i \in Jobs \ {k} : js[i] = before[i]
    BY DEF Finished, y
<1>3. Finished(js) = Finished(before)
    BY <1>1, <1>2 DEF Finished
<1>4. SoundJobs(js)
    BY <1>1, <1>2, <1>3 DEF SoundJobs, Finished
<1>5. /\ source = "agent" => x.source \in {"none", "agent"}
      /\ source = "reviewer" => x.source # "human"
      /\ source \in {"agent", "reviewer", "human"}
    BY DEF FinishedRows, JobRows, Sources, Outranked, Rank
<1> DEFINE checked == IF source = "human" THEN Rechecked(js, p, k) ELSE p
<1>6. \A z \in p.pairs : z[1] \in Jobs /\ z[2] \in Jobs
    BY DEF SoundPolicy, PolicyRows
<1>7. SoundPolicy(js, checked)
    <2>1. CASE source = "agent" \/ source = "reviewer"
        <3>1. ASSUME NEW z \in Evidence(before, p) PROVE z \in Evidence(js, p)
            <4>1. z \in p.pairs /\ z[1] \in Jobs /\ z[2] \in Jobs /\ Good(before[z[2]])
                  /\ (before[z[1]].cause = "capability" \/ before[z[1]].source = "reviewer")
                BY <1>6 DEF Evidence
            <4>2. z[2] # k
                BY <1>5, <2>1, <4>1 DEF Good
            <4>3. Good(js[z[2]])
                BY <1>2, <4>1, <4>2
            <4>4. js[z[1]].cause = "capability" \/ js[z[1]].source = "reviewer"
                <5>1. CASE z[1] # k
                    BY <1>2, <4>1, <5>1
                <5>2. CASE z[1] = k /\ source = "reviewer"
                    BY <1>1, <1>2, <5>2
                <5>3. CASE z[1] = k /\ source = "agent"
                    BY <1>1, <1>2, <1>5, <4>1, <5>3
                <5> QED BY <2>1, <5>1, <5>2, <5>3
            <4> QED BY <4>1, <4>3, <4>4 DEF Evidence
        <3>2. SoundPolicy(js, p)
            BY <1>3, <1>4, <3>1, EvidenceGrows
        <3> QED BY <2>1, <3>2
    <2>2. CASE source = "human" /\ \E z \in p.pairs : k \in {z[1], z[2]}
        <3> DEFINE intact == {z \in p.pairs : Intact(js, z)}
        <3>1. CASE Cardinality(intact) < PromotePairs
            <4>1. checked = Set(p.from, "reverted", p.from, {})
                BY <2>2, <3>1 DEF Rechecked
            <4>2. p.from \in Tiers
                BY DEF SoundPolicy, PolicyRows
            <4> QED BY <4>1, <4>2, SetIsSound
        <3>2. CASE ~(Cardinality(intact) < PromotePairs)
            <4>1. checked = p
                BY <2>2, <3>2 DEF Rechecked
            <4>2. intact \subseteq Evidence(js, p) /\ Evidence(js, p) \subseteq p.pairs
                BY DEF Intact, Evidence
            <4>3. p.pairs \subseteq Finished(js) \X Finished(js)
                BY <1>3 DEF SoundPolicy
            <4>4. IsFiniteSet(Evidence(js, p))
                BY <1>4, <4>2, <4>3, PairsAreFinite
            <4>5. /\ Cardinality(intact) \in Nat /\ Cardinality(Evidence(js, p)) \in Nat
                  /\ Cardinality(intact) <= Cardinality(Evidence(js, p))
                BY <4>2, <4>4, FS_Subset, FS_CardinalityType
            <4> HIDE DEF intact
            <4>6. Cardinality(Evidence(js, p)) >= PromotePairs
                BY <3>2, <4>5
            <4>7. SoundPolicy(js, p)
                BY <4>3, <4>6 DEF SoundPolicy
            <4> QED BY <4>1, <4>7
        <3> QED BY <3>1, <3>2
    <2>3. CASE source = "human" /\ ~\E z \in p.pairs : k \in {z[1], z[2]}
        <3>1. checked = p
            BY <2>3 DEF Rechecked
        <3>2. Evidence(before, p) \subseteq Evidence(js, p)
            BY <1>2, <1>6, <2>3 DEF Evidence
        <3>3. SoundPolicy(js, p)
            BY <1>3, <1>4, <3>2, EvidenceGrows
        <3> QED BY <3>1, <3>3
    <2> QED BY <1>5, <2>1, <2>2, <2>3
<1>8. CASE setup.bandit
    <2>1. p.pairs = {}
        BY <1>8 DEF SoundPolicy
    <2>2. SoundPolicy(js, p)
        BY <2>1 DEF SoundPolicy
    <2>3. Relearned(js, p, k, source) = p
        BY <1>8 DEF Relearned
    <2> QED BY <1>3, <1>4, <2>2, <2>3
<1>9. CASE ~setup.bandit
    <2> HIDE DEF checked
    <2>1. SoundPolicy(js, Evolved(js, checked, k))
        BY <1>4, <1>7, <1>9, EvolvedIsSound
    <2>2. Relearned(js, p, k, source) \in {checked, Evolved(js, checked, k)}
        BY <1>9 DEF Relearned, checked
    <2> QED BY <1>3, <1>4, <1>7, <2>1, <2>2
<1> QED BY <1>8, <1>9

-----------------------------------------------------------------------------
(* Jobs start and finish *)

Begun(js) == {i \in Jobs : js[i].state # "new"}

LEMMA Sound ==
    ASSUME Kept
    PROVE  /\ SoundJobs(jobs) /\ SoundPolicy(jobs, policy) /\ Finished(jobs) = Done
           /\ \A i \in Done : jobs[i] \in FinishedRows /\ RowKeeps(jobs[i], given[i])
<1>1. jobs \in [Jobs -> JobRows] /\ policy \in PolicyRows
    BY Types DEF Kept
<1>2. Finished(jobs) = Done
    BY DEF Finished, Done
<1>3. IsFiniteSet(Done)
    <2>1. Done \in SUBSET {j \in Jobs : jobs[j].state # "new"}
        BY DEF Done
    <2>2. IsFiniteSet({j \in Jobs : jobs[j].state # "new"})
        BY DEF Kept, EvidenceIsDone
    <2> QED BY <2>1, <2>2, FS_Subset
<1>4. SoundJobs(jobs)
    BY <1>1, <1>2, <1>3 DEF SoundJobs, Kept, GradesAgree, Done
<1>5. SoundPolicy(jobs, policy)
    BY <1>1, <1>2 DEF SoundPolicy, Kept, EvidenceIsDone, PromotionsRestOnEvidence, Evidence
<1>6. ASSUME NEW i \in Done PROVE jobs[i] \in FinishedRows /\ RowKeeps(jobs[i], given[i])
    <2>1. i \in Jobs /\ RowKeeps(jobs[i], given[i])
        BY DEF Kept, GradesAgree, Done
    <2> QED BY <1>1, <2>1 DEF FinishedRows, RowKeeps
<1> QED BY <1>2, <1>4, <1>5, <1>6

LEMMA SoundNext ==
    ASSUME setup' = setup, SoundPolicy(jobs', policy'), IsFiniteSet(Begun(jobs'))
    PROVE  EvidenceIsDone' /\ PromotionsRestOnEvidence'
<1>1. Finished(jobs') = Done'
    BY DEF Finished, Done
<1>2. Evidence(jobs', policy') = {x \in policy'.pairs :
        Good(jobs'[x[2]]) /\ (jobs'[x[1]].cause = "capability" \/ jobs'[x[1]].source = "reviewer")}
    BY DEF Evidence
<1>3. EvidenceIsDone'
    BY <1>1 DEF EvidenceIsDone, SoundPolicy, Begun
<1>4. PromotionsRestOnEvidence'
    BY <1>2 DEF PromotionsRestOnEvidence, SoundPolicy, Good
<1> QED BY <1>3, <1>4

LEMMA TypesNext ==
    ASSUME setup \in Setups, setup' = setup, jobs' \in [Jobs -> JobRows], policy' \in PolicyRows,
           ledger' \in SUBSET LedgerRows, arms' \in [Tiers -> ArmRows], given' \in [Jobs -> GivenRows],
           reset' \in SUBSET Jobs, spent' \in [grades : 0..setup.grades, orders : 0..setup.orders]
    PROVE  TypeOK'
BY DEF TypeOK, JobRows, PolicyRows, LedgerRows, ArmRows, Replays, GivenRows, Verdicts

\* A policy row that promotes on the same pairs.
LEMMA SameEvidence ==
    ASSUME NEW js, NEW p, SoundPolicy(js, p),
           NEW q \in PolicyRows, q.pairs = p.pairs, q.tier = p.tier, q.from = p.from
    PROVE  SoundPolicy(js, q)
<1>1. Evidence(js, q) = Evidence(js, p)
    BY DEF Evidence
<1> QED BY <1>1 DEF SoundPolicy

\* The row of a job that runs and that nobody judged yet.
Running(x) ==
    /\ x \in JobRows
    /\ x.state = "active" /\ x.outcome = "none" /\ x.cause = "none" /\ x.source = "none" /\ x.complete

\* A new job starts: nothing of the finished ones changes.
LEMMA StartedIsSound ==
    ASSUME Kept, NEW j \in Jobs, jobs[j].state = "new", NEW x, Running(x),
           NEW js \in [Jobs -> JobRows], js[j] = x, \A i \in Jobs \ {j} : js[i] = jobs[i],
           NEW p \in PolicyRows, p.pairs = policy.pairs, p.tier = policy.tier, p.from = policy.from
    PROVE  /\ SoundJobs(js) /\ SoundPolicy(js, p)
           /\ Finished(js) = Done
           /\ Begun(js) = Begun(jobs) \cup {j}
           /\ IsFiniteSet(Begun(js))
<1>1. SoundJobs(jobs) /\ SoundPolicy(jobs, policy) /\ Finished(jobs) = Done /\ j \notin Done
    BY Sound DEF Done
<1>3. Finished(js) = Done
    BY <1>1 DEF Finished, Running
<1>4. SoundJobs(js)
    BY <1>1, <1>3 DEF SoundJobs, Running, Finished, Done
<1>5. Evidence(jobs, policy) \subseteq Evidence(js, policy)
    <2>1. \A z \in policy.pairs : z[1] \in Jobs \ {j} /\ z[2] \in Jobs \ {j}
        BY <1>1 DEF SoundPolicy, Done
    <2> QED BY <2>1 DEF Evidence
<1>6. SoundPolicy(js, policy)
    BY <1>1, <1>3, <1>4, <1>5, EvidenceGrows
<1>7. SoundPolicy(js, p)
    BY <1>6, SameEvidence
<1>8. Begun(js) = Begun(jobs) \cup {j}
    <2>1. ASSUME NEW i \in Jobs PROVE js[i].state # "new" <=> jobs[i].state # "new" \/ i = j
        BY DEF Running
    <2> QED BY ONLY <2>1, j \in Jobs DEF Begun
<1>9. IsFiniteSet(Begun(js))
    <2>1. IsFiniteSet(Begun(jobs))
        BY DEF Kept, EvidenceIsDone, Begun
    <2>2. IsFiniteSet(Begun(jobs) \cup {j})
        BY <2>1, FS_AddElement
    <2> QED BY <1>8, <2>2
<1> QED BY <1>3, <1>4, <1>7, <1>8, <1>9

LEMMA Starts ==
    ASSUME Kept, NEW j \in Jobs, jobs[j].state = "new", NEW x, Running(x),
           IsPromotion(j) => setup.candidate \in Done,
           jobs' = [jobs EXCEPT ![j] = x], policy' = [policy EXCEPT !.fresh = @ \cup {j}],
           UNCHANGED <<setup, ledger, arms, given, reset, spent>>
    PROVE  Kept'
<1>1. /\ SoundJobs(jobs') /\ SoundPolicy(jobs', policy') /\ Finished(jobs') = Done
      /\ IsFiniteSet(Begun(jobs'))
      /\ \A i \in Jobs \ {j} : jobs'[i] = jobs[i]
    <2>1. jobs \in [Jobs -> JobRows] /\ policy \in PolicyRows
        BY Types DEF Kept
    <2>2. jobs' \in [Jobs -> JobRows] /\ jobs'[j] = x /\ \A i \in Jobs \ {j} : jobs'[i] = jobs[i]
        BY <2>1 DEF Running
    <2>3. policy' \in PolicyRows /\ policy'.pairs = policy.pairs /\ policy'.tier = policy.tier
          /\ policy'.from = policy.from
        BY <2>1 DEF PolicyRows
    <2> QED BY <2>2, <2>3, StartedIsSound
<1>2. j \notin Done /\ Done' = Done
    BY <1>1 DEF Done, Finished
<1>3. TypeOK'
    BY <1>1, Types, TypesNext DEF SoundJobs, SoundPolicy, Kept
<1>4. jobs'[j] = x
    BY Types DEF Kept
<1>5. GradesAgree'
    BY <1>1, <1>2, <1>4 DEF Kept, GradesAgree, Running
<1>6. \A i \in Done : i \in Jobs \ {j}
    BY <1>2 DEF Done
<1>7. ASSUME NEW i \in Done PROVE jobs'[i].tier = jobs[i].tier /\ Due(i)' = Due(i)
    BY <1>1, <1>6 DEF Due, IsPromotion
<1>8. RowsAgree' /\ Settled'
    BY <1>2, <1>7, SameLedger DEF Kept
<1>9. PromotionsFollow'
    BY <1>1, <1>2 DEF Kept, PromotionsFollow, IsPromotion
<1>10. EvidenceIsDone' /\ PromotionsRestOnEvidence'
    BY <1>1, SoundNext
<1> QED BY <1>3, <1>5, <1>8, <1>9, <1>10 DEF Kept

LEMMA CreatedStarts ==
    ASSUME Kept, NEW j \in Jobs, jobs[j].state = "new", ~IsPromotion(j),
           NEW tier \in Tiers, NEW from \in Jobs \cup {0}, Created(j, tier, from)
    PROVE  Kept'
<1> DEFINE x == [jobs[j] EXCEPT !.state = "active", !.tier = tier, !.from = from]
<1>1. jobs \in [Jobs -> JobRows] /\ j \notin Done
    BY Types DEF Kept, Done
<1>2. jobs[j].outcome = "none" /\ jobs[j].cause = "none" /\ jobs[j].source = "none" /\ jobs[j].complete
    BY <1>1 DEF Kept, GradesAgree
<1>3. Running(x)
    BY <1>1, <1>2 DEF Running, JobRows
<1>4. jobs' = [jobs EXCEPT ![j] = x]
    BY <1>1 DEF Created, JobRows
<1> HIDE DEF x
<1> QED BY <1>3, <1>4, Starts DEF Created

LEMMA SendKeeps ==
    ASSUME Kept, NEW j \in Jobs, Send(j)
    PROVE  Kept'
<1>1. PICK t \in Tiers : Created(j, t, 0)
    BY DEF Send
<1>2. jobs[j].state = "new" /\ ~IsPromotion(j)
    BY DEF Send, InTurn, IsPromotion
<1> QED BY <1>1, <1>2, CreatedStarts

LEMMA EscalateKeeps ==
    ASSUME Kept, NEW j \in Jobs, Escalate(j)
    PROVE  Kept'
<1>1. PICK f \in Jobs : jobs[f].tier < MaxTier /\ Created(j, jobs[f].tier + 1, f)
    BY DEF Escalate
<1>2. jobs[f].tier \in Tiers
    BY Types DEF Kept, JobRows
<1>3. jobs[f].tier + 1 \in Tiers
    BY <1>1, <1>2 DEF Tiers
<1>4. jobs[j].state = "new" /\ ~IsPromotion(j)
    BY DEF Escalate, InTurn, IsPromotion
<1> QED BY <1>1, <1>3, <1>4, CreatedStarts

LEMMA FinishKeepsAll ==
    ASSUME Kept, NEW j \in Jobs, NEW outcome \in setup.outcomes, NEW identified \in setup.identified,
           Finish(j, outcome, identified)
    PROVE  Kept'
<1>1. /\ jobs \in [Jobs -> JobRows] /\ given \in [Jobs -> GivenRows]
      /\ jobs[j].state = "active" /\ j \notin Done
    BY Types DEF Kept, Finish, Done
<1>2. outcome \in Outcomes \ {"none"} /\ identified \in BOOLEAN
    BY Types DEF Kept
<1> DEFINE x == [jobs[j] EXCEPT !.state = "done", !.outcome = outcome, !.identified = identified,
                                !.cause = FailureCause(outcome, "none")]
<1>3. /\ FailureCause(outcome, "none") \in Causes
      /\ FailureCause(outcome, "none") = "environmental" => outcome = "environmental"
    BY <1>2, CauseType
<1>4. /\ jobs[j].source = "none" /\ jobs[j].complete
      /\ \A s \in Sources : given[j][s] = Ungraded
    BY <1>1 DEF Kept, GradesAgree
<1>5. /\ x \in FinishedRows /\ x.state = "done" /\ x.source = "none" /\ x.complete
      /\ x.tier = jobs[j].tier
      /\ x.cause = "environmental" => x.outcome = "environmental"
    BY <1>1, <1>2, <1>3, <1>4 DEF FinishedRows, JobRows
<1>6. jobs' = [jobs EXCEPT ![j] = x] /\ UpdateReward(j, x)
    BY DEF Finish
<1>7. policy' = IF setup.bandit \/ ~IsForeground(j) THEN policy
                ELSE Evolved([jobs EXCEPT ![j] = x], policy, j)
    BY DEF Finish
<1> HIDE DEF x
<1>8. UNCHANGED <<setup, given, reset, spent>>
    BY DEF Finish
<1>9. jobs' \in [Jobs -> JobRows] /\ jobs'[j] = x /\ \A i \in Jobs \ {j} : jobs'[i] = jobs[i]
    BY <1>1, <1>5, <1>6 DEF FinishedRows
<1>10. Done' = Done \cup {j} /\ Finished(jobs') = Done' /\ Begun(jobs') = Begun(jobs)
    <2>1. ASSUME NEW i \in Jobs
          PROVE  /\ jobs'[i].state = "done" <=> jobs[i].state = "done" \/ i = j
                 /\ jobs'[i].state # "new" <=> jobs[i].state # "new"
        BY <1>1, <1>5, <1>9
    <2> QED BY ONLY <2>1, j \in Jobs DEF Done, Finished, Begun
<1>11. RowKeeps(x, given[j])
    BY <1>1, <1>4, <1>5, FinishKeeps
<1>12. GradesAgree'
    BY <1>8, <1>9, <1>10, <1>11 DEF Kept, GradesAgree
<1>13. \A i \in Done \ {j} : jobs'[i].tier = jobs[i].tier /\ Due(i)' = Due(i)
    BY <1>8, <1>9 DEF Due, IsPromotion, Done
<1>14. /\ RowsAgree' /\ Settled'
       /\ ledger' \in SUBSET LedgerRows /\ arms' \in [Tiers -> ArmRows]
    BY <1>1, <1>5, <1>6, <1>8, <1>9, <1>10, <1>11, <1>13, LedgerStep DEF Kept
<1>15. SoundJobs(jobs) /\ SoundPolicy(jobs, policy) /\ Finished(jobs) = Done
    BY Sound
<1>16. SoundJobs(jobs')
    <2>1. IsFiniteSet(Finished(jobs'))
        BY <1>10, <1>15, FS_AddElement DEF SoundJobs
    <2> QED BY <1>5, <1>9, <1>15, <2>1 DEF SoundJobs
<1>17. SoundPolicy(jobs', policy)
    <2>1. \A z \in policy.pairs : z[1] \in Jobs \ {j} /\ z[2] \in Jobs \ {j}
        BY <1>1, <1>15 DEF SoundPolicy, Done
    <2>2. Evidence(jobs, policy) \subseteq Evidence(jobs', policy)
        BY <1>9, <2>1 DEF Evidence
    <2> QED BY <1>10, <1>15, <1>16, <2>2, EvidenceGrows
<1>18. SoundPolicy(jobs', policy')
    BY <1>6, <1>7, <1>16, <1>17, EvolvedIsSound
<1>19. TypeOK'
    BY <1>8, <1>9, <1>14, <1>18, Types, TypesNext DEF Kept, SoundPolicy
<1>20. PromotionsFollow'
    BY <1>8, <1>1, <1>9, <1>10 DEF Kept, PromotionsFollow, IsPromotion
<1>21. IsFiniteSet(Begun(jobs'))
    BY <1>10 DEF Kept, EvidenceIsDone, Begun
<1>22. EvidenceIsDone' /\ PromotionsRestOnEvidence'
    BY <1>8, <1>18, <1>21, SoundNext
<1> QED BY <1>12, <1>14, <1>19, <1>20, <1>22 DEF Kept

\* The grades given to a finished job k, and its row, after one more grade that counts.
LEMMA GradedJob ==
    ASSUME Kept, NEW k \in Done, NEW grade \in Grades, NEW source \in Sources, NEW complete \in BOOLEAN,
           source # "reviewer" => complete, ~Outranked(jobs[k], source),
           setup' = setup,
           jobs'[k] = Graded(jobs[k], grade, source, complete),
           given'[k] = AlsoGiven(given[k], source, grade, complete)
    PROVE  /\ k \in Jobs /\ jobs[k] \in FinishedRows /\ jobs'[k] \in FinishedRows /\ jobs'[k].state = "done"
           /\ jobs'[k].source = source /\ jobs'[k].tier = jobs[k].tier
           /\ given'[k] \in GivenRows /\ RowKeeps(jobs'[k], given'[k])
           /\ source = "agent" => Due(k)' = Due(k)
<1>1. k \in Jobs /\ jobs[k] \in FinishedRows /\ RowKeeps(jobs[k], given[k]) /\ jobs[k].state = "done"
    BY Sound DEF Done
<1>2. given[k] \in GivenRows
    BY <1>1, Types DEF Kept
<1>3. /\ jobs'[k] \in FinishedRows /\ jobs'[k].state = "done"
      /\ jobs'[k].source = source /\ jobs'[k].tier = jobs[k].tier
    BY <1>1, GradedType
<1>4. /\ given'[k] \in GivenRows /\ RowKeeps(jobs'[k], given'[k])
      /\ source = "agent" => OwedBy(jobs'[k], given'[k]) = OwedBy(jobs[k], given[k])
    BY <1>1, <1>2, GradeKeeps
<1>5. source = "agent" => Due(k)' = Due(k)
    BY <1>4 DEF Due, IsPromotion
<1> QED BY <1>1, <1>3, <1>4, <1>5

\* A grade of job j alone, or of promotion j and of the candidate c it applied, which alone can
\* have a reward: k is the one whose reward is settled.
LEMMA GradesSettle ==
    ASSUME Kept, NEW j \in Done, NEW k \in Done, j = k \/ IsPromotion(j),
           NEW grade \in Grades, NEW source \in Sources, NEW complete \in BOOLEAN,
           source # "reviewer" => complete, ~Outranked(jobs[j], source), ~Outranked(jobs[k], source),
           jobs' \in [Jobs -> JobRows], given' \in [Jobs -> GivenRows],
           jobs'[j] = Graded(jobs[j], grade, source, complete),
           given'[j] = AlsoGiven(given[j], source, grade, complete),
           jobs'[k] = Graded(jobs[k], grade, source, complete),
           given'[k] = AlsoGiven(given[k], source, grade, complete),
           \A i \in Jobs \ {j, k} : jobs'[i] = jobs[i] /\ given'[i] = given[i],
           UpdateReward(k, jobs'[k]), UNCHANGED <<setup, reset>>,
           spent' \in [grades : 0..setup.grades, orders : 0..setup.orders],
           SoundPolicy(jobs', policy')
    PROVE  Kept'
<1>1. /\ j \in Jobs /\ jobs'[j].state = "done" /\ jobs[j].state = "done" /\ RowKeeps(jobs'[j], given'[j])
      /\ k \in Jobs /\ jobs'[k].state = "done" /\ jobs[k].state = "done" /\ RowKeeps(jobs'[k], given'[k])
      /\ jobs'[j].tier = jobs[j].tier /\ jobs'[k].tier = jobs[k].tier
      /\ jobs'[k] \in FinishedRows /\ given'[k] \in GivenRows
      /\ jobs'[k].source = "agent" => Due(k)' = Due(k)
    BY GradedJob DEF Done
<1>2. Done' = Done /\ Begun(jobs') = Begun(jobs)
    <2>1. \A i \in Jobs : jobs'[i].state = jobs[i].state
        BY <1>1
    <2> QED BY ONLY <2>1 DEF Done, Begun
<1>3. GradesAgree'
    BY <1>1, <1>2 DEF Kept, GradesAgree
<1>4. ASSUME NEW i \in Done \ {k} PROVE jobs'[i].tier = jobs[i].tier /\ Due(i)' = Due(i)
    <2>1. CASE i = j
        BY <1>1, <1>4, <2>1 DEF Due, IsPromotion
    <2>2. CASE i # j
        BY <1>4, <2>2 DEF Due, IsPromotion, Done
    <2> QED BY <2>1, <2>2
<1>5. /\ RowsAgree' /\ Settled'
      /\ ledger' \in SUBSET LedgerRows /\ arms' \in [Tiers -> ArmRows]
    BY <1>1, <1>2, <1>4, LedgerStep DEF Kept
<1>6. TypeOK'
    BY <1>5, Types, TypesNext DEF Kept, SoundPolicy
<1>7. PromotionsFollow'
    <2>1. \A i \in Jobs : jobs'[i].state = jobs[i].state
        BY <1>1
    <2> QED BY <1>2, <2>1 DEF Kept, PromotionsFollow, IsPromotion
<1>8. IsFiniteSet(Begun(jobs'))
    BY <1>2 DEF Kept, EvidenceIsDone, Begun
<1>9. EvidenceIsDone' /\ PromotionsRestOnEvidence'
    BY <1>8, SoundNext
<1> QED BY <1>3, <1>5, <1>6, <1>7, <1>9 DEF Kept

LEMMA GradeKeepsAll ==
    ASSUME Kept, NEW j \in Jobs, NEW grade \in Grades, NEW source \in Sources, NEW complete \in BOOLEAN,
           source # "reviewer" => complete, Grade(j, grade, source, complete)
    PROVE  Kept'
<1> DEFINE c == setup.candidate
           also == PassesOn(j) /\ ~Outranked(jobs[c], source)
           one == [jobs EXCEPT ![j] = Graded(jobs[j], grade, source, complete)]
           two == [one EXCEPT ![c] = Graded(one[c], grade, source, complete)]
           first == Relearned(one, policy, j, source)
<1>1. j \in Done /\ ~Outranked(jobs[j], source)
    BY DEF Grade, MayGrade, Done
<1>2. /\ SoundJobs(jobs) /\ SoundPolicy(jobs, policy) /\ Finished(jobs) = Done
      /\ \A i \in Done : jobs[i] \in FinishedRows
      /\ jobs \in [Jobs -> JobRows] /\ given \in [Jobs -> GivenRows]
    BY Sound, Types DEF Kept
<1>3. /\ one \in [Jobs -> JobRows] /\ one[j] = Graded(jobs[j], grade, source, complete)
      /\ \A i \in Jobs \ {j} : one[i] = jobs[i]
    <2>1. Graded(jobs[j], grade, source, complete) \in JobRows
        BY <1>1, <1>2, GradedType DEF FinishedRows
    <2> QED BY <1>2, <2>1
<1>4. SoundJobs(one) /\ Finished(one) = Done /\ SoundPolicy(one, first)
    <2>1. j \in Finished(jobs) /\ jobs[j] \in FinishedRows
        BY <1>1, <1>2
    <2> HIDE DEF one
    <2> QED
        BY ONLY grade \in Grades, source \in Sources, complete \in BOOLEAN,
            <1>1, <1>2, <1>3, <2>1, RelearnedIsSound
<1>5. /\ UNCHANGED <<setup, reset>>
      /\ jobs' = IF also THEN two ELSE one
      /\ policy' = IF also THEN Relearned(two, first, c, source) ELSE first
      /\ IF also THEN UpdateReward(c, two[c]) ELSE UpdateReward(j, one[j])
      /\ given' = [i \in Jobs |-> IF i = j \/ (also /\ i = c)
                    THEN AlsoGiven(given[i], source, grade, complete) ELSE given[i]]
    BY DEF Grade, AlsoGiven
<1>6. spent' \in [grades : 0..setup.grades, orders : 0..setup.orders]
    <2>1. spent \in [grades : 0..setup.grades, orders : 0..setup.orders] /\ setup.grades \in Nat
        BY Types DEF Kept
    <2>2. spent.grades < setup.grades /\ spent' = [spent EXCEPT !.grades = @ + 1]
        BY DEF Grade
    <2> QED BY <2>1, <2>2
<1>7. \A i \in Jobs : AlsoGiven(given[i], source, grade, complete) \in GivenRows
    BY <1>2 DEF AlsoGiven, GivenRows, Verdicts
<1> HIDE DEF one, two, first
<1>8. CASE ~also
    <2>1. jobs' = one /\ policy' = first /\ UpdateReward(j, jobs'[j])
        BY <1>5, <1>8
    <2>2. given' \in [Jobs -> GivenRows] /\ given'[j] = AlsoGiven(given[j], source, grade, complete)
          /\ \A i \in Jobs \ {j} : given'[i] = given[i]
        BY <1>2, <1>5, <1>7, <1>8
    <2>3. SoundPolicy(jobs', policy')
        BY <1>4, <2>1
    <2>4. /\ jobs' \in [Jobs -> JobRows] /\ jobs'[j] = Graded(jobs[j], grade, source, complete)
          /\ \A i \in Jobs \ {j, j} : jobs'[i] = jobs[i] /\ given'[i] = given[i]
        BY <1>3, <2>1, <2>2
    <2>5. UNCHANGED <<setup, reset>>
        BY <1>5
    <2> QED
        BY ONLY Kept, grade \in Grades, source \in Sources, complete \in BOOLEAN,
            source # "reviewer" => complete, <1>1, <1>6, <2>1, <2>2, <2>3, <2>4, <2>5, GradesSettle
<1>9. CASE also
    <2>1. c \in Done /\ c # j /\ IsPromotion(j) /\ ~Outranked(jobs[c], source)
        BY <1>1, <1>9 DEF PassesOn, Kept, PromotionsFollow, Done
    <2>2. one[c] = jobs[c] /\ c \in Jobs
        BY <1>3, <2>1 DEF Done
    <2>3. /\ two \in [Jobs -> JobRows] /\ two[c] = Graded(jobs[c], grade, source, complete)
          /\ two[j] = Graded(jobs[j], grade, source, complete)
          /\ \A i \in Jobs \ {c} : two[i] = one[i]
          /\ \A i \in Jobs \ {j, c} : two[i] = jobs[i]
        <3>1. Graded(jobs[c], grade, source, complete) \in JobRows
            BY <1>2, <2>1, GradedType DEF FinishedRows
        <3> QED BY <1>3, <2>1, <2>2, <3>1 DEF two
    <2>4. SoundJobs(two) /\ SoundPolicy(two, Relearned(two, first, c, source))
        <3>1. c \in Finished(one) /\ one[c] \in FinishedRows /\ ~Outranked(one[c], source)
            BY <1>2, <1>4, <2>1, <2>2
        <3> HIDE DEF c
        <3> QED
            BY ONLY grade \in Grades, source \in Sources, complete \in BOOLEAN,
                <1>4, <2>2, <2>3, <3>1, RelearnedIsSound
    <2>5. jobs' = two /\ policy' = Relearned(two, first, c, source) /\ UpdateReward(c, jobs'[c])
        BY <1>5, <1>9
    <2>6. given' \in [Jobs -> GivenRows] /\ given'[j] = AlsoGiven(given[j], source, grade, complete)
          /\ given'[c] = AlsoGiven(given[c], source, grade, complete)
          /\ \A i \in Jobs \ {j, c} : given'[i] = given[i]
        BY <1>2, <1>5, <1>7, <1>9, <2>2
    <2>7. SoundPolicy(jobs', policy')
        BY <2>4, <2>5
    <2>8. /\ jobs' \in [Jobs -> JobRows] /\ jobs'[c] = Graded(jobs[c], grade, source, complete)
          /\ jobs'[j] = Graded(jobs[j], grade, source, complete)
          /\ \A i \in Jobs \ {j, c} : jobs'[i] = jobs[i] /\ given'[i] = given[i]
        BY <2>3, <2>5, <2>6
    <2>9. UpdateReward(c, jobs'[c]) /\ UNCHANGED <<setup, reset>>
        BY <1>5, <2>5
    <2> HIDE DEF c
    <2> QED
        BY ONLY Kept, grade \in Grades, source \in Sources, complete \in BOOLEAN,
            source # "reviewer" => complete, <1>1, <1>6, <2>1, <2>6, <2>7, <2>8, <2>9, GradesSettle
<1> QED BY <1>8, <1>9

\* The approval that makes a candidate the winner, and the promotion that applies it.
LEMMA PromoteKeeps ==
    ASSUME Kept, NEW j \in Jobs, Promote(j)
    PROVE  Kept'
<1> DEFINE c == setup.candidate
           x == [jobs[j] EXCEPT !.state = "active", !.tier = jobs[c].tier]
           js == [jobs EXCEPT ![j] = x]
           p == [policy EXCEPT !.fresh = @ \cup {j}]
           won == Graded(jobs[c], "good", "reviewer", TRUE)
           graded == [js EXCEPT ![c] = won]
<1>1. /\ jobs[j].state = "new" /\ IsPromotion(j) /\ jobs[c].state = "done"
      /\ UNCHANGED <<setup, reset, spent>>
    BY DEF Promote, InTurn
<1>2. /\ jobs \in [Jobs -> JobRows] /\ given \in [Jobs -> GivenRows] /\ policy \in PolicyRows
      /\ c \in Jobs /\ c \in Done /\ c # j /\ j \notin Done
    BY <1>1, Types DEF Kept, Done
<1>3. jobs[j].outcome = "none" /\ jobs[j].cause = "none" /\ jobs[j].source = "none" /\ jobs[j].complete
    BY <1>2 DEF Kept, GradesAgree
<1>4. Running(x)
    BY <1>2, <1>3 DEF Running, JobRows
<1>5. js = [jobs EXCEPT ![j].state = "active", ![j].tier = jobs[c].tier]
    BY <1>2 DEF JobRows
<1>6. IF Outranked(jobs[c], "reviewer")
      THEN jobs' = js /\ policy' = p /\ UNCHANGED <<ledger, arms, given>>
      ELSE /\ jobs' = graded
           /\ policy' = Relearned(graded, p, c, "reviewer")
           /\ UpdateReward(c, won)
           /\ given' = [given EXCEPT ![c]["reviewer"] = [grade |-> "good", complete |-> TRUE]]
    BY <1>5 DEF Promote
<1> HIDE DEF x
<1>7. CASE Outranked(jobs[c], "reviewer")
    <2>1. jobs' = [jobs EXCEPT ![j] = x] /\ policy' = [policy EXCEPT !.fresh = @ \cup {j}]
          /\ UNCHANGED <<setup, ledger, arms, given, reset, spent>>
        BY <1>1, <1>6, <1>7
    <2> QED BY ONLY Kept, j \in Jobs, <1>1, <1>2, <1>4, <2>1, Starts
<1>8. CASE ~Outranked(jobs[c], "reviewer")
    <2>1. /\ js \in [Jobs -> JobRows] /\ js[j] = x /\ \A i \in Jobs \ {j} : js[i] = jobs[i]
          /\ p \in PolicyRows /\ p.pairs = policy.pairs /\ p.tier = policy.tier /\ p.from = policy.from
        BY <1>2, <1>4 DEF Running, PolicyRows
    <2>2. /\ won \in FinishedRows /\ won.state = "done" /\ won.source = "reviewer" /\ won.tier = jobs[c].tier
          /\ jobs[c] \in FinishedRows
        <3>1. jobs[c] \in FinishedRows /\ jobs[c].state = "done"
            BY <1>1, <1>2, Sound
        <3>2. "good" \in Grades /\ "reviewer" \in Sources
            BY DEF Grades, Sources
        <3> DEFINE complete == TRUE
        <3>3. complete \in BOOLEAN /\ won = Graded(jobs[c], "good", "reviewer", complete)
            OBVIOUS
        <3> HIDE DEF c, won, complete
        <3> QED BY <3>1, <3>2, <3>3, GradedType
    <2>3. jobs' = graded /\ policy' = Relearned(graded, p, c, "reviewer") /\ UpdateReward(c, won)
        BY <1>6, <1>8
    <2>4. /\ given' \in [Jobs -> GivenRows] /\ given'[c] = AlsoGiven(given[c], "reviewer", "good", TRUE)
          /\ \A i \in Jobs \ {c} : given'[i] = given[i]
        <3>1. given' = [given EXCEPT ![c] = AlsoGiven(given[c], "reviewer", "good", TRUE)]
            BY <1>2, <1>6, <1>8 DEF AlsoGiven, GivenRows
        <3>2. AlsoGiven(given[c], "reviewer", "good", TRUE) \in GivenRows
            BY <1>2 DEF AlsoGiven, GivenRows, Verdicts, Grades
        <3> QED BY <1>2, <3>1, <3>2
    <2> HIDE DEF js, p
    <2>5. /\ SoundJobs(js) /\ SoundPolicy(js, p) /\ Finished(js) = Done
          /\ Begun(js) = Begun(jobs) \cup {j} /\ IsFiniteSet(Begun(js))
        BY ONLY Kept, j \in Jobs, <1>1, <1>4, <2>1, StartedIsSound
    <2>6. /\ graded \in [Jobs -> JobRows] /\ graded[c] = won
          /\ \A i \in Jobs \ {c} : graded[i] = js[i]
        BY <1>2, <2>1, <2>2 DEF FinishedRows
    <2> HIDE DEF graded
    <2>7. SoundJobs(jobs') /\ Finished(jobs') = Done /\ SoundPolicy(jobs', policy')
        <3>1. c \in Finished(js) /\ js[c] = jobs[c] /\ c \in Jobs
            BY <1>2, <2>1, <2>5
        <3> DEFINE complete == TRUE
        <3>2. graded[c] = Graded(js[c], "good", "reviewer", complete)
            BY <2>6, <3>1
        <3>3. "good" \in Grades /\ "reviewer" \in Sources /\ complete \in BOOLEAN
            BY DEF Grades, Sources
        <3>4. js[c] \in FinishedRows /\ ~Outranked(js[c], "reviewer")
            BY <1>8, <2>2, <3>1
        <3> HIDE DEF c, won, complete
        <3>5. SoundJobs(graded) /\ Finished(graded) = Finished(js)
              /\ SoundPolicy(graded, Relearned(graded, p, c, "reviewer"))
            BY ONLY <2>5, <2>6, <3>1, <3>2, <3>3, <3>4, RelearnedIsSound
        <3> QED BY <2>3, <2>5, <3>5
    <2>8. /\ jobs' \in [Jobs -> JobRows] /\ jobs'[c] = won /\ jobs'[j] = x
          /\ \A i \in Jobs \ {j, c} : jobs'[i] = jobs[i]
        BY <1>2, <2>1, <2>3, <2>6
    <2>9. Done' = Done /\ Begun(jobs') = Begun(jobs) \cup {j}
        <3>1. Done' = Done
            BY <2>7 DEF Done, Finished
        <3>2. Begun(jobs') = Begun(js)
            <4>1. ASSUME NEW i \in Jobs PROVE jobs'[i].state # "new" <=> js[i].state # "new"
                BY <1>1, <1>2, <2>1, <2>2, <2>3, <2>6
            <4> QED BY ONLY <4>1 DEF Begun
        <3> QED BY <2>5, <3>1, <3>2
    <2>10. RowKeeps(won, given'[c]) /\ given'[c] \in GivenRows
        <3>1. given[c] \in GivenRows /\ RowKeeps(jobs[c], given[c])
            BY <1>2, Sound
        <3> HIDE DEF c
        <3> QED BY <1>8, <2>2, <2>4, <3>1, GradeKeeps DEF Grades, Sources
    <2> HIDE DEF won, c
    <2>11. GradesAgree'
        <3>1. ASSUME NEW i \in Done PROVE RowKeeps(jobs'[i], given'[i])
            <4>1. CASE i = c
                BY <2>8, <2>10, <4>1
            <4>2. CASE i # c
                BY <1>2, <2>4, <2>8, <4>2 DEF Kept, GradesAgree, Done
            <4> QED BY <4>1, <4>2
        <3>2. ASSUME NEW i \in Jobs \ Done
              PROVE  /\ jobs'[i].outcome = "none" /\ jobs'[i].cause = "none" /\ jobs'[i].source = "none"
                     /\ jobs'[i].complete
                     /\ \A s \in Sources : given'[i][s] = Ungraded
            <4>1. i # c /\ given'[i] = given[i]
                BY <1>2, <2>4
            <4>2. \A s \in Sources : given[i][s] = Ungraded
                BY DEF Kept, GradesAgree
            <4>3. CASE i = j
                BY <1>4, <2>8, <4>1, <4>2, <4>3 DEF Running
            <4>4. CASE i # j
                BY <2>8, <4>1, <4>2, <4>4 DEF Kept, GradesAgree
            <4> QED BY <4>3, <4>4
        <3> QED BY <2>9, <3>1, <3>2 DEF GradesAgree
    <2>12. \A i \in Done \ {c} : jobs'[i].tier = jobs[i].tier /\ Due(i)' = Due(i)
        BY <1>1, <1>2, <2>4, <2>8 DEF Due, IsPromotion, Done
    <2>13. /\ RowsAgree' /\ Settled'
           /\ ledger' \in SUBSET LedgerRows /\ arms' \in [Tiers -> ArmRows]
        <3>1. /\ UpdateReward(c, jobs'[c]) /\ jobs'[c] \in FinishedRows /\ RowKeeps(jobs'[c], given'[c])
              /\ jobs'[c].tier = jobs[c].tier /\ jobs'[c].source # "agent"
            BY <2>2, <2>3, <2>8, <2>10
        <3>2. c \in Done' /\ Done' \subseteq Done \cup {c} /\ Done \subseteq Done'
            BY <1>2, <2>9
        <3>3. TypeOK /\ RowsAgree /\ Settled
            BY DEF Kept
        <3> QED BY ONLY <1>1, <1>2, <2>10, <2>12, <3>1, <3>2, <3>3, LedgerStep
    <2>14. TypeOK'
        BY <1>1, <2>4, <2>7, <2>8, <2>13, Types, TypesNext DEF Kept, SoundPolicy
    <2>15. PromotionsFollow'
        <3>1. setup.candidate = c
            BY DEF c
        <3>2. ASSUME NEW i \in Jobs, IsPromotion(i), jobs'[i].state # "new" PROVE c \in Done /\ c # i
            <4>1. CASE i = j
                BY <1>2, <4>1
            <4>2. CASE i # j
                <5>1. i \in Begun(jobs)
                    BY <2>9, <3>2, <4>2 DEF Begun
                <5> QED BY <3>1, <3>2, <5>1 DEF Kept, PromotionsFollow, Begun
            <4> QED BY <4>1, <4>2
        <3> QED BY <1>1, <2>9, <3>1, <3>2 DEF PromotionsFollow, IsPromotion
    <2>16. EvidenceIsDone' /\ PromotionsRestOnEvidence'
        <3>1. IsFiniteSet(Begun(jobs'))
            BY <2>5, <2>9
        <3> QED BY <1>1, <2>7, <3>1, SoundNext
    <2> QED BY <2>11, <2>13, <2>14, <2>15, <2>16 DEF Kept
<1> QED BY <1>7, <1>8

-----------------------------------------------------------------------------
(* The operator's orders *)

\* An order changes no job and no grade.
LEMMA OrderKeeps ==
    ASSUME Kept, Order, UNCHANGED <<setup, jobs, given>>, SoundPolicy(jobs, policy'),
           ledger' \in SUBSET LedgerRows, arms' \in [Tiers -> ArmRows], reset' \in SUBSET Jobs,
           RowsAgree', Settled'
    PROVE  Kept'
<1>1. spent' \in [grades : 0..setup.grades, orders : 0..setup.orders]
    <2>1. spent \in [grades : 0..setup.grades, orders : 0..setup.orders] /\ setup.orders \in Nat
        BY Types DEF Kept
    <2> QED BY <2>1 DEF Order
<1>2. TypeOK'
    BY <1>1, Types, TypesNext DEF Kept, SoundPolicy
<1>3. Done' = Done
    BY DEF Done
<1>4. GradesAgree' /\ PromotionsFollow'
    BY <1>3 DEF Kept, GradesAgree, PromotionsFollow, IsPromotion
<1>5. IsFiniteSet(Begun(jobs'))
    BY DEF Kept, EvidenceIsDone, Begun
<1>6. EvidenceIsDone' /\ PromotionsRestOnEvidence'
    BY <1>5, SoundNext
<1> QED BY <1>2, <1>4, <1>6 DEF Kept

LEMMA ArmsPinned ==
    ASSUME Kept, UNCHANGED <<setup, jobs, ledger, given, reset>>,
           NEW pin \in [Tiers -> BOOLEAN], arms' = [u \in Tiers |-> [arms[u] EXCEPT !.pinned = pin[u]]]
    PROVE  /\ ledger' \in SUBSET LedgerRows /\ arms' \in [Tiers -> ArmRows] /\ reset' \in SUBSET Jobs
           /\ RowsAgree' /\ Settled'
<1>1. /\ ledger \in SUBSET LedgerRows /\ arms \in [Tiers -> ArmRows] /\ reset \in SUBSET Jobs
    BY Types DEF Kept
<1>2. arms' \in [Tiers -> ArmRows] /\ \A t \in Tiers : arms'[t].replay = arms[t].replay
    BY <1>1 DEF ArmRows
<1>3. Done' = Done /\ \A i \in Done : jobs'[i].tier = jobs[i].tier /\ Due(i)' = Due(i)
    BY DEF Done, Due, IsPromotion
<1>4. RowsAgree' /\ Settled'
    BY <1>2, <1>3, SameLedger DEF Kept
<1> QED BY <1>1, <1>2, <1>4

LEMMA PinKeeps ==
    ASSUME Kept, NEW t \in Tiers, Pin(t)
    PROVE  Kept'
<1> DEFINE pin == [u \in Tiers |-> u = t]
<1>1. pin \in [Tiers -> BOOLEAN] /\ arms' = [u \in Tiers |-> [arms[u] EXCEPT !.pinned = pin[u]]]
    BY DEF Pin
<1> HIDE DEF pin
<1>2. Order /\ UNCHANGED <<setup, jobs, ledger, given, reset>> /\ policy' = Set(t, "pinned", t, {})
    BY DEF Pin
<1>3. SoundPolicy(jobs, policy')
    BY <1>2, SetIsSound
<1>4. /\ ledger' \in SUBSET LedgerRows /\ arms' \in [Tiers -> ArmRows] /\ reset' \in SUBSET Jobs
      /\ RowsAgree' /\ Settled'
    BY <1>1, <1>2, ArmsPinned
<1> QED BY <1>2, <1>3, <1>4, OrderKeeps

LEMMA UnpinKeeps ==
    ASSUME Kept, Unpin
    PROVE  Kept'
<1> DEFINE pin == [u \in Tiers |-> FALSE]
<1>1. pin \in [Tiers -> BOOLEAN] /\ arms' = [u \in Tiers |-> [arms[u] EXCEPT !.pinned = pin[u]]]
    BY DEF Unpin
<1> HIDE DEF pin
<1>2. /\ Order /\ UNCHANGED <<setup, jobs, ledger, given, reset>>
      /\ policy' = [Set(Default, "none", Default, {}) EXCEPT !.fresh = Jobs]
    BY DEF Unpin
<1>3. SoundPolicy(jobs, policy')
    <2> DEFINE p == Set(Default, "none", Default, {})
    <2>1. SoundPolicy(jobs, p)
        BY SetIsSound
    <2>2. policy' \in PolicyRows /\ policy'.pairs = p.pairs /\ policy'.tier = p.tier /\ policy'.from = p.from
        <3>1. p \in PolicyRows
            BY <2>1 DEF SoundPolicy
        <3> HIDE DEF p
        <3>2. policy' = [p EXCEPT !.fresh = Jobs]
            BY <1>2 DEF p
        <3> QED BY <3>1, <3>2 DEF PolicyRows
    <2> HIDE DEF p
    <2> QED BY <2>1, <2>2, SameEvidence
<1>4. /\ ledger' \in SUBSET LedgerRows /\ arms' \in [Tiers -> ArmRows] /\ reset' \in SUBSET Jobs
      /\ RowsAgree' /\ Settled'
    BY <1>1, <1>2, ArmsPinned
<1> QED BY <1>2, <1>3, <1>4, OrderKeeps

\* A tier is cleared: the jobs of the other tiers keep their rows and their arms.
LEMMA ResetKeeps ==
    ASSUME Kept, NEW t \in Tiers, Reset(t)
    PROVE  Kept'
<1>1. /\ ledger \in SUBSET LedgerRows /\ arms \in [Tiers -> ArmRows] /\ reset \in SUBSET Jobs
    BY Types DEF Kept
<1>2. /\ Order /\ UNCHANGED <<setup, jobs, policy, given>>
      /\ ledger' = {r \in ledger : r.tier # t}
      /\ arms' = [arms EXCEPT ![t].prior = 1, ![t].replay = {}]
      /\ reset' = reset \cup {j \in Jobs : jobs[j].state = "done" /\ jobs[j].tier = t}
    BY DEF Reset
<1>3. ledger' \in SUBSET ledger /\ ledger' \in SUBSET LedgerRows /\ reset' \in SUBSET Jobs
    BY <1>1, <1>2
<1>4. arms' \in [Tiers -> ArmRows] /\ arms'[t].replay = {}
      /\ \A u \in Tiers \ {t} : arms'[u].replay = arms[u].replay
    BY <1>1, <1>2 DEF ArmRows, Replays
<1>5. Done' = Done /\ \A i : Due(i)' = Due(i)
    BY <1>2 DEF Done, Due, IsPromotion
<1>6. RowsAgree'
    <2>1. IsFiniteSet(ledger')
        BY <1>3, FS_Subset DEF Kept, RowsAgree
    <2> QED BY <1>2, <1>3, <1>5, <2>1 DEF Kept, RowsAgree
<1>7. ASSUME setup.bandit PROVE Replayed'
    <2>1. ASSUME NEW u \in Tiers \ {t} PROVE RewardsOf(ledger', u) = RewardsOf(ledger, u)
        <3>1. {q \in ledger' : q.tier = u} = {q \in ledger : q.tier = u}
            BY <1>2, <2>1
        <3> QED BY <3>1 DEF RewardsOf
    <2>2. RewardsOf(ledger', t) = {}
        <3>1. {q \in ledger' : q.tier = t} = {}
            BY <1>2
        <3> QED BY <3>1 DEF RewardsOf
    <2> QED BY <1>4, <1>7, <2>1, <2>2 DEF Kept, Settled, Replayed
<1>8. ASSUME setup.bandit, NEW r \in ledger' PROVE r.reward \in Due(r.job)'
    BY <1>3, <1>5, <1>8 DEF Kept, Settled
<1>9. ASSUME setup.bandit, NEW j \in Done' \ reset', NEW v \in Due(j)'
      PROVE  \E r \in ledger' : r.job = j /\ r.reward = v
    <2>1. j \in Done \ reset /\ jobs[j].tier # t /\ v \in Due(j)
        BY <1>2, <1>5, <1>9 DEF Done
    <2>2. PICK r \in ledger : r.job = j /\ r.reward = v
        BY <1>9, <2>1 DEF Kept, Settled
    <2>3. r.tier # t
        BY <2>1, <2>2 DEF Kept, RowsAgree
    <2> QED BY <1>2, <2>2, <2>3
<1>10. Settled'
    BY <1>2, <1>7, <1>8, <1>9 DEF Settled
<1>11. SoundPolicy(jobs, policy')
    BY <1>2, Sound
<1> QED BY <1>2, <1>3, <1>4, <1>6, <1>10, <1>11, OrderKeeps

-----------------------------------------------------------------------------
(* The theorems *)

LEMMA InitKeeps ==
    ASSUME Init
    PROVE  Kept
<1>1. jobs = [j \in Jobs |-> Fresh] /\ Fresh \in JobRows
    BY DEF Init, Fresh, JobRows, Outcomes, Causes
<1>2. policy = Seeded /\ Seeded \in PolicyRows
    BY DEF Init, Seeded, PolicyRows
<1>3. given = [j \in Jobs |-> [s \in Sources |-> Ungraded]] /\ Ungraded \in Verdicts
    BY DEF Init, Ungraded, Verdicts
<1>4. arms \in [Tiers -> ArmRows] /\ \A t \in Tiers : arms[t].replay = {}
    BY DEF Init, Arm, ArmRows, Replays
<1>5. TypeOK
    <2>1. spent \in [grades : 0..setup.grades, orders : 0..setup.orders]
        <3>1. setup.grades \in Nat /\ setup.orders \in Nat
            BY DEF Init
        <3> QED BY <3>1 DEF Init
    <2>2. jobs \in [Jobs -> JobRows] /\ given \in [Jobs -> [Sources -> Verdicts]] /\ ledger = {} /\ reset = {}
          /\ setup \in Setups
        BY <1>1, <1>3 DEF Init
    <2> QED BY <1>2, <1>4, <2>1, <2>2 DEF TypeOK, JobRows, PolicyRows, ArmRows, Replays, Verdicts
<1>6. Done = {} /\ {j \in Jobs : jobs[j].state # "new"} = {}
    BY <1>1 DEF Done, Fresh
<1>7. GradesAgree
    BY <1>1, <1>3, <1>6 DEF GradesAgree, Fresh
<1>8. RowsAgree
    BY FS_EmptySet DEF Init, RowsAgree
<1>9. PromotionsFollow
    BY <1>6 DEF PromotionsFollow
<1>10. EvidenceIsDone /\ PromotionsRestOnEvidence
    BY <1>2, <1>6, FS_EmptySet DEF EvidenceIsDone, PromotionsRestOnEvidence, Seeded
<1>11. Settled
    BY <1>4, <1>6 DEF Init, Settled, Replayed, RewardsOf
<1> QED BY <1>5, <1>7, <1>8, <1>9, <1>10, <1>11 DEF Kept

LEMMA StepKeeps ==
    ASSUME Kept, [Next]_vars
    PROVE  Kept'
<1>1. ASSUME NEW j \in Jobs, AgentGrades(j) PROVE Kept'
    BY <1>1, GradeKeepsAll DEF AgentGrades, Sources
<1>2. ASSUME NEW j \in Jobs, ReviewerGrades(j) PROVE Kept'
    BY <1>2, GradeKeepsAll DEF ReviewerGrades, Sources, Grades
<1>3. ASSUME NEW j \in Jobs, HumanGrades(j) PROVE Kept'
    BY <1>3, GradeKeepsAll DEF HumanGrades, Sources
<1>4. CASE UNCHANGED vars
    <2>1. UNCHANGED <<setup, jobs, policy, ledger, arms, given, reset, spent>>
        BY <1>4 DEF vars
    <2> QED BY <2>1 DEF Kept, TypeOK, GradesAgree, RowsAgree, PromotionsFollow, IsPromotion, EvidenceIsDone,
                   Settled, Due, Replayed, RewardsOf, PromotionsRestOnEvidence, Done
<1> QED BY <1>1, <1>2, <1>3, <1>4, SendKeeps, EscalateKeeps, PromoteKeeps, FinishKeepsAll, PinKeeps,
           UnpinKeeps, ResetKeeps DEF Next

LEMMA KeptIsAll ==
    ASSUME Kept
    PROVE  RoutingInv
<1>1. ASSUME setup.bandit, NEW j \in Jobs, jobs[j].state = "done"
      PROVE  LET rewards == {r.reward : r \in Rows(j)} IN
             /\ Cardinality(Rows(j)) <= 1
             /\ IF j \in reset THEN rewards \subseteq Owed(j) ELSE rewards = Owed(j)
    <2>1. j \in Done /\ Due(j) = Owed(j)
        BY <1>1, DueIsOwed DEF Done
    <2>2. Cardinality(Rows(j)) <= 1
        <3>1. CASE Rows(j) = {}
            BY <3>1, FS_EmptySet
        <3>2. CASE Rows(j) # {}
            <4>1. PICK o \in ledger : o.job = j
                BY <3>2 DEF Rows
            <4>2. Rows(j) = {o}
                BY <4>1 DEF Rows, Kept, RowsAgree
            <4> QED BY <4>2, FS_Singleton
        <3> QED BY <3>1, <3>2
    <2>3. \A r \in Rows(j) : r.reward \in Owed(j)
        BY <1>1, <2>1 DEF Rows, Kept, Settled
    <2>4. j \notin reset => \A v \in Owed(j) : \E r \in Rows(j) : r.reward = v
        BY <1>1, <2>1 DEF Rows, Kept, Settled
    <2> QED BY <2>2, <2>3, <2>4
<1>2. LedgerIsAuthoritative
    BY <1>1 DEF LedgerIsAuthoritative, Kept, Settled, Replayed
<1> QED BY <1>2 DEF Kept, RoutingInv

\* Whatever the jobs, the tiers and the order of grades, the whole invariant holds: the types of
\* all rows, the agreement of every job's row with the grades it was given, and all below.
THEOREM RoutingAlways == Spec => []RoutingInv
<1>1. Init => Kept
    BY InitKeeps
<1>2. Kept /\ [Next]_vars => Kept'
    BY StepKeeps
<1>3. Kept => RoutingInv
    BY KeptIsAll
<1> QED BY <1>1, <1>2, <1>3, PTL DEF Spec

\* updateRoutingReward and gradeJob: a finished job has one row in the ledger, that of its
\* authoritative grade, however it was graded, and every arm is the replay of the ledger.
THEOREM LedgerAlwaysAuthoritative == Spec => []LedgerIsAuthoritative
<1>1. RoutingInv => LedgerIsAuthoritative
    BY DEF RoutingInv
<1> QED BY <1>1, RoutingAlways, PTL

\* evolveRouting and recheckPromotions: a learned promotion stands only on as many fixed
\* failures as it takes, in spite of every grade given or taken back since.
THEOREM PromotionsAlwaysRest == Spec => []PromotionsRestOnEvidence
<1>1. RoutingInv => PromotionsRestOnEvidence
    BY DEF RoutingInv
<1> QED BY <1>1, RoutingAlways, PTL

=============================================================================
