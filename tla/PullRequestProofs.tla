-------------------------- MODULE PullRequestProofs --------------------------
(* Proofs about PullRequests: PullRequestsInv is inductive, for any number *)
(* of requests, any budget and any bound on heads; from it the types, what *)
(* a published row names, and that it stays.                               *)
EXTENDS PullRequestsInvariant, SequenceTheorems, TLAPS

USE PullRequestsAssumption DEF Published, RowStates, CreateSteps, Idle, NoPull

\* The types of TypeOK, by the number of heads made.
Memory(n) ==
    [pc : {"idle", "view", "status"} \cup CreateSteps,
     pull : [state : {"none"} \cup Published, number : Nat, head : 0..n],
     head : 0..n, added : BOOLEAN]
PullType(n) == [state : Published, head : 1..n]
RowType(n, k) == [state : RowStates, head : 0..n, number : 0..k]
OpType(n) == [state : {"none", "pending", "completed"}, method : {"none", "create", "other"},
              head : 0..n, number : Nat]
SpentType == [failures : Nat, restarts : Nat, humans : Nat]
RemoteType(n) == [branch : 0..n, pulls : Seq(PullType(n))]
StrayType(n) == [kind : {"push", "create"}, head : 1..n]

\* Only request c moves.
Moves(c) ==
    /\ calls' \in [Calls -> Memory(commits')]
    /\ \A d \in Calls \ {c} : calls'[d] = calls[d]

\* Heads, pushes and pull requests are never forgotten.
Grows ==
    /\ commits' \in Nat /\ commits <= commits'
    /\ landed \subseteq landed'
    /\ Len(remote.pulls) <= Len(remote'.pulls)

LEMMA CallTyped ==
  ASSUME TypeOK, commits' \in Nat, commits <= commits'
  PROVE  /\ commits \in Nat
         /\ calls \in [Calls -> Memory(commits)]
         /\ calls \in [Calls -> Memory(commits')]
<1>1. commits \in Nat
  BY DEF TypeOK
<1> QED
  BY <1>1 DEF TypeOK, Memory

LEMMA MoveTyped ==
  ASSUME TypeOK, commits' \in Nat, commits <= commits', NEW c \in Calls,
         NEW m \in Memory(commits'), calls' = [calls EXCEPT ![c] = m]
  PROVE  Moves(c) /\ calls'[c] = m
<1>1. calls \in [Calls -> Memory(commits')]
  BY CallTyped
<1> QED
  BY <1>1 DEF Moves

\* A step of one request leaves what the others remember true.
LEMMA OtherCallsKept ==
  ASSUME NEW c \in Calls, CallsFit, OneCreation, Moves(c), Grows, TypeOK,
         row.state \in Published => row'.state \in Published,
         UNCHANGED op \/ calls[c].pc \in CreateSteps,
         Fits(calls[c])',
         calls'[c].pc \in CreateSteps => calls[c].pc \in CreateSteps \/ ~Active
  PROVE  CallsFit' /\ OneCreation'
<1>1. ASSUME NEW d \in Calls \ {c}
      PROVE  Fits(calls[d])'
  <2>1. Fits(calls[d]) /\ calls'[d] = calls[d]
    BY DEF CallsFit, Moves
  <2>2. calls[d].pc \in Reserved => UNCHANGED op
    BY DEF OneCreation, Reserved
  <2>3. calls[d] \in Memory(commits) 
    BY DEF TypeOK, Memory
  <2>4. calls[d].pull.number \in Nat /\ Len(remote.pulls) \in Nat /\ Len(remote'.pulls) \in Int
    BY <2>3 DEF Memory, TypeOK
  <2> QED
    BY <2>1, <2>2, <2>4 DEF Fits, Grows
<1>2. CallsFit'
  BY <1>1 DEF CallsFit
<1>3. OneCreation'
  BY DEF OneCreation, Moves, Active
<1> QED
  BY <1>2, <1>3

LEMMA SequenceTyped ==
  ASSUME NEW T, NEW s \in Seq(T)
  PROVE  /\ Len(s) \in Nat
         /\ DOMAIN s = 1..Len(s)
         /\ \A i \in 1..Len(s) : s[i] \in T
  OBVIOUS

LEMMA PullsTyped ==
  ASSUME TypeOK
  PROVE  /\ Len(remote.pulls) \in Nat
         /\ DOMAIN remote.pulls = 1..Len(remote.pulls)
         /\ \A i \in 1..Len(remote.pulls) : remote.pulls[i] \in PullType(commits)
<1>1. remote.pulls \in Seq(PullType(commits))
  BY DEF TypeOK, PullType
<1> QED
  BY <1>1, SequenceTyped

LEMMA HeadsTyped ==
  ASSUME TypeOK, NEW h
  PROVE  /\ Mine(h) => h \in 0..commits
         /\ Seen(h) => h \in 0..commits
<1>1. calls \in [Calls -> Memory(commits)]
  BY DEF TypeOK, Memory
<1>2. \A i \in DOMAIN remote.pulls : remote.pulls[i].head \in 1..commits
  BY PullsTyped DEF PullType
<1> QED
  BY <1>1, <1>2 DEF Mine, Seen, TypeOK, Memory

LEMMA HeadsKept ==
  ASSUME TypeOK, HeadsAgree, Grows,
         \A h : Mine(h)' /\ Seen(h)' => h = 0 \/ (Mine(h) /\ Seen(h)) \/ h \in landed'
  PROVE  HeadsAgree'
  BY HeadsTyped DEF HeadsAgree, Grows, TypeOK

\* A request goes on to m; what others see is the row and the operation.
LEMMA LocalStep ==
  ASSUME PullRequestsInv, NEW c \in Calls, NEW m \in Memory(commits),
         calls' = [calls EXCEPT ![c] = m],
         UNCHANGED <<remote, strays, accepted, commits, landed>>,
         worktree' \in BOOLEAN, spent' \in SpentType,
         row' \in RowType(commits, Len(remote.pulls)), op' \in OpType(commits),
         Fits(m)',
         m.pc \in CreateSteps => calls[c].pc \in CreateSteps \/ ~Active,
         m.head = 0 \/ Mine(m.head),
         m.pull.head = 0 \/ Seen(m.pull.head),
         row'.head = 0 \/ Mine(row'.head),
         row.state \in Published => row'.state \in Published,
         UNCHANGED op \/ calls[c].pc \in CreateSteps,
         RowAgrees', PublishedIsPushed', AnswerIsRow'
  PROVE  PullRequestsInv'
<1> USE DEF PullRequestsInv
<1>1. commits' \in Nat /\ commits <= commits' /\ Grows
  BY DEF TypeOK, Grows
<1>2. Moves(c) /\ calls'[c] = m
  BY <1>1, MoveTyped
<1>3. CallsFit' /\ OneCreation'
  <2>1. Fits(calls[c])'
    BY <1>2
  <2> QED
    BY <1>1, <1>2, <2>1, OtherCallsKept
<1>4. HeadsAgree'
  <2>1. ASSUME NEW h, Mine(h)'
        PROVE  h = 0 \/ Mine(h)
    BY <2>1, <1>2 DEF Mine, Moves
  <2>2. ASSUME NEW h, Seen(h)'
        PROVE  h = 0 \/ Seen(h)
    BY <2>2, <1>2 DEF Seen, Moves
  <2> QED
    BY <1>1, <2>1, <2>2, HeadsKept
<1>5. TypeOK'
  BY <1>2 DEF TypeOK, Moves, Memory, RowType, OpType, SpentType
<1> QED
  BY <1>3, <1>4, <1>5

\* A request goes on and nothing else happens.
LEMMA CallStep ==
  ASSUME PullRequestsInv, NEW c \in Calls, NEW m \in Memory(commits),
         calls' = [calls EXCEPT ![c] = m],
         UNCHANGED <<row, op, remote, strays, accepted, commits, landed>>,
         worktree' \in BOOLEAN, spent' \in SpentType,
         Fits(m),
         m.pc \in CreateSteps => calls[c].pc \in CreateSteps \/ ~Active,
         m.head = 0 \/ Mine(m.head),
         m.pull.head = 0 \/ Seen(m.pull.head)
  PROVE  PullRequestsInv'
<1> USE DEF PullRequestsInv
<1>1. /\ row' \in RowType(commits, Len(remote.pulls))
      /\ op' \in OpType(commits)
  BY DEF TypeOK, RowType, OpType
<1>2. Fits(m)'
  BY DEF Fits
<1>3. RowAgrees' /\ PublishedIsPushed' /\ AnswerIsRow'
  BY DEF RowAgrees, PublishedIsPushed, AnswerIsRow
<1>4. row'.head = 0 \/ Mine(row'.head)
  BY DEF Mine
<1>5. row.state \in Published => row'.state \in Published
  OBVIOUS
<1> QED
  BY <1>1, <1>2, <1>3, <1>4, <1>5, LocalStep

LEMMA KnownCall ==
  ASSUME PullRequestsInv, NEW c \in Calls
  PROVE  /\ commits \in Nat
         /\ calls[c] \in Memory(commits)
         /\ Fits(calls[c])
         /\ Mine(calls[c].head)
         /\ Seen(calls[c].pull.head)
         /\ Mine(row.head)
         /\ Seen(remote.branch)
         /\ \A i \in DOMAIN remote.pulls : Seen(remote.pulls[i].head)
         /\ spent \in SpentType
         /\ worktree \in BOOLEAN
<1> USE DEF PullRequestsInv
<1>1. commits \in Nat /\ spent \in SpentType /\ worktree \in BOOLEAN
  BY DEF TypeOK, SpentType
<1>2. calls[c] \in Memory(commits)
  BY DEF TypeOK, Memory
<1>3. Fits(calls[c])
  BY DEF CallsFit
<1>4. Mine(calls[c].head) /\ Mine(row.head)
  BY DEF Mine
<1>5. /\ Seen(calls[c].pull.head)
      /\ Seen(remote.branch)
      /\ \A i \in DOMAIN remote.pulls : Seen(remote.pulls[i].head)
  BY DEF Seen
<1> QED
  BY <1>1, <1>2, <1>3, <1>4, <1>5

LEMMA IdleFits ==
  ASSUME TypeOK
  PROVE  Idle \in Memory(commits) /\ Fits(Idle)
  BY PullsTyped DEF TypeOK, Memory, Fits, Reserved

LEMMA SpendTyped ==
  ASSUME TypeOK, NEW k \in {"failures", "restarts", "humans"}, Spend(k)
  PROVE  spent' \in SpentType
  BY DEF TypeOK, Spend, SpentType

\* A request ends without a trace but the worktree.
LEMMA DoneStep ==
  ASSUME PullRequestsInv, NEW c \in Calls, Done(c),
         UNCHANGED <<row, op, remote, strays, accepted, commits, landed>>,
         worktree' \in BOOLEAN, spent' \in SpentType
  PROVE  PullRequestsInv'
<1>1. Idle \in Memory(commits) /\ Fits(Idle)
  BY IdleFits DEF PullRequestsInv
<1> QED
  BY <1>1, CallStep DEF Done

\* A request goes on to a step without an effect yet.
LEMMA GotoStep ==
  ASSUME PullRequestsInv, NEW c \in Calls,
         NEW pc \in {"list", "failed", "pushed"}, Goto(c, pc),
         UNCHANGED <<row, op, remote, strays, accepted, commits, landed>>,
         worktree' \in BOOLEAN, spent' \in SpentType,
         pc = "list" => ~Active,
         pc = "failed" => calls[c].pc \in Reserved,
         pc = "pushed" => calls[c].pc \in Reserved /\ calls[c].head \in landed
  PROVE  PullRequestsInv'
<1> DEFINE m == [calls[c] EXCEPT !.pc = pc]
<1>1. m \in Memory(commits) /\ m.pc = pc /\ m.head = calls[c].head /\ m.pull = calls[c].pull
  BY KnownCall DEF Memory
<1>2. calls' = [calls EXCEPT ![c] = m]
  BY DEF Goto
<1>3. Fits(m)
  <2>1. Fits(calls[c]) /\ landed \subseteq 1..commits /\ commits \in Nat
    BY KnownCall DEF PullRequestsInv, TypeOK
  <2>2. m.pc = "pushed" => m.head \in landed /\ m.head # 0
    BY <1>1, <2>1
  <2> HIDE DEF m
  <2> QED
    BY <1>1, <2>1, <2>2 DEF Fits, Reserved
<1>4. m.pc \in CreateSteps => calls[c].pc \in CreateSteps \/ ~Active
  BY <1>1 DEF Reserved
<1>5. (m.head = 0 \/ Mine(m.head)) /\ (m.pull.head = 0 \/ Seen(m.pull.head))
  BY <1>1, KnownCall
<1> HIDE DEF m
<1> QED
  BY <1>1, <1>2, <1>3, <1>4, <1>5, CallStep

LEMMA StartCreateStep ==
  ASSUME PullRequestsInv, NEW c \in Calls, StartCreate(c)
  PROVE  PullRequestsInv'
  BY KnownCall, GotoStep DEF StartCreate

LEMMA ListPullsStep ==
  ASSUME PullRequestsInv, NEW c \in Calls, ListPulls(c)
  PROVE  PullRequestsInv'
<1> DEFINE pull == IF remote.pulls = <<>> THEN NoPull ELSE Pull(1)
           m == [calls[c] EXCEPT !.pc = "reserve", !.pull = pull]
<1>0. /\ calls[c].pc = "list"
      /\ UNCHANGED <<row, op, remote, strays, worktree, accepted, commits, landed>>
      /\ worktree' \in BOOLEAN
  BY KnownCall DEF ListPulls
<1>1. CASE calls' = [calls EXCEPT ![c].pc = "reserve", ![c].pull = pull] /\ UNCHANGED spent
  <2>1. /\ pull \in [state : {"none"} \cup Published, number : Nat, head : 0..commits]
        /\ pull.head = 0 \/ Seen(pull.head)
        /\ pull = NoPull \/ (pull.state \in Published /\ pull.number = 1)
        /\ pull.number <= Len(remote.pulls)
    <3>1. CASE remote.pulls = <<>>
      BY <3>1, KnownCall
    <3>2. CASE remote.pulls # <<>>
      <4>1. 1 \in DOMAIN remote.pulls /\ remote.pulls[1] \in PullType(commits) /\ 1 <= Len(remote.pulls)
        <5>1. remote.pulls \in Seq(PullType(commits))
          BY DEF PullRequestsInv, TypeOK, PullType
        <5>2. Len(remote.pulls) \in Nat \ {0}
          BY <3>2, <5>1, EmptySeq
        <5> QED
          BY <5>2, PullsTyped DEF PullRequestsInv
      <4> QED
        BY <3>2, <4>1, KnownCall DEF Pull, PullType
    <3> QED
      BY <3>1, <3>2
  <2>2. calls' = [calls EXCEPT ![c] = m]
    BY <1>1
  <2>3. /\ m \in Memory(commits)
        /\ m.pc = "reserve" /\ m.pull = pull /\ m.head = calls[c].head
    BY <2>1, KnownCall DEF Memory
  <2> HIDE DEF m, pull
  <2>4. Fits(m)
    BY <2>1, <2>3 DEF Fits, Reserved
  <2>5. m.pc \in CreateSteps => calls[c].pc \in CreateSteps \/ ~Active
    BY <1>0
  <2>6. (m.head = 0 \/ Mine(m.head)) /\ (m.pull.head = 0 \/ Seen(m.pull.head))
    BY <2>1, <2>3, KnownCall
  <2>7. spent' \in SpentType
    BY <1>1, KnownCall
  <2> QED
    BY <1>0, <2>2, <2>3, <2>4, <2>5, <2>6, <2>7, CallStep
<1>2. CASE Done(c) /\ UNCHANGED spent
  BY <1>0, <1>2, KnownCall, DoneStep
<1>3. CASE Spend("failures") /\ Done(c)
  BY <1>0, <1>3, SpendTyped, DoneStep DEF PullRequestsInv
<1> QED
  BY <1>1, <1>2, <1>3 DEF ListPulls

LEMMA ConflictStep ==
  ASSUME PullRequestsInv, NEW c \in Calls, Conflict(c)
  PROVE  PullRequestsInv'
  BY KnownCall, DoneStep DEF Conflict

LEMMA ReserveStep ==
  ASSUME PullRequestsInv, NEW c \in Calls, Reserve(c)
  PROVE  PullRequestsInv'
<1> DEFINE existing == calls[c].pull
           branch == IF existing = NoPull THEN remote.branch ELSE 0
           pc == IF existing # NoPull THEN "result" ELSE IF branch # 0 THEN "pushed" ELSE "commit"
<1>m. PICK m : m = [calls[c] EXCEPT !.head = branch, !.pc = pc]
  OBVIOUS
<1>0. /\ calls[c].pc = "reserve"
      /\ UNCHANGED <<remote, strays, worktree, accepted, commits, landed, spent>>
      /\ op' = [op EXCEPT !.state = "pending", !.method = "create"]
      /\ row' = IF row.state = "none" THEN [row EXCEPT !.state = "reserved"] ELSE row
      /\ MayReserve
      /\ calls' = [calls EXCEPT ![c] = m]
      /\ Probed(existing, branch)
  BY <1>m DEF Reserve
<1>1. branch \in 0..commits
  BY DEF PullRequestsInv, TypeOK
<1>2. /\ m \in Memory(commits)
      /\ m.pc = pc /\ m.head = branch /\ m.pull = existing
  BY <1>m, <1>1, KnownCall DEF Memory
<1>3. row' \in RowType(commits, Len(remote.pulls)) /\ op' \in OpType(commits)
  BY <1>0 DEF RowType, OpType, PullRequestsInv, TypeOK
<1>4. /\ op'.state = "pending" /\ op'.method = "create"
      /\ row'.head = row.head /\ row'.number = row.number
      /\ row'.state = IF row.state = "none" THEN "reserved" ELSE row.state
  BY <1>0 DEF PullRequestsInv, TypeOK
<1>5. /\ Fits(calls[c])
      /\ branch = 0 \/ (branch = row.head /\ branch = remote.branch /\ branch \in landed)
  <2>1. ASSUME branch # 0
        PROVE  branch = row.head /\ branch = remote.branch
    BY <1>0, <2>1 DEF Probed
  <2> QED
    BY <2>1, <1>1, KnownCall DEF PullRequestsInv, HeadsAgree
<1>6. pc \in {"result", "pushed", "commit"} /\ (pc = "result" => existing # NoPull)
      /\ (pc = "pushed" => branch # 0)
  OBVIOUS
<1>7. \/ branch = 0
      \/ Mine(branch)
  BY <1>5, KnownCall
<1>8. existing.head = 0 \/ Seen(existing.head)
  BY KnownCall
<1> HIDE DEF pc, branch
<1>9. Fits(m)'
  BY <1>0, <1>2, <1>4, <1>5, <1>6 DEF Fits, Reserved
<1>10. RowAgrees' /\ PublishedIsPushed' /\ AnswerIsRow'
  BY <1>0, <1>4 DEF PullRequestsInv, RowAgrees, PublishedIsPushed, AnswerIsRow
<1>11. /\ m.pc \in CreateSteps => calls[c].pc \in CreateSteps \/ ~Active
       /\ UNCHANGED op \/ calls[c].pc \in CreateSteps
  BY <1>0
<1>12. worktree' \in BOOLEAN /\ spent' \in SpentType
  BY <1>0, KnownCall
<1>13. row'.head = 0 \/ Mine(row'.head)
  BY <1>4, KnownCall
<1>14. row.state \in Published => row'.state \in Published
  BY <1>4
<1>15. (m.head = 0 \/ Mine(m.head)) /\ (m.pull.head = 0 \/ Seen(m.pull.head))
  BY <1>2, <1>7, <1>8
<1> QED
  BY <1>0, <1>2, <1>3, <1>9, <1>10, <1>11, <1>12, <1>13, <1>14, <1>15, LocalStep

-----------------------------------------------------------------------------
(* What may become of the row *)

\* PublishedIsFinal, as a step.
FinalKept ==
    row.state \in Published =>
        /\ row'.state \in Published /\ row'.head = row.head /\ row'.number = row.number
        /\ row.state # "open" => row'.state = row.state

\* The row is written as the invariant allows.
RowMoves ==
    /\ row' \in RowType(commits, Len(remote.pulls))
    /\ RowAgrees'
    /\ row'.head = 0 \/ Mine(row'.head)
    /\ row'.state \in Published \cup {"pushed"} => row'.head \in landed
    /\ FinalKept

LEMMA SameRowMoves ==
  ASSUME PullRequestsInv, UNCHANGED row
  PROVE  RowMoves
  BY DEF RowMoves, RowType, FinalKept, PullRequestsInv, TypeOK, RowAgrees, PublishedIsPushed, Mine

LEMMA ReconcileMoves ==
  ASSUME PullRequestsInv, row' = ReconcileRequired
  PROVE  RowMoves
  BY DEF ReconcileRequired, RowMoves, RowType, FinalKept, PullRequestsInv, TypeOK, RowAgrees,
         PublishedIsPushed, Mine

LEMMA ProgressMoves ==
  ASSUME PullRequestsInv, NEW state \in {"committed", "pushed"}, NEW head \in 1..commits, Mine(head),
         state = "pushed" => head \in landed,
         Progress(state, head, state = "committed") # Refused,
         row' = Progress(state, head, state = "committed")
  PROVE  RowMoves
<1>1. \/ row' = [row EXCEPT !.state = state, !.head = head] /\ row.state \notin Published
                                                         /\ row.state # "none"
      \/ row' = row /\ row.state \in Published
  BY DEF Progress, Refused
<1>2. CASE row' = row
  BY <1>2, SameRowMoves
<1>3. CASE row' = [row EXCEPT !.state = state, !.head = head] /\ row.state \notin Published
                                                         /\ row.state # "none"
  <2>1. /\ row'.state = state /\ row'.head = head /\ row'.number = row.number
        /\ row' \in RowType(commits, Len(remote.pulls))
    <3>1. row \in RowType(commits, Len(remote.pulls))
      BY DEF RowType, PullRequestsInv, TypeOK
    <3>2. row'.state = state /\ row'.head = head /\ row'.number = row.number
      BY <1>3, <3>1 DEF RowType
    <3>3. state \in RowStates /\ head \in 0..commits
      BY DEF PullRequestsInv, TypeOK
    <3> QED
      BY <1>3, <3>1, <3>2, <3>3 DEF RowType
  <2> QED
    BY <1>3, <2>1 DEF RowMoves, FinalKept, PullRequestsInv, RowAgrees
<1> QED
  BY <1>1, <1>2, <1>3

LEMMA ResultMoves ==
  ASSUME PullRequestsInv, NEW c \in Calls, calls[c].pull.state \in Published,
         Result(calls[c].pull) # Refused,
         row' = Result(calls[c].pull)
  PROVE  RowMoves /\ row'.state \in Published
<1> DEFINE pull == calls[c].pull
<1>1. /\ row' = [state |-> pull.state, head |-> pull.head, number |-> pull.number]
      /\ row.head \in {0, pull.head} /\ row.number \in {0, pull.number}
      /\ pull.state \in ResultStates(row.state)
  BY DEF Result
<1>2. /\ row.state \notin {"none", "reserved"}
      /\ row.state \in Published /\ row.state # "open" => pull.state = row.state
  BY <1>1 DEF ResultStates, PullRequestsInv, TypeOK
<1>3. row.head = pull.head /\ row.head \in 1..commits
  BY <1>1, <1>2 DEF PullRequestsInv, RowAgrees, TypeOK
<1>4. row.head \in landed
  BY <1>3, KnownCall DEF PullRequestsInv, HeadsAgree
<1>5. /\ Fits(calls[c]) /\ pull.number \in Nat /\ Len(remote.pulls) \in Nat
  BY KnownCall, PullsTyped DEF Memory, PullRequestsInv
<1>6. pull.number \in 1..Len(remote.pulls)
  BY <1>5 DEF Fits
<1> HIDE DEF pull
<1>7. /\ row'.state = pull.state /\ row'.head = row.head /\ row'.number = pull.number
      /\ pull.state \in Published
  BY <1>1, <1>3 DEF pull
<1>8. row' \in RowType(commits, Len(remote.pulls))
  BY <1>1, <1>3, <1>6, <1>7 DEF RowType
<1>9. row.state \in Published => row.number = pull.number
  BY <1>1 DEF PullRequestsInv, RowAgrees
<1> QED
  BY <1>2, <1>3, <1>4, <1>6, <1>7, <1>8, <1>9, KnownCall DEF RowMoves, RowAgrees, FinalKept

\* A request records something in the row and goes on.
LEMMA RecordStep ==
  ASSUME PullRequestsInv, NEW c \in Calls, NEW m \in Memory(commits),
         calls' = [calls EXCEPT ![c] = m],
         RowMoves,
         UNCHANGED <<op, remote, strays, accepted, commits, landed>>,
         worktree' \in BOOLEAN, spent' \in SpentType,
         Fits(m)',
         m.pc \in CreateSteps => calls[c].pc \in CreateSteps \/ ~Active,
         m.head = 0 \/ Mine(m.head),
         m.pull.head = 0 \/ Seen(m.pull.head)
  PROVE  PullRequestsInv'
<1>1. /\ row' \in RowType(commits, Len(remote.pulls))
      /\ row'.head = 0 \/ Mine(row'.head)
      /\ row.state \in Published => row'.state \in Published
      /\ RowAgrees'
  BY DEF RowMoves, FinalKept
<1>2. op' \in OpType(commits)
  BY DEF OpType, PullRequestsInv, TypeOK
<1>3. PublishedIsPushed'
  BY DEF RowMoves, PublishedIsPushed
<1>4. AnswerIsRow'
  BY DEF RowMoves, FinalKept, AnswerIsRow, PullRequestsInv
<1> QED
  BY <1>1, <1>2, <1>3, <1>4, LocalStep

-----------------------------------------------------------------------------
(* The steps of a request that leave the remote alone *)

LEMMA RecordProgressStep ==
  ASSUME PullRequestsInv, NEW c \in Calls, RecordProgress(c)
  PROVE  PullRequestsInv'
<1> DEFINE committing == calls[c].pc = "record"
           state == IF committing THEN "committed" ELSE "pushed"
           pc == IF committing THEN "push" ELSE "create"
<1>0. /\ calls[c].pc \in {"record", "pushed"}
      /\ UNCHANGED <<op, remote, strays, worktree, accepted, commits, landed, spent>>
      /\ worktree' \in BOOLEAN /\ spent' \in SpentType
  BY KnownCall DEF RecordProgress
<1>1. CASE Goto(c, "failed") /\ UNCHANGED row
  BY <1>0, <1>1, GotoStep DEF Reserved
<1>2. ASSUME Progress(state, calls[c].head, committing) # Refused,
             row' = Progress(state, calls[c].head, committing), Goto(c, pc)
      PROVE  PullRequestsInv'
  <2>m. PICK m : m = [calls[c] EXCEPT !.pc = pc]
    OBVIOUS
  <2>1. /\ m \in Memory(commits) /\ m.pc = pc /\ m.head = calls[c].head /\ m.pull = calls[c].pull
        /\ calls' = [calls EXCEPT ![c] = m]
    BY <1>2, <2>m, KnownCall DEF Memory, Goto
  <2>2. /\ Fits(calls[c]) /\ Mine(calls[c].head)
        /\ calls[c].head \in 1..commits
        /\ state = "pushed" => calls[c].head \in landed
    <3>1. Fits(calls[c]) /\ Mine(calls[c].head) /\ calls[c].head \in 0..commits /\ commits \in Nat
      BY KnownCall DEF Memory
    <3> QED
      BY <1>0, <3>1 DEF Fits
  <2>3. state \in {"committed", "pushed"} /\ committing = (state = "committed")
    OBVIOUS
  <2>4. RowMoves
    BY <1>2, <2>2, <2>3, ProgressMoves
  <2>5. pc = "push" \/ (pc = "create" /\ state = "pushed")
    OBVIOUS
  <2> HIDE DEF pc, state, committing
  <2>6. Fits(m)'
    BY <1>0, <2>1, <2>2, <2>5 DEF Fits, Reserved
  <2>7. /\ m.head = 0 \/ Mine(m.head)
        /\ m.pull.head = 0 \/ Seen(m.pull.head)
        /\ m.pc \in CreateSteps => calls[c].pc \in CreateSteps \/ ~Active
    BY <1>0, <2>1, KnownCall
  <2> QED
    BY <1>0, <2>1, <2>4, <2>6, <2>7, RecordStep
<1> QED
  BY <1>1, <1>2 DEF RecordProgress

LEMMA RecordResultStep ==
  ASSUME PullRequestsInv, NEW c \in Calls, RecordResult(c)
  PROVE  PullRequestsInv'
<1>0. /\ calls[c].pc = "result"
      /\ UNCHANGED <<op, remote, strays, accepted, commits, landed>>
  BY DEF RecordResult
<1>1. ASSUME worktree' = (worktree /\ ~calls[c].added), UNCHANGED spent,
             Goto(c, "failed"), UNCHANGED row
      PROVE  PullRequestsInv'
  <2>1. worktree' \in BOOLEAN /\ spent' \in SpentType
    BY <1>1, KnownCall
  <2> QED
    BY <1>0, <1>1, <2>1, GotoStep DEF Reserved
<1>2. ASSUME worktree' = (worktree /\ ~calls[c].added), UNCHANGED spent,
             Result(calls[c].pull) # Refused, row' = Result(calls[c].pull), Goto(c, "complete")
      PROVE  PullRequestsInv'
  <2>m. PICK m : m = [calls[c] EXCEPT !.pc = "complete"]
    OBVIOUS
  <2>1. /\ m \in Memory(commits) /\ m.pc = "complete" /\ m.head = calls[c].head
        /\ m.pull = calls[c].pull
        /\ calls' = [calls EXCEPT ![c] = m]
    BY <1>2, <2>m, KnownCall DEF Memory, Goto
  <2>2. Fits(calls[c]) /\ calls[c].pull.state \in Published
    BY <1>0, KnownCall DEF Fits
  <2>3. RowMoves /\ row'.state \in Published
    BY <1>2, <2>2, ResultMoves
  <2>4. Fits(m)'
    BY <1>0, <2>1, <2>2, <2>3 DEF Fits, Reserved
  <2>5. /\ m.head = 0 \/ Mine(m.head)
        /\ m.pull.head = 0 \/ Seen(m.pull.head)
        /\ m.pc \in CreateSteps => calls[c].pc \in CreateSteps \/ ~Active
        /\ worktree' \in BOOLEAN /\ spent' \in SpentType
    BY <1>0, <1>2, <2>1, KnownCall
  <2> QED
    BY <1>0, <2>1, <2>3, <2>4, <2>5, RecordStep
<1>3. ASSUME calls' = [calls EXCEPT ![c].pc = "failed", ![c].added = FALSE],
             Spend("failures"), UNCHANGED <<row, worktree>>
      PROVE  PullRequestsInv'
  <2>m. PICK m : m = [calls[c] EXCEPT !.pc = "failed", !.added = FALSE]
    OBVIOUS
  <2>1. /\ m \in Memory(commits) /\ m.pc = "failed" /\ m.head = calls[c].head
        /\ m.pull = calls[c].pull
        /\ calls' = [calls EXCEPT ![c] = m]
    BY <1>3, <2>m, KnownCall DEF Memory
  <2>2. Fits(m)
    BY <1>0, <2>1, KnownCall DEF Fits, Reserved
  <2>3. /\ m.head = 0 \/ Mine(m.head)
        /\ m.pull.head = 0 \/ Seen(m.pull.head)
        /\ m.pc \in CreateSteps => calls[c].pc \in CreateSteps \/ ~Active
        /\ worktree' \in BOOLEAN
    BY <1>0, <1>3, <2>1, KnownCall
  <2>4. spent' \in SpentType
    BY <1>3, SpendTyped DEF PullRequestsInv
  <2> QED
    BY <1>0, <1>3, <2>1, <2>2, <2>3, <2>4, CallStep
<1> QED
  BY <1>1, <1>2, <1>3 DEF RecordResult

LEMMA CompleteStep ==
  ASSUME PullRequestsInv, NEW c \in Calls, Complete(c)
  PROVE  PullRequestsInv'
<1>0. /\ calls[c].pc = "complete"
      /\ UNCHANGED <<row, remote, strays, worktree, accepted, commits, landed, spent>>
      /\ op' = [op EXCEPT !.state = "completed", !.head = row.head, !.number = row.number]
      /\ Done(c)
      /\ worktree' \in BOOLEAN /\ spent' \in SpentType
  BY KnownCall DEF Complete
<1>1. /\ row' \in RowType(commits, Len(remote.pulls))
      /\ op' \in OpType(commits)
      /\ op'.head = row.head /\ op'.number = row.number
  <2>1. row \in RowType(commits, Len(remote.pulls)) /\ op \in OpType(commits)
    BY DEF RowType, OpType, PullRequestsInv, TypeOK
  <2>2. row.head \in 0..commits /\ row.number \in Nat
    BY <2>1, PullsTyped DEF RowType, PullRequestsInv
  <2>3. op' \in OpType(commits) /\ op'.head = row.head /\ op'.number = row.number
    BY <1>0, <2>1, <2>2 DEF OpType
  <2> QED
    BY <1>0, <2>1, <2>3 DEF RowType
<1>2. row.state \in Published
  BY <1>0, KnownCall DEF Fits
<1>3. RowAgrees' /\ PublishedIsPushed' /\ AnswerIsRow'
  BY <1>0, <1>1, <1>2 DEF PullRequestsInv, RowAgrees, PublishedIsPushed, AnswerIsRow
<1>4. Idle \in Memory(commits) /\ Fits(Idle)'
  <2>1. Idle \in Memory(commits) /\ Fits(Idle)
    BY IdleFits DEF PullRequestsInv
  <2> QED
    BY <1>0, <2>1 DEF Fits, Reserved
<1>5. row'.head = 0 \/ Mine(row'.head)
  BY <1>0, KnownCall
<1> QED
  BY <1>0, <1>1, <1>2, <1>3, <1>4, <1>5, LocalStep DEF Done

LEMMA FailStep ==
  ASSUME PullRequestsInv, NEW c \in Calls, Fail(c)
  PROVE  PullRequestsInv'
<1>0. /\ UNCHANGED <<op, remote, strays, accepted, commits, landed, spent>>
      /\ Done(c)
      /\ worktree' \in BOOLEAN /\ spent' \in SpentType
  BY KnownCall DEF Fail
<1>1. RowMoves
  BY ReconcileMoves DEF Fail
<1>2. Idle \in Memory(commits) /\ Fits(Idle)'
  <2>1. Idle \in Memory(commits) /\ Fits(Idle)
    BY IdleFits DEF PullRequestsInv
  <2> QED
    BY <1>0, <2>1 DEF Fits, Reserved
<1> QED
  BY <1>0, <1>1, <1>2, RecordStep DEF Done

LEMMA StartStatusStep ==
  ASSUME PullRequestsInv, NEW c \in Calls, StartStatus(c)
  PROVE  PullRequestsInv'
<1>0. /\ calls[c].pc = "idle" /\ ~Active
      /\ UNCHANGED <<row, op, remote, strays, worktree, accepted, commits, landed, spent>>
      /\ worktree' \in BOOLEAN /\ spent' \in SpentType
  BY KnownCall DEF StartStatus
<1>m. PICK m : m = [calls[c] EXCEPT !.pc = "view", !.head = row.head, !.pull.number = row.number]
  OBVIOUS
<1>1. calls' = [calls EXCEPT ![c] = m]
  BY <1>m DEF StartStatus
<1>2. /\ calls[c] \in Memory(commits) /\ commits \in Nat
      /\ row.head \in 0..commits /\ row.number \in Nat /\ row.number <= Len(remote.pulls)
      /\ row.state \in Published => row.number # 0
      /\ Fits(calls[c])
  BY KnownCall, PullsTyped DEF PullRequestsInv, TypeOK, RowAgrees
<1>3. /\ m \in Memory(commits) /\ m.pc = "view" /\ m.head = row.head
      /\ m.pull.number = row.number /\ m.pull.head = calls[c].pull.head
      /\ m.pull.state = calls[c].pull.state
  BY <1>m, <1>2 DEF Memory
<1>4. calls[c].pull.state = "none"
  BY <1>0, <1>2 DEF Fits
<1>5. Fits(m)
  BY <1>2, <1>3, <1>4 DEF Fits, Reserved
<1>6. /\ m.head = 0 \/ Mine(m.head)
      /\ m.pull.head = 0 \/ Seen(m.pull.head)
      /\ m.pc \in CreateSteps => calls[c].pc \in CreateSteps \/ ~Active
  BY <1>0, <1>3, KnownCall
<1> QED
  BY <1>0, <1>1, <1>3, <1>5, <1>6, CallStep

LEMMA ViewStep ==
  ASSUME PullRequestsInv, NEW c \in Calls, View(c)
  PROVE  PullRequestsInv'
<1>0. /\ calls[c].pc = "view"
      /\ UNCHANGED <<row, op, remote, strays, worktree, accepted, commits, landed, spent>>
      /\ worktree' \in BOOLEAN /\ spent' \in SpentType
  BY KnownCall DEF View
<1>n. PICK number : number = IF calls[c].pull.number # 0 THEN calls[c].pull.number ELSE Len(remote.pulls)
  OBVIOUS
<1>1. CASE number = 0
  BY <1>n, <1>0, <1>1, DoneStep DEF View
<1>2. CASE number # 0
  <2>m. PICK m : m = [calls[c] EXCEPT !.pc = "status", !.pull = Pull(number)]
    OBVIOUS
  <2>1. calls' = [calls EXCEPT ![c] = m]
    BY <1>n, <1>2, <2>m DEF View
  <2>2. number \in 1..Len(remote.pulls)
    <3>1. calls[c].pull.number \in Nat /\ calls[c].pull.number <= Len(remote.pulls)
      BY KnownCall DEF Memory, Fits
    <3>2. Len(remote.pulls) \in Nat
      BY PullsTyped DEF PullRequestsInv
    <3> QED
      BY <1>n, <1>2, <3>1, <3>2
  <2>3. /\ Pull(number) \in [state : Published, number : Nat, head : 0..commits]
        /\ Pull(number).number = number /\ Pull(number).head = remote.pulls[number].head
        /\ number <= Len(remote.pulls) /\ number \in DOMAIN remote.pulls
    <3>1. remote.pulls[number] \in PullType(commits) /\ number \in Nat
          /\ number \in DOMAIN remote.pulls /\ number <= Len(remote.pulls)
      BY <2>2, PullsTyped DEF PullRequestsInv
    <3> QED
      BY <3>1 DEF Pull, PullType
  <2>4. /\ m \in Memory(commits) /\ m.pc = "status" /\ m.head = calls[c].head
        /\ m.pull = Pull(number)
    <3>1. Pull(number) \in [state : {"none"} \cup Published, number : Nat, head : 0..commits]
      BY <2>3
    <3> QED
      BY <2>m, <3>1, KnownCall DEF Memory
  <2>5. Fits(m)
    BY <1>2, <2>3, <2>4 DEF Fits, Reserved
  <2>6. /\ m.head = 0 \/ Mine(m.head)
        /\ m.pull.head = 0 \/ Seen(m.pull.head)
        /\ m.pc \in CreateSteps => calls[c].pc \in CreateSteps \/ ~Active
    BY <2>3, <2>4, KnownCall
  <2> QED
    BY <1>0, <2>1, <2>4, <2>5, <2>6, CallStep
<1> QED
  BY <1>1, <1>2

LEMMA RecordStatusStep ==
  ASSUME PullRequestsInv, NEW c \in Calls, RecordStatus(c)
  PROVE  PullRequestsInv'
<1>0. /\ calls[c].pc = "status" /\ Done(c)
      /\ UNCHANGED <<op, remote, strays, worktree, accepted, commits, landed, spent>>
      /\ worktree' \in BOOLEAN /\ spent' \in SpentType
  BY KnownCall DEF RecordStatus
<1>1. calls[c].pull.state \in Published
  BY <1>0, KnownCall DEF Fits
<1>2. RowMoves
  <2>1. row' = row \/ (Result(calls[c].pull) # Refused /\ row' = Result(calls[c].pull))
    BY DEF RecordStatus
  <2> QED
    BY <1>1, <2>1, SameRowMoves, ResultMoves
<1>3. Idle \in Memory(commits) /\ Fits(Idle)'
  <2>1. Idle \in Memory(commits) /\ Fits(Idle)
    BY IdleFits DEF PullRequestsInv
  <2> QED
    BY <1>0, <2>1 DEF Fits, Reserved
<1> QED
  BY <1>0, <1>2, <1>3, RecordStep DEF Done

-----------------------------------------------------------------------------
(* New heads and the remote *)

\* The world goes on: heads, the remote, requests; the row and the ledger stay.
LEMMA WorldStep ==
  ASSUME PullRequestsInv, Grows, UNCHANGED <<row, op>>,
         calls' \in [Calls -> Memory(commits')], CallsFit', OneCreation',
         remote' \in RemoteType(commits'),
         strays' \subseteq StrayType(commits'),
         landed' \subseteq 1..commits',
         worktree' \in BOOLEAN, accepted' \in BOOLEAN, spent' \in SpentType,
         HeadsAgree'
  PROVE  PullRequestsInv'
<1> USE DEF PullRequestsInv
<1>1. /\ row' \in RowType(commits', Len(remote'.pulls))
      /\ op' \in OpType(commits')
  <2>1. Len(remote.pulls) \in Nat /\ commits \in Nat
    BY PullsTyped DEF TypeOK
  <2>2. Len(remote'.pulls) \in Nat
    BY SequenceTyped DEF RemoteType
  <2>3. row \in RowType(commits, Len(remote.pulls)) /\ op \in OpType(commits)
    BY DEF TypeOK, RowType, OpType
  <2> QED
    BY <2>1, <2>2, <2>3 DEF RowType, OpType, Grows
<1>2. TypeOK'
  BY <1>1 DEF TypeOK, RowType, OpType, Memory, RemoteType, PullType, StrayType, SpentType, Grows
<1>3. RowAgrees' /\ PublishedIsPushed' /\ AnswerIsRow'
  BY DEF RowAgrees, PublishedIsPushed, AnswerIsRow, Grows
<1> QED
  BY <1>2, <1>3

LEMMA RemoteTyped ==
  ASSUME TypeOK, commits' \in Nat, commits <= commits'
  PROVE  /\ remote.branch \in 0..commits'
         /\ remote.pulls \in Seq(PullType(commits'))
         /\ remote \in RemoteType(commits')
         /\ strays \subseteq StrayType(commits')
         /\ landed \subseteq 1..commits'
         /\ accepted \in BOOLEAN
<1>1. commits \in Nat
  BY DEF TypeOK
<1>2. remote.pulls \in Seq(PullType(commits))
  BY DEF TypeOK, PullType
<1>3. PullType(commits) \subseteq PullType(commits')
  BY <1>1 DEF PullType
<1>4. remote.pulls \in Seq(PullType(commits'))
  BY <1>2, <1>3
<1> QED
  BY <1>1, <1>4 DEF TypeOK, RemoteType, StrayType

\* Requests stand where they were while the world goes on.
LEMMA CallsStay ==
  ASSUME PullRequestsInv, Grows, UNCHANGED <<row, calls>>,
         UNCHANGED op \/ op.state # "pending"
  PROVE  /\ calls' \in [Calls -> Memory(commits')]
         /\ CallsFit' /\ OneCreation'
<1> USE DEF PullRequestsInv
<1>1. calls' \in [Calls -> Memory(commits')]
  BY CallTyped DEF Grows
<1>2. ASSUME NEW c \in Calls
      PROVE  Fits(calls[c])'
  <2>1. Fits(calls[c]) /\ calls[c] \in Memory(commits)
    BY KnownCall
  <2>2. /\ calls[c].pull.number \in Nat /\ Len(remote.pulls) \in Nat
        /\ Len(remote'.pulls) \in Int
    BY <2>1, PullsTyped DEF Memory, Grows
  <2> QED
    BY <2>1, <2>2 DEF Fits, Grows
<1> QED
  BY <1>1, <1>2 DEF CallsFit, OneCreation

\* A request takes a step that changes the remote or makes a head.
LEMMA EffectStep ==
  ASSUME PullRequestsInv, Grows, NEW c \in Calls, NEW m \in Memory(commits'),
         calls' = [calls EXCEPT ![c] = m],
         calls[c].pc \in CreateSteps,
         UNCHANGED <<row, op, strays, accepted>>,
         remote' \in RemoteType(commits'),
         landed' \subseteq 1..commits',
         worktree' \in BOOLEAN, spent' \in SpentType,
         Fits(m)',
         HeadsAgree'
  PROVE  PullRequestsInv'
<1>1. commits' \in Nat /\ commits <= commits' /\ TypeOK
  BY DEF Grows, PullRequestsInv
<1>2. Moves(c) /\ calls'[c] = m
  BY <1>1, MoveTyped
<1>3. CallsFit' /\ OneCreation'
  <2>1. Fits(calls[c])'
    BY <1>2
  <2> QED
    BY <1>2, <2>1, OtherCallsKept DEF PullRequestsInv
<1>4. strays' \subseteq StrayType(commits') /\ accepted' \in BOOLEAN
  BY <1>1, RemoteTyped
<1>5. calls' \in [Calls -> Memory(commits')]
  BY <1>2 DEF Moves
<1> QED
  BY <1>3, <1>4, <1>5, WorldStep

LEMMA CommitStep ==
  ASSUME PullRequestsInv, NEW c \in Calls, Commit(c)
  PROVE  PullRequestsInv'
<1>0. /\ calls[c].pc = "commit"
      /\ UNCHANGED <<row, op, remote, strays, accepted, landed>>
      /\ commits \in Nat
  BY KnownCall DEF Commit
<1>1. ASSUME worktree' = TRUE, commits' = commits + 1, UNCHANGED spent,
             calls' = [calls EXCEPT ![c].pc = "record", ![c].added = TRUE, ![c].head = commits + 1]
      PROVE  PullRequestsInv'
  <2>m. PICK m : m = [calls[c] EXCEPT !.pc = "record", !.added = TRUE, !.head = commits + 1]
    OBVIOUS
  <2>1. calls' = [calls EXCEPT ![c] = m]
    BY <1>1, <2>m
  <2>2. calls[c] \in Memory(commits')
    BY <1>0, <1>1, CallTyped DEF PullRequestsInv
  <2>3. m \in Memory(commits') /\ m.pc = "record" /\ m.head = commits + 1 /\ m.pull = calls[c].pull
    <3>1. commits + 1 \in 0..commits'
      BY <1>0, <1>1
    <3> QED
      BY <2>m, <2>2, <3>1 DEF Memory
  <2>4. Grows
    BY <1>0, <1>1, PullsTyped DEF Grows, PullRequestsInv
  <2>5. Fits(m)'
    <3>1. Fits(calls[c])
      BY KnownCall
    <3> QED
      BY <1>0, <2>3, <3>1 DEF Fits, Reserved
  <2>6. /\ calls'[c] = m
        /\ \A d \in Calls \ {c} : calls'[d] = calls[d]
    BY <2>1, <2>2, <1>0, <1>1, CallTyped DEF PullRequestsInv
  <2>7. ASSUME NEW h, Mine(h)', Seen(h)'
        PROVE  h = 0 \/ (Mine(h) /\ Seen(h)) \/ h \in landed'
    <3>1. Seen(h)
      BY <1>0, <2>3, <2>6, <2>7 DEF Seen
    <3>2. h \in 0..commits
      BY <3>1, HeadsTyped DEF PullRequestsInv
    <3>3. h = commits + 1 \/ Mine(h)
      BY <1>0, <2>3, <2>6, <2>7 DEF Mine
    <3> QED
      BY <1>0, <3>1, <3>2, <3>3
  <2>8. HeadsAgree'
    BY <2>4, <2>7, HeadsKept DEF PullRequestsInv
  <2>9. /\ remote' \in RemoteType(commits') /\ landed' \subseteq 1..commits'
        /\ worktree' \in BOOLEAN /\ spent' \in SpentType
    BY <1>0, <1>1, KnownCall, RemoteTyped DEF PullRequestsInv
  <2>10. calls[c].pc \in CreateSteps
    BY <1>0
  <2> QED
    BY <1>0, <2>1, <2>3, <2>4, <2>5, <2>8, <2>9, <2>10, EffectStep
<1>2. ASSUME worktree, Goto(c, "failed"), UNCHANGED <<worktree, commits, spent>>
      PROVE  PullRequestsInv'
  BY <1>0, <1>2, KnownCall, GotoStep DEF Reserved
<1>3. ASSUME Spend("failures"), Goto(c, "failed"), UNCHANGED <<worktree, commits>>
      PROVE  PullRequestsInv'
  <2>1. spent' \in SpentType /\ worktree' \in BOOLEAN
    BY <1>3, SpendTyped, KnownCall DEF PullRequestsInv
  <2> QED
    BY <1>0, <1>3, <2>1, GotoStep DEF Reserved
<1> QED
  BY <1>1, <1>2, <1>3 DEF Commit

\* A push of a head of the daemon creates the branch.
LEMMA PushGood ==
  ASSUME PullRequestsInv, NEW head \in 1..commits, PushLands(head), commits' = commits
  PROVE  /\ Grows
         /\ remote' \in RemoteType(commits') /\ landed' \subseteq 1..commits'
         /\ remote'.branch = head /\ remote'.pulls = remote.pulls
         /\ head \in landed' /\ landed \subseteq landed'
<1>1. remote \in RemoteType(commits) /\ landed \subseteq 1..commits /\ commits \in Nat
  BY RemoteTyped DEF PullRequestsInv, TypeOK, RemoteType, PullType
<1>2. /\ remote' \in RemoteType(commits')
      /\ remote'.branch = head /\ remote'.pulls = remote.pulls
  BY <1>1 DEF PushLands, RemoteType
<1>3. landed' = landed \cup {head}
  BY DEF PushLands
<1>4. Len(remote.pulls) \in Nat
  BY PullsTyped DEF PullRequestsInv
<1> QED
  BY <1>1, <1>2, <1>3, <1>4 DEF Grows

LEMMA CreateGood ==
  ASSUME PullRequestsInv, CreateLands, commits' = commits
  PROVE  /\ Grows
         /\ remote' \in RemoteType(commits') /\ landed' \subseteq 1..commits'
         /\ remote'.branch = remote.branch
         /\ Len(remote'.pulls) = Len(remote.pulls) + 1
         /\ \A i \in DOMAIN remote'.pulls :
               remote'.pulls[i].head = remote.branch
               \/ (i \in DOMAIN remote.pulls /\ remote'.pulls[i] = remote.pulls[i])
         /\ landed' = landed
<1>1. /\ remote \in RemoteType(commits) /\ landed \subseteq 1..commits /\ commits \in Nat
      /\ remote.branch \in 0..commits /\ remote.pulls \in Seq(PullType(commits))
  BY RemoteTyped DEF PullRequestsInv, TypeOK, RemoteType, PullType
<1>p. PICK pull : pull = [state |-> "open", head |-> remote.branch]
  OBVIOUS
<1>2. pull \in PullType(commits) /\ pull.head = remote.branch
  BY <1>p, <1>1 DEF CreateLands, PullType
<1>3. /\ Append(remote.pulls, pull) \in Seq(PullType(commits))
      /\ Len(Append(remote.pulls, pull)) = Len(remote.pulls) + 1
      /\ \A i \in 1..Len(remote.pulls) : Append(remote.pulls, pull)[i] = remote.pulls[i]
      /\ Append(remote.pulls, pull)[Len(remote.pulls) + 1] = pull
  BY <1>1, <1>2, AppendProperties
<1>4. /\ remote'.pulls = Append(remote.pulls, pull)
      /\ remote'.branch = remote.branch
      /\ remote' \in RemoteType(commits')
      /\ landed' = landed
  BY <1>p, <1>1, <1>3 DEF CreateLands, RemoteType
<1>5. /\ Len(remote.pulls) \in Nat /\ DOMAIN remote.pulls = 1..Len(remote.pulls)
      /\ DOMAIN remote'.pulls = 1..(Len(remote.pulls) + 1)
  BY <1>1, <1>3, <1>4, LenProperties
<1>6. Grows
  BY <1>1, <1>3, <1>4, <1>5 DEF Grows
<1>7. ASSUME NEW i \in DOMAIN remote'.pulls
      PROVE  remote'.pulls[i].head = remote.branch
             \/ (i \in DOMAIN remote.pulls /\ remote'.pulls[i] = remote.pulls[i])
  <2>1. i = Len(remote.pulls) + 1 \/ i \in 1..Len(remote.pulls)
    BY <1>5
  <2> QED
    BY <2>1, <1>2, <1>3, <1>4, <1>5
<1> QED
  BY <1>1, <1>3, <1>4, <1>6, <1>7

LEMMA MapTyped ==
  ASSUME NEW T, NEW U, NEW s \in Seq(T), NEW f \in [DOMAIN s -> U]
  PROVE  f \in Seq(U) /\ Len(f) = Len(s) /\ DOMAIN f = DOMAIN s
<1>1. Len(s) \in Nat /\ DOMAIN s = 1..Len(s)
  BY LenProperties
<1>2. f \in [1..Len(s) -> U]
  BY <1>1
<1>3. f \in Seq(U)
  BY <1>1, <1>2, SeqDef
<1> QED
  BY <1>1, <1>2, <1>3, LenProperties

LEMMA PushStep ==
  ASSUME PullRequestsInv, NEW c \in Calls, Push(c)
  PROVE  PullRequestsInv'
<1>0. /\ calls[c].pc = "push"
      /\ UNCHANGED <<row, op, strays, worktree, accepted, commits>>
      /\ worktree' \in BOOLEAN
  BY KnownCall DEF Push
<1>1. ASSUME PushLands(calls[c].head), NEW pc \in {"pushed", "failed"}, Goto(c, pc),
             spent' \in SpentType
      PROVE  PullRequestsInv'
  <2>1. calls[c].head \in 1..commits
    BY <1>0, KnownCall DEF Fits, Memory
  <2>2. /\ Grows
        /\ remote' \in RemoteType(commits') /\ landed' \subseteq 1..commits'
        /\ remote'.branch = calls[c].head /\ remote'.pulls = remote.pulls
        /\ calls[c].head \in landed' /\ landed \subseteq landed'
    BY <1>0, <1>1, <2>1, PushGood
  <2>m. PICK m : m = [calls[c] EXCEPT !.pc = pc]
    OBVIOUS
  <2>3. /\ m \in Memory(commits') /\ m.pc = pc /\ m.head = calls[c].head /\ m.pull = calls[c].pull
        /\ calls' = [calls EXCEPT ![c] = m]
    BY <1>0, <1>1, <2>m, KnownCall DEF Memory, Goto
  <2>4. Fits(m)'
    <3>1. Fits(calls[c])
      BY KnownCall
    <3> QED
      BY <1>0, <2>1, <2>2, <2>3, <3>1 DEF Fits, Reserved
  <2>5. /\ calls'[c] = m
        /\ \A d \in Calls \ {c} : calls'[d] = calls[d]
    BY <1>0, <2>3, MoveTyped DEF PullRequestsInv, TypeOK, Moves
  <2>6. ASSUME NEW h, Mine(h)', Seen(h)'
        PROVE  h = 0 \/ (Mine(h) /\ Seen(h)) \/ h \in landed'
    <3>1. Mine(h)
      BY <1>0, <2>3, <2>5, <2>6 DEF Mine
    <3>2. Seen(h) \/ h = calls[c].head
      BY <1>0, <2>2, <2>3, <2>5, <2>6 DEF Seen
    <3> QED
      BY <2>2, <3>1, <3>2
  <2>7. HeadsAgree'
    BY <2>2, <2>6, HeadsKept DEF PullRequestsInv
  <2>8. calls[c].pc \in CreateSteps
    BY <1>0
  <2> QED
    BY <1>0, <1>1, <2>2, <2>3, <2>4, <2>7, <2>8, EffectStep
<1>2. ASSUME UNCHANGED <<remote, landed>>, Goto(c, "failed"), spent' \in SpentType
      PROVE  PullRequestsInv'
  BY <1>0, <1>2, GotoStep DEF Reserved
<1>3. UNCHANGED spent \/ Spend("failures") => spent' \in SpentType
  BY KnownCall, SpendTyped DEF PullRequestsInv
<1> QED
  BY <1>1, <1>2, <1>3 DEF Push

LEMMA CreatePullStep ==
  ASSUME PullRequestsInv, NEW c \in Calls, CreatePull(c)
  PROVE  PullRequestsInv'
<1>0. /\ calls[c].pc = "create"
      /\ UNCHANGED <<row, op, strays, worktree, accepted, commits>>
      /\ worktree' \in BOOLEAN
      /\ calls[c].head \in landed /\ calls[c].head \in 0..commits /\ Fits(calls[c])
      /\ Mine(calls[c].head)
  BY KnownCall DEF CreatePull, Fits, Memory
<1>1. ASSUME CreateLands, NEW m \in Memory(commits), calls' = [calls EXCEPT ![c] = m],
             Fits(m)', m.head = calls[c].head,
             m.pull.head \in {calls[c].head, calls[c].pull.head},
             spent' \in SpentType
      PROVE  PullRequestsInv'
  <2>1. /\ Grows
        /\ remote' \in RemoteType(commits') /\ landed' \subseteq 1..commits'
        /\ remote'.branch = remote.branch
        /\ \A i \in DOMAIN remote'.pulls :
              remote'.pulls[i].head = remote.branch
              \/ (i \in DOMAIN remote.pulls /\ remote'.pulls[i] = remote.pulls[i])
        /\ landed' = landed
    BY <1>0, <1>1, CreateGood
  <2>2. /\ calls'[c] = m
        /\ \A d \in Calls \ {c} : calls'[d] = calls[d]
    BY <1>0, <1>1, MoveTyped DEF PullRequestsInv, TypeOK, Moves
  <2>3. ASSUME NEW h, Mine(h)', Seen(h)'
        PROVE  h = 0 \/ (Mine(h) /\ Seen(h)) \/ h \in landed'
    <3>1. Mine(h)
      BY <1>0, <1>1, <2>2, <2>3 DEF Mine
    <3>2. Seen(h) \/ h = calls[c].head
      BY <1>0, <1>1, <2>1, <2>2, <2>3 DEF Seen
    <3> QED
      BY <1>0, <2>1, <3>1, <3>2
  <2>4. HeadsAgree'
    BY <2>1, <2>3, HeadsKept DEF PullRequestsInv
  <2>5. calls[c].pc \in CreateSteps /\ m \in Memory(commits')
    BY <1>0
  <2> QED
    BY <1>0, <1>1, <2>1, <2>4, <2>5, EffectStep
<1>2. UNCHANGED spent \/ Spend("failures") => spent' \in SpentType
  BY KnownCall, SpendTyped DEF PullRequestsInv
<1>3. ASSUME CreateLands, UNCHANGED spent,
             calls' = [calls EXCEPT ![c].pc = "result",
                  ![c].pull = [state |-> "open", number |-> Len(remote.pulls) + 1, head |-> calls[c].head]]
      PROVE  PullRequestsInv'
  <2>p. PICK pull : pull = [state |-> "open", number |-> Len(remote.pulls) + 1, head |-> calls[c].head]
    OBVIOUS
  <2>m. PICK m : m = [calls[c] EXCEPT !.pc = "result", !.pull = pull]
    OBVIOUS
  <2>1. calls' = [calls EXCEPT ![c] = m]
    BY <1>3, <2>p, <2>m
  <2>2. Len(remote.pulls) \in Nat
    BY PullsTyped DEF PullRequestsInv
  <2>3. pull \in [state : {"none"} \cup Published, number : Nat, head : 0..commits]
    BY <1>0, <2>2, <2>p
  <2>4. m \in Memory(commits) /\ m.pc = "result" /\ m.pull = pull /\ m.head = calls[c].head
    BY <2>m, <2>3, KnownCall DEF Memory
  <2>5. Len(remote'.pulls) = Len(remote.pulls) + 1
    BY <1>0, <1>3, CreateGood
  <2>6. pull.state = "open" /\ pull.number = Len(remote.pulls) + 1 /\ pull.head = calls[c].head
    BY <2>p
  <2>7. Fits(m)'
    BY <1>0, <2>2, <2>4, <2>5, <2>6 DEF Fits, Reserved
  <2> QED
    BY <1>1, <1>2, <1>3, <2>1, <2>4, <2>6, <2>7
<1>4. ASSUME CreateLands, Goto(c, "failed"), spent' \in SpentType
      PROVE  PullRequestsInv'
  <2>m. PICK m : m = [calls[c] EXCEPT !.pc = "failed"]
    OBVIOUS
  <2>1. /\ m \in Memory(commits) /\ m.pc = "failed" /\ m.head = calls[c].head /\ m.pull = calls[c].pull
        /\ calls' = [calls EXCEPT ![c] = m]
    BY <1>4, <2>m, KnownCall DEF Memory, Goto
  <2>2. /\ Len(remote.pulls) \in Nat /\ Len(remote'.pulls) = Len(remote.pulls) + 1
        /\ calls[c].pull.number \in Nat
    BY <1>0, <1>4, CreateGood, PullsTyped, KnownCall DEF PullRequestsInv, Memory
  <2>3. Fits(m)'
    BY <1>0, <2>1, <2>2 DEF Fits, Reserved
  <2> QED
    BY <1>1, <1>4, <2>1, <2>3
<1>5. ASSUME UNCHANGED <<remote, landed>>, Goto(c, "failed"), spent' \in SpentType
      PROVE  PullRequestsInv'
  BY <1>0, <1>5, GotoStep DEF Reserved
<1> QED
  BY <1>2, <1>3, <1>4, <1>5 DEF CreatePull

-----------------------------------------------------------------------------
(* Everything else *)

\* The requests, the row and the ledger are what they were.
LEMMA OutsideStep ==
  ASSUME PullRequestsInv, Grows, UNCHANGED <<row, op, calls>>,
         remote' \in RemoteType(commits'),
         strays' \subseteq strays,
         landed' \subseteq 1..commits',
         worktree' \in BOOLEAN, accepted' \in BOOLEAN, spent' \in SpentType,
         \A h : Mine(h) /\ Seen(h)' => h = 0 \/ Seen(h) \/ h \in landed'
  PROVE  PullRequestsInv'
<1>1. strays' \subseteq StrayType(commits')
  BY RemoteTyped DEF PullRequestsInv, Grows
<1>2. \A h : Mine(h)' => Mine(h)
  BY DEF Mine
<1>3. HeadsAgree'
  BY <1>2, HeadsKept DEF PullRequestsInv
<1> QED
  BY <1>1, <1>3, CallsStay, WorldStep

LEMMA StrayStep ==
  ASSUME PullRequestsInv, NEW s \in strays, StrayArrives(s)
  PROVE  PullRequestsInv'
<1>1. /\ UNCHANGED <<row, op, calls, worktree, accepted, commits, spent>>
      /\ strays' \subseteq strays
      /\ s.head \in 1..commits
  BY DEF StrayArrives, PullRequestsInv, TypeOK
<1>2. /\ worktree' \in BOOLEAN /\ accepted' \in BOOLEAN /\ spent' \in SpentType
  BY <1>1 DEF PullRequestsInv, TypeOK, SpentType
<1>3. CASE PushLands(s.head)
  <2>1. /\ Grows
        /\ remote' \in RemoteType(commits') /\ landed' \subseteq 1..commits'
        /\ remote'.branch = s.head /\ remote'.pulls = remote.pulls
        /\ s.head \in landed'
    BY <1>1, <1>3, PushGood
  <2>2. ASSUME NEW h, Seen(h)'
        PROVE  Seen(h) \/ h \in landed'
    BY <1>1, <2>1, <2>2 DEF Seen
  <2> QED
    BY <1>1, <1>2, <2>1, <2>2, OutsideStep
<1>4. CASE CreateLands
  <2>1. /\ Grows
        /\ remote' \in RemoteType(commits') /\ landed' \subseteq 1..commits'
        /\ remote'.branch = remote.branch
        /\ \A i \in DOMAIN remote'.pulls :
              remote'.pulls[i].head = remote.branch
              \/ (i \in DOMAIN remote.pulls /\ remote'.pulls[i] = remote.pulls[i])
    BY <1>1, <1>4, CreateGood
  <2>2. ASSUME NEW h, Seen(h)'
        PROVE  Seen(h)
    BY <1>1, <2>1, <2>2 DEF Seen
  <2> QED
    BY <1>1, <1>2, <2>1, <2>2, OutsideStep
<1> QED
  BY <1>3, <1>4 DEF StrayArrives

LEMMA MutateStep ==
  ASSUME PullRequestsInv, NEW old \in BOOLEAN, NEW sameKey \in BOOLEAN, Mutate(old, sameKey)
  PROVE  PullRequestsInv'
<1> DEFINE kept == IF old /\ op.state = "completed"
                   THEN [state |-> "none", method |-> "none", head |-> 0, number |-> 0] ELSE op
<1>0. /\ UNCHANGED <<row, calls, remote, strays, worktree, accepted, commits, landed>>
      /\ Spend("humans") /\ op' # op
      /\ op' = IF sameKey /\ kept.state = "none"
               THEN [kept EXCEPT !.state = "completed", !.method = "other"] ELSE kept
  BY DEF Mutate
<1>1. op \in OpType(commits) /\ commits \in Nat
  BY DEF PullRequestsInv, TypeOK, OpType
<1>2. kept \in OpType(commits) /\ (kept = op \/ kept.state = "none")
  BY <1>1 DEF OpType
<1>3. /\ op' \in OpType(commits)
      /\ op'.state = "completed" /\ op'.method = "create" => kept = op /\ op' = op
      /\ op.state # "pending"
  <2>1. CASE sameKey /\ kept.state = "none"
    BY <1>0, <1>2, <2>1 DEF OpType
  <2>2. CASE ~(sameKey /\ kept.state = "none")
    <3>1. op' = kept
      BY <1>0, <2>2
    <3> QED
      BY <1>0, <1>2, <3>1
  <2> QED
    BY <2>1, <2>2
<1> HIDE DEF kept
<1>4. Grows
  BY <1>0, <1>1, PullsTyped DEF Grows, PullRequestsInv
<1>5. CallsFit' /\ OneCreation'
  BY <1>0, <1>3, <1>4, CallsStay
<1>6. AnswerIsRow'
  BY <1>0, <1>3 DEF AnswerIsRow, PullRequestsInv
<1>7. HeadsAgree' /\ RowAgrees' /\ PublishedIsPushed'
  BY <1>0 DEF HeadsAgree, Mine, Seen, RowAgrees, PublishedIsPushed, PullRequestsInv
<1>8. TypeOK'
  <2>1. spent' \in SpentType
    BY <1>0, SpendTyped DEF PullRequestsInv
  <2> QED
    BY <1>0, <1>3, <2>1 DEF TypeOK, OpType, SpentType, PullRequestsInv
<1> QED
  BY <1>5, <1>6, <1>7, <1>8 DEF PullRequestsInv

\* Decisions, the reaper, or nothing.
LEMMA QuietStep ==
  ASSUME PullRequestsInv, UNCHANGED <<row, op, calls, remote, strays, commits, landed>>,
         worktree' \in BOOLEAN, accepted' \in BOOLEAN, spent' \in SpentType
  PROVE  PullRequestsInv'
<1>1. Grows /\ remote' \in RemoteType(commits') /\ landed' \subseteq 1..commits'
  BY PullsTyped, RemoteTyped DEF Grows, PullRequestsInv, TypeOK
<1>2. \A h : Seen(h)' => Seen(h)
  BY DEF Seen
<1> QED
  BY <1>1, <1>2, OutsideStep

LEMMA RestartStep ==
  ASSUME PullRequestsInv, Restart
  PROVE  PullRequestsInv'
<1>0. /\ UNCHANGED <<row, op, remote, accepted, commits, landed>>
      /\ calls' = [c \in Calls |-> Idle]
      /\ worktree' \in BOOLEAN /\ accepted' \in BOOLEAN
      /\ Spend("restarts") /\ commits \in Nat
  BY DEF Restart, PullRequestsInv, TypeOK
<1>1. spent' \in SpentType
  BY <1>0, SpendTyped DEF PullRequestsInv
<1>2. Grows /\ remote' \in RemoteType(commits') /\ landed' \subseteq 1..commits'
  BY <1>0, PullsTyped, RemoteTyped DEF Grows, PullRequestsInv, TypeOK
<1>3. Idle \in Memory(commits) /\ Fits(Idle)
  BY IdleFits DEF PullRequestsInv
<1>4. CallsFit' /\ OneCreation' /\ calls' \in [Calls -> Memory(commits')]
  <2>1. Fits(Idle)'
    BY <1>0, <1>3 DEF Fits, Reserved
  <2> QED
    BY <1>0, <1>3, <2>1 DEF CallsFit, OneCreation
<1>5. ASSUME NEW s \in strays'
      PROVE  s \in strays \/ \E c \in Calls : /\ calls[c].pc \in {"push", "create"}
                                              /\ s = [kind |-> calls[c].pc, head |-> calls[c].head]
  BY <1>5 DEF Restart
<1>6. strays' \subseteq StrayType(commits')
  <2>1. ASSUME NEW c \in Calls, calls[c].pc \in {"push", "create"}
        PROVE  calls[c].head \in 1..commits
    BY <2>1, KnownCall DEF Fits, Memory
  <2>2. strays \subseteq StrayType(commits)
    BY DEF PullRequestsInv, TypeOK, StrayType
  <2>3. ASSUME NEW s \in strays'
        PROVE  s \in StrayType(commits)
    BY <1>5, <2>1, <2>2 DEF StrayType
  <2> QED
    BY <1>0, <2>3
<1>7. ASSUME NEW h, Mine(h)'
      PROVE  h = 0 \/ Mine(h)
  <2>1. CASE \E s \in strays' : h = s.head
    BY <1>5, <2>1 DEF Mine
  <2>2. CASE h = row'.head \/ \E c \in Calls : h = calls'[c].head
    BY <1>0, <2>2 DEF Mine
  <2> QED
    BY <1>7, <2>1, <2>2 DEF Mine
<1>8. ASSUME NEW h, Seen(h)'
      PROVE  h = 0 \/ Seen(h)
  BY <1>0, <1>8 DEF Seen
<1>9. HeadsAgree'
  BY <1>2, <1>7, <1>8, HeadsKept DEF PullRequestsInv
<1> QED
  BY <1>0, <1>1, <1>2, <1>4, <1>6, <1>9, WorldStep

\* People change the states of pull requests, or the heads to one of their own.
LEMMA HumanStep ==
  ASSUME PullRequestsInv, Human
  PROVE  PullRequestsInv'
<1>0. /\ UNCHANGED <<row, op, calls, strays, worktree, accepted>>
      /\ worktree' \in BOOLEAN /\ accepted' \in BOOLEAN
      /\ Spend("humans")
  BY DEF Human, PullRequestsInv, TypeOK
<1>1. spent' \in SpentType /\ commits \in Nat
  BY <1>0, SpendTyped DEF PullRequestsInv, TypeOK
<1>2. /\ remote.pulls \in Seq(PullType(commits)) /\ remote.branch \in 0..commits
      /\ remote \in RemoteType(commits) /\ landed \subseteq 1..commits
      /\ DOMAIN remote.pulls = 1..Len(remote.pulls) /\ Len(remote.pulls) \in Nat
      /\ \A i \in DOMAIN remote.pulls : remote.pulls[i] \in PullType(commits)
  <2>1. /\ remote.pulls \in Seq(PullType(commits)) /\ remote.branch \in 0..commits
        /\ remote \in RemoteType(commits) /\ landed \subseteq 1..commits
    BY DEF PullRequestsInv, TypeOK, RemoteType, PullType
  <2> QED
    BY <2>1, PullsTyped DEF PullRequestsInv
<1>3. ASSUME commits' \in {commits, commits + 1}, UNCHANGED landed,
             remote'.branch \in {0, remote.branch, commits'},
             remote'.branch = remote.branch \/ remote'.branch = 0 \/ commits' = commits + 1,
             NEW pulls \in [DOMAIN remote.pulls -> PullType(commits')],
             \A i \in DOMAIN remote.pulls :
                pulls[i].head = remote.pulls[i].head
                \/ (commits' = commits + 1 /\ pulls[i].head = commits'),
             remote' = [branch |-> remote'.branch, pulls |-> pulls]
      PROVE  PullRequestsInv'
  <2>1. pulls \in Seq(PullType(commits')) /\ Len(pulls) = Len(remote.pulls)
        /\ DOMAIN pulls = DOMAIN remote.pulls
    BY <1>2, MapTyped
  <2>2. /\ remote'.pulls = pulls
        /\ remote'.branch \in 0..commits'
    BY <1>1, <1>2, <1>3
  <2>3. Grows /\ landed' \subseteq 1..commits' /\ remote' \in RemoteType(commits')
    BY <1>1, <1>2, <1>3, <2>1, <2>2 DEF Grows, RemoteType
  <2>4. ASSUME NEW h, Mine(h), Seen(h)'
        PROVE  h = 0 \/ Seen(h)
    <3>1. h \in 0..commits
      BY <2>4, HeadsTyped DEF PullRequestsInv
    <3>2. h = 0 \/ h = commits + 1 \/ Seen(h)
      BY <1>0, <1>3, <2>1, <2>2, <2>4 DEF Seen
    <3> QED
      BY <1>1, <3>1, <3>2
  <2> QED
    BY <1>0, <1>1, <2>3, <2>4, OutsideStep
<1>4. ASSUME NEW i \in DOMAIN remote.pulls, NEW state \in Published, SetPull(i, state),
             UNCHANGED <<commits, landed>>
      PROVE  PullRequestsInv'
  <2>1. PICK pulls : pulls = [remote.pulls EXCEPT ![i].state = state]
    OBVIOUS
  <2>2. /\ pulls \in [DOMAIN remote.pulls -> PullType(commits)]
        /\ \A k \in DOMAIN remote.pulls : pulls[k].head = remote.pulls[k].head
    BY <1>2, <2>1, LenProperties DEF PullType
  <2>3. remote' = [branch |-> remote'.branch, pulls |-> pulls] /\ remote'.branch = remote.branch
    BY <1>2, <1>4, <2>1 DEF SetPull, RemoteType
  <2> QED
    BY <1>3, <1>4, <2>2, <2>3
<1>5. ASSUME CreateLands, UNCHANGED commits
      PROVE  PullRequestsInv'
  <2>1. /\ Grows
        /\ remote' \in RemoteType(commits') /\ landed' \subseteq 1..commits'
        /\ remote'.branch = remote.branch
        /\ \A i \in DOMAIN remote'.pulls :
              remote'.pulls[i].head = remote.branch
              \/ (i \in DOMAIN remote.pulls /\ remote'.pulls[i] = remote.pulls[i])
    BY <1>5, CreateGood
  <2>2. ASSUME NEW h, Seen(h)'
        PROVE  Seen(h)
    BY <1>0, <2>1, <2>2 DEF Seen
  <2> QED
    BY <1>0, <1>1, <2>1, <2>2, OutsideStep
<1>6. ASSUME commits' = commits + 1, remote' = [remote EXCEPT !.branch = commits + 1], UNCHANGED landed
      PROVE  PullRequestsInv'
  <2>1. /\ remote.pulls \in [DOMAIN remote.pulls -> PullType(commits')]
    BY <1>1, <1>2, <1>6, LenProperties DEF PullType
  <2>2. remote' = [branch |-> remote'.branch, pulls |-> remote.pulls] /\ remote'.branch = commits'
    BY <1>2, <1>6 DEF RemoteType
  <2> QED
    BY <1>3, <1>6, <2>1, <2>2
<1>7. ASSUME UNCHANGED <<commits, landed>>,
             remote' = [branch |-> 0, pulls |-> [i \in DOMAIN remote.pulls |->
                 IF remote.pulls[i].state = "open" THEN [remote.pulls[i] EXCEPT !.state = "closed"]
                 ELSE remote.pulls[i]]]
      PROVE  PullRequestsInv'
  <2>1. PICK pulls : pulls = [i \in DOMAIN remote.pulls |->
                 IF remote.pulls[i].state = "open" THEN [remote.pulls[i] EXCEPT !.state = "closed"]
                 ELSE remote.pulls[i]]
    OBVIOUS
  <2>2. /\ pulls \in [DOMAIN remote.pulls -> PullType(commits')]
        /\ \A i \in DOMAIN remote.pulls : pulls[i].head = remote.pulls[i].head
    BY <1>2, <1>7, <2>1 DEF PullType
  <2>3. remote' = [branch |-> remote'.branch, pulls |-> pulls] /\ remote'.branch = 0
    BY <1>7, <2>1
  <2> QED
    BY <1>3, <1>7, <2>2, <2>3
<1>8. ASSUME commits' = commits + 1, UNCHANGED landed,
             remote' = [branch |-> commits + 1, pulls |-> [i \in DOMAIN remote.pulls |->
                 IF remote.pulls[i].state = "open" THEN [remote.pulls[i] EXCEPT !.head = commits + 1]
                 ELSE remote.pulls[i]]]
      PROVE  PullRequestsInv'
  <2>1. PICK pulls : pulls = [i \in DOMAIN remote.pulls |->
                 IF remote.pulls[i].state = "open" THEN [remote.pulls[i] EXCEPT !.head = commits + 1]
                 ELSE remote.pulls[i]]
    OBVIOUS
  <2>2. /\ pulls \in [DOMAIN remote.pulls -> PullType(commits')]
        /\ \A i \in DOMAIN remote.pulls :
              pulls[i].head = remote.pulls[i].head \/ pulls[i].head = commits'
    <3>1. commits' \in 1..commits' /\ 1..commits \subseteq 1..commits'
      BY <1>1, <1>8
    <3>2. ASSUME NEW i \in DOMAIN remote.pulls
          PROVE  /\ pulls[i] \in PullType(commits')
                 /\ pulls[i].head = remote.pulls[i].head \/ pulls[i].head = commits'
      <4>1. remote.pulls[i] \in PullType(commits) /\ remote.pulls[i] \in PullType(commits')
        BY <1>2, <3>1 DEF PullType
      <4>2. CASE remote.pulls[i].state = "open"
        <5>1. pulls[i] = [remote.pulls[i] EXCEPT !.head = commits']
          BY <1>8, <2>1, <4>2
        <5> QED
          BY <3>1, <4>1, <5>1 DEF PullType
      <4>3. CASE remote.pulls[i].state # "open"
        BY <2>1, <4>1, <4>3
      <4> QED
        BY <4>2, <4>3
    <3> QED
      BY <2>1, <3>2
  <2>3. remote' = [branch |-> remote'.branch, pulls |-> pulls] /\ remote'.branch = commits'
    BY <1>8, <2>1
  <2> QED
    BY <1>3, <1>8, <2>2, <2>3
<1> QED
  <2>1. {"merged", "closed"} \subseteq Published /\ "open" \in Published
    OBVIOUS
  <2> QED
    BY <1>4, <1>5, <1>6, <1>7, <1>8, <2>1 DEF Human

-----------------------------------------------------------------------------
LEMMA InitInv == Init => PullRequestsInv
<1> SUFFICES ASSUME Init PROVE PullRequestsInv
  OBVIOUS
<1> USE DEF Init
<1>1. TypeOK
  <2>1. remote.pulls = <<>> /\ <<>> \in Seq(PullType(commits)) /\ Len(<<>>) = 0
    BY EmptySeq
  <2>2. remote \in [branch : 0..commits, pulls : Seq(PullType(commits))]
    BY <2>1
  <2>3. row \in RowType(commits, Len(remote.pulls)) /\ op \in OpType(commits)
    BY <2>1 DEF RowType, OpType
  <2>4. calls \in [Calls -> Memory(commits)]
    BY DEF Memory
  <2> QED
    BY <2>2, <2>3, <2>4 DEF TypeOK, PullType, RowType, OpType, Memory
<1>2. HeadsAgree
  BY DEF HeadsAgree
<1>3. CallsFit /\ OneCreation
  <2>1. Fits(Idle)
    BY <1>1, IdleFits
  <2> QED
    BY <2>1 DEF CallsFit, OneCreation
<1>4. RowAgrees /\ PublishedIsPushed /\ AnswerIsRow
  BY DEF RowAgrees, PublishedIsPushed, AnswerIsRow
<1> QED
  BY <1>1, <1>2, <1>3, <1>4 DEF PullRequestsInv

LEMMA NextInv == PullRequestsInv /\ [Next]_vars => PullRequestsInv'
<1> SUFFICES ASSUME PullRequestsInv, [Next]_vars
             PROVE  PullRequestsInv'
  OBVIOUS
<1>1. ASSUME NEW c \in Calls, StartCreate(c) \/ StartStatus(c) \/ Step(c)
      PROVE  PullRequestsInv'
  BY <1>1, StartCreateStep, StartStatusStep, ListPullsStep, ReserveStep, ConflictStep, CommitStep,
     RecordProgressStep, PushStep, CreatePullStep, RecordResultStep, CompleteStep, FailStep,
     ViewStep, RecordStatusStep DEF Step
<1>2. ASSUME NEW old \in BOOLEAN, NEW sameKey \in BOOLEAN, Mutate(old, sameKey)
      PROVE  PullRequestsInv'
  BY <1>2, MutateStep
<1>3. ASSUME NEW s \in strays, StrayArrives(s)
      PROVE  PullRequestsInv'
  BY <1>3, StrayStep
<1>4. worktree \in BOOLEAN /\ accepted \in BOOLEAN /\ spent \in SpentType
  BY DEF PullRequestsInv, TypeOK, SpentType
<1>5. CASE Decide
  <2>1. spent' \in SpentType
    BY <1>5, SpendTyped DEF Decide, PullRequestsInv
  <2> QED
    BY <1>4, <1>5, <2>1, QuietStep DEF Decide
<1>6. CASE Reap
  BY <1>4, <1>6, QuietStep DEF Reap
<1>7. CASE UNCHANGED vars
  BY <1>4, <1>7, QuietStep DEF vars
<1> QED
  BY <1>1, <1>2, <1>3, <1>5, <1>6, <1>7, HumanStep, RestartStep DEF Next

\* The inductive invariant of the pull request holds always.
THEOREM PullRequestsAlways == Spec => []PullRequestsInv
  BY InitInv, NextInv, PTL DEF Spec

\* The row, the ledger, the memories, the remote and the late requests have their types.
THEOREM TypeCorrect == Spec => []TypeOK
<1>1. PullRequestsInv => TypeOK
  BY DEF PullRequestsInv
<1> QED
  BY <1>1, PullRequestsAlways, PTL

\* Whatever crashes, arrives late or is pushed by others: the head a row calls pushed or
\* published is one this daemon pushed.
THEOREM PublishedWasPushed == Spec => []PublishedIsPushed
<1>1. PullRequestsInv => PublishedIsPushed
  BY DEF PullRequestsInv
<1> QED
  BY <1>1, PullRequestsAlways, PTL

\* A completed creation answers with the pull request of the row, at that moment and for ever.
THEOREM LedgerAnswersRow == Spec => []AnswerIsRow
<1>1. PullRequestsInv => AnswerIsRow
  BY DEF PullRequestsInv
<1> QED
  BY <1>1, PullRequestsAlways, PTL

\* Whatever writes the row keeps what was published.
LEMMA StepKeepsFinal ==
  ASSUME PullRequestsInv, [Next]_vars
  PROVE  UNCHANGED row \/ FinalKept
<1>1. ASSUME NEW c \in Calls, Reserve(c)
      PROVE  FinalKept
  BY <1>1 DEF Reserve, FinalKept
<1>2. ASSUME NEW c \in Calls, RecordProgress(c)
      PROVE  UNCHANGED row \/ FinalKept
  BY <1>2 DEF RecordProgress, Progress, Refused, FinalKept
<1>3. ASSUME NEW c \in Calls, RecordResult(c) \/ RecordStatus(c)
      PROVE  UNCHANGED row \/ FinalKept
  <2>1. Fits(calls[c])
    BY KnownCall
  <2>2. calls[c].pull.state \in Published
    BY <1>3, <2>1 DEF RecordResult, RecordStatus, Fits
  <2>3. UNCHANGED row \/ (Result(calls[c].pull) # Refused /\ row' = Result(calls[c].pull))
    BY <1>3 DEF RecordResult, RecordStatus
  <2> QED
    BY <2>2, <2>3, ResultMoves DEF RowMoves
<1>4. ASSUME NEW c \in Calls, Fail(c)
      PROVE  FinalKept
  BY <1>4, ReconcileMoves DEF Fail, RowMoves
<1>5. ASSUME NEW c \in Calls, StartCreate(c) \/ StartStatus(c) \/ Step(c)
      PROVE  UNCHANGED row \/ FinalKept
  <2>1. CASE \/ StartCreate(c) \/ StartStatus(c) \/ ListPulls(c) \/ Conflict(c) \/ Commit(c) \/ Push(c)
            \/ CreatePull(c) \/ Complete(c) \/ View(c)
    BY <2>1 DEF StartCreate, StartStatus, ListPulls, Conflict, Commit, Push, CreatePull, Complete, View
  <2> QED
    BY <1>1, <1>2, <1>3, <1>4, <1>5, <2>1 DEF Step
<1>6. ASSUME NEW old \in BOOLEAN, NEW sameKey \in BOOLEAN, Mutate(old, sameKey)
      PROVE  UNCHANGED row
  BY <1>6 DEF Mutate
<1>7. ASSUME NEW s \in strays, StrayArrives(s)
      PROVE  UNCHANGED row
  BY <1>7 DEF StrayArrives
<1>8. CASE Decide \/ Human \/ Restart \/ Reap \/ UNCHANGED vars
  BY <1>8 DEF Decide, Human, Restart, Reap, vars
<1> QED
  BY <1>5, <1>6, <1>7, <1>8 DEF Next

\* A published row keeps its pull request, and a merged or closed one its state.
THEOREM PublishedStays == Spec => PublishedIsFinal
<1>1. PullRequestsInv /\ [Next]_vars =>
        [row.state \in Published =>
           /\ row'.head = row.head /\ row'.number = row.number
           /\ row.state # "open" => row'.state = row.state]_row
  BY StepKeepsFinal DEF FinalKept
<1> QED
  BY <1>1, PullRequestsAlways, PTL DEF Spec, PublishedIsFinal
=============================================================================
