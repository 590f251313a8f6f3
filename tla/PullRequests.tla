---------------------------- MODULE PullRequests ----------------------------
(***************************************************************************)
(* The pull request of one accepted job: the operation ledger, the durable *)
(* row, and a remote that other people change too.                         *)
(*                                                                         *)
(* github.pr.create probes GitHub, reserves the operation and the row in   *)
(* one transaction, commits and records, pushes and records, creates and   *)
(* records, and completes the operation.  Every record is a transaction of *)
(* its own, so a crash may fall between any two steps, and a request that  *)
(* was already on its way may still reach the remote after the restart.    *)
(*                                                                         *)
(* Abstracted: heads are numbers, 0 is none; every local commit is a new   *)
(* head; all requests for the job carry the same identity (its evaluation  *)
(* evidence is fixed); the operator is the only principal that may create  *)
(* pull requests.                                                          *)
(***************************************************************************)
EXTENDS Integers, Sequences, FiniteSets

CONSTANTS
    Calls,   \* requests in progress at a time
    MaxHeads, \* bound: commits ever made for the branch, more than the budgets need
    Budgets  \* bound: an execution stays within one of these budgets

ASSUME PullRequestsAssumption ==
    /\ MaxHeads \in Nat
    /\ Budgets \subseteq [failures : Nat, restarts : Nat, humans : Nat]

VARIABLES
    row,      \* the job's row of pull_requests
    op,       \* the operation of key pr:<job>
    calls,    \* the memory of each request
    remote,   \* the branch and its pull requests, oldest first
    strays,   \* requests a dead daemon left on their way to the remote
    worktree, \* pr-worktrees/<job> exists
    accepted, \* the job's acceptance holds
    commits,  \* heads made so far, by anyone
    landed,   \* history: the daemon's heads that became the branch
    spent

vars == <<row, op, calls, remote, strays, worktree, accepted, commits, landed, spent>>

Published == {"open", "merged", "closed"}
RowStates == {"none", "reserved", "committed", "pushed", "reconcile_required"} \cup Published
NoPull == [state |-> "none", number |-> 0, head |-> 0]
Idle == [pc |-> "idle", pull |-> NoPull, head |-> 0, added |-> FALSE]
CreateSteps == {"list", "reserve", "commit", "record", "push", "pushed", "create", "result",
                "complete", "failed"}

TypeOK ==
    /\ commits \in Nat
    /\ row \in [state : RowStates, head : 0..commits, number : 0..Len(remote.pulls)]
    /\ op \in [state : {"none", "pending", "completed"}, method : {"none", "create", "other"},
               head : 0..commits, number : Nat]
    /\ calls \in [Calls -> [pc : {"idle", "view", "status"} \cup CreateSteps,
                            pull : [state : {"none"} \cup Published, number : Nat, head : 0..commits],
                            head : 0..commits, added : BOOLEAN]]
    /\ remote \in [branch : 0..commits, pulls : Seq([state : Published, head : 1..commits])]
    /\ strays \subseteq [kind : {"push", "create"}, head : 1..commits]
    /\ worktree \in BOOLEAN
    /\ accepted \in BOOLEAN
    /\ landed \subseteq 1..commits
    /\ spent \in [failures : Nat, restarts : Nat, humans : Nat]

Init ==
    /\ row = [state |-> "none", head |-> 0, number |-> 0]
    /\ op = [state |-> "none", method |-> "none", head |-> 0, number |-> 0]
    /\ calls = [c \in Calls |-> Idle]
    /\ remote = [branch |-> 0, pulls |-> <<>>]
    /\ strays = {}
    /\ worktree = FALSE
    /\ accepted = TRUE
    /\ commits = 0
    /\ landed = {}
    /\ spent = [failures |-> 0, restarts |-> 0, humans |-> 0]

Spend(what) ==
    /\ \E b \in Budgets : \A k \in DOMAIN b : spent[k] + (IF k = what THEN 1 ELSE 0) <= b[k]
    /\ spent' = [spent EXCEPT ![what] = @ + 1]

-----------------------------------------------------------------------------
(* The remote *)

Pull(i) == [state |-> remote.pulls[i].state, number |-> i, head |-> remote.pulls[i].head]
HasOpenPull == \E i \in DOMAIN remote.pulls : remote.pulls[i].state = "open"

\* A push of a child of the start commit only creates the branch.
PushLands(head) ==
    /\ remote.branch = 0
    /\ remote' = [remote EXCEPT !.branch = head]
    /\ landed' = landed \cup {head}

\* GitHub keeps one open pull request for a branch, at the branch's head.
CreateLands ==
    /\ remote.branch # 0
    /\ ~HasOpenPull
    /\ remote' = [remote EXCEPT !.pulls = Append(@, [state |-> "open", head |-> remote.branch])]
    /\ UNCHANGED landed

-----------------------------------------------------------------------------
(* The durable row: new values, Refused for an error that rolls back *)

Refused == [state |-> "refused", head |-> 0, number |-> 0]

ProgressWithoutRecommit(state, head, remoteAbsent) ==
    LET allowed == IF state = "committed" THEN {"reserved", "committed"}
                   ELSE {"committed", "pushed", "reconcile_required"}
    IN  IF row.head \notin {0, head} THEN Refused
        ELSE IF row.state \in allowed THEN [row EXCEPT !.state = state, !.head = head]
        ELSE IF row.state \in Published THEN row ELSE Refused

\* A head that the remote never had may be replaced while a row awaits it.
Progress(state, head, remoteAbsent) ==
    LET allowed == IF state = "committed" THEN {"reserved", "committed"}
                   ELSE {"committed", "pushed", "reconcile_required"}
    IN  IF row.state \in {"committed", "reconcile_required"} /\ state = "committed" /\ remoteAbsent
        THEN [row EXCEPT !.state = "committed", !.head = head]
        ELSE IF row.head \notin {0, head} THEN Refused
        ELSE IF row.state \in allowed THEN [row EXCEPT !.state = state, !.head = head]
        ELSE IF row.state \in Published THEN row ELSE Refused

ReconcileRequired ==
    IF row.state \in {"committed", "pushed"} THEN [row EXCEPT !.state = "reconcile_required"] ELSE row

ResultStates(state) ==
    CASE state \in {"pushed", "reconcile_required", "open"} -> Published
      [] state = "merged" -> {"merged"}
      [] state = "closed" -> {"closed"}
      [] OTHER -> {}

ResultOfAnyState(pull) ==
    IF /\ row.head \in {0, pull.head}
       /\ row.number \in {0, pull.number}
       /\ row.state \notin {"none", "reserved", "committed"}
    THEN [state |-> pull.state, head |-> pull.head, number |-> pull.number] ELSE Refused

ResultOfAnyHead(pull) ==
    IF /\ row.number \in {0, pull.number}
       /\ pull.state \in ResultStates(row.state)
    THEN [state |-> pull.state, head |-> pull.head, number |-> pull.number] ELSE Refused

Result(pull) ==
    IF /\ row.head \in {0, pull.head}
       /\ row.number \in {0, pull.number}
       /\ pull.state \in ResultStates(row.state)
    THEN [state |-> pull.state, head |-> pull.head, number |-> pull.number] ELSE Refused

-----------------------------------------------------------------------------
(* github.pr.create *)

Goto(c, pc) == calls' = [calls EXCEPT ![c].pc = pc]
Done(c) == calls' = [calls EXCEPT ![c] = Idle]

\* activePullRequests
Active == \E c \in Calls : calls[c].pc \in CreateSteps

\* pullRequestInput: the job's acceptance, baseline and evidence all still hold.
HasInput == accepted

\* A completed operation is answered from the ledger and changes nothing.
StartCreate(c) ==
    /\ calls[c].pc = "idle"
    /\ op.state # "completed"
    /\ HasInput
    /\ ~Active
    /\ Goto(c, "list")
    /\ UNCHANGED <<row, op, remote, strays, worktree, accepted, commits, landed, spent>>

\* The list of pull requests as GitHub saw it; two are ambiguous.
ListPulls(c) ==
    /\ calls[c].pc = "list"
    /\ \/ /\ Len(remote.pulls) <= 1
          /\ calls' = [calls EXCEPT ![c].pc = "reserve",
                           ![c].pull = IF remote.pulls = <<>> THEN NoPull ELSE Pull(1)]
          /\ UNCHANGED spent
       \/ Len(remote.pulls) > 1 /\ Done(c) /\ UNCHANGED spent
       \/ Spend("failures") /\ Done(c)
    /\ UNCHANGED <<row, op, remote, strays, worktree, accepted, commits, landed>>

\* What the probe found does not contradict the row.
Probed(existing, branch) ==
    LET head == IF existing # NoPull THEN existing.head ELSE branch IN
    /\ head # 0 => row.state # "none" /\ row.head = head
    /\ row.state \in Published => existing # NoPull
    /\ row.state = "pushed" => head # 0

MayReserve == IF op.state = "none" THEN row.state = "none" ELSE op.state = "pending"

\* The branch is probed, the findings checked and the reservation made at once.
Reserve(c) ==
    LET existing == calls[c].pull
        branch == IF existing = NoPull THEN remote.branch ELSE 0 IN
    /\ calls[c].pc = "reserve"
    /\ Probed(existing, branch)
    /\ MayReserve
    /\ op' = [op EXCEPT !.state = "pending", !.method = "create"]
    /\ row' = IF row.state = "none" THEN [row EXCEPT !.state = "reserved"] ELSE row
    /\ calls' = [calls EXCEPT ![c].head = branch,
                     ![c].pc = IF existing # NoPull THEN "result"
                               ELSE IF branch # 0 THEN "pushed" ELSE "commit"]
    /\ UNCHANGED <<remote, strays, worktree, accepted, commits, landed, spent>>

Conflict(c) ==
    LET existing == calls[c].pull IN
    /\ calls[c].pc = "reserve"
    /\ ~(Probed(existing, IF existing = NoPull THEN remote.branch ELSE 0) /\ MayReserve)
    /\ Done(c)
    /\ UNCHANGED <<row, op, remote, strays, worktree, accepted, commits, landed, spent>>

Commit(c) ==
    /\ calls[c].pc = "commit"
    /\ commits < MaxHeads
    /\ \/ /\ ~worktree
          /\ worktree' = TRUE
          /\ commits' = commits + 1
          /\ calls' = [calls EXCEPT ![c].pc = "record", ![c].added = TRUE, ![c].head = commits + 1]
          /\ UNCHANGED spent
       \/ worktree /\ Goto(c, "failed") /\ UNCHANGED <<worktree, commits, spent>>
       \/ Spend("failures") /\ Goto(c, "failed") /\ UNCHANGED <<worktree, commits>>
    /\ UNCHANGED <<row, op, remote, strays, accepted, landed>>

\* onCommitted and onPushed: an error here stops the leaf before its next effect.
RecordProgress(c) ==
    LET committing == calls[c].pc = "record"
        next == Progress(IF committing THEN "committed" ELSE "pushed", calls[c].head, committing) IN
    /\ calls[c].pc \in {"record", "pushed"}
    /\ IF next = Refused THEN Goto(c, "failed") /\ UNCHANGED row
       ELSE row' = next /\ Goto(c, IF committing THEN "push" ELSE "create")
    /\ UNCHANGED <<op, remote, strays, worktree, accepted, commits, landed, spent>>

\* A failure may hide an effect.
Push(c) ==
    /\ calls[c].pc = "push"
    /\ \/ PushLands(calls[c].head) /\ Goto(c, "pushed") /\ UNCHANGED spent
       \/ PushLands(calls[c].head) /\ Goto(c, "failed") /\ Spend("failures")
       \/ UNCHANGED <<remote, landed>> /\ Goto(c, "failed") /\ Spend("failures")
       \/ remote.branch # 0 /\ UNCHANGED <<remote, landed, spent>> /\ Goto(c, "failed")
    /\ UNCHANGED <<row, op, strays, worktree, accepted, commits>>

CreatePull(c) ==
    /\ calls[c].pc = "create"
    /\ \/ /\ CreateLands
          /\ calls' = [calls EXCEPT ![c].pc = "result",
                  ![c].pull = [state |-> "open", number |-> Len(remote.pulls) + 1, head |-> calls[c].head]]
          /\ UNCHANGED spent
       \/ CreateLands /\ Goto(c, "failed") /\ Spend("failures")
       \/ UNCHANGED <<remote, landed>> /\ Goto(c, "failed") /\ Spend("failures")
       \/ (HasOpenPull \/ remote.branch = 0) /\ Goto(c, "failed") /\ UNCHANGED <<remote, landed, spent>>
    /\ UNCHANGED <<row, op, strays, worktree, accepted, commits>>

\* The leaf removes its worktree, then the result is recorded.
RecordResult(c) ==
    /\ calls[c].pc = "result"
    /\ \/ /\ worktree' = (worktree /\ ~calls[c].added)
          /\ IF Result(calls[c].pull) = Refused THEN Goto(c, "failed") /\ UNCHANGED row
             ELSE row' = Result(calls[c].pull) /\ Goto(c, "complete")
          /\ UNCHANGED spent
       \/ /\ calls[c].added
          /\ calls' = [calls EXCEPT ![c].pc = "failed", ![c].added = FALSE]
          /\ Spend("failures")
          /\ UNCHANGED <<row, worktree>>
    /\ UNCHANGED <<op, remote, strays, accepted, commits, landed>>

Complete(c) ==
    /\ calls[c].pc = "complete"
    /\ op.state = "pending"
    /\ op' = [op EXCEPT !.state = "completed", !.head = row.head, !.number = row.number]
    /\ Done(c)
    /\ UNCHANGED <<row, remote, strays, worktree, accepted, commits, landed, spent>>

FailAndComplete(c) ==
    /\ calls[c].pc = "failed"
    /\ worktree' = (worktree /\ ~calls[c].added)
    /\ row' = ReconcileRequired
    /\ op' = [op EXCEPT !.state = "completed"]
    /\ Done(c)
    /\ UNCHANGED <<remote, strays, accepted, commits, landed, spent>>

Fail(c) ==
    /\ calls[c].pc = "failed"
    /\ worktree' = (worktree /\ ~calls[c].added)
    /\ row' = ReconcileRequired
    /\ Done(c)
    /\ UNCHANGED <<op, remote, strays, accepted, commits, landed, spent>>

-----------------------------------------------------------------------------
(* github.pr.status *)

StartStatus(c) ==
    /\ calls[c].pc = "idle"
    /\ row.state # "none"
    /\ ~Active
    /\ calls' = [calls EXCEPT ![c].pc = "view", ![c].head = row.head, ![c].pull.number = row.number]
    /\ UNCHANGED <<row, op, remote, strays, worktree, accepted, commits, landed, spent>>

\* By the number of the row read above, or the newest of the branch.
View(c) ==
    LET number == IF calls[c].pull.number # 0 THEN calls[c].pull.number ELSE Len(remote.pulls) IN
    /\ calls[c].pc = "view"
    /\ IF number = 0 THEN Done(c)
       ELSE calls' = [calls EXCEPT ![c].pc = "status", ![c].pull = Pull(number)]
    /\ UNCHANGED <<row, op, remote, strays, worktree, accepted, commits, landed, spent>>

RecordStatus(c) ==
    LET next == Result(calls[c].pull) IN
    /\ calls[c].pc = "status"
    /\ row' = IF calls[c].head \in {0, calls[c].pull.head} /\ next # Refused THEN next ELSE row
    /\ Done(c)
    /\ UNCHANGED <<op, remote, strays, worktree, accepted, commits, landed, spent>>

-----------------------------------------------------------------------------
(* Everything else *)

\* withIdempotency of another mutation, after it forgot operations of 14 days.
Mutate(old, sameKey) ==
    LET kept == IF old /\ op.state = "completed"
                THEN [state |-> "none", method |-> "none", head |-> 0, number |-> 0] ELSE op IN
    /\ Spend("humans")
    /\ op' = IF sameKey /\ kept.state = "none"
             THEN [kept EXCEPT !.state = "completed", !.method = "other"] ELSE kept
    /\ op' # op
    /\ UNCHANGED <<row, calls, remote, strays, worktree, accepted, commits, landed>>

\* checkAcceptance changes its answer: a decision is recorded, the task paused, the tree
\* edited, or newer work started in the room.
Decide ==
    /\ Spend("humans")
    /\ accepted' = ~accepted
    /\ UNCHANGED <<row, op, calls, remote, strays, worktree, commits, landed>>

SetPull(i, state) == remote' = [remote EXCEPT !.pulls[i].state = state]

\* What people do on GitHub.
Human ==
    /\ Spend("humans")
    /\ \/ /\ \E i \in DOMAIN remote.pulls :
              \/ remote.pulls[i].state = "open" /\ \E state \in {"merged", "closed"} : SetPull(i, state)
              \/ remote.pulls[i].state = "closed" /\ remote.branch # 0 /\ ~HasOpenPull /\ SetPull(i, "open")
          /\ UNCHANGED <<commits, landed>>
       \/ CreateLands /\ UNCHANGED commits
       \/ /\ remote.branch = 0
          /\ commits' = commits + 1
          /\ remote' = [remote EXCEPT !.branch = commits + 1]
          /\ UNCHANGED landed
       \/ /\ remote.branch # 0
          /\ remote' = [branch |-> 0, pulls |-> [i \in DOMAIN remote.pulls |->
                 IF remote.pulls[i].state = "open" THEN [remote.pulls[i] EXCEPT !.state = "closed"]
                 ELSE remote.pulls[i]]]
          /\ UNCHANGED <<commits, landed>>
       \/ /\ remote.branch # 0
          /\ commits' = commits + 1
          /\ remote' = [branch |-> commits + 1, pulls |-> [i \in DOMAIN remote.pulls |->
                 IF remote.pulls[i].state = "open" THEN [remote.pulls[i] EXCEPT !.head = commits + 1]
                 ELSE remote.pulls[i]]]
          /\ UNCHANGED landed
    /\ UNCHANGED <<row, op, calls, strays, worktree, accepted>>

\* The daemon dies and starts; start() reaps the worktree, unless that fails.
Restart ==
    /\ Spend("restarts")
    /\ calls' = [c \in Calls |-> Idle]
    /\ strays' = strays \cup
           {[kind |-> calls[c].pc, head |-> calls[c].head] :
               c \in {d \in Calls : calls[d].pc \in {"push", "create"}}}
    /\ worktree' \in {FALSE, worktree}
    /\ UNCHANGED <<row, op, remote, accepted, commits, landed>>

StrayArrives(s) ==
    /\ strays' = strays \ {s}
    /\ IF s.kind = "push" THEN PushLands(s.head) ELSE CreateLands
    /\ UNCHANGED <<row, op, calls, worktree, accepted, commits, spent>>

\* The daily reaper spares the worktree of a request in progress.
Reap ==
    /\ worktree
    /\ ~Active
    /\ worktree' = FALSE
    /\ UNCHANGED <<row, op, calls, remote, strays, accepted, commits, landed, spent>>

-----------------------------------------------------------------------------
Step(c) ==
    \/ ListPulls(c) \/ Reserve(c) \/ Conflict(c) \/ Commit(c) \/ RecordProgress(c) \/ Push(c)
    \/ CreatePull(c) \/ RecordResult(c) \/ Complete(c) \/ Fail(c) \/ View(c) \/ RecordStatus(c)

Next ==
    \/ \E c \in Calls : StartCreate(c) \/ StartStatus(c) \/ Step(c)
    \/ \E old, sameKey \in BOOLEAN : Mutate(old, sameKey)
    \/ \E s \in strays : StrayArrives(s)
    \/ Decide
    \/ Human
    \/ Restart
    \/ Reap

Spec == Init /\ [][Next]_vars

\* Requests that wait for gh, which defaultRunner starts without a deadline; git has one.
AwaitsGh(c) == calls[c].pc \in {"list", "create", "view"}

\* The daemon finishes what it started, but for gh, which may hang for ever; the reaper
\* finds moments without a request (a daily timer and a restart, against a request of
\* seconds); the operator repeats the request for as long as it is not answered.
FairSpec ==
    /\ Spec
    /\ \A c \in Calls : WF_vars(~AwaitsGh(c) /\ Step(c))
    /\ SF_vars(Reap)
    /\ SF_vars(\E c \in Calls : StartCreate(c))

-----------------------------------------------------------------------------
(* Properties *)

\* What the row says was published is what the daemon pushed: a crash, a push that
\* arrives late, or somebody else's commit never puts another head there.
PublishedIsPushed ==
    row.state \in Published \cup {"pushed"} => row.head \in landed

\* A published row keeps its pull request and its head, and a merged or closed
\* one its state, whatever stale answers arrive.
PublishedIsFinal ==
    [][row.state \in Published =>
        /\ row'.head = row.head /\ row'.number = row.number
        /\ row.state # "open" => row'.state = row.state]_row

\* The operation is completed with the pull request of the row.
AnswerIsRow ==
    op.state = "completed" /\ op.method = "create" =>
        row.state \in Published /\ op.head = row.head /\ op.number = row.number

\* The remote contradicts the row, or the row is closed and the pull request not.
Contradicted ==
    \/ Len(remote.pulls) > 1
    \/ remote.pulls # <<>> /\ remote.pulls[1].head # row.head
    \/ remote.pulls # <<>> /\ row.state = "closed" /\ remote.pulls[1].state # "closed"
    \/ remote.pulls = <<>> /\ remote.branch \notin {0, row.head}
    \/ remote.pulls = <<>> /\ remote.branch = 0 /\ row.state = "pushed"

\* No request waits for gh for ever: gh ends, or a restart ends the request.
GhReturns == \A c \in Calls : []<>~AwaitsGh(c)

\* No crash, no failure, and no gh that hangs until a restart leaves a dead end: a pending
\* creation that is repeated ends, unless somebody withdrew the acceptance or changed the
\* branch. While gh hangs nothing is promised: activePullRequests refuses every repetition.
RetriesPublish ==
    GhReturns => <>[](op.state = "pending" => ~accepted \/ Contradicted)
=============================================================================
