----------------------- MODULE PullRequestsInvariant -----------------------
(* The inductive invariant behind the safety of PullRequests.              *)
EXTENDS PullRequests

\* Steps between the reservation of the operation and its end.
Reserved == CreateSteps \ {"list", "reserve"}

\* A head the daemon works with, and one that is, or was seen, on the remote.
Mine(h) ==
    \/ h = row.head
    \/ \E c \in Calls : h = calls[c].head
    \/ \E s \in strays : h = s.head
Seen(h) ==
    \/ h = remote.branch
    \/ \E i \in DOMAIN remote.pulls : h = remote.pulls[i].head
    \/ \E c \in Calls : h = calls[c].pull.head

\* A head of the daemon is on the remote only if it was pushed from here.
HeadsAgree == \A h \in 1..commits : Mine(h) /\ Seen(h) => h \in landed

\* activePullRequests: one creation at a time.
OneCreation ==
    \A c, d \in Calls : calls[c].pc \in CreateSteps /\ calls[d].pc \in CreateSteps => c = d

\* The state of the row says what it names.
RowAgrees ==
    /\ row.head = 0 <=> row.state \in {"none", "reserved"}
    /\ row.number = 0 <=> row.state \notin Published

\* What a request may remember: its operation, the head it pushed, a pull request.
Fits(m) ==
    /\ m.pc \in Reserved => op.state = "pending" /\ op.method = "create"
    /\ m.pc \in {"record", "push", "pushed", "create"} => m.head # 0
    /\ m.pc \in {"pushed", "create"} => m.head \in landed
    /\ m.pull.number <= Len(remote.pulls)
    /\ m.pull.state \in Published => m.pull.number # 0
    /\ m.pc \in {"idle", "view"} => m.pull.state = "none"
    /\ m.pc = "reserve" => m.pull = NoPull \/ m.pull.state \in Published
    /\ m.pc \in {"result", "status"} => m.pull.state \in Published
    /\ m.pc = "complete" => row.state \in Published

CallsFit == \A c \in Calls : Fits(calls[c])

PullRequestsInv ==
    /\ TypeOK
    /\ HeadsAgree
    /\ OneCreation
    /\ RowAgrees
    /\ CallsFit
    /\ PublishedIsPushed
    /\ AnswerIsRow
=============================================================================
