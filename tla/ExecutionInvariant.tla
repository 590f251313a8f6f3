------------------------- MODULE ExecutionInvariant -------------------------
(***************************************************************************)
(* Why the locks fence an execution: the inductive invariant of Execution. *)
(*                                                                         *)
(* The job state, the newest lease, the scope, the late handler and the    *)
(* locks are written by five parties that never see each other's stack.    *)
(* Each conjunct says what one of these may rely on about another.         *)
(***************************************************************************)
EXTENDS Execution

\* The runner's place determines what it may find jobs.state to be.
JobFollowsRunner(j) ==
    /\ runner[j] = "acquired" => jobState[j] = "queued"
    /\ runner[j] = "begin" => jobState[j] = "starting"
    /\ runner[j] \in WorkingPlaces => jobState[j] \in {"running", "cancel_requested"}
    /\ runner[j] = "finally" => Terminal(j)
    /\ runner[j] = "idle" /\ Serving => jobState[j] \notin ActiveJobStates
    /\ ~Serving => runner[j] = "idle"
    /\ daemon = "recovering" => jobState[j] \notin {"starting", "running"}

\* A lease that records no launch, or its end, is right about the scope.
LeaseFollowsScope(j) ==
    /\ lease[j].state \in {"none", "prepared"}
          => scope[j] = "none" /\ ~lease[j].unit /\ ~lease[j].known
    /\ lease[j].state = "exited" => ~MayBeAlive(j)

LeaseFollowsRunner(j) ==
    /\ runner[j] = "launching" =>
          /\ lease[j].state \in {"prepared", "exited"} /\ scope[j] = "none"
          /\ application[j] # "pending"
    /\ runner[j] = "enrolling" =>
          lease[j].state = "reconcile_required" /\ lease[j].unit /\ ~lease[j].known
    /\ runner[j] \in {"abortingBlind", "abortingKnown"} =>
          /\ lease[j].unit /\ lease[j].state \notin {"none", "prepared"}
          /\ ~lease[j].known => lease[j].state = "reconcile_required"
    /\ runner[j] \in {"executing", "expired"} => lease[j].state # "none"
    /\ runner[j] \in {"extracting", "applying"} => scope[j] = "gone"

\* A retained command is the last one of its job.
LateFollowsRunner(j) ==
    late[j].phase # "none" =>
       /\ Serving /\ lease[j].state # "none"
       /\ \/ runner[j] = "closing" /\ outcome[j] = "expired" /\ ~Installing(j)
          \/ runner[j] \in {"finally", "idle"} /\ Terminal(j)
       /\ late[j].phase \in {"settling", "disposing"} => scope[j] = "gone"

\* A pending termination is about a lease that was prepared.
TerminationFollowsLease(j) ==
    term[j] # NoRevision => Serving /\ lease[j].state # "none"

\* Where the job may still prepare a command or apply a delta.
Owning(j) ==
    \/ runner[j] \in {"acquired", "begin"} \cup (WorkingPlaces \ {"closing"})
    \/ runner[j] = "closing" /\ outcome[j] \in {"ok", "fail"}

HoldsWhatItNeeds(j) ==
    Unresolved(j) \/ Owning(j) \/ (InFlight(j) /\ lease[j].state = "none")
       => Holds(j)

Coherent(j) ==
    /\ JobFollowsRunner(j)
    /\ LeaseFollowsScope(j)
    /\ LeaseFollowsRunner(j)
    /\ LateFollowsRunner(j)
    /\ TerminationFollowsLease(j)
    /\ HoldsWhatItNeeds(j)

\* Whatever the daemon, an operator, the recovery and the host interleave, the
\* records about a job agree with each other and with its locks.
RecordsAgree == \A j \in Jobs : Coherent(j)

\* What a dispatch leaves behind: a runner works under an attempt, a job in the
\* queue has none, and a job has all of its reservations or none.  start() takes
\* an attempt or a reservation as evidence that a command may have run.
TracesOfDispatch ==
    \A j \in Jobs :
       /\ jobState[j] = "running" \/ runner[j] \in WorkingPlaces => attempt[j] > 0
       /\ jobState[j] = "queued" => attempt[j] = 0
       /\ (\E r \in Resources : lock[r] = j) => Holds(j)

\* Why nothing behind an interrupted job slips through: as long as it is
\* queued, start() has an interrupted job of its task to find it by.
DependentsAreFound ==
    \A j \in behind \ cut :
       \/ jobState[j] = "cancelled"
       \/ jobState[j] = "cancel_requested" /\ ~Serving
       \/ QuarantinedDependent(j) /\ daemon = "recovering"

\* The job takes a slot.
Counted(i) == InFlight(i) \/ MayBeAlive(i)
Taken == Cardinality({i \in Jobs : Counted(i)})

\* Why capacity is bounded: the slots taken and those the pass may still fill
\* are within the limit; one job at a time stands between its locks and its
\* start, and its slot is still there.
SlotsAreCounted ==
    /\ avail >= 0
    /\ Taken <= MaxActive - avail
    /\ \A i \in Jobs : runner[i] = "acquired" =>
          avail >= 1 /\ \A k \in Jobs \ {i} : runner[k] # "acquired"
=============================================================================
