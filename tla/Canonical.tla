----------------------------- MODULE Canonical -----------------------------
(***************************************************************************)
(* How a reviewed change reaches a working tree, and which installed       *)
(* dependencies the commands that check it may see.                        *)
(*                                                                         *)
(* A provider works on a private copy; its delta is applied to the job's   *)
(* tree only if the tree still is the baseline, file by file, between a    *)
(* durable intent and a durable completion.  A promotion applies a private *)
(* candidate's delta to the project's tree the same way.  Every command is *)
(* given the project's own installation if its lock still says so, or an   *)
(* installation from a shared cache, populated once under a guard          *)
(* directory.  The project's installation is bound, not copied: what is    *)
(* done to it while a command is prepared or runs, the command sees.  The  *)
(* operator edits the project's tree and reinstalls at any moment and      *)
(* takes no lock of the daemon.                                            *)
(*                                                                         *)
(* Abstracted: a tree is two files, the source, whose content is the set   *)
(* of changes made to it, and the lock file; one dependency root; a        *)
(* command that has ended is absent (Execution models the rest).  The      *)
(* operator changes the lock and reinstalls in one step, and in place.     *)
(***************************************************************************)
EXTENDS Integers, FiniteSets

CONSTANTS
    Jobs,       \* a set of positive numbers: the jobs, each also names its own change
    Trees,      \* the working trees
    Private,    \* the trees only the daemon writes: those of rollout candidates
    Cwd,        \* the tree a job works on and applies its delta to
    Visible,    \* the tree whose path and installation its commands see
    Candidate,  \* the candidate a promotion applies, 0 for any other job
    Locks,      \* contents of package-lock.json
    Networks,   \* the sets of jobs whose sandbox may reach the network, and so install
    MaxEdits, MaxUpgrades, MaxCrashes \* bounds: what the operator and the host do

Promotions == {j \in Jobs : Candidate[j] # 0}
Candidates == {Candidate[j] : j \in Promotions}
Change(j) == IF j \in Promotions THEN Candidate[j] ELSE j \* what the delta of j carries

ASSUME CanonicalAssumption ==
    /\ Jobs \subseteq Nat \ {0}
    /\ Private \subseteq Trees
    /\ Cwd \in [Jobs -> Trees]
    /\ Visible \in [Jobs -> Trees \ Private]
    /\ Candidate \in [Jobs -> Jobs \cup {0}]
    /\ \A j \in Jobs : Cwd[j] # Visible[j] <=> j \in Candidates
    /\ \A c \in Candidates : Cwd[c] \in Private /\ Candidate[c] = 0
    /\ \A c, d \in Candidates : Cwd[c] = Cwd[d] => c = d
    /\ Networks \subseteq SUBSET Jobs
    /\ {MaxEdits, MaxUpgrades, MaxCrashes} \subseteq Nat

Files == {"src", "lock"}
Edits == {-k : k \in 1..MaxEdits}
Contents == [src : SUBSET (Jobs \cup Edits), lock : Locks]
Mounts == [from : {"none", "canonical", "cache"}, src : SUBSET (Jobs \cup Edits), lock : Locks]

VARIABLES
    tree,     \* the content of every working tree
    modules,  \* the lock the installation beside the tree was made for
    invalid,  \* trees with a dependency-origin row: the daemon changed their lock
    cache,    \* the published entries: their key, and the tree they were installed in
    guard,    \* keys whose guard directory exists
    owner,    \* the worktree reservation, 0 if free
    job,      \* each job: where it stands and what it remembers
    edits,    \* history: edits of the operator to each tree
    raced,    \* history: the edits made while a delta was being written
    replaced, \* history: the commands whose installation the operator replaced under them
    orphaned, \* history: guards whose daemon died
    spent     \* upgrades and crashes so far

vars == <<tree, modules, invalid, cache, guard, owner, job, edits, raced, replaced, orphaned,
          spent>>

Steps == {"new", "opened", "plan", "wait", "install", "run", "extract", "check", "invalidate",
          "intent", "write", "verify", "done", "ended"}

TypeOK ==
    /\ tree \in [Trees -> Contents]
    /\ modules \in [Trees -> Locks]
    /\ invalid \subseteq Trees
    /\ cache \subseteq [key : Contents, of : Contents]
    /\ guard \subseteq Contents
    /\ owner \in [Trees -> Jobs \cup {0}]
    /\ job \in [Jobs -> [pc : Steps, cmd : {"provider", "gate"}, base : Contents, final : Contents,
                         todo : SUBSET Files, mount : Mounts, app : {"none", "pending", "complete"}, network : BOOLEAN]]
    /\ edits \in [Trees -> SUBSET Edits]
    /\ raced \subseteq Edits
    /\ replaced \subseteq Jobs \X {"provider", "gate"}
    /\ orphaned \subseteq guard
    /\ spent \in [upgrades : 0..MaxUpgrades, crashes : 0..MaxCrashes]

Init ==
    \E lock \in Locks, installed \in Locks, origin \in SUBSET (Trees \ Private),
       network \in Networks :
        LET content == [src |-> {}, lock |-> lock] IN
        /\ installed # lock => origin = Trees \ Private
        /\ tree = [w \in Trees |-> content]
        /\ modules = [w \in Trees |-> installed]
        /\ invalid = origin
        /\ cache = {}
        /\ guard = {}
        /\ owner = [w \in Trees |-> 0]
        /\ job = [j \in Jobs |-> [pc |-> "new", cmd |-> "provider", base |-> content,
                                  final |-> content, todo |-> {},
                                  mount |-> [from |-> "none", src |-> {}, lock |-> lock],
                                  app |-> "none", network |-> j \in network]]
        /\ edits = [w \in Trees |-> {}]
        /\ raced = {}
        /\ replaced = {}
        /\ orphaned = {}
        /\ spent = [upgrades |-> 0, crashes |-> 0]

(***************************************************************************)
(* Trees, reservations and the end of a job.                               *)
(***************************************************************************)
\* (weakened: only the lock is compared)
BaselineLock(j) == tree[Cwd[j]].lock = job[j].base.lock

\* captureBaseline: the whole tree, and its identity.
Captured(w) == tree[w]

\* assertCanonicalIdentity: the tree is the job's baseline still.
IsBaseline(j) == tree[Cwd[j]] = job[j].base
IsFinal(j) == tree[Cwd[j]] = job[j].final

LockChanged(j) == job[j].final.lock # job[j].base.lock

\* Resources are released unless the job has an unresolved execution.
Freed(js) == [w \in Trees |-> IF owner[w] \in js /\ job[owner[w]].app # "pending"
                                 THEN 0 ELSE owner[w]]

End(j, pc) ==
    /\ job' = [job EXCEPT ![j].pc = pc]
    /\ owner' = Freed({j})

Writing == {j \in Jobs : job[j].pc \in {"write", "verify"}}

(***************************************************************************)
(* The operator and the host.                                              *)
(***************************************************************************)
\* An edit falls into a write if a delta is being written to the tree.
Racing(w) == \E j \in Writing : Cwd[j] = w

Edit(w) ==
    \E e \in Edits \ UNION {edits[v] : v \in Trees} :
        /\ w \notin Private
        /\ e = -(1 + Cardinality(UNION {edits[v] : v \in Trees}))
        /\ tree' = [tree EXCEPT ![w].src = @ \cup {e}]
        /\ edits' = [edits EXCEPT ![w] = @ \cup {e}]
        /\ raced' = IF Racing(w) THEN raced \cup {e} ELSE raced
        /\ UNCHANGED <<modules, invalid, cache, guard, owner, job, replaced, orphaned, spent>>

\* A command is prepared with, or runs on, the installation beside tree w.
Bound(j, w) == job[j].pc = "run" /\ job[j].mount.from = "canonical" /\ Visible[j] = w

Upgrade(w) ==
    \E lock \in Locks \ {tree[w].lock} :
        /\ w \notin Private
        /\ spent.upgrades < MaxUpgrades
        /\ tree' = [tree EXCEPT ![w].lock = lock]
        /\ modules' = [modules EXCEPT ![w] = lock]
        /\ replaced' = replaced \cup {<<j, job[j].cmd>> : j \in {i \in Jobs : Bound(i, w)}}
        /\ spent' = [spent EXCEPT !.upgrades = @ + 1]
        /\ UNCHANGED <<invalid, cache, guard, owner, job, edits, raced, orphaned>>

Active == {j \in Jobs : job[j].pc \notin {"new", "opened", "done", "ended"}}

\* Restart interrupts every running job; trees, rows, cache and guards are what they were.
Crash ==
    /\ spent.crashes < MaxCrashes
    /\ job' = [j \in Jobs |-> IF j \in Active THEN [job[j] EXCEPT !.pc = "ended"] ELSE job[j]]
    /\ owner' = Freed(Active)
    /\ orphaned' = guard
    /\ spent' = [spent EXCEPT !.crashes = @ + 1]
    /\ UNCHANGED <<tree, modules, invalid, cache, guard, edits, raced, replaced>>

(***************************************************************************)
(* The dependencies of a command: prepareEvaluationDependencies.           *)
(***************************************************************************)
\* The identity of a cache entry is the lock and the content of the arm.
Key(arm) == arm

\* (weakened: an operator's installation is trusted for ever)
AlwaysAllowed(w) == TRUE

\* canonicalDependenciesAllowed: until the daemon changed the lock of the tree.
CanonicalAllowed(w) == w \notin invalid

SameLock(arm, project) == arm.lock = tree[project].lock

Cached(arm) == {e.of : e \in {d \in cache : d.key = Key(arm)}}

Mounted(j, arm, from, src, lock) ==
    job' = [job EXCEPT ![j].pc = "run", ![j].base = arm,
                       ![j].mount = [from |-> from, src |-> src, lock |-> lock]]

\* What a miss does: fail offline, populate under a new guard, or wait for another's.
Miss(j, arm) ==
    IF ~job[j].network THEN End(j, "ended") /\ UNCHANGED guard
    ELSE /\ job' = [job EXCEPT ![j].base = arm,
                               ![j].pc = IF Key(arm) \in guard THEN "wait" ELSE "install"]
         /\ guard' = guard \cup {Key(arm)}
         /\ UNCHANGED owner

Plan(j) ==
    LET arm == Captured(Cwd[j])
        project == Visible[j] IN
    /\ job[j].pc = "plan"
    /\ IF CanonicalAllowed(project) /\ SameLock(arm, project)
       THEN Mounted(j, arm, "canonical", {}, arm.lock) /\ UNCHANGED <<guard, owner>>
       ELSE IF Cached(arm) # {}
       THEN /\ \E of \in Cached(arm) : Mounted(j, arm, "cache", of.src, of.lock)
            /\ UNCHANGED <<guard, owner>>
       ELSE Miss(j, arm)
    /\ UNCHANGED <<tree, modules, invalid, cache, edits, raced, replaced, orphaned, spent>>

\* The key, and what npm ci leaves in the copy of the arm.
Entry(arm) == [key |-> Key(arm), of |-> arm]

\* The guard is free: what it published is mounted, or the waiter populates.
Wake(j) ==
    LET arm == job[j].base IN
    /\ job[j].pc = "wait"
    /\ Key(arm) \notin guard
    /\ IF Cached(arm) # {}
       THEN /\ \E of \in Cached(arm) : Mounted(j, arm, "cache", of.src, of.lock)
            /\ UNCHANGED <<guard, owner>>
       ELSE Miss(j, arm)
    /\ UNCHANGED <<tree, modules, invalid, cache, edits, raced, replaced, orphaned, spent>>

\* Thirty seconds have passed and the guard is still there.
Busy(j) ==
    /\ job[j].pc = "wait"
    /\ Key(job[j].base) \in guard
    /\ End(j, "ended")
    /\ UNCHANGED <<tree, modules, invalid, cache, guard, edits, raced, replaced, orphaned, spent>>

Install(j) ==
    LET arm == job[j].base IN
    /\ job[j].pc = "install"
    /\ cache' = cache \cup {Entry(arm)}
    /\ guard' = guard \ {Key(arm)}
    /\ Mounted(j, arm, "cache", arm.src, arm.lock)
    /\ UNCHANGED <<tree, modules, invalid, owner, edits, raced, replaced, orphaned, spent>>

\* (weakened: only a successful population removes its guard)
GuardKept(key) == guard

\* The guard is removed in a finally clause.
AfterFailure(key) == guard \ {key}

InstallFails(j) ==
    /\ job[j].pc = "install"
    /\ guard' = AfterFailure(Key(job[j].base))
    /\ End(j, "ended")
    /\ UNCHANGED <<tree, modules, invalid, cache, edits, raced, replaced, orphaned, spent>>

(***************************************************************************)
(* The life of a job.                                                      *)
(***************************************************************************)
\* openRolloutGroup: a tree nobody works on, as a finished job of this history, or an
\* earlier one, left it.
AsLeft(w) == {job[c].base : c \in {d \in Candidates : job[d].pc = "new"}}
                 \cup {job[j].final : j \in {i \in Jobs : Cwd[i] = w /\ job[i].pc = "done"}}
Settled(w) == owner[w] = 0 /\ tree[w] \in AsLeft(w)

Open(c) ==
    LET base == Captured(Visible[c]) IN
    /\ c \in Candidates
    /\ job[c].pc = "new"
    /\ Settled(Visible[c])
    /\ tree' = [tree EXCEPT ![Cwd[c]] = base]
    /\ job' = [j \in Jobs |-> IF j = c THEN [job[j] EXCEPT !.pc = "opened"]
                              ELSE IF Candidate[j] = c THEN [job[j] EXCEPT !.base = base]
                              ELSE job[j]]
    /\ UNCHANGED <<modules, invalid, cache, guard, owner, edits, raced, replaced, orphaned, spent>>

Start(j) ==
    /\ job[j].pc = IF j \in Candidates THEN "opened" ELSE "new"
    /\ j \in Promotions => job[Candidate[j]].pc = "done"
    /\ owner[Cwd[j]] = 0
    /\ owner' = [owner EXCEPT ![Cwd[j]] = j]
    /\ job' = [job EXCEPT ![j] =
                  IF j \in Promotions THEN [@ EXCEPT !.pc = "check", !.final = job[Candidate[j]].final]
                                      ELSE [@ EXCEPT !.pc = "plan"]]
    /\ UNCHANGED <<tree, modules, invalid, cache, guard, edits, raced, replaced, orphaned, spent>>

\* A provider leaves its change, and perhaps another lock, in its private copy.
CommandEnds(j) ==
    /\ job[j].pc = "run"
    /\ IF job[j].cmd = "provider"
       THEN /\ \E lock \in Locks :
                 job' = [job EXCEPT ![j].pc = "extract",
                                    ![j].final = [src |-> job[j].base.src \cup {j}, lock |-> lock]]
            /\ UNCHANGED owner
       ELSE End(j, "done")
    /\ UNCHANGED <<tree, modules, invalid, cache, guard, edits, raced, replaced, orphaned, spent>>

\* A cancellation, a failing command or check, before anything is applied or after it is complete.
Stop(j) ==
    /\ job[j].pc \in {"plan", "wait", "run", "extract"}
    /\ End(j, "ended")
    /\ UNCHANGED <<tree, modules, invalid, cache, guard, edits, raced, replaced, orphaned, spent>>

(***************************************************************************)
(* The application of a delta.                                             *)
(***************************************************************************)
Pending(j, pc) == [job EXCEPT ![j].app = "pending", ![j].pc = pc]

\* The files the delta replaces.
Delta(j) == {f \in Files : job[j].final[f] # job[j].base[f]}

Refused(j) == ~IsBaseline(j) /\ End(j, "ended") /\ UNCHANGED invalid

\* runCommand: the reservation and the invalidation are one transaction.
Begin(j) ==
    /\ job[j].pc = "extract"
    /\ \/ Refused(j)
       \/ /\ IsBaseline(j)
          /\ job' = Pending(j, "intent")
          /\ invalid' = IF LockChanged(j) THEN invalid \cup {Cwd[j]} ELSE invalid
          /\ UNCHANGED owner
    /\ UNCHANGED <<tree, modules, cache, guard, edits, raced, replaced, orphaned, spent>>

\* runPromotion: the invalidation is a transaction of its own.
Check(j) ==
    /\ job[j].pc = "check"
    /\ \/ Refused(j)
       \/ /\ IsBaseline(j)
          /\ job' = Pending(j, IF LockChanged(j) THEN "invalidate" ELSE "intent")
          /\ UNCHANGED <<invalid, owner>>
    /\ UNCHANGED <<tree, modules, cache, guard, edits, raced, replaced, orphaned, spent>>

Invalidate(j) ==
    /\ job[j].pc = "invalidate"
    /\ job' = [job EXCEPT ![j].pc = "intent"]
    /\ invalid' = invalid \cup {Cwd[j]}
    /\ UNCHANGED <<tree, modules, cache, guard, owner, edits, raced, replaced, orphaned, spent>>

\* applyDelta asserts the baseline again before and after it writes the intent.
Intent(j) ==
    /\ job[j].pc = "intent"
    /\ \/ Refused(j)
       \/ /\ IsBaseline(j)
          /\ job' = [job EXCEPT ![j].pc = "write", ![j].todo = Delta(j)]
          /\ UNCHANGED <<invalid, owner>>
    /\ UNCHANGED <<tree, modules, cache, guard, edits, raced, replaced, orphaned, spent>>

\* Each file is replaced in turn; an error leaves the rest, and the application, as they are.
Write(j) ==
    /\ job[j].pc = "write"
    /\ \E f \in job[j].todo :
          /\ tree' = [tree EXCEPT ![Cwd[j]][f] = job[j].final[f]]
          /\ job' = [job EXCEPT ![j].todo = @ \ {f},
                                ![j].pc = IF job[j].todo = {f} THEN "verify" ELSE "write"]
    /\ UNCHANGED <<modules, invalid, cache, guard, owner, edits, raced, replaced, orphaned, spent>>

WriteFails(j) ==
    /\ job[j].pc = "write"
    /\ End(j, "ended")
    /\ UNCHANGED <<tree, modules, invalid, cache, guard, edits, raced, replaced, orphaned, spent>>

Complete(j) ==
    /\ job[j].pc = "verify"
    /\ IF IsFinal(j)
       THEN /\ job' = [job EXCEPT ![j].app = "complete", ![j].pc = "plan", ![j].cmd = "gate"]
            /\ UNCHANGED owner
       ELSE End(j, "ended")
    /\ UNCHANGED <<tree, modules, invalid, cache, guard, edits, raced, replaced, orphaned, spent>>

Next ==
    \/ \E w \in Trees : Edit(w) \/ Upgrade(w)
    \/ Crash
    \/ \E j \in Jobs :
          \/ Plan(j) \/ Wake(j) \/ Busy(j) \/ Install(j) \/ InstallFails(j)
          \/ Open(j) \/ Start(j) \/ CommandEnds(j) \/ Stop(j)
          \/ Begin(j) \/ Check(j) \/ Invalidate(j) \/ Intent(j)
          \/ Write(j) \/ WriteFails(j) \/ Complete(j)

Spec == Init /\ [][Next]_vars

(***************************************************************************)
(* Properties.                                                             *)
(***************************************************************************)
\* What the installation that a command sees was made for: the project's is the live one.
Seen(j) == IF job[j].mount.from = "canonical" THEN modules[Visible[j]] ELSE job[j].mount.lock

\* A command sees dependencies installed for the lock of its own tree, and an installation from
\* the cache was made in a tree with exactly the content of its own: whatever the daemon does to
\* the locks, before the command or beside it, only the operator can take that away, by a
\* reinstallation of the project while the command is prepared or runs on what it replaces.
MountsMatchLock ==
    \A j \in Jobs : job[j].pc = "run" =>
        \/ job[j].mount.from = "canonical" /\ <<j, job[j].cmd>> \in replaced
        \/ /\ Seen(j) = job[j].base.lock
           /\ job[j].mount.from = "cache" => job[j].mount.src = job[j].base.src

\* No edit of the operator is undone by an application, except one made while the files are
\* being replaced, and no application that was completed is undone by a later one.
ChangesSurvive ==
    \A w \in Trees \ Private :
        /\ edits[w] \ raced \subseteq tree[w].src
        /\ \A j \in Jobs : Cwd[j] = w /\ job[j].app = "complete" => Change(j) \in tree[w].src

\* One population per key at a time, each under the guard of its key, and no guard outlives
\* its population but one whose daemon died.
GuardHasHolder ==
    /\ \A j \in Jobs : job[j].pc = "install" => Key(job[j].base) \in guard \ orphaned
    /\ \A k \in guard \ orphaned :
          Cardinality({j \in Jobs : job[j].pc = "install" /\ Key(job[j].base) = k}) = 1
=============================================================================
