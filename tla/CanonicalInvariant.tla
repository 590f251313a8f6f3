------------------------- MODULE CanonicalInvariant -------------------------
(* The inductive invariant behind the safety of Canonical.                 *)
EXTENDS Canonical

\* A job that works holds the tree it works on.
ActiveOwns == \A j \in Active : owner[Cwd[j]] = j

\* A promotion starts after its candidate is done, and keeps its baseline from then on.
PromotionsFollow ==
    \A j \in Promotions : job[j].pc # "new" => job[Candidate[j]].pc = "done"

\* Each guard that has not lost its daemon belongs to the one job that populates its key.
Populates(j, k) == job[j].pc = "install" /\ Key(job[j].base) = k
GuardsAgree ==
    /\ \A j \in Jobs : job[j].pc = "install" => Key(job[j].base) \in guard \ orphaned
    /\ \A k \in guard \ orphaned : \E j \in Jobs : Populates(j, k)
    /\ \A k \in guard : \A i, j \in Jobs : Populates(i, k) /\ Populates(j, k) => i = j

\* An entry was installed in the tree it is the entry of.
EntriesAgree == \A e \in cache : e.key = Key(e.of)

\* An installation beside a tree is the one of its lock until the daemon changes the lock.
InstallationAgrees == \A w \in Trees \ Private : w \notin invalid => modules[w] = tree[w].lock

\* What job j remembers, m, where it stands: that it applies nothing twice, what its command
\* sees, that a change of the lock is recorded before it is written, and that its delta adds
\* its change to its baseline.
Applying == {"extract", "check", "invalidate", "intent", "write", "verify"}
Remembers(j, m) ==
    /\ m.pc = "new" => m.cmd = "provider"
    /\ m.pc = "done" => m.cmd = "gate"
    /\ j \in Promotions /\ m.pc \in {"plan", "wait", "install", "run"} => m.cmd = "gate"
    /\ m.pc \in {"invalidate", "intent", "write", "verify"} => m.app = "pending"
    /\ m.pc = "run" => /\ m.mount.lock = m.base.lock
                       /\ m.mount.from = "cache" => m.mount.src = m.base.src
                       /\ m.mount.from = "canonical" /\ <<j, m.cmd>> \notin replaced
                             => modules[Visible[j]] = m.base.lock
    /\ m.pc \in {"intent", "write"} /\ m.final.lock # m.base.lock => Cwd[j] \in invalid
    /\ m.pc = "write" => m.todo \subseteq {f \in Files : m.final[f] # m.base[f]}
    /\ m.pc \in Applying => m.base.src \cup {Change(j)} \subseteq m.final.src
JobsAgree == \A j \in Jobs : Remembers(j, job[j])

\* Candidate c, which remembers m, will hand over the changes of its baseline and its own.
HandsOver(c, m, changes) ==
    /\ m.pc \in {"opened", "plan"} /\ m.cmd = "provider" => changes \subseteq tree[Cwd[c]].src
    /\ m.pc \in {"wait", "install", "run"} /\ m.cmd = "provider" => changes \subseteq m.base.src
    /\ m.pc \in Applying \/ m.cmd = "gate" => changes \cup {c} \subseteq m.final.src
PromotionExtends ==
    \A j \in Promotions : job[j].pc = "new" =>
        HandsOver(Candidate[j], job[Candidate[j]], job[j].base.src)

\* What must survive in a tree: the operator's edits and the completed applications.
Lasting(w) == (edits[w] \ raced) \cup
                {Change(i) : i \in {k \in Jobs : Cwd[k] = w /\ job[k].app = "complete"}}

\* The source that a delta is about to write contains it.
WriteKeeps ==
    \A j \in Jobs : job[j].pc = "write" /\ "src" \in job[j].todo /\ Cwd[j] \notin Private
        => Lasting(Cwd[j]) \subseteq job[j].final.src

CanonicalInv ==
    /\ TypeOK
    /\ ActiveOwns
    /\ PromotionsFollow
    /\ GuardsAgree
    /\ EntriesAgree
    /\ InstallationAgrees
    /\ JobsAgree
    /\ PromotionExtends
    /\ WriteKeeps
    /\ ChangesSurvive
=============================================================================
