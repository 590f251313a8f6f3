--------------------------- MODULE CanonicalProofs ---------------------------
(***************************************************************************)
(* What is proved of Canonical, for any jobs, trees, locks and bounds.     *)
(*                                                                         *)
(* Most actions move one job and leave the trees alone: JobStep does these *)
(* once, from what the job remembers afterwards.  The operator's edits and *)
(* upgrades, a rollout's opening, the replacement of a file and a crash    *)
(* have lemmas of their own.                                               *)
(***************************************************************************)
EXTENDS CanonicalInvariant, FiniteSetTheorems, TLAPS

JobType == [pc : Steps, cmd : {"provider", "gate"}, base : Contents, final : Contents,
            todo : SUBSET Files, mount : Mounts, app : {"none", "pending", "complete"},
            network : BOOLEAN]

Working == Steps \ {"new", "opened", "done", "ended"}

\* The assumption, as the proofs use it.
LEMMA Constants ==
  /\ \A j \in Jobs : j # 0 /\ Cwd[j] \in Trees /\ Visible[j] \in Trees \ Private
  /\ Promotions \subseteq Jobs
  /\ \A j \in Promotions : Candidate[j] \in Candidates /\ Candidate[j] \in Jobs /\ Candidate[j] # j
  /\ \A c \in Candidates : c \in Jobs /\ c \notin Promotions /\ Cwd[c] \in Private
  /\ \A j \in Jobs : Cwd[j] \in Private => j \in Candidates
  /\ \A c, d \in Candidates : Cwd[c] = Cwd[d] => c = d
  /\ \A j \in Jobs : Change(j) \in Jobs
  /\ \A c \in Candidates : Change(c) = c
  /\ \A j \in Promotions : Change(j) = Candidate[j]
<1> USE CanonicalAssumption DEF CanonicalAssumption
<1>1. \A j \in Promotions : Candidate[j] \in Candidates /\ Candidate[j] \in Jobs
  BY DEF Promotions, Candidates
<1>2. \A c \in Candidates : c \in Jobs /\ Candidate[c] = 0
  <2>1. \A c \in Candidates : c \in Jobs
    BY <1>1 DEF Candidates
  <2>2. \A c \in Candidates : Candidate[c] = 0
    BY CanonicalAssumption DEF CanonicalAssumption
  <2> QED
    BY <2>1, <2>2
<1>3. \A c \in Candidates : c \notin Promotions
  BY <1>2 DEF Promotions
<1>4. \A j \in Jobs : Cwd[j] \in Private => j \in Candidates
  BY DEF Promotions
<1>5. \A j \in Jobs : j # 0 /\ Cwd[j] \in Trees /\ Visible[j] \in Trees \ Private
  OBVIOUS
<1>6. Promotions \subseteq Jobs
  BY DEF Promotions
<1>7. \A j \in Promotions : Candidate[j] # j
  BY <1>1, <1>2, <1>3, <1>6
<1>8. \A c \in Candidates : Cwd[c] \in Private
  BY <1>2
<1>9. \A j \in Jobs : Change(j) \in Jobs
  BY <1>1, <1>6 DEF Change
<1>10. /\ \A c \in Candidates : Change(c) = c
       /\ \A j \in Promotions : Change(j) = Candidate[j]
  BY <1>3 DEF Change
<1>11. \A c, d \in Candidates : Cwd[c] = Cwd[d] => c = d
  OBVIOUS
<1> HIDE CanonicalAssumption DEF CanonicalAssumption
<1> QED
  BY <1>1, <1>2, <1>3, <1>4, <1>5, <1>6, <1>7, <1>8, <1>9, <1>10, <1>11

\* What must survive in a tree, and that it does.
LEMMA SurviveMeansLasting ==
  ASSUME TypeOK
  PROVE  ChangesSurvive <=> \A w \in Trees \ Private : Lasting(w) \subseteq tree[w].src
  BY DEF ChangesSurvive, Lasting

\* The same, of the next state.
LEMMA LastingSurvives ==
  ASSUME TypeOK', \A w \in Trees \ Private : Lasting(w)' \subseteq tree'[w].src
  PROVE  ChangesSurvive'
  BY DEF ChangesSurvive, Lasting

\* What the invariant says of one job.
LEMMA Known ==
  ASSUME CanonicalInv, NEW j \in Jobs
  PROVE  /\ job \in [Jobs -> JobType]
         /\ job[j] \in JobType
         /\ Remembers(j, job[j])
         /\ tree[Cwd[j]] \in Contents /\ tree[Visible[j]] \in Contents
         /\ modules[Visible[j]] \in Locks
         /\ owner \in [Trees -> Jobs \cup {0}]
         /\ j \in Active <=> job[j].pc \in Working
         /\ j \in Active => owner[Cwd[j]] = j
<1>1. job \in [Jobs -> JobType] /\ owner \in [Trees -> Jobs \cup {0}]
  BY DEF CanonicalInv, TypeOK, JobType
<1>2. Remembers(j, job[j])
  BY DEF CanonicalInv, JobsAgree
<1>3. tree[Cwd[j]] \in Contents /\ tree[Visible[j]] \in Contents /\ modules[Visible[j]] \in Locks
  BY Constants DEF CanonicalInv, TypeOK
<1>4. job[j].pc \in Steps
  BY <1>1 DEF JobType
<1>5. j \in Active <=> job[j].pc \in Working
  BY <1>4 DEF Active, Working
<1> QED
  BY <1>1, <1>2, <1>3, <1>5 DEF CanonicalInv, ActiveOwns

\* What a job remembers stays true while the installations are what they were.
LEMMA StillRemembers ==
  ASSUME NEW j \in Jobs, Remembers(j, job[j]), job'[j] = job[j],
         UNCHANGED <<modules, invalid, replaced>>
  PROVE  Remembers(j, job[j])'
BY DEF Remembers

-----------------------------------------------------------------------------
(* One job goes on; the trees are what they were *)

\* Job j now remembers m: the facts about m, and about what it shares, that the invariant needs.
LEMMA JobStep ==
  ASSUME CanonicalInv, NEW j \in Jobs, NEW m \in JobType, job' = [job EXCEPT ![j] = m],
         UNCHANGED <<tree, modules, edits, raced, replaced, spent>>,
         invalid \subseteq invalid', invalid' \subseteq Trees,
         cache' \subseteq [key : Contents, of : Contents], guard' \subseteq Contents,
         orphaned' \subseteq guard', owner' \in [Trees -> Jobs \cup {0}],
         \A w \in Trees : owner[w] \notin {0, j} => owner'[w] = owner[w],
         m.pc \in Working => owner'[Cwd[j]] = j,
         job[j].pc # "done", m.pc # "new",
         j \in Promotions => job[Candidate[j]].pc = "done",
         GuardsAgree', EntriesAgree', Remembers(j, m)',
         j \in Candidates =>
            \A changes : HandsOver(j, job[j], changes) => HandsOver(j, m, changes),
         m.app = "complete" => \/ job[j].app = "complete"
                               \/ j \in Active /\ m.pc # "write" /\ Change(j) \in tree[Cwd[j]].src,
         m.pc = "write" /\ "src" \in m.todo /\ Cwd[j] \notin Private
            => Lasting(Cwd[j]) \subseteq m.final.src /\ m.app # "complete"
  PROVE  CanonicalInv'
<1> USE DEF CanonicalInv
<1>1. /\ job' \in [Jobs -> JobType] /\ job'[j] = m
      /\ \A i \in Jobs \ {j} : job'[i] = job[i]
  BY Known
<1>2. TypeOK'
  BY <1>1 DEF TypeOK, JobType
<1>3. ActiveOwns'
  <2>1. ASSUME NEW i \in Jobs, job'[i].pc \in Working
        PROVE  owner'[Cwd[i]] = i
    <3>1. CASE i = j
      BY <1>1, <2>1, <3>1
    <3>2. CASE i # j
      <4>1. owner[Cwd[i]] = i /\ Cwd[i] \in Trees /\ i # 0
        BY <1>1, <2>1, <3>2, Known, Constants
      <4> QED
        BY <3>2, <4>1
    <3> QED
      BY <3>1, <3>2
  <2>2. \A i \in Jobs : job'[i].pc \in Steps
    BY <1>1 DEF JobType
  <2> QED
    BY <2>1, <2>2 DEF ActiveOwns, Active, Working
<1>4. PromotionsFollow'
  <2>1. ASSUME NEW i \in Promotions, job'[i].pc # "new"
        PROVE  job'[Candidate[i]].pc = "done"
    <3>1. job[Candidate[i]].pc = "done" /\ Candidate[i] \in Jobs
      BY <1>1, <2>1, Constants DEF PromotionsFollow
    <3>2. Candidate[i] # j
      BY <3>1
    <3> QED
      BY <1>1, <3>1, <3>2
  <2> QED
    BY <2>1 DEF PromotionsFollow
<1>5. InstallationAgrees'
  BY DEF InstallationAgrees
<1>6. JobsAgree'
  <2>1. ASSUME NEW i \in Jobs \ {j}
        PROVE  Remembers(i, job[i])'
    BY <1>1 DEF JobsAgree, Remembers
  <2>2. Remembers(j, job[j])'
    BY <1>1 DEF Remembers
  <2> QED
    BY <2>1, <2>2 DEF JobsAgree
<1>7. PromotionExtends'
  <2>1. ASSUME NEW i \in Promotions, job'[i].pc = "new"
        PROVE  HandsOver(Candidate[i], job[Candidate[i]], job[i].base.src)'
    <3>1. i # j /\ job'[i] = job[i] /\ Candidate[i] \in Candidates /\ Candidate[i] \in Jobs
      BY <1>1, <2>1, Constants
    <3>2. HandsOver(Candidate[i], job[Candidate[i]], job[i].base.src)
      BY <2>1, <3>1 DEF PromotionExtends
    <3>3. HandsOver(Candidate[i], job'[Candidate[i]], job[i].base.src)
      BY <1>1, <3>1, <3>2
    <3> QED
      BY <3>1, <3>3 DEF HandsOver
  <2> QED
    BY <2>1 DEF PromotionExtends
<1>8. ASSUME NEW w \in Trees
      PROVE  /\ Lasting(w)' \subseteq Lasting(w) \cup {Change(j)}
             /\ Lasting(w)' \subseteq Lasting(w)
                \/ (w = Cwd[j] /\ job[j].app # "complete" /\ m.app = "complete")
  BY <1>1 DEF Lasting
<1>9. WriteKeeps'
  <2>1. ASSUME NEW i \in Jobs, job'[i].pc = "write", "src" \in job'[i].todo, Cwd[i] \notin Private
        PROVE  Lasting(Cwd[i])' \subseteq job'[i].final.src
    <3>1. CASE i = j
      BY <1>1, <1>8, <2>1, <3>1, Constants
    <3>2. CASE i # j
      <4>1. Lasting(Cwd[i]) \subseteq job'[i].final.src
        BY <1>1, <2>1, <3>2 DEF WriteKeeps
      <4>2. i \in Active
        BY <1>1, <2>1, <3>2 DEF Active
      <4>3. ~(Cwd[i] = Cwd[j] /\ job[j].app # "complete" /\ m.app = "complete")
        BY <3>2, <4>2 DEF ActiveOwns
      <4> QED
        BY <1>8, <4>1, <4>3, Constants
    <3> QED
      BY <3>1, <3>2
  <2> QED
    BY <2>1 DEF WriteKeeps
<1>10. ChangesSurvive'
  <2>1. ASSUME NEW w \in Trees \ Private
        PROVE  Lasting(w)' \subseteq tree'[w].src
    <3>1. Lasting(w) \subseteq tree[w].src
      BY SurviveMeansLasting
    <3> QED
      BY <1>8, <3>1
  <2> QED
    BY <1>2, <2>1, LastingSurvives
<1> QED
  BY <1>2, <1>3, <1>4, <1>5, <1>6, <1>7, <1>9, <1>10
-----------------------------------------------------------------------------
(* The end of a job, and the dependencies of its commands *)

\* A job that does not populate an entry leaves the guards to their holders.
LEMMA GuardsKept ==
  ASSUME CanonicalInv, NEW j \in Jobs, NEW m \in JobType, job' = [job EXCEPT ![j] = m],
         UNCHANGED <<guard, orphaned>>, job[j].pc # "install", m.pc # "install"
  PROVE  GuardsAgree'
<1>1. \A i \in Jobs : \A k : Populates(i, k)' <=> Populates(i, k)
  BY Known DEF Populates
<1>2. \A i \in Jobs : job'[i].pc = "install" => job[i].pc = "install" /\ job'[i].base = job[i].base
  BY Known
<1>3. GuardsAgree
  BY DEF CanonicalInv
<1> QED
  BY <1>1, <1>2, <1>3 DEF GuardsAgree, Key

\* A job that has a guard under way gives it up.
LEMMA GuardGiven ==
  ASSUME CanonicalInv, NEW j \in Jobs, NEW m \in JobType, job' = [job EXCEPT ![j] = m],
         guard' = guard \ {Key(job[j].base)}, orphaned' = orphaned,
         job[j].pc = "install", m.pc # "install"
  PROVE  GuardsAgree' /\ orphaned' \subseteq guard' /\ guard' \subseteq Contents
<1>1. GuardsAgree /\ orphaned \subseteq guard /\ guard \subseteq Contents
  BY DEF CanonicalInv, TypeOK
<1>2. Key(job[j].base) \in guard \ orphaned
  BY <1>1 DEF GuardsAgree
<1>3. \A i \in Jobs : \A k : Populates(i, k)' <=> i # j /\ Populates(i, k)
  BY Known DEF Populates
<1>4. Populates(j, Key(job[j].base))
  BY DEF Populates
<1>5. ASSUME NEW i \in Jobs, job'[i].pc = "install"
      PROVE  Key(job'[i].base) \in guard' \ orphaned'
  <2>1. i # j /\ job'[i] = job[i]
    BY <1>5, Known
  <2>2. Key(job[i].base) \in guard \ orphaned /\ Populates(i, Key(job[i].base))
    BY <1>1, <1>5, <2>1 DEF GuardsAgree, Populates
  <2>3. Key(job[i].base) # Key(job[j].base)
    BY <1>1, <1>2, <1>4, <2>1, <2>2 DEF GuardsAgree
  <2> QED
    BY <2>1, <2>2, <2>3 DEF Key
<1>6. ASSUME NEW k \in guard' \ orphaned'
      PROVE  \E i \in Jobs : Populates(i, k)'
  <2>1. PICK i \in Jobs : Populates(i, k)
    BY <1>1 DEF GuardsAgree
  <2>2. i # j
    BY <2>1 DEF Populates
  <2> QED
    BY <1>3, <2>1, <2>2
<1>7. \A k \in guard' : \A i, l \in Jobs : Populates(i, k)' /\ Populates(l, k)' => i = l
  BY <1>1, <1>3 DEF GuardsAgree
<1>8. GuardsAgree'
  BY <1>5, <1>6, <1>7 DEF GuardsAgree
<1> QED
  BY <1>1, <1>2, <1>8

\* A job ends, and gives up its reservation unless its application is unresolved.
LEMMA EndStep ==
  ASSUME CanonicalInv, NEW j \in Active, NEW pc \in {"done", "ended"}, End(j, pc),
         pc = "done" => job[j].cmd = "gate",
         UNCHANGED <<tree, modules, invalid, cache, edits, raced, replaced, orphaned, spent>>,
         \/ guard' = guard /\ job[j].pc # "install"
         \/ guard' = guard \ {Key(job[j].base)} /\ job[j].pc = "install"
  PROVE  CanonicalInv'
<1>1. j \in Jobs /\ job[j].pc \in Working
  BY Known DEF Active
<1>2. PICK m : m = [job[j] EXCEPT !.pc = pc]
  OBVIOUS
<1>3. /\ m \in JobType /\ m.pc = pc /\ m.cmd = job[j].cmd /\ m.base = job[j].base
      /\ m.final = job[j].final /\ m.todo = job[j].todo /\ m.app = job[j].app
  BY <1>1, <1>2, Known DEF JobType, Steps
<1>4. job' = [job EXCEPT ![j] = m]
  BY <1>1, <1>2, Known DEF End
<1>5. /\ owner' \in [Trees -> Jobs \cup {0}]
      /\ \A w \in Trees : owner[w] \notin {0, j} => owner'[w] = owner[w]
  BY <1>1, Known DEF End, Freed
<1>6. GuardsAgree' /\ orphaned' \subseteq guard' /\ guard' \subseteq Contents
  <2>1. CASE guard' = guard /\ job[j].pc # "install"
    <3>1. orphaned \subseteq guard /\ guard \subseteq Contents
      BY DEF CanonicalInv, TypeOK
    <3> QED
      BY <1>1, <1>3, <1>4, <2>1, <3>1, GuardsKept
  <2>2. CASE guard' = guard \ {Key(job[j].base)} /\ job[j].pc = "install"
    BY <1>1, <1>3, <1>4, <2>2, GuardGiven
  <2> QED
    BY <2>1, <2>2
<1>7. /\ invalid \subseteq Trees /\ cache \subseteq [key : Contents, of : Contents]
      /\ EntriesAgree'
  BY DEF CanonicalInv, TypeOK, EntriesAgree
<1>8. j \in Promotions => job[Candidate[j]].pc = "done"
  BY <1>1 DEF CanonicalInv, PromotionsFollow, Working
<1>9. Remembers(j, m)'
  BY <1>3 DEF Remembers, Applying
<1>10. \A changes : HandsOver(j, job[j], changes) => HandsOver(j, m, changes)
  BY <1>3 DEF HandsOver, Applying
<1> QED
  BY <1>1, <1>3, <1>4, <1>5, <1>6, <1>7, <1>8, <1>9, <1>10, JobStep DEF Working

\* A command gets its dependencies.
LEMMA MountStep ==
  ASSUME CanonicalInv, NEW j \in Active, NEW arm \in Contents, NEW from \in {"canonical", "cache"},
         NEW src \in SUBSET (Jobs \cup Edits), NEW lock \in Locks,
         Mounted(j, arm, from, src, lock),
         \/ job[j].pc = "plan" /\ arm = tree[Cwd[j]]
         \/ job[j].pc \in {"wait", "install"} /\ arm = job[j].base,
         lock = arm.lock, from = "cache" => src = arm.src,
         from = "canonical" => modules[Visible[j]] = arm.lock,
         UNCHANGED <<tree, modules, invalid, owner, edits, raced, replaced, orphaned, spent>>,
         \/ guard' = guard /\ job[j].pc # "install"
         \/ guard' = guard \ {Key(job[j].base)} /\ job[j].pc = "install",
         EntriesAgree', cache' \subseteq [key : Contents, of : Contents]
  PROVE  CanonicalInv'
<1>1. j \in Jobs /\ job[j].pc \in Working
  BY Known DEF Active
<1>2. PICK m : m = [job[j] EXCEPT !.pc = "run", !.base = arm,
                                  !.mount = [from |-> from, src |-> src, lock |-> lock]]
  OBVIOUS
<1>3. /\ m \in JobType /\ m.pc = "run" /\ m.cmd = job[j].cmd /\ m.base = arm
      /\ m.mount = [from |-> from, src |-> src, lock |-> lock]
      /\ m.final = job[j].final /\ m.todo = job[j].todo /\ m.app = job[j].app
  <2>1. [from |-> from, src |-> src, lock |-> lock] \in Mounts
    BY DEF Mounts
  <2>2. PICK mount \in Mounts : mount = [from |-> from, src |-> src, lock |-> lock]
    BY <2>1
  <2>3. job[j] \in JobType
    BY <1>1, Known
  <2>4. m = [job[j] EXCEPT !.pc = "run", !.base = arm, !.mount = mount]
    BY <1>2, <2>2
  <2>5. /\ m \in JobType /\ m.pc = "run" /\ m.cmd = job[j].cmd /\ m.base = arm /\ m.mount = mount
        /\ m.final = job[j].final /\ m.todo = job[j].todo /\ m.app = job[j].app
    BY <2>3, <2>4 DEF JobType, Steps
  <2> QED
    BY <2>2, <2>5
<1>4. job' = [job EXCEPT ![j] = m]
  BY <1>1, <1>2, Known DEF Mounted
<1>5. GuardsAgree' /\ orphaned' \subseteq guard' /\ guard' \subseteq Contents
  <2>1. CASE guard' = guard /\ job[j].pc # "install"
    <3>1. orphaned \subseteq guard /\ guard \subseteq Contents
      BY DEF CanonicalInv, TypeOK
    <3> QED
      BY <1>1, <1>3, <1>4, <2>1, <3>1, GuardsKept
  <2>2. CASE guard' = guard \ {Key(job[j].base)} /\ job[j].pc = "install"
    BY <1>1, <1>3, <1>4, <2>2, GuardGiven
  <2> QED
    BY <2>1, <2>2
<1>6. j \in Promotions => job[Candidate[j]].pc = "done"
  BY <1>1 DEF CanonicalInv, PromotionsFollow, Working
<1>7. Remembers(j, m)'
  <2>1. j \in Promotions => job[j].cmd = "gate"
    BY <1>1, Known DEF Remembers
  <2>2. /\ m.mount.lock = m.base.lock
        /\ m.mount.from = "cache" => m.mount.src = m.base.src
        /\ m.mount.from = "canonical" => modules'[Visible[j]] = m.base.lock
    BY <1>3
  <2> QED
    BY <1>3, <2>1, <2>2 DEF Remembers, Applying
<1>8. \A changes : HandsOver(j, job[j], changes) => HandsOver(j, m, changes)
  BY <1>3 DEF HandsOver, Applying
<1>9. /\ owner' \in [Trees -> Jobs \cup {0}] /\ owner'[Cwd[j]] = j
      /\ \A w \in Trees : owner'[w] = owner[w]
  BY <1>1, Known
<1>10. invalid \subseteq Trees
  BY DEF CanonicalInv, TypeOK
<1> QED
  BY <1>1, <1>3, <1>4, <1>5, <1>6, <1>7, <1>8, <1>9, <1>10, JobStep DEF Working

\* There is no entry: the job fails, waits for the guard or takes it.
LEMMA MissStep ==
  ASSUME CanonicalInv, NEW j \in Active, NEW arm \in Contents, Miss(j, arm),
         \/ job[j].pc = "plan" /\ arm = tree[Cwd[j]]
         \/ job[j].pc = "wait" /\ arm = job[j].base,
         UNCHANGED <<tree, modules, invalid, cache, edits, raced, replaced, orphaned, spent>>
  PROVE  CanonicalInv'
<1>1. j \in Jobs /\ job[j].pc \in Working /\ job[j].pc # "install"
  BY Known DEF Active
<1>2. CASE ~job[j].network
  BY <1>1, <1>2, EndStep DEF Miss
<1>3. CASE job[j].network
  <2>1. PICK pc \in {"wait", "install"} : pc = IF Key(arm) \in guard THEN "wait" ELSE "install"
    OBVIOUS
  <2>2. PICK m : m = [job[j] EXCEPT !.pc = pc, !.base = arm]
    OBVIOUS
  <2>3. /\ m \in JobType /\ m.pc = pc /\ m.cmd = job[j].cmd /\ m.base = arm
        /\ m.final = job[j].final /\ m.todo = job[j].todo /\ m.app = job[j].app
    <3>1. job[j] \in JobType
      BY <1>1, Known
    <3> QED
      BY <2>2, <3>1 DEF JobType, Steps
  <2>4. job' = [job EXCEPT ![j] = m] /\ guard' = guard \cup {Key(arm)} /\ owner' = owner
    <3>1. /\ job' = [job EXCEPT ![j].base = arm,
                                ![j].pc = IF Key(arm) \in guard THEN "wait" ELSE "install"]
          /\ guard' = guard \cup {Key(arm)} /\ owner' = owner
      BY <1>3 DEF Miss
    <3>2. job' = [job EXCEPT ![j].base = arm, ![j].pc = pc]
      BY <2>1, <3>1
    <3>3. job \in [Jobs -> JobType] /\ job[j] \in JobType
      BY <1>1, Known
    <3>4. [job[j] EXCEPT !.base = arm, !.pc = pc] = m
      BY <2>2, <3>3 DEF JobType
    <3> QED
      BY <1>1, <3>1, <3>2, <3>3, <3>4
  <2>5. orphaned \subseteq guard /\ guard \subseteq Contents /\ Key(arm) \in Contents
    BY DEF CanonicalInv, TypeOK, Key
  <2>6. GuardsAgree'
    <3>1. CASE Key(arm) \in guard
      <4>1. guard' = guard /\ m.pc # "install"
        BY <2>1, <2>3, <2>4, <3>1
      <4> QED
        BY <1>1, <2>3, <2>4, <4>1, GuardsKept
    <3>2. CASE Key(arm) \notin guard
      <4>1. GuardsAgree /\ m.pc = "install"
        BY <2>1, <2>3, <3>2 DEF CanonicalInv
      <4>2. \A i \in Jobs : \A k : Populates(i, k)' <=> IF i = j THEN k = Key(arm) ELSE Populates(i, k)
        BY <1>1, <2>3, <2>4, <4>1, Known DEF Populates, Key
      <4>3. \A i \in Jobs : ~Populates(i, Key(arm))
        BY <2>5, <3>2, <4>1 DEF GuardsAgree, Populates
      <4>4. ASSUME NEW i \in Jobs, job'[i].pc = "install"
            PROVE  Key(job'[i].base) \in guard' \ orphaned'
        <5>1. CASE i = j
          BY <1>1, <2>3, <2>4, <2>5, <3>2, <5>1, Known
        <5>2. CASE i # j
          <6>1. job'[i] = job[i]
            BY <2>4, <5>2, Known
          <6> QED
            BY <2>4, <4>1, <4>4, <6>1 DEF GuardsAgree, Key
        <5> QED
          BY <5>1, <5>2
      <4>5. ASSUME NEW k \in guard' \ orphaned'
            PROVE  \E i \in Jobs : Populates(i, k)'
        <5>1. CASE k = Key(arm)
          BY <1>1, <4>2, <5>1
        <5>2. CASE k # Key(arm)
          <6>1. PICK i \in Jobs : Populates(i, k)
            BY <2>4, <4>1, <5>2 DEF GuardsAgree
          <6>2. i # j
            BY <1>1, <6>1 DEF Populates
          <6> QED
            BY <4>2, <6>1, <6>2
        <5> QED
          BY <5>1, <5>2
      <4>6. ASSUME NEW k \in guard', NEW i \in Jobs, NEW l \in Jobs, Populates(i, k)', Populates(l, k)'
            PROVE  i = l
        <5>1. CASE k = Key(arm)
          BY <4>2, <4>3, <4>6, <5>1
        <5>2. CASE k # Key(arm)
          BY <2>4, <4>1, <4>2, <4>6, <5>2 DEF GuardsAgree
        <5> QED
          BY <5>1, <5>2
      <4> QED
        BY <4>4, <4>5, <4>6 DEF GuardsAgree
    <3> QED
      BY <3>1, <3>2
  <2>7. j \in Promotions => job[Candidate[j]].pc = "done"
    BY <1>1 DEF CanonicalInv, PromotionsFollow, Working
  <2>8. Remembers(j, m)'
    <3>1. j \in Promotions => job[j].cmd = "gate"
      BY <1>1, Known DEF Remembers
    <3> QED
      BY <2>3, <3>1 DEF Remembers, Applying
  <2>9. \A changes : HandsOver(j, job[j], changes) => HandsOver(j, m, changes)
    BY <2>3 DEF HandsOver, Applying
  <2>10. /\ owner' \in [Trees -> Jobs \cup {0}] /\ owner'[Cwd[j]] = j
         /\ \A w \in Trees : owner'[w] = owner[w]
    BY <1>1, <2>4, Known
  <2>11. /\ invalid \subseteq Trees /\ cache \subseteq [key : Contents, of : Contents]
         /\ EntriesAgree'
    BY DEF CanonicalInv, TypeOK, EntriesAgree
  <2> QED
    BY <1>1, <2>3, <2>4, <2>5, <2>6, <2>7, <2>8, <2>9, <2>10, <2>11, JobStep DEF Working
<1> QED
  BY <1>2, <1>3

\* An entry found under a key was installed in the content of the key.
LEMMA Hit ==
  ASSUME CanonicalInv, NEW arm \in Contents, NEW of \in Cached(arm)
  PROVE  of = arm
BY DEF CanonicalInv, EntriesAgree, Cached, Key

LEMMA Fetched ==
  ASSUME NEW arm \in Contents
  PROVE  arm.src \in SUBSET (Jobs \cup Edits) /\ arm.lock \in Locks
BY DEF Contents

LEMMA PlanStep ==
  ASSUME CanonicalInv, NEW j \in Jobs, Plan(j)
  PROVE  CanonicalInv'
<1>1. j \in Active /\ job[j].pc = "plan"
  BY DEF Plan, Active
<1>2. PICK arm \in Contents : arm = tree[Cwd[j]]
  BY Known
<1>3. PICK project \in Trees \ Private : project = Visible[j]
  BY Known, Constants
<1>4. EntriesAgree' /\ cache' \subseteq [key : Contents, of : Contents]
  BY DEF CanonicalInv, TypeOK, EntriesAgree, Plan
<1>5. CASE CanonicalAllowed(project) /\ SameLock(arm, project)
  <2>1. PICK lock \in Locks : lock = modules[project]
    BY <1>3, Known
  <2>2. lock = arm.lock
    BY <1>5, <2>1 DEF CanonicalInv, InstallationAgrees, CanonicalAllowed, SameLock
  <2>3. Mounted(j, arm, "canonical", {}, lock) /\ UNCHANGED <<guard, owner>>
    BY <1>2, <1>3, <1>5, <2>2 DEF Plan, Captured
  <2> QED
    BY <1>1, <1>2, <1>3, <1>4, <2>1, <2>2, <2>3, MountStep DEF Plan
<1>6. CASE ~(CanonicalAllowed(project) /\ SameLock(arm, project)) /\ Cached(arm) # {}
  <2>1. PICK of \in Cached(arm) : Mounted(j, arm, "cache", of.src, of.lock)
    BY <1>2, <1>3, <1>6 DEF Plan, Captured
  <2>2. of = arm
    BY Hit
  <2>3. UNCHANGED <<guard, owner>>
    BY <1>2, <1>3, <1>6 DEF Plan, Captured
  <2> QED
    BY <1>1, <1>2, <1>4, <2>1, <2>2, <2>3, Fetched, MountStep DEF Plan
<1>7. CASE ~(CanonicalAllowed(project) /\ SameLock(arm, project)) /\ Cached(arm) = {}
  <2>1. Miss(j, arm)
    BY <1>2, <1>3, <1>7 DEF Plan, Captured
  <2> QED
    BY <1>1, <1>2, <2>1, MissStep DEF Plan
<1> QED
  BY <1>5, <1>6, <1>7

LEMMA WakeStep ==
  ASSUME CanonicalInv, NEW j \in Jobs, Wake(j)
  PROVE  CanonicalInv'
<1>1. j \in Active /\ job[j].pc = "wait"
  BY DEF Wake, Active
<1>2. PICK arm \in Contents : arm = job[j].base
  BY Known DEF JobType
<1>3. EntriesAgree' /\ cache' \subseteq [key : Contents, of : Contents]
  BY DEF CanonicalInv, TypeOK, EntriesAgree, Wake
<1>4. CASE Cached(arm) # {}
  <2>1. PICK of \in Cached(arm) : Mounted(j, arm, "cache", of.src, of.lock)
    BY <1>2, <1>4 DEF Wake
  <2>2. of = arm
    BY Hit
  <2>3. UNCHANGED <<guard, owner>>
    BY <1>2, <1>4 DEF Wake
  <2> QED
    BY <1>1, <1>2, <1>3, <2>1, <2>2, <2>3, Fetched, MountStep DEF Wake
<1>5. CASE Cached(arm) = {}
  <2>1. Miss(j, arm)
    BY <1>2, <1>5 DEF Wake
  <2> QED
    BY <1>1, <1>2, <2>1, MissStep DEF Wake
<1> QED
  BY <1>4, <1>5

LEMMA InstallStep ==
  ASSUME CanonicalInv, NEW j \in Jobs, Install(j)
  PROVE  CanonicalInv'
<1>1. j \in Active /\ job[j].pc = "install"
  BY DEF Install, Active
<1>2. PICK arm \in Contents : arm = job[j].base
  BY Known DEF JobType
<1>3. EntriesAgree' /\ cache' \subseteq [key : Contents, of : Contents]
  <2>1. cache' = cache \cup {Entry(arm)} /\ Entry(arm).key = Key(Entry(arm).of)
        /\ Entry(arm) \in [key : Contents, of : Contents]
    BY <1>2 DEF Install, Entry, Key
  <2>2. EntriesAgree /\ cache \subseteq [key : Contents, of : Contents]
    BY DEF CanonicalInv, TypeOK
  <2> QED
    BY <2>1, <2>2 DEF EntriesAgree, Key
<1> QED
  BY <1>1, <1>2, <1>3, Fetched, MountStep DEF Install

LEMMA BusyStep ==
  ASSUME CanonicalInv, NEW j \in Jobs, Busy(j)
  PROVE  CanonicalInv'
<1>1. j \in Active /\ job[j].pc = "wait"
  BY DEF Busy, Active
<1> QED
  BY <1>1, EndStep DEF Busy

LEMMA InstallFailsStep ==
  ASSUME CanonicalInv, NEW j \in Jobs, InstallFails(j)
  PROVE  CanonicalInv'
<1>1. j \in Active /\ job[j].pc = "install"
  BY DEF InstallFails, Active
<1> QED
  BY <1>1, EndStep DEF InstallFails, AfterFailure

LEMMA StopStep ==
  ASSUME CanonicalInv, NEW j \in Jobs, Stop(j)
  PROVE  CanonicalInv'
<1>1. j \in Active /\ job[j].pc # "install"
  BY DEF Stop, Active
<1> QED
  BY <1>1, EndStep DEF Stop

LEMMA WriteFailsStep ==
  ASSUME CanonicalInv, NEW j \in Jobs, WriteFails(j)
  PROVE  CanonicalInv'
<1>1. j \in Active /\ job[j].pc # "install"
  BY DEF WriteFails, Active
<1> QED
  BY <1>1, EndStep DEF WriteFails

-----------------------------------------------------------------------------
(* The life of a job, and the application of its delta *)

\* A job goes on: nothing changes but where it stands and, perhaps, what is invalid.
LEMMA GoesOn ==
  ASSUME CanonicalInv, NEW j \in Active, NEW m \in JobType, job' = [job EXCEPT ![j] = m],
         UNCHANGED <<tree, modules, cache, guard, owner, edits, raced, replaced, orphaned, spent>>,
         invalid \subseteq invalid', invalid' \subseteq Trees,
         job[j].pc # "install", m.pc \in Working \ {"install"}, Remembers(j, m)',
         j \in Candidates =>
            \A changes : HandsOver(j, job[j], changes) => HandsOver(j, m, changes),
         m.app = "complete" => \/ job[j].app = "complete"
                               \/ m.pc # "write" /\ Change(j) \in tree[Cwd[j]].src,
         m.pc = "write" /\ "src" \in m.todo /\ Cwd[j] \notin Private
            => Lasting(Cwd[j]) \subseteq m.final.src /\ m.app # "complete"
  PROVE  CanonicalInv'
<1>1. j \in Jobs /\ job[j].pc \in Working /\ job[j].pc # "done" /\ m.pc # "new"
  BY Known DEF Active, Working
<1>2. GuardsAgree'
  BY <1>1, GuardsKept
<1>3. /\ cache' \subseteq [key : Contents, of : Contents] /\ EntriesAgree'
      /\ orphaned' \subseteq guard' /\ guard' \subseteq Contents
  BY DEF CanonicalInv, TypeOK, EntriesAgree
<1>4. /\ owner' \in [Trees -> Jobs \cup {0}] /\ owner'[Cwd[j]] = j
      /\ \A w \in Trees : owner'[w] = owner[w]
  BY <1>1, Known
<1>5. j \in Promotions => job[Candidate[j]].pc = "done"
  BY <1>1 DEF CanonicalInv, PromotionsFollow, Working
<1> QED
  BY <1>1, <1>2, <1>3, <1>4, <1>5, JobStep

LEMMA StartStep ==
  ASSUME CanonicalInv, NEW j \in Jobs, Start(j)
  PROVE  CanonicalInv'
<1>1. /\ job \in [Jobs -> JobType] /\ job[j] \in JobType
      /\ job[j].pc \in {"new", "opened"} /\ (j \in Promotions => job[j].pc = "new")
      /\ j \in Promotions => job[Candidate[j]].pc = "done"
  BY Known, Constants DEF Start
<1>2. PICK final \in Contents :
         final = IF j \in Promotions THEN job[Candidate[j]].final ELSE job[j].final
  BY <1>1, Constants DEF JobType
<1>3. PICK pc \in {"plan", "check"} : pc = IF j \in Promotions THEN "check" ELSE "plan"
  OBVIOUS
<1>4. PICK m : m = [job[j] EXCEPT !.pc = pc, !.final = final]
  OBVIOUS
<1>5. /\ m \in JobType /\ m.pc = pc /\ m.cmd = job[j].cmd /\ m.base = job[j].base
      /\ m.final = final /\ m.todo = job[j].todo /\ m.app = job[j].app
  BY <1>1, <1>4 DEF JobType, Steps
<1>6. job' = [job EXCEPT ![j] = m]
  <2>1. CASE j \in Promotions
    <3>1. job' = [job EXCEPT ![j] = [@ EXCEPT !.pc = "check", !.final = final]]
      BY <1>2, <2>1 DEF Start
    <3> QED
      BY <1>1, <1>3, <1>4, <2>1, <3>1
  <2>2. CASE j \notin Promotions
    <3>1. job' = [job EXCEPT ![j] = [@ EXCEPT !.pc = "plan"]]
      BY <2>2 DEF Start
    <3>2. [job[j] EXCEPT !.pc = "plan"] = [job[j] EXCEPT !.pc = pc, !.final = final]
      BY <1>1, <1>2, <1>3, <2>2 DEF JobType
    <3> QED
      BY <1>1, <1>4, <3>1, <3>2
  <2> QED
    BY <2>1, <2>2
<1>7. GuardsAgree'
  BY <1>1, <1>5, <1>6, GuardsKept DEF Start
<1>8. /\ cache' \subseteq [key : Contents, of : Contents] /\ EntriesAgree'
      /\ orphaned' \subseteq guard' /\ guard' \subseteq Contents /\ invalid \subseteq Trees
  BY DEF CanonicalInv, TypeOK, EntriesAgree, Start
<1>9. /\ owner' \in [Trees -> Jobs \cup {0}] /\ owner'[Cwd[j]] = j
      /\ \A w \in Trees : owner[w] # 0 => owner'[w] = owner[w]
  BY Known, Constants DEF Start
<1>10. Remembers(j, m)'
  <2>1. ASSUME j \in Promotions
        PROVE  job[j].base.src \cup {Change(j)} \subseteq final.src
    <3>1. HandsOver(Candidate[j], job[Candidate[j]], job[j].base.src)
      BY <1>1, <2>1 DEF CanonicalInv, PromotionExtends
    <3>2. job[Candidate[j]].cmd = "gate"
      BY <1>1, <2>1, Constants, Known DEF Remembers
    <3> QED
      BY <1>2, <2>1, <3>1, <3>2, Constants DEF HandsOver
  <2> QED
    BY <1>3, <1>5, <2>1 DEF Remembers, Applying
<1>11. j \in Candidates =>
          \A changes : HandsOver(j, job[j], changes) => HandsOver(j, m, changes)
  <2>1. ASSUME j \in Candidates
        PROVE  /\ j \notin Promotions
               /\ m.pc = "plan" /\ job[j].pc = "opened" /\ m.final = job[j].final
    BY <1>1, <1>2, <1>3, <1>5, <2>1, Constants DEF Start
  <2> QED
    BY <1>5, <2>1 DEF HandsOver, Applying
<1> QED
  BY <1>1, <1>3, <1>5, <1>6, <1>7, <1>8, <1>9, <1>10, <1>11, JobStep DEF Start

LEMMA CommandEndsStep ==
  ASSUME CanonicalInv, NEW j \in Jobs, CommandEnds(j)
  PROVE  CanonicalInv'
<1>1. j \in Active /\ job[j].pc = "run" /\ job[j] \in JobType /\ job \in [Jobs -> JobType]
  BY Known DEF CommandEnds, Active
<1>2. CASE job[j].cmd = "provider"
  <2>1. PICK lock \in Locks :
           job' = [job EXCEPT ![j].pc = "extract",
                              ![j].final = [src |-> job[j].base.src \cup {j}, lock |-> lock]]
    BY <1>2 DEF CommandEnds
  <2>2. [src |-> job[j].base.src \cup {j}, lock |-> lock] \in Contents
    BY <1>1 DEF JobType, Contents
  <2>3. PICK final \in Contents : final = [src |-> job[j].base.src \cup {j}, lock |-> lock]
    BY <2>2
  <2>4. PICK m : m = [job[j] EXCEPT !.pc = "extract", !.final = final]
    OBVIOUS
  <2>5. /\ m \in JobType /\ m.pc = "extract" /\ m.cmd = job[j].cmd /\ m.base = job[j].base
        /\ m.final = final /\ m.todo = job[j].todo /\ m.app = job[j].app
    BY <1>1, <2>4 DEF JobType, Steps
  <2>6. job' = [job EXCEPT ![j] = m]
    <3>1. job' = [job EXCEPT ![j].pc = "extract", ![j].final = final]
      BY <2>1, <2>3
    <3> QED
      BY <1>1, <2>4, <3>1
  <2>7. j \notin Promotions /\ Change(j) = j
    <3>1. j \notin Promotions
      BY <1>1, <1>2, Known DEF Remembers
    <3> QED
      BY <3>1 DEF Change
  <2>8. Remembers(j, m)'
    BY <2>3, <2>5, <2>7 DEF Remembers, Applying
  <2>9. \A changes : HandsOver(j, job[j], changes) => HandsOver(j, m, changes)
    BY <1>1, <1>2, <2>3, <2>5 DEF HandsOver, Applying
  <2>10. invalid \subseteq Trees
    BY DEF CanonicalInv, TypeOK
  <2>11. m.pc \in Working \ {"install"}
    BY <2>5 DEF Working, Steps
  <2> QED
    BY <1>1, <1>2, <2>5, <2>6, <2>8, <2>9, <2>10, <2>11, GoesOn DEF CommandEnds
<1>3. CASE job[j].cmd # "provider"
  <2>1. job[j].cmd = "gate"
    BY <1>1, <1>3 DEF JobType
  <2> QED
    BY <1>1, <1>3, <2>1, EndStep DEF CommandEnds
<1> QED
  BY <1>2, <1>3

\* The application stands where it may be resumed from, with its baseline and its result.
LEMMA PendingFits ==
  ASSUME CanonicalInv, NEW j \in Active, job[j].pc \in {"extract", "check"},
         NEW pc \in {"intent", "invalidate"}, job' = Pending(j, pc)
  PROVE  \E m \in JobType :
            /\ job' = [job EXCEPT ![j] = m]
            /\ m.pc = pc /\ m.cmd = job[j].cmd /\ m.base = job[j].base
            /\ m.final = job[j].final /\ m.todo = job[j].todo /\ m.app = "pending"
            /\ m.base.src \cup {Change(j)} \subseteq m.final.src
            /\ \A changes : HandsOver(j, job[j], changes) => HandsOver(j, m, changes)
<1>1. j \in Jobs /\ job[j] \in JobType /\ job \in [Jobs -> JobType]
  BY Known DEF Active
<1>2. PICK m : m = [job[j] EXCEPT !.app = "pending", !.pc = pc]
  OBVIOUS
<1>3. /\ m \in JobType /\ m.pc = pc /\ m.cmd = job[j].cmd /\ m.base = job[j].base
      /\ m.final = job[j].final /\ m.todo = job[j].todo /\ m.app = "pending"
  BY <1>1, <1>2 DEF JobType, Steps
<1>4. job' = [job EXCEPT ![j] = m]
  BY <1>1, <1>2 DEF Pending
<1>5. m.base.src \cup {Change(j)} \subseteq m.final.src
  BY <1>1, <1>3, Known DEF Remembers, Applying
<1>6. \A changes : HandsOver(j, job[j], changes) => HandsOver(j, m, changes)
  BY <1>3 DEF HandsOver, Applying
<1> QED
  BY <1>3, <1>4, <1>5, <1>6

LEMMA BeginStep ==
  ASSUME CanonicalInv, NEW j \in Jobs, Begin(j)
  PROVE  CanonicalInv'
<1>1. j \in Active /\ job[j].pc = "extract"
  BY DEF Begin, Active
<1>2. CASE Refused(j)
  BY <1>1, <1>2, EndStep DEF Begin, Refused
<1>3. CASE /\ IsBaseline(j) /\ job' = Pending(j, "intent")
           /\ invalid' = IF LockChanged(j) THEN invalid \cup {Cwd[j]} ELSE invalid
           /\ UNCHANGED owner
  <2>1. PICK m \in JobType :
            /\ job' = [job EXCEPT ![j] = m]
            /\ m.pc = "intent" /\ m.cmd = job[j].cmd /\ m.base = job[j].base
            /\ m.final = job[j].final /\ m.todo = job[j].todo /\ m.app = "pending"
            /\ m.base.src \cup {Change(j)} \subseteq m.final.src
            /\ \A changes : HandsOver(j, job[j], changes) => HandsOver(j, m, changes)
    BY <1>1, <1>3, PendingFits
  <2>2. Remembers(j, m)'
    BY <1>3, <2>1 DEF Remembers, Applying, LockChanged
  <2>3. invalid \subseteq invalid' /\ invalid' \subseteq Trees
    BY <1>3, Constants DEF CanonicalInv, TypeOK
  <2>4. m.pc \in Working \ {"install"}
    BY <2>1 DEF Working, Steps
  <2> QED
    BY <1>1, <1>3, <2>1, <2>2, <2>3, <2>4, GoesOn DEF Begin
<1> QED
  BY <1>2, <1>3 DEF Begin

LEMMA CheckStep ==
  ASSUME CanonicalInv, NEW j \in Jobs, Check(j)
  PROVE  CanonicalInv'
<1>1. j \in Active /\ job[j].pc = "check"
  BY DEF Check, Active
<1>2. CASE Refused(j)
  BY <1>1, <1>2, EndStep DEF Check, Refused
<1>3. CASE /\ IsBaseline(j)
           /\ job' = Pending(j, IF LockChanged(j) THEN "invalidate" ELSE "intent")
           /\ UNCHANGED <<invalid, owner>>
  <2>1. PICK pc \in {"intent", "invalidate"} : pc = IF LockChanged(j) THEN "invalidate" ELSE "intent"
    OBVIOUS
  <2>2. PICK m \in JobType :
            /\ job' = [job EXCEPT ![j] = m]
            /\ m.pc = pc /\ m.cmd = job[j].cmd /\ m.base = job[j].base
            /\ m.final = job[j].final /\ m.todo = job[j].todo /\ m.app = "pending"
            /\ m.base.src \cup {Change(j)} \subseteq m.final.src
            /\ \A changes : HandsOver(j, job[j], changes) => HandsOver(j, m, changes)
    BY <1>1, <1>3, <2>1, PendingFits
  <2>3. Remembers(j, m)'
    BY <1>3, <2>1, <2>2 DEF Remembers, Applying, LockChanged
  <2>4. invalid \subseteq invalid' /\ invalid' \subseteq Trees
    BY <1>3 DEF CanonicalInv, TypeOK
  <2>5. m.pc \in Working \ {"install"}
    BY <2>2 DEF Working, Steps
  <2> QED
    BY <1>1, <1>3, <2>2, <2>3, <2>4, <2>5, GoesOn DEF Check
<1> QED
  BY <1>2, <1>3 DEF Check

LEMMA InvalidateStep ==
  ASSUME CanonicalInv, NEW j \in Jobs, Invalidate(j)
  PROVE  CanonicalInv'
<1>1. j \in Active /\ job[j].pc = "invalidate" /\ job[j] \in JobType /\ job \in [Jobs -> JobType]
  BY Known DEF Invalidate, Active
<1>2. PICK m : m = [job[j] EXCEPT !.pc = "intent"]
  OBVIOUS
<1>3. /\ m \in JobType /\ m.pc = "intent" /\ m.cmd = job[j].cmd /\ m.base = job[j].base
      /\ m.final = job[j].final /\ m.todo = job[j].todo /\ m.app = job[j].app
  BY <1>1, <1>2 DEF JobType, Steps
<1>4. job' = [job EXCEPT ![j] = m]
  BY <1>1, <1>2 DEF Invalidate
<1>5. Remembers(j, m)'
  BY <1>1, <1>3, Known DEF Remembers, Applying, Invalidate
<1>6. \A changes : HandsOver(j, job[j], changes) => HandsOver(j, m, changes)
  BY <1>1, <1>3 DEF HandsOver, Applying
<1>7. invalid \subseteq invalid' /\ invalid' \subseteq Trees
  BY Constants DEF CanonicalInv, TypeOK, Invalidate
<1>8. m.pc \in Working \ {"install"}
  BY <1>3 DEF Working, Steps
<1> QED
  BY <1>1, <1>3, <1>4, <1>5, <1>6, <1>7, <1>8, GoesOn DEF Invalidate

\* What the baseline check of the intent buys: the delta contains what must survive.
LEMMA IntentStep ==
  ASSUME CanonicalInv, NEW j \in Jobs, Intent(j)
  PROVE  CanonicalInv'
<1>1. j \in Active /\ job[j].pc = "intent" /\ job[j] \in JobType /\ job \in [Jobs -> JobType]
  BY Known DEF Intent, Active
<1>2. CASE Refused(j)
  BY <1>1, <1>2, EndStep DEF Intent, Refused
<1>3. CASE /\ IsBaseline(j) /\ job' = [job EXCEPT ![j].pc = "write", ![j].todo = Delta(j)]
           /\ UNCHANGED <<invalid, owner>>
  <2>1. PICK todo \in SUBSET Files : todo = Delta(j)
    BY DEF Delta
  <2>2. PICK m : m = [job[j] EXCEPT !.pc = "write", !.todo = todo]
    OBVIOUS
  <2>3. /\ m \in JobType /\ m.pc = "write" /\ m.cmd = job[j].cmd /\ m.base = job[j].base
        /\ m.final = job[j].final /\ m.todo = todo /\ m.app = job[j].app
    BY <1>1, <2>2 DEF JobType, Steps
  <2>4. job' = [job EXCEPT ![j] = m]
    <3>1. job' = [job EXCEPT ![j].pc = "write", ![j].todo = todo]
      BY <1>3, <2>1
    <3> QED
      BY <1>1, <2>2, <3>1
  <2>5. todo \subseteq {f \in Files : m.final[f] # m.base[f]}
    BY <2>1, <2>3 DEF Delta
  <2>6. m.app = "pending" /\ m.base.src \subseteq m.final.src
    BY <1>1, <2>3, Known DEF Remembers, Applying
  <2>7. Remembers(j, m)'
    <3>1. /\ job[j].final.lock # job[j].base.lock => Cwd[j] \in invalid
          /\ job[j].base.src \cup {Change(j)} \subseteq job[j].final.src
      BY <1>1, Known DEF Remembers, Applying
    <3> QED
      BY <1>3, <2>3, <2>5, <2>6, <3>1 DEF Remembers, Applying
  <2>8. \A changes : HandsOver(j, job[j], changes) => HandsOver(j, m, changes)
    BY <1>1, <2>3 DEF HandsOver, Applying
  <2>9. invalid \subseteq Trees
    BY DEF CanonicalInv, TypeOK
  <2>10. ASSUME Cwd[j] \notin Private
         PROVE  Lasting(Cwd[j]) \subseteq m.final.src
    <3>1. Lasting(Cwd[j]) \subseteq tree[Cwd[j]].src
      BY <2>10, SurviveMeansLasting, Constants DEF CanonicalInv
    <3>2. tree[Cwd[j]].src = m.base.src
      BY <1>3, <2>3 DEF IsBaseline
    <3> QED
      BY <2>6, <3>1, <3>2
  <2>11. m.pc \in Working \ {"install"}
    BY <2>3 DEF Working, Steps
  <2> QED
    BY <1>1, <1>3, <2>3, <2>4, <2>6, <2>7, <2>8, <2>9, <2>10, <2>11, GoesOn DEF Intent
<1> QED
  BY <1>2, <1>3 DEF Intent

LEMMA CompleteStep ==
  ASSUME CanonicalInv, NEW j \in Jobs, Complete(j)
  PROVE  CanonicalInv'
<1>1. j \in Active /\ job[j].pc = "verify" /\ job[j] \in JobType /\ job \in [Jobs -> JobType]
  BY Known DEF Complete, Active
<1>2. CASE ~IsFinal(j)
  BY <1>1, <1>2, EndStep DEF Complete
<1>3. CASE IsFinal(j)
  <2>1. PICK m : m = [job[j] EXCEPT !.app = "complete", !.pc = "plan", !.cmd = "gate"]
    OBVIOUS
  <2>2. /\ m \in JobType /\ m.pc = "plan" /\ m.cmd = "gate" /\ m.base = job[j].base
        /\ m.final = job[j].final /\ m.todo = job[j].todo /\ m.app = "complete"
    BY <1>1, <2>1 DEF JobType, Steps
  <2>3. job' = [job EXCEPT ![j] = m] /\ owner' = owner
    BY <1>1, <1>3, <2>1 DEF Complete
  <2>4. Change(j) \in tree[Cwd[j]].src
    BY <1>1, <1>3, Known DEF Remembers, Applying, IsFinal
  <2>5. Remembers(j, m)'
    BY <2>2 DEF Remembers, Applying
  <2>6. \A changes : HandsOver(j, job[j], changes) => HandsOver(j, m, changes)
    BY <1>1, <2>2 DEF HandsOver, Applying
  <2>7. invalid \subseteq Trees
    BY DEF CanonicalInv, TypeOK
  <2>8. m.pc \in Working \ {"install"}
    BY <2>2 DEF Working, Steps
  <2> QED
    BY <1>1, <2>2, <2>3, <2>4, <2>5, <2>6, <2>7, <2>8, GoesOn DEF Complete
<1> QED
  BY <1>2, <1>3

-----------------------------------------------------------------------------
(* The steps that change a tree, and the crash *)

LEMMA EditStep ==
  ASSUME CanonicalInv, NEW w \in Trees, Edit(w)
  PROVE  CanonicalInv'
<1> USE DEF CanonicalInv
<1>1. PICK e \in Edits :
         /\ w \notin Private
         /\ tree' = [tree EXCEPT ![w].src = @ \cup {e}]
         /\ edits' = [edits EXCEPT ![w] = @ \cup {e}]
         /\ raced' = IF Racing(w) THEN raced \cup {e} ELSE raced
  BY DEF Edit
<1>2. UNCHANGED <<modules, invalid, cache, guard, owner, job, replaced, orphaned, spent>>
  BY DEF Edit
<1>3. /\ tree \in [Trees -> Contents] /\ edits \in [Trees -> SUBSET Edits] /\ raced \subseteq Edits
      /\ job \in [Jobs -> JobType]
  BY DEF TypeOK, JobType
<1>4. PICK content \in Contents : content = [src |-> tree[w].src \cup {e}, lock |-> tree[w].lock]
  BY <1>3 DEF Contents
<1>5. tree' = [tree EXCEPT ![w] = content]
  <2>1. tree[w] \in Contents
    BY <1>3
  <2>2. [tree[w] EXCEPT !.src = @ \cup {e}] = content
    BY <1>4, <2>1 DEF Contents
  <2> QED
    BY <1>1, <1>3, <2>2
<1>6. /\ \A v \in Trees \ {w} : tree'[v] = tree[v] /\ edits'[v] = edits[v]
      /\ tree'[w].src = tree[w].src \cup {e} /\ tree'[w].lock = tree[w].lock
      /\ edits'[w] = edits[w] \cup {e} /\ raced \subseteq raced'
  BY <1>1, <1>3, <1>4, <1>5
<1>7. TypeOK'
  <2>1. tree' \in [Trees -> Contents] /\ edits' \in [Trees -> SUBSET Edits] /\ raced' \subseteq Edits
    BY <1>1, <1>3, <1>5
  <2> QED
    BY <1>2, <2>1 DEF TypeOK
<1>8. ActiveOwns' /\ PromotionsFollow' /\ GuardsAgree' /\ EntriesAgree'
  BY <1>2 DEF ActiveOwns, Active, PromotionsFollow, GuardsAgree, Populates, EntriesAgree, Key
<1>9. InstallationAgrees' /\ JobsAgree'
  BY <1>2, <1>6 DEF InstallationAgrees, JobsAgree, Remembers
<1>10. PromotionExtends'
  <2>1. ASSUME NEW i \in Promotions, job'[i].pc = "new"
        PROVE  HandsOver(Candidate[i], job[Candidate[i]], job[i].base.src)'
    <3>1. HandsOver(Candidate[i], job[Candidate[i]], job[i].base.src)
      BY <1>2, <2>1 DEF PromotionExtends
    <3>2. Cwd[Candidate[i]] # w /\ Cwd[Candidate[i]] \in Trees
      BY <1>1, Constants
    <3> QED
      BY <1>2, <1>6, <3>1, <3>2 DEF HandsOver
  <2> QED
    BY <2>1 DEF PromotionExtends
<1>11. ASSUME NEW v \in Trees
       PROVE  Lasting(v)' \subseteq Lasting(v) \cup (IF v = w /\ ~Racing(w) THEN {e} ELSE {})
  BY <1>1, <1>2, <1>6 DEF Lasting
<1>12. WriteKeeps'
  <2>1. ASSUME NEW i \in Jobs, job[i].pc = "write", "src" \in job[i].todo, Cwd[i] \notin Private
        PROVE  Lasting(Cwd[i])' \subseteq job[i].final.src
    <3>1. Cwd[i] = w => Racing(w)
      BY <2>1 DEF Racing, Writing
    <3>2. Lasting(Cwd[i]) \subseteq job[i].final.src
      BY <2>1 DEF WriteKeeps
    <3> QED
      BY <1>11, <3>1, <3>2, Constants
  <2> QED
    BY <1>2, <2>1 DEF WriteKeeps
<1>13. ChangesSurvive'
  <2>1. ASSUME NEW v \in Trees \ Private
        PROVE  Lasting(v)' \subseteq tree'[v].src
    <3>1. Lasting(v) \subseteq tree[v].src
      BY SurviveMeansLasting
    <3> QED
      BY <1>6, <1>11, <3>1
  <2> QED
    BY <1>7, <2>1, LastingSurvives
<1> QED
  BY <1>7, <1>8, <1>9, <1>10, <1>12, <1>13

LEMMA UpgradeStep ==
  ASSUME CanonicalInv, NEW w \in Trees, Upgrade(w)
  PROVE  CanonicalInv'
<1> USE DEF CanonicalInv
<1>1. PICK lock \in Locks :
         /\ w \notin Private /\ spent.upgrades < MaxUpgrades
         /\ tree' = [tree EXCEPT ![w].lock = lock]
         /\ modules' = [modules EXCEPT ![w] = lock]
         /\ spent' = [spent EXCEPT !.upgrades = @ + 1]
         /\ replaced' = replaced \cup {<<j, job[j].cmd>> : j \in {i \in Jobs : Bound(i, w)}}
  BY DEF Upgrade
<1>2. UNCHANGED <<invalid, cache, guard, owner, job, edits, raced, orphaned>>
  BY DEF Upgrade
<1>3. /\ tree \in [Trees -> Contents] /\ modules \in [Trees -> Locks]
      /\ spent \in [upgrades : 0..MaxUpgrades, crashes : 0..MaxCrashes]
  BY DEF TypeOK
<1>4. PICK content \in Contents : content = [src |-> tree[w].src, lock |-> lock]
  BY <1>3 DEF Contents
<1>5. tree' = [tree EXCEPT ![w] = content]
  <2>1. tree[w] \in Contents
    BY <1>3
  <2>2. [tree[w] EXCEPT !.lock = lock] = content
    BY <1>4, <2>1 DEF Contents
  <2> QED
    BY <1>1, <1>3, <2>2
<1>6. /\ \A v \in Trees : tree'[v].src = tree[v].src
      /\ \A v \in Trees \ {w} : tree'[v] = tree[v] /\ modules'[v] = modules[v]
      /\ tree'[w].lock = lock /\ modules'[w] = lock
  <2>1. \A v \in Trees \ {w} : tree'[v] = tree[v] /\ modules'[v] = modules[v]
    BY <1>1, <1>3, <1>5
  <2>2. tree'[w] = content /\ modules'[w] = lock
    BY <1>1, <1>3, <1>5
  <2> QED
    BY <1>4, <2>1, <2>2
<1>7. TypeOK'
  <2>1. tree' \in [Trees -> Contents] /\ modules' \in [Trees -> Locks]
    BY <1>1, <1>3, <1>5
  <2>2. spent' \in [upgrades : 0..MaxUpgrades, crashes : 0..MaxCrashes]
    <3>1. spent.upgrades + 1 \in 0..MaxUpgrades
      BY <1>1, <1>3, CanonicalAssumption DEF CanonicalAssumption
    <3> QED
      BY <1>1, <1>3, <3>1
  <2>3. replaced' \subseteq Jobs \X {"provider", "gate"}
    <3>1. replaced \subseteq Jobs \X {"provider", "gate"}
          /\ \A j \in Jobs : job[j].cmd \in {"provider", "gate"}
      BY DEF TypeOK
    <3> QED
      BY <1>1, <3>1
  <2> QED
    BY <1>2, <2>1, <2>2, <2>3 DEF TypeOK
<1>8. ActiveOwns' /\ PromotionsFollow' /\ GuardsAgree' /\ EntriesAgree'
  BY <1>2 DEF ActiveOwns, Active, PromotionsFollow, GuardsAgree, Populates, EntriesAgree, Key
<1>9. InstallationAgrees' /\ JobsAgree'
  <2>1. InstallationAgrees'
    BY <1>2, <1>6 DEF InstallationAgrees
  <2>2. ASSUME NEW i \in Jobs PROVE Remembers(i, job[i])'
    <3>1. Remembers(i, job[i]) /\ Visible[i] \in Trees
      BY Constants DEF JobsAgree
    <3>2. \/ <<i, job[i].cmd>> \in replaced'
          \/ /\ job[i].pc = "run" /\ job[i].mount.from = "canonical"
                => modules'[Visible[i]] = modules[Visible[i]]
             /\ <<i, job[i].cmd>> \in replaced => <<i, job[i].cmd>> \in replaced'
      BY <1>1, <1>6, <3>1 DEF Bound
    <3> QED
      BY <1>2, <3>1, <3>2 DEF Remembers
  <2> QED
    BY <2>1, <2>2 DEF JobsAgree
<1>10. PromotionExtends'
  <2>1. ASSUME NEW i \in Promotions, job'[i].pc = "new"
        PROVE  HandsOver(Candidate[i], job[Candidate[i]], job[i].base.src)'
    <3>1. HandsOver(Candidate[i], job[Candidate[i]], job[i].base.src)
      BY <1>2, <2>1 DEF PromotionExtends
    <3>2. Cwd[Candidate[i]] \in Trees
      BY Constants
    <3> QED
      BY <1>2, <1>6, <3>1, <3>2 DEF HandsOver
  <2> QED
    BY <2>1 DEF PromotionExtends
<1>11. WriteKeeps' /\ ChangesSurvive'
  BY <1>2, <1>6 DEF WriteKeeps, ChangesSurvive, Lasting
<1> QED
  BY <1>7, <1>8, <1>9, <1>10, <1>11

LEMMA CrashStep ==
  ASSUME CanonicalInv, Crash
  PROVE  CanonicalInv'
<1> USE DEF CanonicalInv
<1>1. /\ spent.crashes < MaxCrashes
      /\ job' = [j \in Jobs |-> IF j \in Active THEN [job[j] EXCEPT !.pc = "ended"] ELSE job[j]]
      /\ owner' = Freed(Active) /\ orphaned' = guard
      /\ spent' = [spent EXCEPT !.crashes = @ + 1]
      /\ UNCHANGED <<tree, modules, invalid, cache, guard, edits, raced, replaced>>
  BY DEF Crash
<1>2. /\ job \in [Jobs -> JobType] /\ owner \in [Trees -> Jobs \cup {0}]
      /\ spent \in [upgrades : 0..MaxUpgrades, crashes : 0..MaxCrashes]
  BY DEF TypeOK, JobType
<1>3. ASSUME NEW j \in Jobs
      PROVE  /\ job'[j] \in JobType /\ j \notin Active'
             /\ job'[j].base = job[j].base /\ job'[j].final = job[j].final
             /\ job'[j].app = job[j].app /\ job'[j].cmd = job[j].cmd
             /\ job'[j] = job[j] \/ (j \in Active /\ job'[j].pc = "ended")
             /\ j \notin Active => job'[j] = job[j]
  <2>1. CASE j \in Active
    <3>1. job'[j] = [job[j] EXCEPT !.pc = "ended"]
      BY <1>1, <2>1
    <3> QED
      BY <1>2, <2>1, <3>1 DEF JobType, Steps, Active
  <2>2. CASE j \notin Active
    <3>1. job'[j] = job[j]
      BY <1>1, <2>2
    <3> QED
      BY <1>2, <2>2, <3>1 DEF Active
  <2> QED
    BY <2>1, <2>2
<1>4. TypeOK'
  <2>1. job' \in [Jobs -> JobType]
    <3>1. job' = [j \in Jobs |-> job'[j]]
      BY <1>1
    <3> QED
      BY <1>3, <3>1
  <2>2. owner' \in [Trees -> Jobs \cup {0}]
    BY <1>1, <1>2 DEF Freed
  <2>3. spent' \in [upgrades : 0..MaxUpgrades, crashes : 0..MaxCrashes]
    <3>1. spent.crashes + 1 \in 0..MaxCrashes
      BY <1>1, <1>2, CanonicalAssumption DEF CanonicalAssumption
    <3> QED
      BY <1>1, <1>2, <3>1
  <2> QED
    BY <1>1, <2>1, <2>2, <2>3 DEF TypeOK, JobType
<1>5. ActiveOwns'
  <2>1. Active' = {}
    BY <1>3 DEF Active
  <2> QED
    BY <2>1 DEF ActiveOwns
<1>6. PromotionsFollow'
  <2>1. ASSUME NEW j \in Promotions, job'[j].pc # "new"
        PROVE  job'[Candidate[j]].pc = "done"
    <3>1. job[j].pc # "new"
      BY <1>3, <2>1, Constants DEF Active
    <3>2. job[Candidate[j]].pc = "done" /\ Candidate[j] \in Jobs
      BY <3>1, Constants DEF PromotionsFollow
    <3>3. Candidate[j] \notin Active
      BY <3>2 DEF Active
    <3> QED
      BY <1>3, <3>2, <3>3
  <2> QED
    BY <2>1 DEF PromotionsFollow
<1>7. \A j \in Jobs : job'[j].pc \in {"new", "opened", "done", "ended"}
  BY <1>3 DEF Active
<1>8. GuardsAgree'
  BY <1>1, <1>7 DEF GuardsAgree, Populates
<1>9. EntriesAgree' /\ InstallationAgrees'
  BY <1>1 DEF EntriesAgree, InstallationAgrees, Key
<1>10. JobsAgree'
  <2>1. ASSUME NEW j \in Jobs
        PROVE  Remembers(j, job[j])'
    <3>1. CASE job'[j].pc = "ended"
      BY <3>1 DEF Remembers, Applying
    <3>2. CASE job'[j].pc # "ended"
      <4>1. job'[j] = job[j] /\ Remembers(j, job[j])
        BY <1>3, <3>2, Known
      <4> QED
        BY <1>1, <4>1, StillRemembers
    <3> QED
      BY <3>1, <3>2
  <2> QED
    BY <2>1 DEF JobsAgree
<1>11. PromotionExtends'
  <2>1. ASSUME NEW i \in Promotions, job'[i].pc = "new"
        PROVE  HandsOver(Candidate[i], job[Candidate[i]], job[i].base.src)'
    <3>1. i \in Jobs /\ Candidate[i] \in Jobs /\ job'[i] = job[i]
      BY <1>3, <2>1, Constants
    <3>2. HandsOver(Candidate[i], job[Candidate[i]], job[i].base.src)
      BY <2>1, <3>1 DEF PromotionExtends
    <3>3. CASE job'[Candidate[i]] = job[Candidate[i]]
      BY <1>1, <3>1, <3>2, <3>3 DEF HandsOver
    <3>4. CASE Candidate[i] \in Active /\ job'[Candidate[i]].pc = "ended"
      BY <1>3, <3>1, <3>2, <3>4 DEF HandsOver, Applying
    <3> QED
      BY <1>3, <3>1, <3>3, <3>4
  <2> QED
    BY <2>1 DEF PromotionExtends
<1>12. WriteKeeps'
  BY <1>7 DEF WriteKeeps
<1>13. ChangesSurvive'
  BY <1>1, <1>3 DEF ChangesSurvive
<1> QED
  BY <1>4, <1>5, <1>6, <1>8, <1>9, <1>10, <1>11, <1>12, <1>13

LEMMA OpenStep ==
  ASSUME CanonicalInv, NEW c \in Jobs, Open(c)
  PROVE  CanonicalInv'
<1> USE DEF CanonicalInv
<1>1. c \in Candidates /\ job[c].pc = "new" /\ Cwd[c] \in Private /\ c \notin Promotions
  BY Constants DEF Open
<1>2. PICK base \in Contents : base = tree[Visible[c]]
  BY Known
<1>3. /\ tree' = [tree EXCEPT ![Cwd[c]] = base]
      /\ job' = [j \in Jobs |-> IF j = c THEN [job[j] EXCEPT !.pc = "opened"]
                                ELSE IF Candidate[j] = c THEN [job[j] EXCEPT !.base = base]
                                ELSE job[j]]
      /\ UNCHANGED <<modules, invalid, cache, guard, owner, edits, raced, replaced, orphaned, spent>>
  BY <1>2 DEF Open, Captured
<1>4. tree \in [Trees -> Contents] /\ job \in [Jobs -> JobType] /\ Cwd[c] \in Trees
  BY Constants DEF TypeOK, JobType
<1>5. /\ job'[c] \in JobType /\ job'[c].pc = "opened" /\ job'[c].cmd = "provider"
      /\ job'[c].app = job[c].app
  <2>1. job'[c] = [job[c] EXCEPT !.pc = "opened"] /\ job[c] \in JobType
    BY <1>3, <1>4
  <2>2. job[c].cmd = "provider"
    BY <1>1, Known DEF Remembers
  <2> QED
    BY <2>1, <2>2 DEF JobType, Steps
<1>6. ASSUME NEW j \in Jobs, j # c
      PROVE  /\ job'[j] \in JobType /\ job'[j].pc = job[j].pc /\ job'[j].app = job[j].app
             /\ Candidate[j] # c => job'[j] = job[j]
             /\ Candidate[j] = c => job[j].pc = "new" /\ job'[j].cmd = "provider" /\ job'[j].base = base
  <2>1. CASE Candidate[j] = c
    <3>1. job'[j] = [job[j] EXCEPT !.base = base] /\ job[j] \in JobType
      BY <1>3, <1>4, <1>6, <2>1
    <3>2. j \in Promotions
      BY <2>1, Constants DEF Promotions
    <3>3. job[j].pc = "new"
      BY <1>1, <2>1, <3>2 DEF PromotionsFollow
    <3>4. job[j].cmd = "provider"
      BY <3>3, Known DEF Remembers
    <3> QED
      BY <2>1, <3>1, <3>3, <3>4 DEF JobType
  <2>2. CASE Candidate[j] # c
    BY <1>3, <1>4, <1>6, <2>2
  <2> QED
    BY <2>1, <2>2
<1>7. \A w \in Trees : w # Cwd[c] => tree'[w] = tree[w]
  BY <1>3, <1>4
<1>8. TypeOK'
  <2>1. tree' \in [Trees -> Contents]
    BY <1>3, <1>4
  <2>2. job' \in [Jobs -> JobType]
    <3>1. job' = [j \in Jobs |-> job'[j]]
      BY <1>3
    <3> QED
      BY <1>5, <1>6, <3>1
  <2> QED
    BY <1>3, <2>1, <2>2 DEF TypeOK, JobType
<1>9. ActiveOwns'
  <2>1. Active' = Active
    BY <1>1, <1>5, <1>6 DEF Active
  <2> QED
    BY <1>3, <2>1 DEF ActiveOwns
<1>10. PromotionsFollow'
  <2>1. ASSUME NEW j \in Promotions, job'[j].pc # "new"
        PROVE  job'[Candidate[j]].pc = "done"
    <3>1. j \in Jobs /\ Candidate[j] \in Jobs /\ job[j].pc # "new"
      BY <1>1, <1>6, <2>1, Constants
    <3>2. job[Candidate[j]].pc = "done"
      BY <3>1 DEF PromotionsFollow
    <3> QED
      BY <1>1, <1>6, <3>1, <3>2
  <2> QED
    BY <2>1 DEF PromotionsFollow
<1>11. GuardsAgree'
  <2>1. \A j \in Jobs : job'[j].pc = "install" <=> job[j].pc = "install"
    BY <1>1, <1>5, <1>6
  <2>2. \A j \in Jobs : job[j].pc = "install" => job'[j].base = job[j].base
    BY <1>1, <1>6
  <2>3. \A j \in Jobs : \A k : Populates(j, k)' <=> Populates(j, k)
    BY <2>1, <2>2 DEF Populates
  <2> QED
    BY <1>3, <2>1, <2>2, <2>3 DEF GuardsAgree, Key
<1>12. EntriesAgree'
  BY <1>3 DEF EntriesAgree, Key
<1>13. InstallationAgrees'
  BY <1>1, <1>3, <1>7 DEF InstallationAgrees
<1>14. JobsAgree'
  <2>1. ASSUME NEW j \in Jobs
        PROVE  Remembers(j, job[j])'
    <3>1. CASE j = c
      BY <1>5, <3>1 DEF Remembers, Applying
    <3>2. CASE j # c /\ Candidate[j] = c
      BY <1>6, <3>2 DEF Remembers, Applying
    <3>3. CASE j # c /\ Candidate[j] # c
      <4>1. job'[j] = job[j] /\ Remembers(j, job[j])
        BY <1>6, <3>3, Known
      <4> QED
        BY <1>3, <4>1, StillRemembers
    <3> QED
      BY <3>1, <3>2, <3>3
  <2> QED
    BY <2>1 DEF JobsAgree
<1>15. PromotionExtends'
  <2>1. ASSUME NEW i \in Promotions, job'[i].pc = "new"
        PROVE  HandsOver(Candidate[i], job[Candidate[i]], job[i].base.src)'
    <3>1. i \in Jobs /\ i # c /\ Candidate[i] \in Jobs /\ Candidate[i] \in Candidates
      BY <1>1, Constants
    <3>2. CASE Candidate[i] = c
      <4>1. job'[i].base = base /\ tree'[Cwd[c]] = base
        BY <1>3, <1>4, <1>6, <3>1, <3>2
      <4> QED
        BY <1>5, <3>2, <4>1 DEF HandsOver, Applying
    <3>3. CASE Candidate[i] # c
      <4>1. HandsOver(Candidate[i], job[Candidate[i]], job[i].base.src)
        BY <1>6, <2>1, <3>1 DEF PromotionExtends
      <4>2. job'[i] = job[i] /\ job'[Candidate[i]] = job[Candidate[i]]
        <5>1. Candidate[Candidate[i]] # c
          BY <3>1, Constants DEF Promotions
        <5> QED
          BY <1>6, <3>1, <3>3, <5>1
      <4>3. Cwd[Candidate[i]] # Cwd[c] /\ Cwd[Candidate[i]] \in Trees
        BY <1>1, <3>1, <3>3, Constants
      <4> QED
        BY <1>7, <4>1, <4>2, <4>3 DEF HandsOver
    <3> QED
      BY <3>2, <3>3
  <2> QED
    BY <2>1 DEF PromotionExtends
<1>16. \A w \in Trees : Lasting(w)' = Lasting(w)
  <2>1. \A j \in Jobs : job'[j].app = job[j].app
    BY <1>5, <1>6
  <2> QED
    BY <1>3, <2>1 DEF Lasting
<1>17. WriteKeeps'
  <2>1. ASSUME NEW i \in Jobs, job'[i].pc = "write", "src" \in job'[i].todo, Cwd[i] \notin Private
        PROVE  Lasting(Cwd[i])' \subseteq job'[i].final.src
    <3>1. job'[i] = job[i]
      BY <1>5, <1>6, <2>1
    <3>2. Lasting(Cwd[i]) \subseteq job[i].final.src
      BY <2>1, <3>1 DEF WriteKeeps
    <3> QED
      BY <1>16, <3>1, <3>2, Constants
  <2> QED
    BY <2>1 DEF WriteKeeps
<1>18. ChangesSurvive'
  <2>1. ASSUME NEW w \in Trees \ Private
        PROVE  Lasting(w)' \subseteq tree'[w].src
    <3>1. Lasting(w) \subseteq tree[w].src
      BY SurviveMeansLasting
    <3> QED
      BY <1>1, <1>7, <1>16, <3>1
  <2> QED
    BY <1>8, <2>1, LastingSurvives
<1> QED
  BY <1>8, <1>9, <1>10, <1>11, <1>12, <1>13, <1>14, <1>15, <1>17, <1>18

LEMMA WriteStep ==
  ASSUME CanonicalInv, NEW j \in Jobs, Write(j)
  PROVE  CanonicalInv'
<1> USE DEF CanonicalInv
<1>1. job[j].pc = "write" /\ j \in Active
  BY DEF Write, Active
<1>2. PICK f \in job[j].todo :
         /\ tree' = [tree EXCEPT ![Cwd[j]][f] = job[j].final[f]]
         /\ job' = [job EXCEPT ![j].todo = @ \ {f},
                               ![j].pc = IF job[j].todo = {f} THEN "verify" ELSE "write"]
  BY DEF Write
<1>3. UNCHANGED <<modules, invalid, cache, guard, owner, edits, raced, replaced, orphaned, spent>>
  BY DEF Write
<1>4. /\ tree \in [Trees -> Contents] /\ job \in [Jobs -> JobType] /\ Cwd[j] \in Trees
      /\ job[j] \in JobType /\ tree[Cwd[j]] \in Contents /\ job[j].final \in Contents
      /\ f \in Files /\ job[j].todo \subseteq Files
  BY <1>2, Constants DEF TypeOK, JobType
<1>5. PICK content \in Contents : content = [tree[Cwd[j]] EXCEPT ![f] = job[j].final[f]]
  <2>1. [tree[Cwd[j]] EXCEPT ![f] = job[j].final[f]] \in Contents
    BY <1>4 DEF Contents, Files
  <2> QED
    BY <2>1
<1>6. tree' = [tree EXCEPT ![Cwd[j]] = content]
  BY <1>2, <1>4, <1>5
<1>7. /\ tree'[Cwd[j]] = content /\ tree' \in [Trees -> Contents]
      /\ \A w \in Trees : w # Cwd[j] => tree'[w] = tree[w]
  BY <1>4, <1>6
<1>8. /\ f = "src" => content.src = job[j].final.src /\ content.lock = tree[Cwd[j]].lock
      /\ f = "lock" => content.src = tree[Cwd[j]].src
      /\ f = "src" \/ f = "lock"
  BY <1>4, <1>5 DEF Contents, Files
<1>9. PICK pc \in {"write", "verify"} : pc = IF job[j].todo = {f} THEN "verify" ELSE "write"
  OBVIOUS
<1>10. PICK m : m = [job[j] EXCEPT !.todo = @ \ {f}, !.pc = pc]
  OBVIOUS
<1>11. /\ m \in JobType /\ m.pc = pc /\ m.cmd = job[j].cmd /\ m.base = job[j].base
       /\ m.final = job[j].final /\ m.todo = job[j].todo \ {f} /\ m.app = job[j].app
  BY <1>4, <1>10 DEF JobType, Steps
<1>12. job' = [job EXCEPT ![j] = m]
  <2>1. job' = [job EXCEPT ![j].todo = @ \ {f}, ![j].pc = pc]
    BY <1>2, <1>9
  <2> QED
    BY <1>4, <1>10, <2>1
<1>13. job'[j] = m /\ job' \in [Jobs -> JobType] /\ \A i \in Jobs \ {j} : job'[i] = job[i]
  BY <1>4, <1>11, <1>12
<1>14. TypeOK'
  BY <1>3, <1>7, <1>13 DEF TypeOK, JobType
<1>15. ActiveOwns'
  <2>1. Active' = Active
    BY <1>1, <1>9, <1>11, <1>13 DEF Active
  <2> QED
    BY <1>3, <2>1 DEF ActiveOwns
<1>16. PromotionsFollow'
  <2>1. ASSUME NEW i \in Promotions, job'[i].pc # "new"
        PROVE  job'[Candidate[i]].pc = "done"
    <3>1. i \in Jobs /\ Candidate[i] \in Jobs /\ job[i].pc # "new"
      BY <1>1, <1>13, <2>1, Constants
    <3>2. job[Candidate[i]].pc = "done"
      BY <3>1 DEF PromotionsFollow
    <3>3. Candidate[i] # j
      BY <1>1, <3>2
    <3> QED
      BY <1>13, <3>1, <3>2, <3>3
  <2> QED
    BY <2>1 DEF PromotionsFollow
<1>17. GuardsAgree'
  BY <1>1, <1>3, <1>9, <1>11, <1>12, GuardsKept
<1>18. EntriesAgree'
  BY <1>3 DEF EntriesAgree, Key
<1>19. InstallationAgrees'
  <2>1. ASSUME NEW w \in Trees \ Private, w \notin invalid
        PROVE  modules[w] = tree'[w].lock
    <3>1. modules[w] = tree[w].lock
      BY <2>1 DEF InstallationAgrees
    <3>2. CASE w = Cwd[j] /\ f = "lock"
      <4>1. job[j].final.lock # job[j].base.lock
        BY <1>1, <1>2, <3>2, Known DEF Remembers
      <4>2. w \in invalid
        BY <1>1, <3>2, <4>1, Known DEF Remembers
      <4> QED
        BY <2>1, <4>2
    <3> QED
      BY <1>7, <1>8, <3>1, <3>2
  <2> QED
    BY <1>3, <2>1 DEF InstallationAgrees
<1>20. JobsAgree'
  <2>1. Remembers(j, m)
    <3>1. Remembers(j, job[j])
      BY Known
    <3> QED
      BY <1>1, <1>9, <1>11, <3>1 DEF Remembers, Applying
  <2>2. ASSUME NEW i \in Jobs
        PROVE  Remembers(i, job'[i])
    BY <1>13, <2>1, Known
  <2> QED
    BY <1>3, <2>2 DEF JobsAgree, Remembers
<1>21. PromotionExtends'
  <2>1. ASSUME NEW i \in Promotions, job'[i].pc = "new"
        PROVE  HandsOver(Candidate[i], job[Candidate[i]], job[i].base.src)'
    <3>1. i # j /\ job'[i] = job[i] /\ Candidate[i] \in Candidates /\ Candidate[i] \in Jobs
      BY <1>9, <1>11, <1>13, <2>1, Constants
    <3>2. HandsOver(Candidate[i], job[Candidate[i]], job[i].base.src)
      BY <2>1, <3>1 DEF PromotionExtends
    <3>3. CASE Candidate[i] = j
      BY <1>1, <1>9, <1>11, <1>13, <3>1, <3>2, <3>3 DEF HandsOver, Applying
    <3>4. CASE Candidate[i] # j
      <4>1. Cwd[Candidate[i]] # Cwd[j] /\ Cwd[Candidate[i]] \in Trees
        BY <3>1, <3>4, Constants
      <4> QED
        BY <1>7, <1>13, <3>1, <3>2, <3>4, <4>1 DEF HandsOver
    <3> QED
      BY <3>3, <3>4
  <2> QED
    BY <2>1 DEF PromotionExtends
<1>22. \A w \in Trees : Lasting(w)' = Lasting(w)
  <2>1. \A i \in Jobs : job'[i].app = job[i].app
    BY <1>11, <1>13
  <2> QED
    BY <1>3, <2>1 DEF Lasting
<1>23. WriteKeeps'
  <2>1. ASSUME NEW i \in Jobs, job'[i].pc = "write", "src" \in job'[i].todo, Cwd[i] \notin Private
        PROVE  Lasting(Cwd[i])' \subseteq job'[i].final.src
    <3>1. /\ job[i].pc = "write" /\ "src" \in job[i].todo /\ job'[i].final = job[i].final
      BY <1>1, <1>11, <1>13, <2>1
    <3>2. Lasting(Cwd[i]) \subseteq job[i].final.src
      BY <2>1, <3>1 DEF WriteKeeps
    <3> QED
      BY <1>22, <3>1, <3>2, Constants
  <2> QED
    BY <2>1 DEF WriteKeeps
<1>24. ChangesSurvive'
  <2>1. ASSUME NEW w \in Trees \ Private
        PROVE  Lasting(w)' \subseteq tree'[w].src
    <3>1. Lasting(w) \subseteq tree[w].src
      BY SurviveMeansLasting
    <3>2. CASE w = Cwd[j] /\ f = "src"
      <4>1. Lasting(w) \subseteq job[j].final.src
        BY <1>1, <1>2, <3>2 DEF WriteKeeps
      <4> QED
        BY <1>7, <1>8, <1>22, <3>2, <4>1
    <3>3. CASE ~(w = Cwd[j] /\ f = "src")
      BY <1>7, <1>8, <1>22, <3>1, <3>3
    <3> QED
      BY <3>2, <3>3
  <2> QED
    BY <1>14, <2>1, LastingSurvives
<1> QED
  BY <1>14, <1>15, <1>16, <1>17, <1>18, <1>19, <1>20, <1>21, <1>23, <1>24

-----------------------------------------------------------------------------
(* The theorems *)

LEMMA InitInv ==
  Init => CanonicalInv
<1> SUFFICES ASSUME Init PROVE CanonicalInv
  OBVIOUS
<1>p. PICK lock \in Locks, installed \in Locks, origin \in SUBSET (Trees \ Private),
           network \in Networks :
         LET content == [src |-> {}, lock |-> lock] IN
         /\ installed # lock => origin = Trees \ Private
         /\ tree = [w \in Trees |-> content]
         /\ modules = [w \in Trees |-> installed]
         /\ invalid = origin
         /\ cache = {}
         /\ guard = {}
         /\ owner = [w \in Trees |-> 0]
         /\ job = [j \in Jobs |-> [pc |-> "new", cmd |-> "provider", base |-> content,
                                   final |-> content, todo |-> {},
                                   mount |-> [from |-> "none", src |-> {}, lock |-> lock],
                                   app |-> "none", network |-> j \in network]]
         /\ edits = [w \in Trees |-> {}]
         /\ raced = {}
         /\ replaced = {}
         /\ orphaned = {}
         /\ spent = [upgrades |-> 0, crashes |-> 0]
  BY Zenon DEF Init
<1>q. PICK content : content = [src |-> {}, lock |-> lock]
  OBVIOUS
<1>1. content \in Contents /\ content.src = {} /\ content.lock = lock
  BY <1>q DEF Contents
<1>2. PICK mount \in Mounts : mount = [from |-> "none", src |-> {}, lock |-> lock]
  BY DEF Mounts
<1>3. ASSUME NEW j \in Jobs
      PROVE  /\ job[j] \in JobType /\ job[j].pc = "new" /\ job[j].cmd = "provider"
             /\ job[j].app = "none" /\ job[j].todo = {} /\ job[j].base = content
  <2>1. \E n \in BOOLEAN : n = (j \in network)
    <3>1. CASE j \in network
      <4>1. (j \in network) = TRUE
        BY <3>1, SMT
      <4> QED
        BY <4>1, Zenon
    <3>2. CASE j \notin network
      <4>1. (j \in network) = FALSE
        BY <3>2, SMT
      <4> QED
        BY <4>1, Zenon
    <3> QED
      BY <3>1, <3>2
  <2>2. PICK n \in BOOLEAN : n = (j \in network)
    BY <2>1
  <2>3. job[j] = [pc |-> "new", cmd |-> "provider", base |-> content, final |-> content, todo |-> {},
                  mount |-> mount, app |-> "none", network |-> n]
    BY <1>p, <1>q, <1>2, <2>2
  <2> QED
    BY <1>1, <2>3 DEF JobType, Steps
<1>4. TypeOK
  <2>1. tree \in [Trees -> Contents] /\ modules \in [Trees -> Locks] /\ invalid \subseteq Trees
    BY <1>p, <1>q, <1>1
  <2>2. /\ cache \subseteq [key : Contents, of : Contents] /\ guard \subseteq Contents
        /\ owner \in [Trees -> Jobs \cup {0}] /\ orphaned \subseteq guard
    BY <1>p
  <2>3. job \in [Jobs -> JobType]
    <3>1. job = [j \in Jobs |-> job[j]]
      BY <1>p, Zenon
    <3> QED
      BY <1>3, <3>1
  <2>4. /\ edits \in [Trees -> SUBSET Edits] /\ raced \subseteq Edits
        /\ replaced \subseteq Jobs \X {"provider", "gate"}
    BY <1>p
  <2>5. spent \in [upgrades : 0..MaxUpgrades, crashes : 0..MaxCrashes]
    BY <1>p, CanonicalAssumption DEF CanonicalAssumption
  <2> QED
    BY <2>1, <2>2, <2>3, <2>4, <2>5 DEF TypeOK, JobType
<1>5. Active = {} /\ ActiveOwns /\ PromotionsFollow /\ WriteKeeps
  BY <1>3, Constants DEF Active, ActiveOwns, PromotionsFollow, WriteKeeps
<1>6. GuardsAgree /\ EntriesAgree
  BY <1>p, <1>3 DEF GuardsAgree, Populates, EntriesAgree
<1>7. InstallationAgrees
  BY <1>p, <1>q, <1>1 DEF InstallationAgrees
<1>8. JobsAgree
  BY <1>3 DEF JobsAgree, Remembers, Applying
<1>9. PromotionExtends
  BY <1>1, <1>3, Constants DEF PromotionExtends, HandsOver, Applying
<1>10. ChangesSurvive
  BY <1>p, <1>3 DEF ChangesSurvive
<1> QED
  BY <1>4, <1>5, <1>6, <1>7, <1>8, <1>9, <1>10 DEF CanonicalInv

LEMMA StutterStep ==
  ASSUME CanonicalInv, UNCHANGED vars
  PROVE  CanonicalInv'
<1> USE DEF CanonicalInv, vars
<1>1. TypeOK' /\ EntriesAgree' /\ InstallationAgrees'
  BY DEF TypeOK, EntriesAgree, InstallationAgrees, Key
<1>2. ActiveOwns' /\ PromotionsFollow' /\ GuardsAgree'
  BY DEF ActiveOwns, Active, PromotionsFollow, GuardsAgree, Populates, Key
<1>3. JobsAgree' /\ PromotionExtends'
  BY DEF JobsAgree, Remembers, PromotionExtends, HandsOver
<1>4. WriteKeeps' /\ ChangesSurvive'
  BY DEF WriteKeeps, ChangesSurvive, Lasting
<1> QED
  BY <1>1, <1>2, <1>3, <1>4

LEMMA NextInv ==
  ASSUME CanonicalInv, [Next]_vars
  PROVE  CanonicalInv'
<1>1. ASSUME NEW w \in Trees, Edit(w) \/ Upgrade(w)
      PROVE  CanonicalInv'
  BY <1>1, EditStep, UpgradeStep
<1>2. ASSUME NEW j \in Jobs, Plan(j) \/ Wake(j) \/ Busy(j) \/ Install(j) \/ InstallFails(j)
      PROVE  CanonicalInv'
  BY <1>2, PlanStep, WakeStep, BusyStep, InstallStep, InstallFailsStep
<1>3. ASSUME NEW j \in Jobs, Open(j) \/ Start(j) \/ CommandEnds(j) \/ Stop(j)
      PROVE  CanonicalInv'
  BY <1>3, OpenStep, StartStep, CommandEndsStep, StopStep
<1>4. ASSUME NEW j \in Jobs, Begin(j) \/ Check(j) \/ Invalidate(j) \/ Intent(j)
      PROVE  CanonicalInv'
  BY <1>4, BeginStep, CheckStep, InvalidateStep, IntentStep
<1>5. ASSUME NEW j \in Jobs, Write(j) \/ WriteFails(j) \/ Complete(j)
      PROVE  CanonicalInv'
  BY <1>5, WriteStep, WriteFailsStep, CompleteStep
<1>6. ASSUME NEW j \in Jobs,
             \/ Plan(j) \/ Wake(j) \/ Busy(j) \/ Install(j) \/ InstallFails(j)
             \/ Open(j) \/ Start(j) \/ CommandEnds(j) \/ Stop(j)
             \/ Begin(j) \/ Check(j) \/ Invalidate(j) \/ Intent(j)
             \/ Write(j) \/ WriteFails(j) \/ Complete(j)
      PROVE  CanonicalInv'
  BY <1>2, <1>3, <1>4, <1>5, <1>6, Zenon
<1> QED
  BY <1>1, <1>6, CrashStep, StutterStep DEF Next

\* The inductive invariant holds always, whatever the jobs, the trees and the bounds.
THEOREM CanonicalAlways == Spec => []CanonicalInv
<1>1. Init => CanonicalInv
  BY InitInv
<1>2. CanonicalInv /\ [Next]_vars => CanonicalInv'
  BY NextInv
<1> QED
  BY <1>1, <1>2, PTL DEF Spec

\* Trees, reservations, cache and jobs keep their shape.
THEOREM TypeCorrect == Spec => []TypeOK
<1>1. CanonicalInv => TypeOK
  BY DEF CanonicalInv
<1> QED
  BY <1>1, CanonicalAlways, PTL

\* A command sees dependencies of the lock, and from the cache of the content, of its own tree,
\* unless the operator replaces the bound installation under it (prepareEvaluationDependencies
\* with canonicalDependenciesAllowed, and the bind mount of buildSandboxPlan).
THEOREM MountsMatch == Spec => []MountsMatchLock
<1>1. CanonicalInv => MountsMatchLock
  <2> SUFFICES ASSUME CanonicalInv, NEW j \in Jobs, job[j].pc = "run"
               PROVE  \/ job[j].mount.from = "canonical" /\ <<j, job[j].cmd>> \in replaced
                      \/ /\ Seen(j) = job[j].base.lock
                         /\ job[j].mount.from = "cache" => job[j].mount.src = job[j].base.src
    BY DEF MountsMatchLock
  <2> QED
    BY Known DEF Remembers, Seen
<1> QED
  BY <1>1, CanonicalAlways, PTL

\* No application undoes an edit made outside of it or an application completed before it
\* (assertCanonicalIdentity before the intent and applyDelta's after).
THEOREM NothingIsUndone == Spec => []ChangesSurvive
<1>1. CanonicalInv => ChangesSurvive
  BY DEF CanonicalInv
<1> QED
  BY <1>1, CanonicalAlways, PTL

\* At most one job populates an entry, and every guard that has its daemon is held by one
\* (the guard directory of prepareEvaluationDependencies).
THEOREM GuardIsHeld == Spec => []GuardHasHolder
<1>1. ASSUME CanonicalInv
      PROVE  GuardHasHolder
  <2>1. GuardsAgree
    BY <1>1 DEF CanonicalInv
  <2>2. ASSUME NEW k \in guard \ orphaned
        PROVE  Cardinality({j \in Jobs : job[j].pc = "install" /\ Key(job[j].base) = k}) = 1
    <3>1. PICK j \in Jobs : Populates(j, k)
      BY <2>1 DEF GuardsAgree
    <3>2. \A i \in Jobs : Populates(i, k) => i = j
      BY <2>1, <3>1 DEF GuardsAgree
    <3>3. {i \in Jobs : job[i].pc = "install" /\ Key(job[i].base) = k} = {j}
      BY <3>1, <3>2 DEF Populates
    <3> QED
      BY <3>3, FS_Singleton
  <2> QED
    BY <2>1, <2>2 DEF GuardHasHolder, GuardsAgree
<1> QED
  BY <1>1, CanonicalAlways, PTL
=============================================================================
