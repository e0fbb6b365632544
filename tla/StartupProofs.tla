--------------------------- MODULE StartupProofs ---------------------------
(***************************************************************************)
(* What holds of the start for every number of replicas, migrations and    *)
(* labels, whichever replica stops wherever.                               *)
(***************************************************************************)
EXTENDS Startup, SequenceTheorems, TLAPS

----------------------------------------------------------------------------
(* The invariant.                                                          *)

Locking == {"check", "execute", "commit"}
Migrating == {"lock"} \cup Locking
AfterMigrations == {"badge", "cities", "content", "user", "userPrefs", "admin", "adminPrefs", "serving"}

\* A replica comes to a file when all before it are applied, executes the first
\* that is not, and seeds when there is none.
Migrates(q) ==
    /\ q.step \in Migrating => q.next \in 1..Len(Files) /\ q.next <= Len(ran) + 1
    /\ q.step \in {"execute", "commit"} => q.next = Len(ran) + 1
    /\ q.step \in AfterMigrations => Len(ran) = Len(Files)

\* The bodies that took effect are the first files, and what is recorded is them.
Prefix ==
    /\ ran \in Seq(ToSet(Files))
    /\ Len(ran) \in 0..Len(Files)
    /\ ran = SubSeq(Files, 1, Len(ran))
    /\ applied = ToSet(ran)

Named(e) == accounts[e] \in {Account(Role[e], TRUE), Account(Role[e], FALSE)}
Complete(e) == accounts[e] = Account(Role[e], TRUE)

\* The replica has come to one of the steps, or serves after all of them.
Past(q, steps) == q.step \in steps \/ (q.step = "serving" /\ DemoMode)

\* What a replica has seeded is there when it comes to the next step.
Seeded(q) ==
    /\ q.step = "badge" =>
        /\ q.next \in 1..(Len(Labels) + 1)
        /\ \A i \in 1..Len(Labels) : i < q.next => Labels[i] \in badges
    /\ Past(q, {"cities", "content", "user", "userPrefs", "admin", "adminPrefs"}) =>
        badges = ToSet(Labels)
    /\ Past(q, {"content", "user", "userPrefs", "admin", "adminPrefs"}) => cities
    /\ Past(q, {"user", "userPrefs", "admin", "adminPrefs"}) => content
    /\ Past(q, {"userPrefs"}) => Named(User)
    /\ Past(q, {"admin", "adminPrefs"}) => Complete(User)
    /\ Past(q, {"adminPrefs"}) => Named(Admin)
    /\ Past(q, {}) => Complete(Admin)

StartupInv ==
    /\ TypeOK
    /\ Prefix
    /\ \A r \in Replicas : Migrates(replica[r]) /\ Seeded(replica[r])

\* No step takes back what was seeded.
Kept ==
    /\ \A i \in 1..Len(Labels) : Labels[i] \in badges => Labels[i] \in badges'
    /\ badges = ToSet(Labels) => badges' = ToSet(Labels)
    /\ cities => cities'
    /\ content => content'
    /\ \A e \in Emails : (Named(e) => Named(e)') /\ (Complete(e) => Complete(e)')

----------------------------------------------------------------------------
(* Lemmas.                                                                 *)

\* The files are a sequence without duplicates and with a first one.
LEMMA FilesType ==
    /\ Files \in Seq(ToSet(Files)) /\ Labels \in Seq(ToSet(Labels))
    /\ Len(Files) \in Nat \ {0} /\ Len(Labels) \in Nat
    /\ \A i \in 1..Len(Files) : Files[i] \in ToSet(Files)
    /\ \A i, j \in 1..Len(Files) : Files[i] = Files[j] => i = j
<1>1. Files \in Seq(ToSet(Files)) /\ Labels \in Seq(ToSet(Labels)) /\ Files # <<>>
  BY StartupAssumption
<1>2. DOMAIN Files = 1..Len(Files) /\ Len(Files) \in Nat /\ Len(Labels) \in Nat
  BY <1>1, LenProperties
<1>3. Len(Files) # 0
  BY <1>1, EmptySeq
<1>4. \A i \in 1..Len(Files) : Files[i] \in ToSet(Files)
  BY <1>2 DEF ToSet
<1>5. \A i, j \in 1..Len(Files) : Files[i] = Files[j] => i = j
  BY <1>2, StartupAssumption DEF IsInjective
<1>. QED  BY <1>1, <1>2, <1>3, <1>4, <1>5

\* The labels are the badges of the vocabulary.
LEMMA LabelsType ==
    ToSet(Labels) = {Labels[i] : i \in 1..Len(Labels)}
<1>1. DOMAIN Labels = 1..Len(Labels)
  BY StartupAssumption, LenProperties
<1>. QED  BY <1>1 DEF ToSet

\* A file is recorded if and only if it is among the first ones that were run.
LEMMA AppliedFiles ==
    ASSUME Prefix, NEW i \in 1..Len(Files)
    PROVE  Files[i] \in applied <=> i <= Len(ran)
<1>. DEFINE n == Len(ran)
<1>1. n \in 0..Len(Files) /\ Len(Files) \in Nat /\ ran = SubSeq(Files, 1, n)
  BY FilesType DEF Prefix
<1>2. \A j \in 1..n : Files[j] \in ToSet(Files)
  BY <1>1, FilesType
<1>3. \A j \in 1..n : ran[j] = Files[j]
  BY <1>1, <1>2, SubSeqProperties
<1>4. DOMAIN ran = 1..n
  BY LenProperties DEF Prefix
<1>5. applied = {Files[j] : j \in 1..n}
  BY <1>3, <1>4 DEF Prefix, ToSet
<1>. QED  BY <1>1, <1>5, FilesType

\* When all files were run the first one is recorded, and all of them are.
LEMMA AllApplied ==
    ASSUME Prefix, Len(ran) = Len(Files)
    PROVE  Files[1] \in applied /\ applied = ToSet(Files)
<1>1. 1 \in 1..Len(Files) /\ 1 <= Len(ran)
  BY FilesType DEF Prefix
<1>2. applied = ToSet(Files)
  BY FilesType, SubSeqFull DEF Prefix
<1>. QED  BY <1>1, <1>2, AppliedFiles

\* A replica that goes to another step.
LEMMA GoesTo ==
    ASSUME TypeOK, NEW r \in Replicas, NEW step \in Steps, NEW next \in Numbers,
           Goes(r, step, next)
    PROVE  /\ replica' \in [Replicas -> [step: Steps, next: Numbers]]
           /\ replica'[r].step = step /\ replica'[r].next = next
           /\ \A p \in Replicas : p # r => replica'[p] = replica[p]
BY DEF TypeOK, Goes, At

\* The advisory lock after a step of r, and who waits for it or holds it.
LockStep(r, step) ==
    /\ lock' \in Replicas \cup {None}
    /\ step \in Locking <=> lock' = r
    /\ \A p \in Replicas : p # r => (lock' = p <=> lock = p)

\* The types of what no replica has of its own.
SharedOK ==
    /\ table \in BOOLEAN
    /\ badges \subseteq ToSet(Labels) \cup {StaleLabel}
    /\ cities \in BOOLEAN
    /\ content \in BOOLEAN
    /\ accounts \in [Emails -> UserRows \cup {None}]
    /\ starts \in 0..MaxStarts

\* What a replica has seeded is there after the steps of others.
LEMMA SeededStays ==
    ASSUME NEW q, Seeded(q), Kept
    PROVE  Seeded(q)'
<1>. User \in Emails /\ Admin \in Emails
  BY DEF Emails
<1>1. Named(User) => Named(User)'
  BY DEF Kept
<1>2. Complete(User) => Complete(User)'
  BY DEF Kept
<1>3. Named(Admin) => Named(Admin)'
  BY DEF Kept
<1>4. Complete(Admin) => Complete(Admin)'
  BY DEF Kept
<1>5. /\ \A i \in 1..Len(Labels) : Labels[i] \in badges => Labels[i] \in badges'
      /\ badges = ToSet(Labels) => badges' = ToSet(Labels)
      /\ cities => cities'
      /\ content => content'
  BY Zenon DEF Kept
<1>. QED  BY <1>1, <1>2, <1>3, <1>4, <1>5, Zenon DEF Seeded

\* A step of one replica keeps the invariant if the replica comes to where it may be.
LEMMA OneReplica ==
    ASSUME StartupInv, NEW r \in Replicas, NEW step \in Steps, NEW next \in Numbers,
           Goes(r, step, next), LockStep(r, step), SharedOK', Kept, Prefix',
           \A p \in Replicas : p # r => Migrates(replica[p])',
           Migrates(At(step, next))', Seeded(At(step, next))'
    PROVE  StartupInv'
<1>1. TypeOK
  BY DEF StartupInv
<1>2. /\ replica' \in [Replicas -> [step: Steps, next: Numbers]]
      /\ replica'[r].step = step
      /\ \A p \in Replicas : p # r => replica'[p] = replica[p]
  BY <1>1, GoesTo
<1>3. replica'[r] = At(step, next)
  BY <1>1 DEF TypeOK, Goes
<1>4. \A p \in Replicas : p # r => Seeded(replica[p])'
  <2>1. SUFFICES ASSUME NEW p \in Replicas, p # r PROVE Seeded(replica[p])'
    OBVIOUS
  <2>2. PICK q : q = replica[p]
    OBVIOUS
  <2>3. Seeded(q)'
    BY <2>2, SeededStays DEF StartupInv
  <2>. QED  BY <1>2, <2>1, <2>2, <2>3 DEF Seeded, Past
<1>5. \A p \in Replicas : Migrates(replica[p])' /\ Seeded(replica[p])'
  BY <1>3, <1>4 DEF Migrates, Seeded, Past
<1>6. ASSUME NEW p \in Replicas
      PROVE  replica'[p].step \in Locking <=> lock' = p
  <2>1. CASE p = r
    BY <1>2, <2>1 DEF LockStep
  <2>2. CASE p # r
    BY <1>1, <1>2, <2>2 DEF LockStep, TypeOK, Locking
  <2>. QED  BY <2>1, <2>2
<1>7. ToSet(ran)' \subseteq ToSet(Files)
  <2>1. ran' \in Seq(ToSet(Files))
    BY DEF Prefix
  <2>2. \A i \in DOMAIN ran' : ran'[i] \in ToSet(Files)
    BY <2>1, LenProperties, ElementOfSeq
  <2>. QED  BY <2>2 DEF ToSet
<1>8. TypeOK'
  BY <1>2, <1>6, <1>7 DEF TypeOK, LockStep, SharedOK, Prefix, Locking
<1>. QED  BY <1>5, <1>8 DEF StartupInv

\* So does one that migrates and seeds nothing.
LEMMA QuietReplica ==
    ASSUME StartupInv, NEW r \in Replicas, NEW step \in Steps, NEW next \in Numbers,
           Goes(r, step, next), LockStep(r, step), table' \in BOOLEAN,
           starts' \in 0..MaxStarts, UNCHANGED <<applied, ran, seed>>,
           Migrates(At(step, next)), Seeded(At(step, next))
    PROVE  StartupInv'
<1>1. SharedOK' /\ Kept
  BY DEF SharedOK, Kept, seed, StartupInv, TypeOK, Named, Complete
<1>2. Prefix'
  BY DEF StartupInv, Prefix
<1>3. \A p \in Replicas : p # r => Migrates(replica[p])'
  <2>1. SUFFICES ASSUME NEW p \in Replicas, p # r PROVE Migrates(replica[p])'
    OBVIOUS
  <2>2. replica'[p] = replica[p] /\ Migrates(replica[p])
    BY <2>1, GoesTo DEF StartupInv
  <2>. QED  BY <2>2 DEF Migrates
<1>4. Migrates(At(step, next))'
  BY DEF Migrates, At
<1>5. PICK q : q = At(step, next)
  OBVIOUS
<1>6. Seeded(q)'
  BY <1>1, <1>5, SeededStays
<1>. QED  BY <1>1, <1>2, <1>3, <1>4, <1>5, <1>6, OneReplica

\* And one that seeds, if what it seeds stays.
LEMMA SeedReplica ==
    ASSUME StartupInv, NEW r \in Replicas, NEW step \in Steps, NEW next \in Numbers,
           replica[r].step \notin Locking, step \in AfterMigrations,
           replica[r].step \in AfterMigrations, Goes(r, step, next), UNCHANGED schema,
           SharedOK', Kept, Seeded(At(step, next))'
    PROVE  StartupInv'
<1>1. UNCHANGED <<table, applied, lock, starts, ran>>
  BY DEF schema
<1>2. LockStep(r, step)
  BY <1>1 DEF LockStep, StartupInv, TypeOK, Locking, AfterMigrations
<1>3. Prefix'
  BY <1>1 DEF StartupInv, Prefix
<1>4. \A p \in Replicas : p # r => Migrates(replica[p])'
  <2>1. SUFFICES ASSUME NEW p \in Replicas, p # r PROVE Migrates(replica[p])'
    OBVIOUS
  <2>2. replica'[p] = replica[p] /\ Migrates(replica[p])
    BY <2>1, GoesTo DEF StartupInv
  <2>. QED  BY <1>1, <2>2 DEF Migrates
<1>5. Migrates(At(step, next))'
  BY <1>1 DEF StartupInv, Migrates, At, AfterMigrations, Migrating, Locking
<1>. QED  BY <1>2, <1>3, <1>4, <1>5, OneReplica

\* A replica that has not begun to seed has seeded nothing yet.
LEMMA NotSeeding ==
    ASSUME NEW step, NEW next,
           step \notin {"badge", "cities", "content", "user", "userPrefs", "admin",
                        "adminPrefs", "serving"}
    PROVE  Seeded(At(step, next))
BY DEF Seeded, Past, At

\* The first step and the first file are there.
LEMMA FirstNumber ==
    /\ 1 \in Numbers
    /\ \A i \in 1..Len(Files) : i \in Numbers
    /\ \A i \in 1..(Len(Labels) + 1) : i \in Numbers
BY FilesType DEF Numbers

----------------------------------------------------------------------------
(* The actions.                                                            *)

\* The start of a replica and its end keep the invariant.
LEMMA LifeSteps ==
    ASSUME StartupInv, NEW r \in Replicas, Start(r) \/ Stop(r) \/ Exit(r)
    PROVE  StartupInv'
<1>. TypeOK
  BY DEF StartupInv
<1>. replica[r] \in [step: Steps, next: Numbers]
  BY DEF TypeOK
<1>1. CASE Start(r)
  <2>1. starts' \in 0..MaxStarts /\ table' \in BOOLEAN /\ UNCHANGED <<applied, lock, ran, seed>>
    BY <1>1, StartupAssumption DEF Start, TypeOK
  <2>2. LockStep(r, "table")
    BY <1>1, <2>1 DEF LockStep, Start, TypeOK, Locking, Down, At
  <2>3. Migrates(At("table", 1)) /\ Seeded(At("table", 1))
    BY NotSeeding DEF Migrates, At, AfterMigrations, Migrating, Locking
  <2>. QED  BY <1>1, <2>1, <2>2, <2>3, FirstNumber, QuietReplica DEF Start, Steps
<1>2. CASE Stop(r)
  <2>1. starts' \in 0..MaxStarts /\ table' \in BOOLEAN /\ UNCHANGED <<applied, ran, seed>>
    BY <1>2 DEF Stop, TypeOK
  <2>2. LockStep(r, "down")
    BY <1>2, NoneAssumption DEF LockStep, Stop, TypeOK, Locking
  <2>3. Migrates(At("down", 1)) /\ Seeded(At("down", 1))
    BY NotSeeding DEF Migrates, At, AfterMigrations, Migrating, Locking
  <2>4. Goes(r, "down", 1)
    BY <1>2 DEF Stop, Goes, Down
  <2>. QED  BY <2>1, <2>2, <2>3, <2>4, FirstNumber, QuietReplica DEF Steps
<1>3. CASE Exit(r)
  <2>1. starts' \in 0..MaxStarts /\ table' \in BOOLEAN /\ UNCHANGED <<applied, lock, ran, seed>>
    BY <1>3 DEF Exit, TypeOK
  <2>2. LockStep(r, "down")
    BY <1>3, <2>1 DEF LockStep, Exit, Is, TypeOK, Locking
  <2>3. Migrates(At("down", 1)) /\ Seeded(At("down", 1))
    BY NotSeeding DEF Migrates, At, AfterMigrations, Migrating, Locking
  <2>. QED  BY <1>3, <2>1, <2>2, <2>3, FirstNumber, QuietReplica DEF Exit, Steps
<1>. QED  BY <1>1, <1>2, <1>3

\* After a file comes the next one, or the seed, or the service.
LEMMA NextStep ==
    ASSUME StartupInv, NEW r \in Replicas, replica[r].step \in Migrating, NextFile(r)
    PROVE  \E step \in {"lock", "badge", "serving"}, next \in Numbers :
            /\ Goes(r, step, next)
            /\ Seeded(At(step, next))
            /\ step = "lock" => next = replica[r].next + 1 /\ next \in 1..Len(Files)
            /\ step # "lock" => replica[r].next = Len(Files)
<1>1. replica[r].next \in 1..Len(Files) /\ Len(Files) \in Nat
  BY FilesType DEF StartupInv, Migrates
<1>2. CASE replica[r].next < Len(Files)
  <2>1. Goes(r, "lock", replica[r].next + 1) /\ replica[r].next + 1 \in 1..Len(Files)
    BY <1>1, <1>2 DEF NextFile
  <2>2. Seeded(At("lock", replica[r].next + 1))
    BY NotSeeding
  <2>. QED  BY <2>1, <2>2, FirstNumber
<1>3. CASE replica[r].next = Len(Files) /\ DemoMode
  <2>1. Goes(r, "badge", 1)
    BY <1>1, <1>3 DEF NextFile
  <2>2. Seeded(At("badge", 1))
    BY FilesType DEF Seeded, Past, At
  <2>. QED  BY <1>3, <2>1, <2>2, FirstNumber
<1>4. CASE replica[r].next = Len(Files) /\ ~DemoMode
  <2>1. Goes(r, "serving", 1)
    BY <1>1, <1>4 DEF NextFile
  <2>2. Seeded(At("serving", 1))
    BY <1>4 DEF Seeded, Past, At
  <2>. QED  BY <1>4, <2>1, <2>2, FirstNumber
<1>. QED  BY <1>1, <1>2, <1>3, <1>4

\* Looking for the table, creating it, and the lock keep the invariant.
LEMMA LockSteps ==
    ASSUME StartupInv, NEW r \in Replicas,
           LookForTable(r) \/ CreateTable(r) \/ Lock(r) \/ Execute(r)
    PROVE  StartupInv'
<1>. TypeOK
  BY DEF StartupInv
<1>. replica[r] \in [step: Steps, next: Numbers]
  BY DEF TypeOK
<1>m. Migrates(replica[r]) /\ Prefix
  BY DEF StartupInv
<1>0. /\ Migrates(At("lock", 1)) /\ Migrates(At("creating", 1)) /\ Migrates(At("refused", 1))
      /\ \A n : Seeded(At("lock", n)) /\ Seeded(At("creating", n)) /\ Seeded(At("refused", n))
                /\ Seeded(At("check", n)) /\ Seeded(At("commit", n))
  <2>1. 1 \in 1..Len(Files) /\ 1 <= Len(ran) + 1
    BY <1>m, FilesType DEF Prefix
  <2>. QED  BY <2>1, NotSeeding DEF Migrates, At, AfterMigrations, Migrating, Locking
<1>1. CASE LookForTable(r)
  <2>1. starts' \in 0..MaxStarts /\ table' \in BOOLEAN /\ UNCHANGED <<applied, lock, ran, seed>>
    BY <1>1 DEF LookForTable, TypeOK
  <2>2. LockStep(r, "lock") /\ LockStep(r, "creating")
    BY <1>1, <2>1 DEF LockStep, LookForTable, Is, TypeOK, Locking
  <2>. QED  BY <1>0, <1>1, <2>1, <2>2, FirstNumber, QuietReplica DEF LookForTable, Steps
<1>2. CASE CreateTable(r)
  <2>1. starts' \in 0..MaxStarts /\ table' \in BOOLEAN /\ UNCHANGED <<applied, lock, ran, seed>>
    BY <1>2 DEF CreateTable, TypeOK
  <2>2. LockStep(r, "lock") /\ LockStep(r, "refused")
    BY <1>2, <2>1 DEF LockStep, CreateTable, Is, TypeOK, Locking
  <2>. QED  BY <1>0, <1>2, <2>1, <2>2, FirstNumber, QuietReplica DEF CreateTable, Steps
<1>3. CASE Lock(r)
  <2>1. starts' \in 0..MaxStarts /\ table' \in BOOLEAN /\ UNCHANGED <<applied, ran, seed>>
    BY <1>3 DEF Lock, TypeOK
  <2>2. LockStep(r, "check")
    BY <1>3, NoneAssumption DEF LockStep, Lock, TypeOK, Locking
  <2>3. Migrates(At("check", replica[r].next)) /\ replica[r].next \in Numbers
    BY <1>3, <1>m DEF Lock, Is, Migrates, At, AfterMigrations, Migrating, Locking
  <2>. QED  BY <1>0, <1>3, <2>1, <2>2, <2>3, QuietReplica DEF Lock, Steps
<1>4. CASE Execute(r)
  <2>1. starts' \in 0..MaxStarts /\ table' \in BOOLEAN /\ UNCHANGED <<applied, lock, ran, seed>>
    BY <1>4 DEF Execute, TypeOK
  <2>2. LockStep(r, "commit")
    BY <1>4, <2>1 DEF LockStep, Execute, Is, TypeOK, Locking
  <2>3. Migrates(At("commit", replica[r].next)) /\ replica[r].next \in Numbers
    BY <1>4, <1>m DEF Execute, Is, Migrates, At, AfterMigrations, Migrating, Locking
  <2>. QED  BY <1>0, <1>4, <2>1, <2>2, <2>3, QuietReplica DEF Execute, Steps
<1>. QED  BY <1>1, <1>2, <1>3, <1>4

\* A file that is recorded is left out; the next one that is not is executed.
LEMMA CheckStep ==
    ASSUME StartupInv, NEW r \in Replicas, Check(r)
    PROVE  StartupInv'
<1>. TypeOK /\ Prefix
  BY DEF StartupInv
<1>. replica[r] \in [step: Steps, next: Numbers]
  BY DEF TypeOK
<1>. DEFINE next == replica[r].next
<1>1. /\ replica[r].step = "check" /\ replica[r].step \in Migrating
      /\ next \in 1..Len(Files) /\ next <= Len(ran) + 1 /\ next \in Numbers
      /\ Len(ran) \in 0..Len(Files) /\ Len(Files) \in Nat
  BY FilesType DEF StartupInv, Check, Is, Migrates, Migrating, Locking, Prefix
<1>2. starts' \in 0..MaxStarts /\ table' \in BOOLEAN /\ UNCHANGED <<applied, ran, seed>>
  BY DEF Check, TypeOK
<1>3. lock = r
  BY <1>1 DEF TypeOK
<1>4. CASE File(r) \in applied
  <2>1. NextFile(r) /\ lock' = None
    BY <1>4 DEF Check
  <2>2. next <= Len(ran)
    BY <1>1, <1>4, AppliedFiles DEF File
  <2>3. PICK step \in {"lock", "badge", "serving"}, then \in Numbers :
            /\ Goes(r, step, then)
            /\ Seeded(At(step, then))
            /\ step = "lock" => then = next + 1 /\ then \in 1..Len(Files)
            /\ step # "lock" => next = Len(Files)
    BY <1>1, <2>1, NextStep
  <2>4. LockStep(r, step)
    BY <1>3, <2>1, NoneAssumption DEF LockStep, Locking
  <2>5. Migrates(At(step, then))
    BY <1>1, <2>2, <2>3 DEF Migrates, At, AfterMigrations, Migrating, Locking
  <2>. QED  BY <1>2, <2>3, <2>4, <2>5, QuietReplica DEF Steps
<1>5. CASE File(r) \notin applied
  <2>1. Goes(r, "execute", next) /\ UNCHANGED lock
    BY <1>5 DEF Check
  <2>2. ~(next <= Len(ran))
    BY <1>1, <1>5, AppliedFiles DEF File
  <2>3. LockStep(r, "execute")
    BY <1>3, <2>1 DEF LockStep, Locking, TypeOK
  <2>4. Migrates(At("execute", next)) /\ Seeded(At("execute", next))
    BY <1>1, <2>2, NotSeeding DEF Migrates, At, AfterMigrations, Migrating, Locking
  <2>. QED  BY <1>1, <1>2, <2>1, <2>3, <2>4, QuietReplica DEF Steps
<1>. QED  BY <1>4, <1>5

\* A file that is committed is the next one, and nobody else is at it.
LEMMA CommitStep ==
    ASSUME StartupInv, NEW r \in Replicas, Commit(r)
    PROVE  StartupInv'
<1>. TypeOK /\ Prefix
  BY DEF StartupInv
<1>. replica[r] \in [step: Steps, next: Numbers]
  BY DEF TypeOK
<1>. DEFINE n == Len(ran)
<1>1. /\ replica[r].step = "commit" /\ replica[r].step \in Migrating
      /\ replica[r].next = n + 1 /\ n + 1 \in 1..Len(Files)
      /\ n \in 0..Len(Files) /\ Len(Files) \in Nat
  BY FilesType DEF StartupInv, Commit, Is, Migrates, Migrating, Locking, Prefix
<1>2. lock = r
  BY <1>1 DEF TypeOK, Locking
<1>3. /\ ran' = Append(ran, Files[n + 1]) /\ applied' = applied \cup {Files[n + 1]}
      /\ lock' = None /\ NextFile(r) /\ UNCHANGED <<table, seed, starts>>
  BY <1>1 DEF Commit, File
<1>4. Files[n + 1] \in ToSet(Files)
  BY <1>1, FilesType
<1>5. ran' \in Seq(ToSet(Files)) /\ Len(ran') = n + 1
  BY <1>3, <1>4, AppendProperties DEF Prefix
<1>6. Prefix'
  <2>1. ran' = ran \o <<Files[n + 1]>>
    BY <1>3, <1>4, AppendIsConcat DEF Prefix
  <2>2. SubSeq(Files, 1, n + 1) = SubSeq(Files, 1, n) \o <<Files[n + 1]>>
    <3>1. 1 \in 1..Len(Files) /\ n + 1 \in 1..Len(Files) /\ (n + 1) - 1 = n
      BY <1>1, FilesType
    <3>. QED  BY <3>1, FilesType, SubSeqRecursiveSecond
  <2>3. ran' = SubSeq(Files, 1, n + 1)
    BY <2>1, <2>2 DEF Prefix
  <2>4. DOMAIN ran = 1..n /\ DOMAIN ran' = 1..(n + 1)
    BY <1>5, LenProperties DEF Prefix
  <2>5. (\A i \in 1..n : ran'[i] = ran[i]) /\ ran'[n + 1] = Files[n + 1]
    BY <1>3, <1>4, AppendProperties DEF Prefix
  <2>6. ToSet(ran') = ToSet(ran) \cup {Files[n + 1]}
    BY <1>1, <2>4, <2>5 DEF ToSet
  <2>7. applied' = ToSet(ran')
    BY <1>3, <2>6 DEF Prefix
  <2>8. n + 1 \in 0..Len(Files)
    BY <1>1
  <2>. QED  BY <1>5, <2>3, <2>7, <2>8 DEF Prefix
<1>7. PICK step \in {"lock", "badge", "serving"}, then \in Numbers :
          /\ Goes(r, step, then)
          /\ Seeded(At(step, then))
          /\ step = "lock" => then = replica[r].next + 1 /\ then \in 1..Len(Files)
          /\ step # "lock" => replica[r].next = Len(Files)
  BY <1>1, <1>3, NextStep
<1>8. LockStep(r, step)
  BY <1>2, <1>3, NoneAssumption DEF LockStep, Locking
<1>9. Migrates(At(step, then))'
  BY <1>1, <1>5, <1>7 DEF Migrates, At, AfterMigrations, Migrating, Locking
<1>10. Seeded(At(step, then))'
  BY <1>3, <1>7 DEF Seeded, Past, seed, Named, Complete
<1>11. \A p \in Replicas : p # r => Migrates(replica[p])'
  <2>1. SUFFICES ASSUME NEW p \in Replicas, p # r PROVE Migrates(replica[p])'
    OBVIOUS
  <2>2. step \in Steps
    BY <1>7 DEF Steps
  <2>3. replica'[p] = replica[p] /\ Migrates(replica[p])
    BY <1>7, <2>1, <2>2, GoesTo DEF StartupInv
  <2>4. replica[p].step \notin {"execute", "commit"}
    BY <1>2, <2>1 DEF TypeOK
  <2>. QED  BY <1>1, <1>5, <2>3, <2>4 DEF Migrates
<1>12. SharedOK' /\ Kept
  BY <1>3 DEF SharedOK, Kept, seed, TypeOK, Named, Complete
<1>. QED  BY <1>6, <1>7, <1>8, <1>9, <1>10, <1>11, <1>12, OneReplica DEF Steps

\* A badge is added to the vocabulary, or the rest of it goes.
LEMMA BadgeStep ==
    ASSUME StartupInv, NEW r \in Replicas, SeedBadge(r)
    PROVE  StartupInv'
<1>. TypeOK /\ Seeded(replica[r])
  BY DEF StartupInv
<1>. replica[r] \in [step: Steps, next: Numbers]
  BY DEF TypeOK
<1>1. PICK k \in 1..(Len(Labels) + 1) : k = replica[r].next
  BY DEF SeedBadge, Is, Seeded
<1>2. /\ replica[r].step = "badge" /\ replica[r].step \notin Locking
      /\ replica[r].step \in AfterMigrations
      /\ \A i \in 1..Len(Labels) : i < k => Labels[i] \in badges
  BY <1>1 DEF SeedBadge, Is, Seeded, Locking, AfterMigrations
<1>3. UNCHANGED schema /\ UNCHANGED <<cities, content, accounts>>
  BY DEF SeedBadge
<1>4. Len(Labels) \in Nat
  BY FilesType
<1>5. CASE k <= Len(Labels)
  <2>1. badges' = badges \cup {Labels[k]} /\ Goes(r, "badge", k + 1)
    BY <1>1, <1>5 DEF SeedBadge
  <2>2. Labels[k] \in ToSet(Labels)
    BY <1>4, <1>5, LabelsType
  <2>3. SharedOK'
    BY <1>3, <2>1, <2>2 DEF schema, SharedOK, TypeOK
  <2>4. Kept
    BY <1>3, <2>1, <2>2 DEF Kept, Named, Complete
  <2>5. k + 1 \in 1..(Len(Labels) + 1)
    BY <1>4, <1>5
  <2>6. \A i \in 1..Len(Labels) : i < k + 1 => Labels[i] \in badges'
    BY <1>2, <1>4, <2>1
  <2>7. Seeded(At("badge", k + 1))'
    BY <2>5, <2>6 DEF Seeded, Past, At
  <2>. QED  BY <1>2, <1>3, <2>1, <2>3, <2>4, <2>5, <2>7, FirstNumber, SeedReplica DEF Steps, AfterMigrations
<1>6. CASE ~(k <= Len(Labels))
  <2>1. badges' = badges \cap ToSet(Labels) /\ Goes(r, "cities", 1)
    BY <1>1, <1>6 DEF SeedBadge
  <2>2. badges' = ToSet(Labels)
    BY <1>2, <1>4, <1>6, <2>1, LabelsType
  <2>3. SharedOK'
    BY <1>3, <2>2 DEF schema, SharedOK, TypeOK
  <2>4. Kept
    BY <1>3, <2>2, LabelsType DEF Kept, Named, Complete
  <2>5. Seeded(At("cities", 1))'
    BY <2>2 DEF Seeded, Past, At
  <2>. QED  BY <1>2, <1>3, <2>1, <2>3, <2>4, <2>5, FirstNumber, SeedReplica DEF Steps, AfterMigrations
<1>. QED  BY <1>5, <1>6

\* The cities and the content are written.
LEMMA ContentSteps ==
    ASSUME StartupInv, NEW r \in Replicas, SeedCities(r) \/ SeedContent(r)
    PROVE  StartupInv'
<1>. TypeOK /\ Seeded(replica[r])
  BY DEF StartupInv
<1>1. CASE SeedCities(r)
  <2>1. /\ replica[r].step = "cities" /\ cities' /\ cities' \in BOOLEAN /\ Goes(r, "content", 1)
        /\ UNCHANGED schema /\ UNCHANGED <<badges, content, accounts>>
    BY <1>1 DEF SeedCities, Is
  <2>2. badges' = ToSet(Labels)
    BY <2>1 DEF Seeded, Past
  <2>3. SharedOK'
    BY <2>1 DEF schema, SharedOK, TypeOK
  <2>4. Kept
    BY <2>1 DEF Kept, Named, Complete
  <2>5. Seeded(At("content", 1))'
    BY <2>1, <2>2 DEF Seeded, Past, At
  <2>. QED  BY <2>1, <2>3, <2>4, <2>5, FirstNumber, SeedReplica DEF Steps, AfterMigrations, Locking
<1>2. CASE SeedContent(r)
  <2>1. /\ replica[r].step = "content" /\ content' /\ content' \in BOOLEAN /\ Goes(r, "user", 1)
        /\ UNCHANGED schema /\ UNCHANGED <<badges, cities, accounts>>
    BY <1>2 DEF SeedContent, Is
  <2>2. badges' = ToSet(Labels) /\ cities'
    BY <2>1 DEF Seeded, Past
  <2>3. SharedOK'
    BY <2>1 DEF schema, SharedOK, TypeOK
  <2>4. Kept
    BY <2>1 DEF Kept, Named, Complete
  <2>5. Seeded(At("user", 1))'
    BY <2>1, <2>2 DEF Seeded, Past, At
  <2>. QED  BY <2>1, <2>3, <2>4, <2>5, FirstNumber, SeedReplica DEF Steps, AfterMigrations, Locking
<1>. QED  BY <1>1, <1>2

\* The rows an account may have are rows, and there.
LEMMA AccountType ==
    ASSUME NEW e \in Emails, NEW prefs \in BOOLEAN
    PROVE  /\ Account(Role[e], prefs) \in UserRows /\ Account(Role[e], prefs) # None
           /\ Account(Role[e], prefs).role = Role[e]
<1>1. Role[e] \in {"user", "demo_admin"}
  BY DEF Role
<1>2. Account(Role[e], prefs) \in UserRows /\ Account(Role[e], prefs).role = Role[e]
  BY <1>1 DEF Account, UserRows
<1>. QED  BY <1>2, NoneAssumption

\* An account that is complete has its preferences.
LEMMA CompletePrefs ==
    ASSUME NEW e \in Emails, Complete(e)
    PROVE  accounts[e] # None /\ accounts[e].prefs
<1>1. accounts[e] # None
  BY AccountType DEF Complete
<1>2. accounts[e].prefs
  <2>1. accounts[e] = [role |-> Role[e], prefs |-> TRUE]
    BY DEF Complete, Account
  <2>2. [role |-> Role[e], prefs |-> TRUE].prefs
    OBVIOUS
  <2>. QED  BY <2>1, <2>2
<1>. QED  BY <1>1, <1>2, Zenon

\* An account is named once its row is written, and complete if it was.
LEMMA UserRow ==
    ASSUME StartupInv, NEW r \in Replicas, NEW e \in Emails, NEW step, NEW then,
           EnsureUser(r, e, step, then), Len(ran) = Len(Files)
    PROVE  SharedOK' /\ Kept /\ Named(e)'
<1>. TypeOK
  BY DEF StartupInv
<1>. DEFINE prefs == accounts[e] # None /\ accounts[e].prefs
<1>1. Files[1] \in applied
  BY AllApplied DEF StartupInv
<1>2. /\ accounts' = [accounts EXCEPT ![e] = Account(Role[e], prefs)]
      /\ UNCHANGED <<schema, badges, cities, content>>
  BY <1>1, Zenon DEF EnsureUser
<1>3. PICK p \in BOOLEAN : p <=> prefs
  OBVIOUS
<1>4. Account(Role[e], prefs) = Account(Role[e], p)
  <2>1. CASE prefs
    BY <1>3, <2>1, Zenon DEF Account
  <2>2. CASE ~prefs
    BY <1>3, <2>2, Zenon DEF Account
  <2>. QED  BY <2>1, <2>2
<1>5. Account(Role[e], p) \in UserRows
  BY AccountType
<1>6. /\ accounts'[e] = Account(Role[e], p)
      /\ \A d \in Emails : d # e => accounts'[d] = accounts[d]
      /\ accounts' \in [Emails -> UserRows \cup {None}]
  <2>. HIDE DEF prefs
  <2>. QED  BY <1>2, <1>4, <1>5 DEF TypeOK
<1>7. Named(e)'
  <2>1. CASE p
    BY <1>6, <2>1, Zenon DEF Named
  <2>2. CASE ~p
    BY <1>6, <2>2, Zenon DEF Named
  <2>. QED  BY <2>1, <2>2
<1>8. Complete(e) => Complete(e)'
  BY <1>3, <1>6, CompletePrefs, Zenon DEF Complete
<1>9. \A d \in Emails : (Named(d) => Named(d)') /\ (Complete(d) => Complete(d)')
  BY <1>6, <1>7, <1>8, Zenon DEF Named, Complete
<1>10. SharedOK'
  BY <1>2, <1>6 DEF SharedOK, TypeOK, schema
<1>11. Kept
  BY <1>2, <1>9, Zenon DEF Kept
<1>. QED  BY <1>7, <1>10, <1>11

\* A named account is complete once its preferences are written.
LEMMA PreferencesRow ==
    ASSUME StartupInv, NEW r \in Replicas, NEW e \in Emails, NEW step, NEW then,
           EnsurePreferences(r, e, step, then), Named(e)
    PROVE  SharedOK' /\ Kept /\ Complete(e)'
<1>. TypeOK
  BY DEF StartupInv
<1>1. accounts[e] # None /\ accounts[e].role = Role[e]
  BY AccountType DEF Named
<1>2. /\ accounts' = [accounts EXCEPT ![e] = Account(Role[e], TRUE)]
      /\ UNCHANGED <<schema, badges, cities, content>>
  BY <1>1 DEF EnsurePreferences
<1>3. /\ accounts'[e] = Account(Role[e], TRUE)
      /\ \A d \in Emails : d # e => accounts'[d] = accounts[d]
      /\ accounts' \in [Emails -> UserRows \cup {None}]
  BY <1>2, AccountType DEF TypeOK
<1>4. \A d \in Emails : (Named(d) => Named(d)') /\ (Complete(d) => Complete(d)')
  BY <1>3, Zenon DEF Named, Complete
<1>5. SharedOK'
  BY <1>2, <1>3 DEF SharedOK, TypeOK, schema
<1>6. Kept
  BY <1>2, <1>4, Zenon DEF Kept
<1>7. Complete(e)'
  BY <1>3 DEF Complete
<1>. QED  BY <1>5, <1>6, <1>7

\* The demo accounts are written one after the other, the row first.
LEMMA AccountSteps ==
    ASSUME StartupInv, NEW r \in Replicas, EnsureDemoAccounts(r)
    PROVE  StartupInv'
<1>. TypeOK /\ Seeded(replica[r]) /\ Migrates(replica[r])
  BY DEF StartupInv
<1>. User \in Emails /\ Admin \in Emails
  BY DEF Emails
<1>. DEFINE places == {"user", "userPrefs", "admin", "adminPrefs"}
<1>1. replica[r].step \in places /\ UNCHANGED <<schema, badges, cities, content>>
  BY DEF EnsureDemoAccounts, EnsureUser, EnsurePreferences, Is
<1>2. /\ replica[r].step \notin Locking /\ replica[r].step \in AfterMigrations
      /\ Len(ran) = Len(Files) /\ UNCHANGED schema
  BY <1>1 DEF Locking, AfterMigrations, Migrates
<1>3. badges' = ToSet(Labels) /\ cities' /\ content'
  <2>1. badges = ToSet(Labels) /\ cities /\ content
    BY <1>1 DEF Seeded, Past
  <2>. QED  BY <1>1, <2>1
<1>4. CASE EnsureUser(r, User, "user", "userPrefs")
  <2>1. SharedOK' /\ Kept /\ Named(User)' /\ Goes(r, "userPrefs", 1)
    BY <1>2, <1>4, UserRow DEF EnsureUser
  <2>2. Seeded(At("userPrefs", 1))'
    BY <1>3, <2>1 DEF Seeded, Past, At
  <2>. QED  BY <1>2, <2>1, <2>2, FirstNumber, SeedReplica DEF Steps, AfterMigrations
<1>5. CASE EnsurePreferences(r, User, "userPrefs", "admin")
  <2>1. Named(User)
    BY <1>5 DEF EnsurePreferences, Is, Seeded, Past
  <2>2. SharedOK' /\ Kept /\ Complete(User)' /\ Named(User)' /\ Goes(r, "admin", 1)
    BY <1>5, <2>1, PreferencesRow DEF EnsurePreferences, Kept
  <2>3. Seeded(At("admin", 1))'
    BY <1>3, <2>2 DEF Seeded, Past, At
  <2>. QED  BY <1>2, <2>2, <2>3, FirstNumber, SeedReplica DEF Steps, AfterMigrations
<1>6. CASE EnsureUser(r, Admin, "admin", "adminPrefs")
  <2>1. Complete(User)
    BY <1>6 DEF EnsureUser, Is, Seeded, Past
  <2>2. SharedOK' /\ Kept /\ Named(Admin)' /\ Complete(User)' /\ Goes(r, "adminPrefs", 1)
    BY <1>2, <1>6, <2>1, UserRow DEF EnsureUser, Kept
  <2>3. Seeded(At("adminPrefs", 1))'
    BY <1>3, <2>2 DEF Seeded, Past, At, Named, Complete
  <2>. QED  BY <1>2, <2>2, <2>3, FirstNumber, SeedReplica DEF Steps, AfterMigrations
<1>7. CASE EnsurePreferences(r, Admin, "adminPrefs", "serving")
  <2>1. Named(Admin) /\ Complete(User)
    BY <1>7 DEF EnsurePreferences, Is, Seeded, Past
  <2>2. SharedOK' /\ Kept /\ Complete(Admin)' /\ Complete(User)' /\ Goes(r, "serving", 1)
    BY <1>7, <2>1, PreferencesRow DEF EnsurePreferences, Kept
  <2>3. Named(Admin)' /\ Named(User)'
    BY <2>2 DEF Named, Complete
  <2>4. Seeded(At("serving", 1))'
    BY <1>3, <2>2, <2>3 DEF Seeded, Past, At
  <2>. QED  BY <1>2, <2>2, <2>4, FirstNumber, SeedReplica DEF Steps, AfterMigrations
<1>. QED  BY <1>4, <1>5, <1>6, <1>7 DEF EnsureDemoAccounts

----------------------------------------------------------------------------
(* The theorems.                                                           *)

\* The database a build starts on is empty or was left by an earlier one.
LEMMA InitInv == Init => StartupInv
<1>. SUFFICES ASSUME Init PROVE StartupInv
  OBVIOUS
<1>1. \A r \in Replicas : replica[r] = Down
  BY DEF Init
<1>2. Migrates(Down) /\ Seeded(Down)
  BY NotSeeding DEF Down, Migrates, At, AfterMigrations, Migrating, Locking
<1>3. PICK n \in 0..Len(Files) : ran = SubSeq(Files, 1, n)
  <2>1. CASE ran = <<>>
    BY <2>1, FilesType, SubSeqEmpty
  <2>2. CASE \E n \in 1..Len(Files) : ran = SubSeq(Files, 1, n)
    BY <2>2, FilesType
  <2>. QED  BY <2>1, <2>2 DEF Init
<1>4. ran \in Seq(ToSet(Files)) /\ Len(ran) = n
  <2>1. \A i \in 1..n : Files[i] \in ToSet(Files)
    BY <1>3, FilesType
  <2>. QED  BY <1>3, <2>1, FilesType, SubSeqProperties
<1>5. Prefix
  BY <1>3, <1>4 DEF Prefix, Init
<1>6. ToSet(ran) \subseteq ToSet(Files)
  <2>1. \A i \in DOMAIN ran : ran[i] \in ToSet(Files)
    BY <1>4, LenProperties, ElementOfSeq
  <2>. QED  BY <2>1 DEF ToSet
<1>7. accounts \in [Emails -> UserRows \cup {None}]
  <2>1. Account("user", TRUE) \in UserRows
    BY DEF Account, UserRows
  <2>. QED  BY <2>1 DEF Init
<1>8. \A r \in Replicas : Down.step \notin Locking /\ None # r
  BY NoneAssumption DEF Down, At, Locking
<1>9. Down \in [step: Steps, next: Numbers]
  BY FirstNumber DEF Down, At, Steps
<1>10. TypeOK
  <2>1. table \in BOOLEAN /\ cities \in BOOLEAN /\ content \in BOOLEAN
    BY DEF Init
  <2>2. badges \subseteq ToSet(Labels) \cup {StaleLabel}
    BY DEF Init
  <2>3. starts \in 0..MaxStarts
    BY StartupAssumption DEF Init
  <2>4. /\ replica \in [Replicas -> [step: Steps, next: Numbers]]
        /\ \A r \in Replicas : replica[r].step \in Locking <=> lock = r
    BY <1>1, <1>8, <1>9 DEF Init
  <2>5. lock \in Replicas \cup {None} /\ applied \subseteq ToSet(Files)
    BY <1>6 DEF Init
  <2>. QED  BY <1>6, <1>7, <2>1, <2>2, <2>3, <2>4, <2>5 DEF TypeOK, Locking
<1>. QED  BY <1>1, <1>2, <1>5, <1>10 DEF StartupInv

\* The invariant holds of every state of a behaviour.
THEOREM StartupInvariant == Spec => []StartupInv
<1>1. StartupInv /\ [Next]_vars => StartupInv'
  <2>. SUFFICES ASSUME StartupInv, [Next]_vars PROVE StartupInv'
    OBVIOUS
  <2>1. ASSUME NEW r \in Replicas, Start(r) \/ Stop(r) \/ Progress(r)
        PROVE  StartupInv'
    BY <2>1, LifeSteps, LockSteps, CheckStep, CommitStep, BadgeStep, ContentSteps, AccountSteps
    DEF Progress
  <2>2. CASE UNCHANGED vars
    BY <2>2 DEF vars, StartupInv, TypeOK, Prefix, Migrates, Seeded, Past, Named, Complete
  <2>. QED  BY <2>1, <2>2 DEF Next
<1>. QED  BY <1>1, InitInv, PTL DEF Spec

\* Every variable keeps its type, and who is between the lock and the commit of a
\* migration holds the lock, alone.
THEOREM TypeCorrect == Spec => []TypeOK
<1>1. StartupInv => TypeOK
  BY DEF StartupInv
<1>. QED  BY <1>1, StartupInvariant, PTL

\* The bodies of the migrations take effect in the order of their names, each once,
\* whichever replicas start at once and wherever one stops.
THEOREM MigrationsCorrect == Spec => []MigratedOnce
<1>1. StartupInv => MigratedOnce
  <2>. SUFFICES ASSUME StartupInv PROVE MigratedOnce
    OBVIOUS
  <2>1. \E n \in 0..Len(Files) : ran = SubSeq(Files, 1, n)
    BY DEF StartupInv, Prefix
  <2>2. ASSUME NEW r \in Replicas, replica[r].step \in {"execute", "commit"}
        PROVE  File(r) \notin applied
    <3>1. replica[r].next \in 1..Len(Files) /\ replica[r].next = Len(ran) + 1
      BY <2>2 DEF StartupInv, Migrates, Migrating, Locking
    <3>2. ~(replica[r].next <= Len(ran))
      BY <3>1, FilesType DEF StartupInv, Prefix
    <3>. QED  BY <3>1, <3>2, AppliedFiles DEF File, StartupInv
  <2>. QED  BY <2>1, <2>2 DEF MigratedOnce
<1>. QED  BY <1>1, StartupInvariant, PTL

\* A replica serves only on a complete schema, in the demo mode with all that is
\* seeded, wherever earlier starts were cut off.
THEOREM ServesCorrect == Spec => []ServesPrepared
<1>1. StartupInv => ServesPrepared
  <2>. SUFFICES ASSUME StartupInv, NEW r \in Replicas, replica[r] = Serving
                PROVE  /\ applied = ToSet(Files)
                       /\ DemoMode =>
                           /\ badges = ToSet(Labels)
                           /\ cities /\ content
                           /\ \A e \in Emails : accounts[e] = Account(Role[e], TRUE)
    BY DEF ServesPrepared
  <2>1. replica[r].step = "serving"
    BY DEF Serving, At
  <2>2. applied = ToSet(Files)
    BY <2>1, AllApplied DEF StartupInv, Migrates, AfterMigrations
  <2>3. ASSUME DemoMode
        PROVE  badges = ToSet(Labels) /\ cities /\ content /\ Complete(User) /\ Complete(Admin)
    BY <2>1, <2>3 DEF StartupInv, Seeded, Past
  <2>. QED  BY <2>2, <2>3 DEF Complete, Emails
<1>. QED  BY <1>1, StartupInvariant, PTL

============================================================================
