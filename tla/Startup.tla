------------------------------ MODULE Startup ------------------------------
(***************************************************************************)
(* The start of a replica, from the migrations to the first request it     *)
(* serves, while other replicas start, serve or stop.                      *)
(*                                                                         *)
(* The statements of a migration are one transaction that holds an         *)
(* advisory lock; the table of applied migrations is created before,       *)
(* without it.  The fixtures and the demo accounts are written statement   *)
(* by statement, the cities in one transaction.  All replicas run the same *)
(* build, and the database is empty or was left by an earlier one.         *)
(***************************************************************************)
EXTENDS Naturals, SequencesExt

CONSTANTS
    Replicas,
    Files,      \* names of the migrations, in the order of sort.Slice
    Labels,     \* badge_vocabulary.tsv, in its order
    StaleLabel, \* a badge of an earlier vocabulary
    Admin,      \* DEMO_ADMIN_EMAIL
    User,       \* DEMO_USER_EMAIL
    DemoMode,
    MaxStarts   \* bound on the starts of all replicas

ASSUME StartupAssumption ==
    /\ Files \in Seq(ToSet(Files))
    /\ Labels \in Seq(ToSet(Labels))
    /\ IsInjective(Files)
    /\ Files # <<>>
    /\ StaleLabel \notin ToSet(Labels)
    /\ Admin # User
    /\ DemoMode \in BOOLEAN
    /\ MaxStarts \in Nat

\* The rows of users, in what tells them apart.
UserRows == [role: {"user", "demo_admin"}, prefs: BOOLEAN]

CONSTANT None
ASSUME NoneAssumption == None \notin Replicas \cup UserRows

VARIABLES
    table,      \* schema_migrations exists
    applied,    \* its rows
    lock,       \* the replica that holds the advisory lock
    badges,     \* active rows of badge_catalog
    cities,     \* territories are imported
    content,    \* the content script has run
    accounts,   \* per demo email the row of users, and whether it has preferences
    replica,    \* where each replica is
    starts,
    ran         \* migration bodies that were committed (history)

vars == <<table, applied, lock, badges, cities, content, accounts, replica, starts, ran>>
seed == <<badges, cities, content, accounts>>

Emails == {Admin, User}
Role == [e \in Emails |-> IF e = Admin THEN "demo_admin" ELSE "user"]
Account(role, prefs) == [role |-> role, prefs |-> prefs]

\* The steps of a start; next: the migration or the badge it is about.
At(step, next) == [step |-> step, next |-> next]
Down == At("down", 1)
Serving == At("serving", 1)
Numbers == 1..(Len(Files) + Len(Labels) + 1)
Steps == {"down", "table", "creating", "lock", "check", "execute", "commit", "badge", "cities",
          "content", "user", "userPrefs", "admin", "adminPrefs", "serving", "refused"}

TypeOK ==
    /\ table \in BOOLEAN
    /\ applied \subseteq ToSet(Files)
    /\ lock \in Replicas \cup {None}
    /\ badges \subseteq ToSet(Labels) \cup {StaleLabel}
    /\ cities \in BOOLEAN
    /\ content \in BOOLEAN
    /\ accounts \in [Emails -> UserRows \cup {None}]
    /\ replica \in [Replicas -> [step: Steps, next: Numbers]]
    /\ starts \in 0..MaxStarts
    /\ ToSet(ran) \subseteq ToSet(Files)
    \* Who is between the lock and the commit of a migration holds the lock.
    /\ \A r \in Replicas : replica[r].step \in {"check", "execute", "commit"} <=> lock = r

\* Users of an earlier build without the demo mode may have registered the emails.
Init ==
    /\ \/ /\ table = FALSE /\ ran = <<>> /\ badges = {}
          /\ accounts = [e \in Emails |-> None]
       \/ /\ \E n \in 1..Len(Files) : ran = SubSeq(Files, 1, n)
          /\ table = TRUE /\ badges = {StaleLabel}
          /\ accounts \in [Emails -> {None, Account("user", TRUE)}]
    /\ applied = ToSet(ran)
    /\ lock = None
    /\ cities = FALSE
    /\ content = FALSE
    /\ replica = [r \in Replicas |-> Down]
    /\ starts = 0

----------------------------------------------------------------------------

Goes(r, step, next) == replica' = [replica EXCEPT ![r] = At(step, next)]
Is(r, step) == replica[r].step = step
File(r) == Files[replica[r].next]

\* InitResources: configuration, Postgres and Redis are there.
Start(r) ==
    /\ replica[r] = Down
    /\ starts < MaxStarts
    /\ starts' = starts + 1
    /\ Goes(r, "table", 1)
    /\ UNCHANGED <<table, applied, lock, seed, ran>>

\* Any error, a signal or a crash: the connection's transaction is rolled back and
\* its lock released.  What was committed stays.
Stop(r) ==
    /\ replica[r] # Down
    /\ replica' = [replica EXCEPT ![r] = Down]
    /\ lock' = IF lock = r THEN None ELSE lock
    /\ UNCHANGED <<table, applied, seed, starts, ran>>

\* CREATE TABLE IF NOT EXISTS looks before it creates, outside the lock.
LookForTable(r) ==
    /\ Is(r, "table")
    /\ IF table THEN Goes(r, "lock", 1) ELSE Goes(r, "creating", 1)
    /\ UNCHANGED <<table, applied, lock, seed, starts, ran>>

\* The first creates; whoever had looked before its commit gets a duplicate key of
\* the catalogue, and exits.
CreateTable(r) ==
    /\ Is(r, "creating")
    /\ IF table THEN Goes(r, "refused", 1) ELSE Goes(r, "lock", 1)
    /\ table' = TRUE
    /\ UNCHANGED <<applied, lock, seed, starts, ran>>

Exit(r) ==
    /\ Is(r, "refused")
    /\ Goes(r, "down", 1)
    /\ UNCHANGED <<table, applied, lock, seed, starts, ran>>

\* Mutant of Lock: what is applied is looked up before the lock is there.
LockChecked(r) ==
    /\ Is(r, "lock")
    /\ lock' = IF lock = None THEN r ELSE lock
    /\ Goes(r, IF File(r) \in applied THEN "check" ELSE "execute", replica[r].next)
    /\ UNCHANGED <<table, applied, seed, starts, ran>>

\* pg_advisory_xact_lock
Lock(r) ==
    /\ Is(r, "lock")
    /\ lock = None
    /\ lock' = r
    /\ Goes(r, "check", replica[r].next)
    /\ UNCHANGED <<table, applied, seed, starts, ran>>

\* After the last file: the demo data, or the API.
NextFile(r) ==
    IF replica[r].next < Len(Files) THEN Goes(r, "lock", replica[r].next + 1)
    ELSE IF DemoMode THEN Goes(r, "badge", 1)
    ELSE Goes(r, "serving", 1)

\* Mutant of Check: the version is not looked up.
CheckNothing(r) ==
    /\ Is(r, "check")
    /\ Goes(r, "execute", replica[r].next)
    /\ UNCHANGED <<table, applied, lock, seed, starts, ran>>

\* alreadyApplied: the transaction is rolled back and the lock released with it.
Check(r) ==
    /\ Is(r, "check")
    /\ IF File(r) \in applied
       THEN NextFile(r) /\ lock' = None
       ELSE Goes(r, "execute", replica[r].next) /\ UNCHANGED lock
    /\ UNCHANGED <<table, applied, seed, starts, ran>>

Execute(r) ==
    /\ Is(r, "execute")
    /\ Goes(r, "commit", replica[r].next)
    /\ UNCHANGED <<table, applied, lock, seed, starts, ran>>

\* Mutant of Commit: a lock of the session, whose connection returns to the pool.
CommitKeepingLock(r) ==
    /\ Is(r, "commit")
    /\ applied' = applied \cup {File(r)}
    /\ ran' = Append(ran, File(r))
    /\ NextFile(r)
    /\ UNCHANGED <<table, lock, seed, starts>>

\* The version is recorded and the transaction committed.
Commit(r) ==
    /\ Is(r, "commit")
    /\ applied' = applied \cup {File(r)}
    /\ ran' = Append(ran, File(r))
    /\ lock' = None
    /\ NextFile(r)
    /\ UNCHANGED <<table, seed, starts>>

----------------------------------------------------------------------------
(* SeedFixtures and EnsureDemoAccount.                                     *)

schema == <<table, applied, lock, starts, ran>>

\* Each badge is a statement of its own, and the rest is deactivated by one more.
SeedBadge(r) ==
    /\ Is(r, "badge")
    /\ IF replica[r].next <= Len(Labels)
       THEN /\ badges' = badges \cup {Labels[replica[r].next]}
            /\ Goes(r, "badge", replica[r].next + 1)
       ELSE /\ badges' = badges \cap ToSet(Labels)
            /\ Goes(r, "cities", 1)
    /\ UNCHANGED <<schema, cities, content, accounts>>

SeedCities(r) ==
    /\ Is(r, "cities")
    /\ cities' = TRUE
    /\ Goes(r, "content", 1)
    /\ UNCHANGED <<schema, badges, content, accounts>>

SeedContent(r) ==
    /\ Is(r, "content")
    /\ content' = TRUE
    /\ Goes(r, "user", 1)
    /\ UNCHANGED <<schema, badges, cities, accounts>>

\* Mutant of EnsureUser: nothing is left to do for an account that exists.
EnsureUserOnce(r, e, step, then) ==
    /\ Is(r, step)
    /\ accounts' = [accounts EXCEPT ![e] = IF @ = None THEN Account(Role[e], FALSE) ELSE @]
    /\ Goes(r, IF accounts[e] = None THEN then ELSE IF e = User THEN "admin" ELSE "serving", 1)
    /\ UNCHANGED <<schema, badges, cities, content>>

\* The row of users, and its role whoever made it.  Its home is selected from the
\* cities of the first migration.
EnsureUser(r, e, step, then) ==
    /\ Is(r, step)
    /\ accounts' = [accounts EXCEPT ![e] =
           IF Files[1] \in applied THEN Account(Role[e], @ # None /\ @.prefs) ELSE @]
    /\ Goes(r, then, 1)
    /\ UNCHANGED <<schema, badges, cities, content>>

EnsurePreferences(r, e, step, then) ==
    /\ Is(r, step)
    /\ accounts' = [accounts EXCEPT ![e] =
           IF @ # None THEN Account(@.role, TRUE) ELSE @]
    /\ Goes(r, then, 1)
    /\ UNCHANGED <<schema, badges, cities, content>>

EnsureDemoAccounts(r) ==
    \/ EnsureUser(r, User, "user", "userPrefs")
    \/ EnsurePreferences(r, User, "userPrefs", "admin")
    \/ EnsureUser(r, Admin, "admin", "adminPrefs")
    \/ EnsurePreferences(r, Admin, "adminPrefs", "serving")

Progress(r) ==
    \/ LookForTable(r)
    \/ CreateTable(r)
    \/ Exit(r)
    \/ Lock(r)
    \/ Check(r)
    \/ Execute(r)
    \/ Commit(r)
    \/ SeedBadge(r)
    \/ SeedCities(r)
    \/ SeedContent(r)
    \/ EnsureDemoAccounts(r)

Next == \E r \in Replicas : Start(r) \/ Stop(r) \/ Progress(r)

\* A start goes on by itself; nobody restarts a replica that has ended.
Fairness == \A r \in Replicas : WF_vars(Progress(r))

Spec == Init /\ [][Next]_vars /\ Fairness

----------------------------------------------------------------------------
(* Properties.                                                             *)

\* Whichever replicas start at once, and wherever one of them stops, the bodies of
\* the migrations take effect in the order of their names, each once; and who has
\* found one not applied will not fail over the primary key of schema_migrations.
MigratedOnce ==
    /\ \E n \in 0..Len(Files) : ran = SubSeq(Files, 1, n)
    /\ \A r \in Replicas :
        replica[r].step \in {"execute", "commit"} => File(r) \notin applied

\* A replica serves only on a complete schema; in the demo mode also with the
\* vocabulary of its build and no other, the cities, the content and both accounts,
\* which have their roles and preferences wherever an earlier start was cut off.
ServesPrepared ==
    (\E r \in Replicas : replica[r] = Serving) =>
        /\ applied = ToSet(Files)
        /\ DemoMode =>
            /\ badges = ToSet(Labels)
            /\ cities /\ content
            /\ \A e \in Emails : accounts[e] = Account(Role[e], TRUE)

\* A replica that starts comes to serve, or ends; it does not wait for ever for a
\* migration of another one.
StartEnds ==
    \A r \in Replicas :
        Is(r, "table") ~> (replica[r] = Serving \/ replica[r] = Down)

\* README.md:193: of replicas that start at the same time, the ones that are too late
\* only wait and find the version applied.
LateOnlyWait == \A r \in Replicas : ~Is(r, "refused")

============================================================================
