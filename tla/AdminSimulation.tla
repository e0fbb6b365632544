-------------------------- MODULE AdminSimulation --------------------------
(***************************************************************************)
(* The simulator of the demo administrator: a command with an idempotency  *)
(* key is executed, recorded and audited in one SERIALIZABLE transaction.  *)
(* Such a transaction works on the rows of its snapshot: it does not see   *)
(* what others insert meanwhile, and is refused, so that the administrator *)
(* has to send the command again, where another one has changed or deleted *)
(* a row it is to change, or inserted one it was to insert.  The demo sync *)
(* of the world service and the arrivals that publish to the outbox are    *)
(* READ COMMITTED and go on meanwhile.                                     *)
(*                                                                         *)
(* There are no demo trips or demo events (no code makes any, and          *)
(* migration 007 has deleted the events), so the commands about them       *)
(* affect no row and are, like the size of a cohort and the rebuilt        *)
(* leaderboard, "other".                                                   *)
(***************************************************************************)
EXTENDS Naturals, FiniteSetsExt

CONSTANTS
    Actors,         \* demo administrators
    ActionKeys,     \* Idempotency-Key header values, per actor
    Submissions,    \* commands at the same time
    Users,
    DemoUsers,      \* users.is_demo
    Destinations,   \* of demo_travel_history
    Messages,       \* outbox rows arrivals publish; their number bounds them
    Commands        \* what administrators send

ASSUME SimulationAssumption ==
    /\ DemoUsers \subseteq Users
    /\ IsFiniteSet(Destinations)
    /\ IsFiniteSet(Messages)

CONSTANT NoRow
Results == [command: Commands, affected: Nat]
ASSUME NoRowAssumption == NoRow \notin Users \cup Results

\* A target whose type names no table with a demo flag is not looked up.
ASSUME CommandsAssumption ==
    Commands \subseteq
        [code: {"demo_sync_history", "demo_profile_reset", "outbox_process", "other"},
         target: Users \cup {NoRow}, type: {"user", "system"}]

VARIABLES
    actions,    \* admin_simulation_actions, by its unique key; NoRow without one
    audit,      \* rows of admin_audit_log, by the action they are about
    visits,     \* user_visits with source demo_sync; those of arrivals, which the
                \* reset deletes as well, are left out
    outbox,     \* per message "none", "pending" or "processed"
    request,
    \* What no code reads:
    told,       \* the result an administrator was answered for a key
    applied     \* messages processed, by the action that did it

simulationVars == <<actions, audit, visits, outbox, request, told, applied>>

Actions == Actors \X ActionKeys

NoCommand == [action |-> NoRow]
\* What the transaction of a command sees: the row of its key, the visits of its
\* target, the messages that are pending.
AboutVisits(c) == c.code \in {"demo_sync_history", "demo_profile_reset"}
Pending == {m \in Messages : outbox[m] = "pending"}
Snapshot(a, c) ==
    [row |-> actions[a],
     visits |-> IF AboutVisits(c) /\ c.target # NoRow THEN visits[c.target] ELSE {},
     pending |-> IF c.code = "outbox_process" THEN Pending ELSE {}]

\* A command that has begun; gone are the visits of its snapshot that another one has
\* deleted since, whether or not there are such visits again.
Begun == [action: Actions, command: Commands,
          snapshot: [row: Results \cup {NoRow}, visits: SUBSET Destinations,
                     pending: SUBSET Messages],
          gone: SUBSET Destinations]

SimulationTypeOK ==
    /\ actions \in [Actions -> Results \cup {NoRow}]
    /\ visits \in [Users -> SUBSET Destinations]
    /\ outbox \in [Messages -> {"none", "pending", "processed"}]
    /\ audit \in [Actions -> Nat]
    /\ request \in [Submissions -> Begun \cup {NoCommand}]
    /\ told \in [Actions -> Results \cup {NoRow}]
    /\ applied \in [Actions -> SUBSET Messages]

SimulationInit ==
    /\ actions = [a \in Actions |-> NoRow]
    /\ audit = [a \in Actions |-> 0]
    /\ visits = [u \in Users |-> {}]
    /\ outbox = [m \in Messages |-> "none"]
    /\ request = [r \in Submissions |-> NoCommand]
    /\ told = [a \in Actions |-> NoRow]
    /\ applied = [a \in Actions |-> {}]

----------------------------------------------------------------------------
(* applySimulation.                                                        *)

\* assertDemoTarget, for the targets it looks up.
TargetIsDemo(c) == c.target = NoRow \/ c.type # "user" \/ c.target \in DemoUsers

\* A target that is not an identifier makes the statement fail.
Executable(c) ==
    /\ TargetIsDemo(c)
    /\ AboutVisits(c) => c.target # NoRow

\* The statements about visits ask for is_demo once more, whatever type the target is
\* said to have.
Syncs(c) == c.code = "demo_sync_history" /\ c.target \in DemoUsers
Resets(c) == c.code = "demo_profile_reset" /\ c.target \in DemoUsers

\* Mutant of VisitsAfter: is_demo is left to assertDemoTarget.
VisitsAfterUnchecked(c, seen) ==
    CASE c.code = "demo_sync_history" -> [visits EXCEPT ![c.target] = Destinations]
      [] c.code = "demo_profile_reset" -> [visits EXCEPT ![c.target] = @ \ seen.visits]
      [] OTHER -> visits

\* INSERT ... ON CONFLICT DO NOTHING, and DELETE of the visits in the snapshot.
VisitsAfter(c, seen) ==
    CASE Syncs(c) -> [visits EXCEPT ![c.target] = Destinations]
      [] Resets(c) -> [visits EXCEPT ![c.target] = @ \ seen.visits]
      [] OTHER -> visits

\* Mutant of OutboxAfter: the messages are marked by a later statement of a READ
\* COMMITTED transaction than the one that has counted them.
OutboxAfterLater(c, seen) ==
    IF c.code = "outbox_process"
    THEN [m \in Messages |-> IF m \in Pending THEN "processed" ELSE outbox[m]]
    ELSE outbox

\* The UPDATE marks the messages that are pending in the snapshot.
OutboxAfter(c, seen) ==
    IF c.code = "outbox_process"
    THEN [m \in Messages |-> IF m \in seen.pending THEN "processed" ELSE outbox[m]]
    ELSE outbox

\* affected_rows
Affected(c, seen) ==
    CASE Syncs(c) -> Cardinality(Destinations \ visits[c.target])
      [] Resets(c) -> Cardinality(seen.visits)
      [] c.code = "outbox_process" -> Cardinality(seen.pending)
      [] OTHER -> 0

----------------------------------------------------------------------------

\* Execute: authorized, normalized and on the allowlist; the first statement takes
\* the snapshot.
BeginCommand(r, a, c) ==
    /\ request[r] = NoCommand
    /\ request' = [request EXCEPT ![r] =
           [action |-> a, command |-> c, snapshot |-> Snapshot(a, c), gone |-> {}]]
    /\ UNCHANGED <<actions, audit, visits, outbox, told, applied>>

Begins(r) == request[r] # NoCommand
SeenRow(r) == request[r].snapshot.row

\* The answer arrives at the administrator or is lost.
Answered(a, result) == told' \in {told, [told EXCEPT ![a] = result]}

\* Mutant of Repeat: a stored result is given to the command it was stored for.
RepeatOwn(r) ==
    LET a == request[r].action IN
    /\ Begins(r)
    /\ SeenRow(r) # NoRow
    /\ Answered(a, [SeenRow(r) EXCEPT !.command = request[r].command])
    /\ request' = [request EXCEPT ![r] = NoCommand]
    /\ UNCHANGED <<actions, audit, visits, outbox, applied>>

\* The key has been used: whatever the command says now, the stored action is
\* answered and nothing is done.
Repeat(r) ==
    LET a == request[r].action IN
    /\ Begins(r)
    /\ SeenRow(r) # NoRow
    /\ Answered(a, SeenRow(r))
    /\ request' = [request EXCEPT ![r] = NoCommand]
    /\ UNCHANGED <<actions, audit, visits, outbox, applied>>

\* Postgres does not refuse the command (40001): the row of its key is the one of its
\* snapshot; and no message it is to mark has been marked since, no visit it is to
\* delete deleted, and no visit it is to insert inserted out of its sight.
Undisturbed(r) ==
    LET c == request[r].command
        seen == request[r].snapshot IN
    /\ actions[request[r].action] = seen.row
    /\ seen.pending \subseteq Pending
    /\ Resets(c) => request[r].gone = {}
    /\ Syncs(c) => visits[c.target] \subseteq seen.visits \ request[r].gone

\* What the other commands about this user's visits lose by a reset of them.
Losing(x, user, deleted) ==
    IF x # NoCommand /\ x.command.target = user
    THEN [x EXCEPT !.gone = @ \cup (x.snapshot.visits \cap deleted)]
    ELSE x

\* The action, its effect, its result and its audit record are committed.
CommitCommand(r) ==
    LET a == request[r].action
        c == request[r].command
        seen == request[r].snapshot
        result == [command |-> c, affected |-> Affected(c, seen)] IN
    /\ Begins(r)
    /\ SeenRow(r) = NoRow
    /\ Executable(c)
    /\ Undisturbed(r)
    /\ actions' = [actions EXCEPT ![a] = result]
    /\ audit' = [audit EXCEPT ![a] = @ + 1]
    /\ visits' = VisitsAfter(c, seen)
    /\ outbox' = OutboxAfter(c, seen)
    /\ applied' = [applied EXCEPT ![a] = @ \cup seen.pending]
    /\ Answered(a, result)
    /\ request' = [q \in Submissions |->
           IF q = r THEN NoCommand
           ELSE IF Resets(c) THEN Losing(request[q], c.target, seen.visits)
           ELSE request[q]]

\* ErrTargetNotDemo, a serialization failure (a repeat, which writes the row of its
\* key, may have one as well), another error: all is rolled back, the row of the
\* action as well.
CommandFails(r) ==
    /\ Begins(r)
    /\ request' = [request EXCEPT ![r] = NoCommand]
    /\ UNCHANGED <<actions, audit, visits, outbox, told, applied>>

\* The user's own demo sync, for whatever user, ON CONFLICT DO NOTHING; TripLifecycle
\* has the rest of it.
DemoSync(u) ==
    /\ visits' = [visits EXCEPT ![u] = Destinations]
    /\ UNCHANGED <<actions, audit, outbox, request, told, applied>>

\* An arrival publishes.
Publish(m) ==
    /\ outbox[m] = "none"
    /\ outbox' = [outbox EXCEPT ![m] = "pending"]
    /\ UNCHANGED <<actions, audit, visits, request, told, applied>>

SimulationNext ==
    \/ \E r \in Submissions :
        \/ \E a \in Actions, c \in Commands : BeginCommand(r, a, c)
        \/ Repeat(r)
        \/ CommitCommand(r)
        \/ CommandFails(r)
    \/ \E u \in Users : DemoSync(u)
    \/ \E m \in Messages : Publish(m)

SimulationSpec == SimulationInit /\ [][SimulationNext]_simulationVars

----------------------------------------------------------------------------
(* Properties.                                                             *)

\* However often a command is sent, whatever is sent with the same key at the same time
\* and whatever is published while it runs, it takes effect once: an action has one
\* audit record, exactly if it was executed, a message of the outbox is counted as
\* affected by one action only, and the results of all actions together account for
\* every processed message.
EffectOnce ==
    /\ \A a \in Actions : audit[a] = IF actions[a] = NoRow THEN 0 ELSE 1
    /\ \A a \in Actions :
        actions[a] # NoRow /\ actions[a].command.code = "outbox_process"
            => actions[a].affected = Cardinality(applied[a])
    /\ \A a, b \in Actions : a # b => applied[a] \cap applied[b] = {}
    /\ UNION {applied[a] : a \in Actions} = {m \in Messages : outbox[m] = "processed"}

\* What an administrator was answered for a key stays what the log has for it, also
\* when the key comes with another command.
ToldStays == \A a \in Actions : told[a] # NoRow => actions[a] = told[a]

\* The simulator never changes the visits of a user who is not a demo user.
DemoUsersOnly ==
    [][\A r \in Submissions :
        CommitCommand(r) => \A u \in Users \ DemoUsers : visits'[u] = visits[u]]_simulationVars

============================================================================
