----------------------------- MODULE AccountRows -----------------------------
(***************************************************************************)
(* The rows of accounts - users, user_preferences, sessions and active     *)
(* guild memberships - and the requests that read and write them.          *)
(*                                                                         *)
(* A request is the goroutine of one HTTP request.  It reads the user      *)
(* once, in the middleware, and its handler works with that snapshot while *)
(* others write.  Authentication, ProfileUpdates and GuildMembership are   *)
(* the handlers, Accounts composes them.                                   *)
(*                                                                         *)
(* Of a profile the model keeps the home city, whether the onboarding is   *)
(* complete (users) and the wishes (user_preferences).  A guild is named   *)
(* by its territory.                                                       *)
(***************************************************************************)
EXTENDS Naturals, FiniteSets

CONSTANTS
    Emails,     \* users.email is unique and names the account
    Requests,
    Tokens,     \* session tokens; as many as there are bound the sessions
    Cities,     \* active territories
    Guilds,     \* the cities with a guild and an active challenge
    Wishes,     \* what preferences can say
    HomeCity,   \* defaultHomeCity
    NoWishes    \* the defaults of a new row of user_preferences: no means of transport

ASSUME AccountsAssumption ==
    /\ Guilds \subseteq Cities
    /\ HomeCity \in Cities
    /\ NoWishes \in Wishes

CONSTANT None

VARIABLES
    users,      \* email -> [home, onboarded], or no row
    prefs,      \* email -> wishes, or no row
    sessions,   \* token -> the user of a row that is not revoked or expired
    members,    \* the active rows of guild_memberships
    req,
    \* What clients were told, which no code reads:
    shown,      \* email -> the profile of the last answer, None when unknown
    given,      \* tokens that were answered
    created     \* email -> how many registrations were answered

vars == <<users, prefs, sessions, members, req, shown, given, created>>

UserRows == [home: Cities, onboarded: BOOLEAN]
Profiles == [home: Cities, onboarded: BOOLEAN, wishes: Wishes]
Memberships == [user: Emails, guild: Guilds]

\* NULL, and nothing found, differ from every value.
ASSUME NoneAssumption ==
    None \notin Emails \cup Tokens \cup Cities \cup Wishes \cup UserRows \cup Profiles

\* want: the profile a handler is about to save; guild: the one to join.
\* alone: no other profile update of the user was under way meanwhile.
\* free: the joiner had no membership, lived in the guild's city and neither
\* changed until the answer.
Idle == [pc |-> "idle", user |-> None, want |-> None, guild |-> None,
         alone |-> TRUE, free |-> FALSE]
RequestStates ==
    [pc: {"idle", "inserted", "verified", "authed", "half", "joined"},
     user: Emails \cup {None}, want: Profiles \cup {None},
     guild: Guilds \cup {None}, alone: BOOLEAN, free: BOOLEAN]

TypeOK ==
    /\ users \in [Emails -> UserRows \cup {None}]
    /\ prefs \in [Emails -> Wishes \cup {None}]
    /\ sessions \in [Tokens -> Emails \cup {None}]
    /\ members \subseteq Memberships
    /\ req \in [Requests -> RequestStates]
    /\ shown \in [Emails -> Profiles \cup {None}]
    /\ given \subseteq Tokens
    /\ created \in [Emails -> Nat]

Init ==
    /\ users = [e \in Emails |-> None]
    /\ prefs = [e \in Emails |-> None]
    /\ sessions = [t \in Tokens |-> None]
    /\ members = {}
    /\ req = [r \in Requests |-> Idle]
    /\ shown = [e \in Emails |-> None]
    /\ given = {}
    /\ created = [e \in Emails |-> 0]

----------------------------------------------------------------------------

\* scanUser: the columns of both tables, joined.
HasRows(e) == users[e] # None /\ prefs[e] # None
Profile(e) == [home |-> users[e].home, onboarded |-> users[e].onboarded,
               wishes |-> prefs[e]]

Membership(e) == {m \in members : m.user = e}

\* Tokens are random; one whose session has ended stands for a new one.
Unused(t) == sessions[t] = None
NewSession(t, e) == sessions' = [sessions EXCEPT ![t] = e]

\* ResolveSession: one SELECT that joins the session with both tables.
Resolves(t, e) ==
    /\ sessions[t] = e
    /\ HasRows(e)

\* The request has answered, or ends in an error: its slot is free again.
End(r) == req' = [req EXCEPT ![r] = Idle]

\* Profile updates of e under way.
Updating(e) == {r \in Requests : req[r].pc \in {"authed", "half"} /\ req[r].user = e}

============================================================================
