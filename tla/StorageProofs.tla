------------------------------- MODULE StorageProofs -------------------------------
(***************************************************************************)
(* What Postgres keeps: Accounts, AdminSimulation and EventCatalog, for every *)
(* set of emails, requests, tokens, cities and guilds; every set of        *)
(* administrators, keys, users, places, messages and commands; every finite *)
(* set of events, every map of them to cities, any number of writers and   *)
(* every bound.                                                            *)
(*                                                                         *)
(* The invariant of the catalog says of each transaction, by itself, what  *)
(* holds between what it has written, what it has still to do and the      *)
(* committed table.  It is stated with the transaction and the table as    *)
(* arguments, so that a step of one writer and the commit of another are   *)
(* lemmas about records.                                                   *)
(***************************************************************************)
EXTENDS Accounts, AdminSimulation, EventCatalog, FiniteSetTheorems, TLAPS

----------------------------------------------------------------------------
(* Accounts.                                                               *)

----------------------------------------------------------------------------
(* The inductive invariant, in parts.                                      *)

Registering == {"inserted"}
Serving == {"verified", "authed", "half", "joined"}

\* What a request carries is what its step needs: a registration writes where there
\* is no row, and only one does so for an email; all others have found the user.
RequestsCarry ==
    \A r \in Requests :
        /\ req[r].pc # "idle" => req[r].user \in Emails
        /\ req[r].pc \in Registering => users[req[r].user] = None
        /\ req[r].pc \in Serving => users[req[r].user] # None
        /\ req[r].pc \in {"authed", "half"} => req[r].want \in Profiles
        /\ req[r].pc = "joined" => req[r].guild \in Guilds
OneRegistration ==
    \A q, r \in Requests :
        req[q].pc \in Registering /\ req[r].pc \in Registering
            /\ req[q].user = req[r].user => q = r

\* Both rows or none; no session without them, and those clients hold are there.
RowsWhole ==
    /\ \A e \in Emails : users[e] # None <=> prefs[e] # None
    /\ \A t \in Tokens : sessions[t] # None => users[sessions[t]] # None
    /\ \A t \in given : sessions[t] # None
    /\ \A e \in Emails : created[e] <= (IF users[e] = None THEN 0 ELSE 1)

AccountsInv == TypeOK /\ RequestsCarry /\ OneRegistration /\ RowsWhole

----------------------------------------------------------------------------
(* What is written.                                                        *)

\* The rows of a registration are rows.
LEMMA NewRows ==
    /\ [home |-> HomeCity, onboarded |-> FALSE] \in UserRows
    /\ [home |-> HomeCity, onboarded |-> FALSE] # None
    /\ NoWishes \in Wishes /\ NoWishes # None
  <1>1. [home |-> HomeCity, onboarded |-> FALSE] \in UserRows
    BY AccountsAssumption DEF UserRows
  <1>. QED
    BY <1>1, NoneAssumption, AccountsAssumption

\* A profile is saved as a row of each table.
LEMMA SavedRows ==
    ASSUME NEW p \in Profiles
    PROVE  /\ [home |-> p.home, onboarded |-> p.onboarded] \in UserRows
           /\ [home |-> p.home, onboarded |-> p.onboarded] # None
           /\ p.wishes \in Wishes /\ p.wishes # None
           /\ p # None
  <1>1. [home |-> p.home, onboarded |-> p.onboarded] \in UserRows
    BY DEF UserRows, Profiles
  <1>2. p.wishes \in Wishes
    BY DEF Profiles
  <1>. QED
    BY <1>1, <1>2, NoneAssumption

\* A user with both rows has a profile.
LEMMA ProfileType ==
    ASSUME TypeOK, NEW e \in Emails, HasRows(e)
    PROVE  Profile(e) \in Profiles
  <1>1. users[e] \in UserRows /\ prefs[e] \in Wishes
    BY DEF TypeOK, HasRows
  <1>. QED
    BY <1>1 DEF Profile, Profiles, UserRows

\* What a handler makes of a profile is a profile.
LEMMA ChangesType ==
    ASSUME NEW p \in Profiles
    PROVE  Changes(p) \subseteq Profiles
  <1>. SUFFICES ASSUME NEW x \in Changes(p) PROVE x \in Profiles
    OBVIOUS
  <1>1. \/ x = p
        \/ \E w \in Wishes : x = [p EXCEPT !.wishes = w]
        \/ \E c \in Cities : x = [p EXCEPT !.home = c]
        \/ \E c \in Cities : x = [p EXCEPT !.home = c, !.onboarded = TRUE]
    BY Zenon DEF Changes
  <1>. QED
    BY <1>1 DEF Profiles

\* Ending a request, or beginning one, leaves a request behind.
LEMMA IdleType == Idle \in RequestStates
  BY DEF Idle, RequestStates

\* What a request carries is what it was.
Carries(q) ==
    /\ req'[q].pc = req[q].pc /\ req'[q].user = req[q].user
    /\ req'[q].want = req[q].want /\ req'[q].guild = req[q].guild
    /\ req'[q].free = req[q].free

\* Beginning an update, for each request: the new one carries a profile, of the
\* others only the mark of being alone changes.
LEMMA UpdateBegins ==
    ASSUME TypeOK, NEW r \in Requests, NEW t \in Tokens, NEW e \in Emails,
           BeginUpdate(r, t, e)
    PROVE  /\ req' \in [Requests -> RequestStates]
           /\ req[r].pc = "idle" /\ HasRows(e)
           /\ req'[r].pc = "authed" /\ req'[r].user = e /\ req'[r].want \in Profiles
           /\ req'[r].free = FALSE
           /\ req'[r].alone => Updating(e) = {}
           /\ \A q \in Requests : q # r =>
                /\ Carries(q)
                /\ req'[q].alone => req[q].alone /\ q \notin Updating(e)
  <1>1. HasRows(e)
    BY DEF BeginUpdate, Resolves
  <1>2. PICK p \in Profiles : req' = [q \in Requests |->
            IF q = r THEN [Idle EXCEPT !.pc = "authed", !.user = e, !.want = p,
                                       !.alone = Updating(e) = {}]
            ELSE IF q \in Updating(e) THEN [req[q] EXCEPT !.alone = FALSE]
            ELSE req[q]]
    BY <1>1, ProfileType, ChangesType DEF BeginUpdate
  <1>3. req'[r] = [pc |-> "authed", user |-> e, want |-> p, guild |-> None,
                   alone |-> (Updating(e) = {}), free |-> FALSE]
    BY <1>2 DEF Idle
  <1>4. req'[r] \in RequestStates
    BY <1>3 DEF RequestStates
  <1>5. ASSUME NEW q \in Requests, q # r
        PROVE  /\ req'[q] \in RequestStates
               /\ Carries(q)
               /\ req'[q].alone => req[q].alone /\ q \notin Updating(e)
    <2>1. req[q] \in RequestStates
      BY <1>5 DEF TypeOK
    <2>2. CASE q \in Updating(e)
      <3>1. req'[q] = [req[q] EXCEPT !.alone = FALSE]
        BY <1>2, <1>5, <2>2
      <3>. QED
        BY <2>1, <2>2, <3>1 DEF RequestStates, Carries
    <2>3. CASE q \notin Updating(e)
      <3>1. req'[q] = req[q]
        BY <1>2, <1>5, <2>3
      <3>. QED
        BY <2>1, <2>3, <3>1 DEF RequestStates, Carries
    <2>. QED
      BY <2>2, <2>3
  <1>6. req' \in [Requests -> RequestStates]
    BY <1>2, <1>4, <1>5
  <1>7. req[r] = Idle
    BY DEF BeginUpdate
  <1>8. req[r].pc = "idle"
    BY <1>7 DEF Idle
  <1>9. /\ req'[r].pc = "authed" /\ req'[r].user = e /\ req'[r].want \in Profiles
        /\ req'[r].free = FALSE
    BY <1>3
  <1>10. req'[r].alone => Updating(e) = {}
    <2>1. req'[r].alone = (Updating(e) = {})
      BY <1>3
    <2>. QED
      BY <2>1, Zenon
  <1>. QED
    BY <1>1, <1>5, <1>6, <1>8, <1>9, <1>10

----------------------------------------------------------------------------
(* The rows are whole.                                                     *)

\* An empty database is whole.
LEMMA WholeInit == Init => AccountsInv
  BY DEF Init, AccountsInv, TypeOK, RequestsCarry, OneRegistration, RowsWhole,
         RequestStates, Idle, Registering, Serving

\* A profile request that has decided what to write leaves every row alone; what
\* it carries on is its user's own row.
LEMMA BeginKeepsWhole ==
    ASSUME AccountsInv, NEW r \in Requests, NEW t \in Tokens, NEW e \in Emails,
           BeginUpdate(r, t, e)
    PROVE  AccountsInv'
  <1>. USE DEF AccountsInv
  <1>1. /\ req' \in [Requests -> RequestStates]
        /\ req'[r].pc = "authed" /\ req'[r].user = e /\ req'[r].want \in Profiles
        /\ \A q \in Requests : q # r => Carries(q)
    BY UpdateBegins, Zenon
  <1>2. users[e] # None
    BY DEF BeginUpdate, Resolves, HasRows
  <1>3. UNCHANGED <<users, prefs, sessions, given, created, members, shown>>
    BY DEF BeginUpdate, unread
  <1>4. TypeOK'
    BY <1>1, <1>3 DEF TypeOK
  <1>5. RequestsCarry'
    BY <1>1, <1>2, <1>3 DEF RequestsCarry, Registering, Serving, Carries
  <1>6. OneRegistration'
    BY <1>1 DEF OneRegistration, Registering, Carries
  <1>7. RowsWhole'
    BY <1>3 DEF RowsWhole
  <1>. QED
    BY <1>4, <1>5, <1>6, <1>7

\* Every step of a handler keeps the accounts whole.
LEMMA WholeStep == AccountsInv /\ [Next]_vars => AccountsInv'
  <1>. SUFFICES ASSUME AccountsInv, [Next]_vars PROVE AccountsInv'
    OBVIOUS
  <1>. USE NoneAssumption, AccountsAssumption
  <1>. USE DEF AccountsInv, TypeOK, RequestsCarry, OneRegistration, RowsWhole,
               RequestStates, Idle, Registering, Serving, others, unread, account
  <1>1. ASSUME NEW r \in Requests, NEW e \in Emails, RegisterInsert(r, e)
        PROVE  AccountsInv'
    <2>1. TypeOK'
      BY <1>1 DEF RegisterInsert
    <2>2. RequestsCarry'
      BY <1>1 DEF RegisterInsert
    <2>3. OneRegistration'
      BY <1>1 DEF RegisterInsert
    <2>4. RowsWhole'
      BY <1>1 DEF RegisterInsert
    <2>. QED
      BY <2>1, <2>2, <2>3, <2>4
  <1>2. ASSUME NEW r \in Requests, NEW e \in Emails, LoginVerify(r, e)
        PROVE  AccountsInv'
    <2>1. TypeOK'
      BY <1>2 DEF LoginVerify, HasRows
    <2>2. RequestsCarry'
      BY <1>2 DEF LoginVerify, HasRows
    <2>3. OneRegistration'
      BY <1>2 DEF LoginVerify, HasRows
    <2>4. RowsWhole'
      BY <1>2 DEF LoginVerify, HasRows
    <2>. QED
      BY <2>1, <2>2, <2>3, <2>4
  <1>3. ASSUME NEW r \in Requests, NEW t \in Tokens, RegisterCommit(r, t)
        PROVE  AccountsInv'
    <2>1. TypeOK'
      BY <1>3, NewRows DEF RegisterCommit, Registered, Unused, NewSession, End
    <2>2. RequestsCarry'
      BY <1>3, NewRows DEF RegisterCommit, Registered, Unused, NewSession, End
    <2>3. OneRegistration'
      BY <1>3 DEF RegisterCommit, Registered, Unused, NewSession, End
    <2>4. RowsWhole'
      BY <1>3, NewRows DEF RegisterCommit, Registered, Unused, NewSession, End
    <2>. QED
      BY <2>1, <2>2, <2>3, <2>4
  <1>4. ASSUME NEW r \in Requests, NEW t \in Tokens, RegisterUnconfirmed(r, t)
        PROVE  AccountsInv'
    <2>1. TypeOK'
      BY <1>4, NewRows DEF RegisterUnconfirmed, Registered, Unused, NewSession, End
    <2>2. RequestsCarry'
      BY <1>4, NewRows DEF RegisterUnconfirmed, Registered, Unused, NewSession, End
    <2>3. OneRegistration'
      BY <1>4 DEF RegisterUnconfirmed, Registered, Unused, NewSession, End
    <2>4. RowsWhole'
      BY <1>4, NewRows DEF RegisterUnconfirmed, Registered, Unused, NewSession, End
    <2>. QED
      BY <2>1, <2>2, <2>3, <2>4
  <1>5. ASSUME NEW r \in Requests, NEW t \in Tokens, LoginSession(r, t)
        PROVE  AccountsInv'
    <2>1. TypeOK'
      BY <1>5 DEF LoginSession, Unused, NewSession, End
    <2>2. RequestsCarry'
      BY <1>5 DEF LoginSession, Unused, NewSession, End
    <2>3. OneRegistration'
      BY <1>5 DEF LoginSession, Unused, NewSession, End
    <2>4. RowsWhole'
      BY <1>5 DEF LoginSession, Unused, NewSession, End
    <2>. QED
      BY <2>1, <2>2, <2>3, <2>4
  <1>6. ASSUME NEW r \in Requests, RegisterAborts(r)
        PROVE  AccountsInv'
    BY <1>6 DEF RegisterAborts, End
  <1>7. ASSUME NEW r \in Requests, LoginFails(r)
        PROVE  AccountsInv'
    BY <1>7 DEF LoginFails, End
  <1>8. ASSUME NEW r \in Requests, SaveUserRow(r)
        PROVE  AccountsInv'
    <2>0. req[r].want \in Profiles /\ req[r].user \in Emails
      BY <1>8 DEF SaveUserRow
    <2>1. TypeOK'
      <3>1. users' \in [Emails -> UserRows \cup {None}]
        BY <1>8, <2>0, SavedRows DEF SaveUserRow
      <3>2. ASSUME NEW q \in Requests PROVE req'[q] \in RequestStates
        <4>1. req[q] \in RequestStates
          OBVIOUS
        <4>2. CASE req'[q] = [req[q] EXCEPT !.pc = "half"]
          BY <4>1, <4>2
        <4>3. CASE req'[q] = [req[q] EXCEPT !.free = FALSE]
          BY <4>1, <4>3
        <4>. QED
          BY <1>8, <4>1, <4>2, <4>3 DEF SaveUserRow
      <3>3. req' \in [Requests -> RequestStates]
        <4>1. req' = [q \in Requests |-> req'[q]]
          BY <1>8 DEF SaveUserRow
        <4>. QED
          BY <3>2, <4>1
      <3>. QED
        BY <1>8, <3>1, <3>3 DEF SaveUserRow
    <2>2. RequestsCarry'
      BY <1>8, SavedRows DEF SaveUserRow
    <2>3. OneRegistration'
      BY <1>8 DEF SaveUserRow
    <2>4. RowsWhole'
      BY <1>8, SavedRows DEF SaveUserRow
    <2>. QED
      BY <2>1, <2>2, <2>3, <2>4
  <1>9. ASSUME NEW r \in Requests, SavePrefsRow(r)
        PROVE  AccountsInv'
    <2>1. TypeOK'
      BY <1>9, SavedRows DEF SavePrefsRow, End
    <2>2. RequestsCarry'
      BY <1>9, SavedRows DEF SavePrefsRow, End
    <2>3. OneRegistration'
      BY <1>9 DEF SavePrefsRow, End
    <2>4. RowsWhole'
      BY <1>9, SavedRows DEF SavePrefsRow, End
    <2>. QED
      BY <2>1, <2>2, <2>3, <2>4
  <1>10. ASSUME NEW r \in Requests, UpdateFails(r)
        PROVE  AccountsInv'
    BY <1>10 DEF UpdateFails, End
  <1>11. ASSUME NEW r \in Requests, JoinAnswer(r)
        PROVE  AccountsInv'
    BY <1>11 DEF JoinAnswer, End
  <1>12. ASSUME NEW t \in Tokens, Logout(t) \/ Expire(t)
        PROVE  AccountsInv'
    BY <1>12 DEF Logout, Expire
  <1>13. ASSUME NEW r \in Requests, NEW t \in Tokens, NEW e \in Emails, BeginUpdate(r, t, e)
        PROVE  AccountsInv'
    BY <1>13, BeginKeepsWhole
  <1>14. ASSUME NEW r \in Requests, NEW t \in Tokens, NEW e \in Emails,
               NEW g \in Guilds, JoinGuild(r, t, e, g)
        PROVE  AccountsInv'
    <2>1. TypeOK'
      <3>1. members' \subseteq Memberships
        BY <1>14 DEF JoinGuild, Memberships
      <3>2. req' \in [Requests -> RequestStates]
        BY <1>14 DEF JoinGuild
      <3>. QED
        BY <1>14, <3>1, <3>2 DEF JoinGuild
    <2>2. RequestsCarry'
      BY <1>14 DEF JoinGuild, Resolves, HasRows
    <2>3. OneRegistration'
      BY <1>14 DEF JoinGuild, Resolves, HasRows
    <2>4. RowsWhole'
      BY <1>14 DEF JoinGuild, Resolves, HasRows
    <2>. QED
      BY <2>1, <2>2, <2>3, <2>4
  <1>15. ASSUME NEW t \in Tokens, NEW e \in Emails, LeaveGuild(t, e)
        PROVE  AccountsInv'
    <2>1. TypeOK'
      <3>1. members' \subseteq Memberships
        BY <1>15 DEF LeaveGuild
      <3>2. ASSUME NEW q \in Requests PROVE req'[q] \in RequestStates
        <4>1. req[q] \in RequestStates
          OBVIOUS
        <4>2. CASE req'[q] = [req[q] EXCEPT !.free = FALSE]
          BY <4>1, <4>2
        <4>. QED
          BY <1>15, <4>1, <4>2 DEF LeaveGuild
      <3>3. req' \in [Requests -> RequestStates]
        <4>1. req' = [q \in Requests |-> req'[q]]
          BY <1>15 DEF LeaveGuild
        <4>. QED
          BY <3>2, <4>1
      <3>. QED
        BY <1>15, <3>1, <3>3 DEF LeaveGuild
    <2>2. RequestsCarry'
      BY <1>15 DEF LeaveGuild
    <2>3. OneRegistration'
      BY <1>15 DEF LeaveGuild
    <2>4. RowsWhole'
      BY <1>15 DEF LeaveGuild
    <2>. QED
      BY <2>1, <2>2, <2>3, <2>4
  <1>16. CASE UNCHANGED vars
    BY <1>16 DEF vars
  <1>. QED
    BY <1>1, <1>2, <1>3, <1>4, <1>5, <1>6, <1>7, <1>8, <1>9, <1>10, <1>11, <1>12,
       <1>13, <1>14, <1>15, <1>16 DEF Next

\* The inductive invariant holds.
THEOREM WholeInvariant == Spec => []AccountsInv
  BY WholeInit, WholeStep, PTL DEF Spec

\* Every variable stays in its type.
THEOREM AccountsTypeCorrect == Spec => []TypeOK
  <1>1. AccountsInv => TypeOK
    BY DEF AccountsInv
  <1>. QED
    BY <1>1, WholeInvariant, PTL

\* An account is whole or absent, a session that was given resolves, and one
\* registration of an email is answered 201.
THEOREM WholeCorrect == Spec => []AccountsWhole
  <1>1. AccountsInv => AccountsWhole
    <2>. SUFFICES ASSUME AccountsInv PROVE AccountsWhole
      OBVIOUS
    <2>. USE DEF AccountsInv, TypeOK, RowsWhole
    <2>1. ASSUME NEW t \in given PROVE \E e \in Emails : Resolves(t, e)
      <3>1. sessions[t] \in Emails /\ users[sessions[t]] # None
        OBVIOUS
      <3>. QED
        BY <3>1 DEF Resolves, HasRows
    <2>2. ASSUME NEW e \in Emails PROVE created[e] <= 1
      OBVIOUS
    <2>. QED
      BY <2>1, <2>2 DEF AccountsWhole
  <1>. QED
    BY <1>1, WholeInvariant, PTL

----------------------------------------------------------------------------
(* Guilds.                                                                 *)

\* one_active_guild_per_user, and what a join that nothing has disturbed keeps.
MembersInv ==
    /\ \A m, n \in members : m.user = n.user => m = n
    /\ \A r \in Requests : req[r].pc = "joined" /\ req[r].free =>
           /\ [user |-> req[r].user, guild |-> req[r].guild] \in members
           /\ users[req[r].user].home = req[r].guild

\* Every step keeps each membership beside the home city its join has set, until
\* the join is answered.
LEMMA MembersStep == AccountsInv /\ MembersInv /\ [Next]_vars => MembersInv'
  <1>. SUFFICES ASSUME AccountsInv, MembersInv, [Next]_vars PROVE MembersInv'
    OBVIOUS
  <1>8. ASSUME NEW r \in Requests, NEW t \in Tokens, NEW e \in Emails,
               BeginUpdate(r, t, e)
        PROVE  MembersInv'
    <2>1. /\ req'[r].pc = "authed"
          /\ \A q \in Requests : q # r => Carries(q)
      BY <1>8, UpdateBegins, Zenon DEF AccountsInv
    <2>2. UNCHANGED <<users, members>>
      BY <1>8 DEF BeginUpdate, unread
    <2>. QED
      BY <2>1, <2>2 DEF MembersInv, Carries
  <1>. USE NoneAssumption
  <1>. USE DEF AccountsInv, TypeOK, RequestsCarry, Registering, Serving, Idle,
               MembersInv, others, unread
  <1>1. ASSUME NEW r \in Requests, NEW e \in Emails,
               RegisterInsert(r, e) \/ LoginVerify(r, e)
        PROVE  MembersInv'
    <2>1. PICK x \in {"inserted", "verified"} :
            req' = [req EXCEPT ![r] = [Idle EXCEPT !.pc = x, !.user = e]]
      BY <1>1 DEF RegisterInsert, LoginVerify
    <2>2. UNCHANGED <<users, members>>
      BY <1>1 DEF RegisterInsert, LoginVerify
    <2>. QED
      BY <2>1, <2>2
  <1>2. ASSUME NEW r \in Requests, NEW t \in Tokens,
               RegisterCommit(r, t) \/ RegisterUnconfirmed(r, t)
        PROVE  MembersInv'
    BY <1>2 DEF RegisterCommit, RegisterUnconfirmed, Registered, End
  <1>3. ASSUME NEW r \in Requests, NEW t \in Tokens, LoginSession(r, t)
        PROVE  MembersInv'
    BY <1>3 DEF LoginSession, End
  <1>4. ASSUME NEW r \in Requests,
               RegisterAborts(r) \/ LoginFails(r) \/ SavePrefsRow(r) \/ UpdateFails(r)
        PROVE  MembersInv'
    BY <1>4 DEF RegisterAborts, LoginFails, SavePrefsRow, UpdateFails, End
  <1>5. ASSUME NEW r \in Requests, SaveUserRow(r)
        PROVE  MembersInv'
    BY <1>5 DEF SaveUserRow
  <1>6. ASSUME NEW r \in Requests, JoinAnswer(r)
        PROVE  MembersInv'
    BY <1>6 DEF JoinAnswer, End, account
  <1>7. ASSUME NEW t \in Tokens, Logout(t) \/ Expire(t)
        PROVE  MembersInv'
    BY <1>7 DEF Logout, Expire
  <1>9. ASSUME NEW r \in Requests, NEW t \in Tokens, NEW e \in Emails,
               NEW g \in Guilds, JoinGuild(r, t, e, g)
        PROVE  MembersInv'
    <2>1. \A m, n \in members' : m.user = n.user => m = n
      BY <1>9 DEF JoinGuild, Insertable, Membership
    <2>2. /\ req'[r].user = e /\ req'[r].guild = g
          /\ req'[r].free = (Membership(e) = {} /\ g = users[e].home)
      BY <1>9 DEF JoinGuild
    <2>3. req'[r].free => Insertable(e, g)
      BY <2>2, Zenon DEF Insertable
    <2>4. req'[r].free => [user |-> e, guild |-> g] \in members' /\ users[e].home = g
      BY <1>9, <2>3 DEF JoinGuild, Insertable
    <2>5. \A q \in Requests : q # r => req'[q] = req[q]
      BY <1>9 DEF JoinGuild
    <2>6. users' = users /\ members \subseteq members'
      BY <1>9 DEF JoinGuild, account
    <2>. QED
      BY <2>1, <2>2, <2>4, <2>5, <2>6
  <1>10. ASSUME NEW t \in Tokens, NEW e \in Emails, LeaveGuild(t, e)
         PROVE  MembersInv'
    BY <1>10 DEF LeaveGuild, Membership, account
  <1>11. CASE UNCHANGED vars
    BY <1>11 DEF vars
  <1>. QED
    BY <1>1, <1>2, <1>3, <1>4, <1>5, <1>6, <1>7, <1>8, <1>9, <1>10, <1>11 DEF Next

\* The answer of a join is of a membership there is, the only one of the user.
THEOREM JoinCorrect == Spec => []JoinAnswered
  <1>1. Init => MembersInv
    BY DEF Init, MembersInv, Idle
  <1>2. AccountsInv /\ MembersInv => JoinAnswered
    <2>. SUFFICES ASSUME AccountsInv, MembersInv,
                         NEW r \in Requests, req[r].pc = "joined"
                  PROVE  LET e == req[r].user IN
                         /\ req[r].free =>
                              Suggested(e) = [guild |-> req[r].guild, member |-> TRUE]
                         /\ Suggested(e).member =>
                              Membership(e) = {[user |-> e, guild |-> Suggested(e).guild]}
      BY DEF JoinAnswered
    <2>. DEFINE e == req[r].user
                mine == [user |-> e, guild |-> users[e].home]
    <2>1. Suggested(e).guild = users[e].home
      BY DEF Suggested
    <2>2. Suggested(e).member = (mine \in members)
      BY DEF Suggested
    <2>3. ASSUME req[r].free
          PROVE  Suggested(e) = [guild |-> req[r].guild, member |-> TRUE]
      <3>1. users[e].home = req[r].guild /\ mine \in members
        BY <2>3 DEF MembersInv
      <3>2. (mine \in members) = TRUE
        BY <3>1
      <3>. QED
        BY <3>1, <3>2, Zenon DEF Suggested
    <2>4. ASSUME mine \in members PROVE Membership(e) = {mine}
      BY <2>4 DEF MembersInv, Membership
    <2>. QED
      BY <2>1, <2>2, <2>3, <2>4, Zenon
  <1>. QED
    BY <1>1, <1>2, MembersStep, WholeInvariant, PTL DEF Spec

----------------------------------------------------------------------------
(* Updates of a profile.                                                   *)

Updates == {"authed", "half"}

\* An update that believes to be alone is; half of what it saves is stored; and
\* without updates under way, what was shown last is what is stored.
AloneIsAlone ==
    \A q, r \in Requests :
        req[q].pc \in Updates /\ req[r].pc \in Updates
            /\ req[q].user = req[r].user /\ req[r].alone => q = r
HalfIsStored ==
    \A r \in Requests : req[r].pc = "half" /\ req[r].alone =>
        users[req[r].user] = [home |-> req[r].want.home,
                              onboarded |-> req[r].want.onboarded]
ShownInv ==
    /\ AloneIsAlone
    /\ HalfIsStored
    /\ \A e \in Emails : users[e] = None => shown[e] = None
    /\ ShownIsStored

\* A step after which neither the rows nor what was shown, nor which updates are
\* under way, has changed.
LEMMA ShownQuiet ==
    ASSUME AccountsInv, ShownInv, UNCHANGED <<users, prefs, shown>>,
           req' \in [Requests -> RequestStates],
           \A q \in Requests :
              \/ req[q].pc \notin Updates /\ req'[q].pc \notin Updates
              \/ /\ req'[q].pc = req[q].pc /\ req'[q].user = req[q].user
                 /\ req'[q].want = req[q].want /\ req'[q].alone = req[q].alone
    PROVE  ShownInv'
  <1>1. AloneIsAlone' /\ HalfIsStored'
    BY DEF ShownInv, AloneIsAlone, HalfIsStored, Updates
  <1>2. \A e \in Emails : Updating(e)' = Updating(e)
    BY DEF Updating, Updates
  <1>3. \A e \in Emails : Profile(e)' = Profile(e)
    BY DEF Profile
  <1>. QED
    BY <1>1, <1>2, <1>3 DEF ShownInv, ShownIsStored

\* Every step keeps what clients were shown equal to what is stored, as long as
\* no update of the account is under way.
LEMMA ShownStep == AccountsInv /\ ShownInv /\ [Next]_vars => ShownInv'
  <1>. SUFFICES ASSUME AccountsInv, ShownInv, [Next]_vars PROVE ShownInv'
    OBVIOUS
  <1>0. AccountsInv'
    BY WholeStep
  <1>1. ASSUME NEW r \in Requests, NEW t \in Tokens, NEW e \in Emails,
               BeginUpdate(r, t, e)
        PROVE  ShownInv'
    <2>1. req[r].pc = "idle" /\ req'[r].pc = "authed" /\ req'[r].user = e
      BY <1>1, UpdateBegins, Zenon DEF AccountsInv
    <2>6. \A q \in Requests : q # r => Carries(q)
      BY <1>1, UpdateBegins, Zenon DEF AccountsInv
    <2>0. /\ req'[r].alone => Updating(e) = {}
          /\ \A q \in Requests : q # r =>
                (req'[q].alone => req[q].alone /\ q \notin Updating(e))
      BY <1>1, UpdateBegins, Zenon DEF AccountsInv
    <2>2. UNCHANGED <<users, prefs, shown>>
      BY <1>1 DEF BeginUpdate
    <2>3. AloneIsAlone'
      BY <2>0, <2>1, <2>6 DEF ShownInv, AloneIsAlone, Updating, Updates, Carries
    <2>4. HalfIsStored'
      BY <2>0, <2>1, <2>6, <2>2 DEF ShownInv, HalfIsStored, Carries
    <2>5. ShownIsStored'
      <3>1. ASSUME NEW d \in Emails, Updating(d)' = {} PROVE Updating(d) = {}
        BY <2>1, <2>6, <3>1 DEF Updating, Carries
      <3>2. \A d \in Emails : Profile(d)' = Profile(d)
        BY <2>2 DEF Profile
      <3>. QED
        BY <2>2, <3>1, <3>2 DEF ShownInv, ShownIsStored
    <2>. QED
      BY <2>2, <2>3, <2>4, <2>5 DEF ShownInv
  <1>2. ASSUME NEW r \in Requests, SaveUserRow(r)
        PROVE  ShownInv'
    <2>. DEFINE u == req[r].user
                row == [home |-> req[r].want.home, onboarded |-> req[r].want.onboarded]
    <2>1. /\ u \in Emails /\ users[u] # None /\ req[r].pc = "authed"
          /\ row # None
      BY <1>2, SavedRows DEF AccountsInv, RequestsCarry, Serving, SaveUserRow
    <2>2. /\ users' = [users EXCEPT ![u] = row]
          /\ UNCHANGED <<prefs, shown>>
      BY <1>2 DEF SaveUserRow
    <2>3. /\ req'[r].pc = "half"
          /\ \A q \in Requests :
                /\ req'[q].user = req[q].user /\ req'[q].want = req[q].want
                /\ req'[q].alone = req[q].alone
                /\ q # r => req'[q].pc = req[q].pc
      BY <1>2 DEF SaveUserRow, AccountsInv, TypeOK, RequestStates
    <2>4. users \in [Emails -> UserRows \cup {None}]
      BY DEF AccountsInv, TypeOK
    <2>5. AloneIsAlone'
      BY <2>1, <2>3 DEF ShownInv, AloneIsAlone, Updates
    <2>6. HalfIsStored'
      <3>. SUFFICES ASSUME NEW q \in Requests, req'[q].pc = "half", req'[q].alone
                    PROVE  users'[req'[q].user] =
                             [home |-> req'[q].want.home,
                              onboarded |-> req'[q].want.onboarded]
        BY DEF HalfIsStored
      <3>1. CASE q = r
        BY <2>1, <2>2, <2>3, <2>4, <3>1
      <3>2. CASE q # r
        <4>1. req[q].pc = "half" /\ req[q].alone
          BY <2>3, <3>2
        <4>2. req[q].user # u
          BY <2>1, <3>2, <4>1 DEF ShownInv, AloneIsAlone, Updates
        <4>3. users'[req[q].user] = users[req[q].user]
          BY <2>2, <2>4, <4>2, <4>1 DEF AccountsInv, RequestsCarry
        <4>. QED
          BY <2>3, <4>1, <4>3 DEF ShownInv, HalfIsStored
      <3>. QED
        BY <3>1, <3>2
    <2>7. ShownIsStored'
      <3>1. Updating(u)' # {}
        BY <2>3 DEF Updating
      <3>2. ASSUME NEW d \in Emails, Updating(d)' = {} PROVE Updating(d) = {} /\ d # u
        BY <2>1, <2>3, <3>1, <3>2 DEF Updating
      <3>3. ASSUME NEW d \in Emails, d # u PROVE Profile(d)' = Profile(d)
        BY <2>2, <2>4, <3>3 DEF Profile
      <3>. QED
        BY <2>2, <3>2, <3>3 DEF ShownInv, ShownIsStored
    <2>. QED
      BY <2>1, <2>2, <2>4, <2>5, <2>6, <2>7 DEF ShownInv
  <1>3. ASSUME NEW r \in Requests, SavePrefsRow(r) \/ UpdateFails(r)
        PROVE  ShownInv'
    <2>0. PICK u \in Emails : u = req[r].user
      BY <1>3 DEF SavePrefsRow, UpdateFails, AccountsInv, RequestsCarry
    <2>1. /\ u = req[r].user /\ users[u] # None /\ req[r].pc \in Updates
          /\ users' = users
          /\ \/ /\ req[r].pc = "half" /\ req[r].alone
                /\ prefs' = [prefs EXCEPT ![u] = req[r].want.wishes]
                /\ shown' = [shown EXCEPT ![u] = req[r].want]
             \/ /\ \E w : prefs' = [prefs EXCEPT ![u] = w]
                /\ shown' = [shown EXCEPT ![u] = None]
      <3>1. CASE SavePrefsRow(r)
        BY <2>0, <3>1 DEF SavePrefsRow, AccountsInv, RequestsCarry, Serving, Updates
      <3>2. CASE UpdateFails(r)
        <4>1. prefs' = [prefs EXCEPT ![u] = prefs[u]]
          BY <3>2 DEF UpdateFails, AccountsInv, TypeOK
        <4>. QED
          BY <2>0, <3>2, <4>1 DEF UpdateFails, AccountsInv, RequestsCarry, Serving,
                                 Updates
      <3>. QED
        BY <1>3, <3>1, <3>2
    <2>2. /\ req'[r].pc \notin Updates
          /\ \A q \in Requests : q # r => req'[q] = req[q]
      BY <1>3 DEF SavePrefsRow, UpdateFails, End, AccountsInv, TypeOK, Idle, Updates
    <2>3. shown \in [Emails -> Profiles \cup {None}] /\ prefs \in [Emails -> Wishes \cup {None}]
      BY DEF AccountsInv, TypeOK
    <2>4. AloneIsAlone'
      BY <2>2 DEF ShownInv, AloneIsAlone
    <2>5. HalfIsStored'
      BY <2>1, <2>2 DEF ShownInv, HalfIsStored, Updates
    <2>6. ShownIsStored'
      <3>1. ASSUME NEW d \in Emails, d # u, shown'[d] # None, Updating(d)' = {}
            PROVE  shown'[d] = Profile(d)'
        <4>1. Updating(d) = {}
          BY <2>1, <2>2, <3>1 DEF Updating
        <4>2. shown'[d] = shown[d] /\ Profile(d)' = Profile(d)
          BY <2>1, <2>3, <3>1 DEF Profile
        <4>. QED
          BY <3>1, <4>1, <4>2 DEF ShownInv, ShownIsStored
      <3>2. ASSUME shown'[u] # None PROVE shown'[u] = Profile(u)'
        <4>1. /\ req[r].pc = "half" /\ req[r].alone
              /\ prefs'[u] = req[r].want.wishes /\ shown'[u] = req[r].want
          BY <2>1, <2>3, <3>2
        <4>2. users'[u] = [home |-> req[r].want.home,
                           onboarded |-> req[r].want.onboarded]
          BY <2>1, <4>1 DEF ShownInv, HalfIsStored
        <4>3. req[r].want \in Profiles
          BY <4>1 DEF AccountsInv, RequestsCarry
        <4>4. Profile(u)' = [home |-> req[r].want.home,
                             onboarded |-> req[r].want.onboarded,
                             wishes |-> req[r].want.wishes]
          BY <4>1, <4>2 DEF Profile
        <4>. QED
          BY <4>1, <4>3, <4>4 DEF Profiles
      <3>. QED
        BY <2>1, <3>1, <3>2 DEF ShownIsStored
    <2>. QED
      BY <2>1, <2>3, <2>4, <2>5, <2>6 DEF ShownInv
  <1>4. ASSUME NEW r \in Requests, NEW t \in Tokens,
               RegisterCommit(r, t) \/ RegisterUnconfirmed(r, t)
        PROVE  ShownInv'
    <2>. DEFINE u == req[r].user
    <2>1. /\ u \in Emails /\ users[u] = None /\ req[r].pc = "inserted"
          /\ shown' = shown
          /\ users' = [users EXCEPT ![u] = [home |-> HomeCity, onboarded |-> FALSE]]
          /\ prefs' = [prefs EXCEPT ![u] = NoWishes]
          /\ req' = [req EXCEPT ![r] = Idle]
      BY <1>4 DEF RegisterCommit, RegisterUnconfirmed, Registered, End, others,
                  AccountsInv, RequestsCarry, Registering
    <2>2. /\ req'[r].pc \notin Updates /\ req[r].pc \notin Updates
          /\ \A q \in Requests : q # r => req'[q] = req[q]
      BY <2>1 DEF AccountsInv, TypeOK, Idle, Updates
    <2>3. /\ users \in [Emails -> UserRows \cup {None}]
          /\ prefs \in [Emails -> Wishes \cup {None}]
      BY DEF AccountsInv, TypeOK
    <2>4. AloneIsAlone'
      BY <2>2 DEF ShownInv, AloneIsAlone
    <2>5. HalfIsStored'
      BY <2>1, <2>2, <2>3 DEF ShownInv, HalfIsStored, Updates, AccountsInv,
                              RequestsCarry, Serving
    <2>6. shown[u] = None
      BY <2>1 DEF ShownInv
    <2>7. ShownIsStored'
      <3>1. ASSUME NEW d \in Emails, d # u PROVE Profile(d)' = Profile(d)
        BY <2>1, <2>3, <3>1 DEF Profile
      <3>2. ASSUME NEW d \in Emails PROVE Updating(d)' = Updating(d)
        BY <2>2 DEF Updating, Updates
      <3>. QED
        BY <2>1, <2>6, <3>1, <3>2 DEF ShownInv, ShownIsStored
    <2>. QED
      BY <2>1, <2>3, <2>4, <2>5, <2>7 DEF ShownInv
  <1>5. ASSUME NEW r \in Requests, NEW e \in Emails,
               RegisterInsert(r, e) \/ LoginVerify(r, e)
        PROVE  ShownInv'
    <2>1. UNCHANGED <<users, prefs, shown>>
      BY <1>5 DEF RegisterInsert, LoginVerify, others
    <2>2. PICK x \in {"inserted", "verified"} :
            req' = [req EXCEPT ![r] = [Idle EXCEPT !.pc = x, !.user = e]]
      BY <1>5 DEF RegisterInsert, LoginVerify
    <2>3. req[r] = Idle
      BY <1>5 DEF RegisterInsert, LoginVerify
    <2>4. /\ req[r].pc \notin Updates /\ req'[r].pc \notin Updates
          /\ \A q \in Requests : q # r => req'[q] = req[q]
      BY <2>2, <2>3 DEF AccountsInv, TypeOK, Idle, Updates
    <2>. QED
      BY <1>0, <2>1, <2>4, ShownQuiet DEF AccountsInv, TypeOK
  <1>10. ASSUME NEW r \in Requests,
                \/ \E t \in Tokens : LoginSession(r, t)
                \/ RegisterAborts(r) \/ LoginFails(r) \/ JoinAnswer(r)
         PROVE  ShownInv'
    <2>1. UNCHANGED <<users, prefs, shown>>
      BY <1>10 DEF LoginSession, RegisterAborts, LoginFails, JoinAnswer, others,
                   account
    <2>2. End(r) /\ req[r].pc \notin Updates
      BY <1>10 DEF LoginSession, RegisterAborts, LoginFails, JoinAnswer, Updates
    <2>3. /\ req'[r].pc \notin Updates
          /\ \A q \in Requests : q # r => req'[q] = req[q]
      BY <2>2 DEF AccountsInv, TypeOK, End, Idle, Updates
    <2>. QED
      BY <1>0, <2>1, <2>2, <2>3, ShownQuiet DEF AccountsInv, TypeOK
  <1>6. ASSUME NEW r \in Requests, NEW t \in Tokens, NEW e \in Emails,
               NEW g \in Guilds, JoinGuild(r, t, e, g)
        PROVE  ShownInv'
    <2>1. UNCHANGED <<users, prefs, shown>>
      BY <1>6 DEF JoinGuild, account
    <2>2. req'[r].pc \notin Updates /\ \A q \in Requests : q # r => req'[q] = req[q]
      BY <1>6 DEF JoinGuild, Idle, AccountsInv, TypeOK, Updates
    <2>3. req[r].pc \notin Updates
      BY <1>6 DEF JoinGuild, Idle, Updates
    <2>. QED
      BY <1>0, <2>1, <2>2, <2>3, ShownQuiet DEF AccountsInv, TypeOK
  <1>7. ASSUME NEW t \in Tokens, Logout(t) \/ Expire(t)
        PROVE  ShownInv'
    BY <1>0, <1>7, ShownQuiet DEF Logout, Expire, others, AccountsInv, TypeOK
  <1>8. ASSUME NEW t \in Tokens, NEW e \in Emails, LeaveGuild(t, e)
        PROVE  ShownInv'
    <2>1. UNCHANGED <<users, prefs, shown>>
      BY <1>8 DEF LeaveGuild, account
    <2>2. \A q \in Requests :
            /\ req'[q].pc = req[q].pc /\ req'[q].user = req[q].user
            /\ req'[q].want = req[q].want /\ req'[q].alone = req[q].alone
      BY <1>8 DEF LeaveGuild, AccountsInv, TypeOK, RequestStates
    <2>. QED
      BY <1>0, <2>1, <2>2, ShownQuiet DEF AccountsInv, TypeOK
  <1>9. CASE UNCHANGED vars
    BY <1>0, <1>9, ShownQuiet DEF vars, AccountsInv, TypeOK
  <1>. QED
    BY <1>1, <1>2, <1>3, <1>4, <1>5, <1>6, <1>7, <1>8, <1>9,
       <1>10 DEF Next

\* A client that waits for its answers loses no update.
THEOREM UpdatesKept == Spec => []ShownIsStored
  <1>1. Init => ShownInv
    BY DEF Init, ShownInv, AloneIsAlone, HalfIsStored, ShownIsStored, Idle, Updates
  <1>2. ShownInv => ShownIsStored
    BY DEF ShownInv
  <1>. QED
    BY <1>1, <1>2, ShownStep, WholeInvariant, PTL DEF Spec

----------------------------------------------------------------------------
(* AdminSimulation.                                                        *)

SimulationAssumptions == SimulationAssumption /\ NoRowAssumption /\ CommandsAssumption

\* What the module assumes of its constants, under one name for the lemmas.
LEMMA SimulationConstants == SimulationAssumptions
  BY SimulationAssumption, NoRowAssumption, CommandsAssumption DEF SimulationAssumptions

----------------------------------------------------------------------------
(* Operators.                                                              *)

\* A command names a user or nobody.
LEMMA CommandType ==
    ASSUME SimulationAssumptions, NEW c \in Commands
    PROVE  c.target \in Users \cup {NoRow}
  BY DEF SimulationAssumptions, CommandsAssumption

\* A snapshot is of the types it is kept with.
LEMMA SnapshotType ==
    ASSUME SimulationAssumptions, SimulationTypeOK, NEW a \in Actions, NEW c \in Commands
    PROVE  Snapshot(a, c) \in [row: Results \cup {NoRow}, visits: SUBSET Destinations,
                               pending: SUBSET Messages]
  <1>1. actions[a] \in Results \cup {NoRow}
    BY DEF SimulationTypeOK
  <1>2. (IF AboutVisits(c) /\ c.target # NoRow THEN visits[c.target] ELSE {})
          \in SUBSET Destinations
    <2>1. ASSUME c.target # NoRow PROVE visits[c.target] \in SUBSET Destinations
      BY <2>1, CommandType DEF SimulationTypeOK
    <2>. QED
      BY <2>1
  <1>3. (IF c.code = "outbox_process" THEN Pending ELSE {}) \in SUBSET Messages
    BY DEF Pending
  <1>. QED
    BY <1>1, <1>2, <1>3 DEF Snapshot

\* The rows affected are counted.
LEMMA AffectedType ==
    ASSUME SimulationAssumptions, NEW c \in Commands,
           NEW snapshot,
           snapshot.visits \in SUBSET Destinations, snapshot.pending \in SUBSET Messages
    PROVE  Affected(c, snapshot) \in Nat
  <1>1. ASSUME NEW S \in SUBSET Destinations PROVE Cardinality(S) \in Nat
    BY FS_Subset, FS_CardinalityType DEF SimulationAssumptions, SimulationAssumption
  <1>2. ASSUME NEW S \in SUBSET Messages PROVE Cardinality(S) \in Nat
    BY FS_Subset, FS_CardinalityType DEF SimulationAssumptions, SimulationAssumption
  <1>3. Destinations \ visits[c.target] \in SUBSET Destinations
    OBVIOUS
  <1>4. /\ Cardinality(Destinations \ visits[c.target]) \in Nat
        /\ Cardinality(snapshot.visits) \in Nat
        /\ Cardinality(snapshot.pending) \in Nat
    BY <1>1, <1>2, <1>3
  <1>. QED
    BY <1>4 DEF Affected

\* The table of visits keeps its type, and what it says of those who are no demo
\* users.
LEMMA VisitsAfterDemo ==
    ASSUME SimulationAssumptions, SimulationTypeOK, NEW c \in Commands, NEW seen
    PROVE  /\ VisitsAfter(c, seen) \in [Users -> SUBSET Destinations]
           /\ \A u \in Users \ DemoUsers : VisitsAfter(c, seen)[u] = visits[u]
  BY DEF SimulationAssumptions, SimulationAssumption, SimulationTypeOK, VisitsAfter,
         Syncs, Resets

\* The table of messages keeps its type.
LEMMA OutboxAfterType ==
    ASSUME SimulationTypeOK, NEW c \in Commands, NEW seen
    PROVE  OutboxAfter(c, seen) \in [Messages -> {"none", "pending", "processed"}]
  BY DEF SimulationTypeOK, OutboxAfter

\* A command that processes the outbox adds to the processed messages those it has
\* seen, and no other command adds any.
LEMMA OutboxAfterProcessed ==
    ASSUME SimulationTypeOK, NEW c \in Commands, NEW seen,
           seen.pending \in SUBSET Messages,
           c.code # "outbox_process" => seen.pending = {}
    PROVE  {m \in Messages : OutboxAfter(c, seen)[m] = "processed"} =
             {m \in Messages : outbox[m] = "processed"} \cup seen.pending
  BY DEF SimulationTypeOK, OutboxAfter

----------------------------------------------------------------------------
(* Type correctness.                                                       *)

\* A request that has begun carries an action, a command and a snapshot.
LEMMA BegunFields ==
    ASSUME SimulationTypeOK, NEW r \in Submissions, Begins(r)
    PROVE  /\ request[r].action \in Actions
           /\ request[r].command \in Commands
           /\ request[r].snapshot.row \in Results \cup {NoRow}
           /\ request[r].snapshot.visits \in SUBSET Destinations
           /\ request[r].snapshot.pending \in SUBSET Messages
           /\ request[r].gone \in SUBSET Destinations
  <1>1. request[r] \in Begun
    BY DEF SimulationTypeOK, Begins
  <1>. QED
    BY <1>1 DEF Begun

\* What a command loses by another one's reset is noted beside it, and changes
\* nothing else of it.
LEMMA LosingFields ==
    ASSUME NEW x \in Begun \cup {NoCommand}, NEW u, NEW S
    PROVE  /\ Losing(x, u, S) \in Begun \cup {NoCommand}
           /\ Losing(x, u, S) # NoCommand =>
                /\ x # NoCommand
                /\ Losing(x, u, S).action = x.action
                /\ Losing(x, u, S).command = x.command
                /\ Losing(x, u, S).snapshot = x.snapshot
  <1>1. ASSUME x \in Begun
        PROVE  LET y == [x EXCEPT !.gone = @ \cup (x.snapshot.visits \cap S)] IN
               /\ y \in Begun
               /\ y.action = x.action /\ y.command = x.command /\ y.snapshot = x.snapshot
    BY <1>1 DEF Begun
  <1>. QED
    BY <1>1 DEF Losing

\* A commit ends its own command and leaves of the others at least what they are.
LEMMA OthersKept ==
    ASSUME SimulationTypeOK, NEW r \in Submissions, CommitCommand(r)
    PROVE  /\ request' \in [Submissions -> Begun \cup {NoCommand}]
           /\ request'[r] = NoCommand
           /\ \A q \in Submissions \ {r} :
                Begins(q)' => /\ Begins(q)
                              /\ request'[q].action = request[q].action
                              /\ request'[q].command = request[q].command
                              /\ request'[q].snapshot = request[q].snapshot
  <1>. DEFINE lost(q) == Losing(request[q], request[r].command.target,
                                request[r].snapshot.visits)
  <1>1. \A q \in Submissions : request[q] \in Begun \cup {NoCommand}
    BY DEF SimulationTypeOK
  <1>2. \A q \in Submissions :
          /\ lost(q) \in Begun \cup {NoCommand}
          /\ lost(q) # NoCommand =>
               /\ request[q] # NoCommand
               /\ lost(q).action = request[q].action
               /\ lost(q).command = request[q].command
               /\ lost(q).snapshot = request[q].snapshot
    BY <1>1, LosingFields
  <1>3. \E b \in BOOLEAN :
          request' = [q \in Submissions |->
                         IF q = r THEN NoCommand ELSE IF b THEN lost(q) ELSE request[q]]
    <2>1. request' = [q \in Submissions |->
                         IF q = r THEN NoCommand
                         ELSE IF Resets(request[r].command) THEN lost(q) ELSE request[q]]
      BY DEF CommitCommand
    <2>2. CASE Resets(request[r].command)
      BY <2>1, <2>2
    <2>3. CASE ~Resets(request[r].command)
      BY <2>1, <2>3
    <2>. QED
      BY <2>2, <2>3
  <1>. HIDE DEF lost
  <1>. QED
    BY <1>1, <1>2, <1>3 DEF Begins

\* What a command returns is a result.
LEMMA ResultType ==
    ASSUME SimulationAssumptions, SimulationTypeOK, NEW r \in Submissions, Begins(r)
    PROVE  [command |-> request[r].command,
            affected |-> Affected(request[r].command, request[r].snapshot)] \in Results
  BY BegunFields, AffectedType DEF Results

\* Every step keeps every variable in its type.
LEMMA TypeStep == SimulationTypeOK /\ [SimulationNext]_simulationVars => SimulationTypeOK'
  <1>. SUFFICES ASSUME SimulationTypeOK, [SimulationNext]_simulationVars PROVE SimulationTypeOK'
    OBVIOUS
  <1>. SimulationAssumptions
    BY SimulationConstants
  <1>1. ASSUME NEW r \in Submissions, NEW a \in Actions, NEW c \in Commands, BeginCommand(r, a, c)
        PROVE  SimulationTypeOK'
    <2>1. [action |-> a, command |-> c, snapshot |-> Snapshot(a, c), gone |-> {}] \in Begun
      BY SnapshotType DEF Begun
    <2>. QED
      BY <1>1, <2>1 DEF BeginCommand, SimulationTypeOK
  <1>2. ASSUME NEW r \in Submissions, Repeat(r)
        PROVE  SimulationTypeOK'
    <2>1. request[r].action \in Actions /\ SeenRow(r) \in Results
      BY <1>2, BegunFields DEF Repeat, SeenRow
    <2>2. told' \in [Actions -> Results \cup {NoRow}]
      BY <1>2, <2>1 DEF Repeat, Answered, SimulationTypeOK
    <2>. QED
      BY <1>2, <2>2 DEF Repeat, SimulationTypeOK
  <1>3. ASSUME NEW r \in Submissions, CommitCommand(r)
        PROVE  SimulationTypeOK'
    <2>. DEFINE a == request[r].action
                c == request[r].command
                result == [command |-> c, affected |-> Affected(c, request[r].snapshot)]
    <2>1. Begins(r)
      BY <1>3 DEF CommitCommand
    <2>2. a \in Actions /\ c \in Commands /\ result \in Results
      BY <2>1, BegunFields, ResultType
    <2>3. actions' \in [Actions -> Results \cup {NoRow}]
      BY <1>3, <2>2 DEF CommitCommand, SimulationTypeOK
    <2>4. told' \in [Actions -> Results \cup {NoRow}]
      BY <1>3, <2>2 DEF CommitCommand, Answered, SimulationTypeOK
    <2>5. visits' \in [Users -> SUBSET Destinations]
      BY <1>3, <2>2, VisitsAfterDemo DEF CommitCommand
    <2>6. outbox' \in [Messages -> {"none", "pending", "processed"}]
      BY <1>3, <2>2, OutboxAfterType DEF CommitCommand
    <2>7. applied' \in [Actions -> SUBSET Messages]
      BY <1>3, <2>1, <2>2, BegunFields DEF CommitCommand, SimulationTypeOK
    <2>8. audit' \in [Actions -> Nat]
      BY <1>3, <2>2 DEF CommitCommand, SimulationTypeOK
    <2>9. request' \in [Submissions -> Begun \cup {NoCommand}]
      BY <1>3, OthersKept
    <2>. QED
      BY <2>3, <2>4, <2>5, <2>6, <2>7, <2>8, <2>9 DEF SimulationTypeOK
  <1>4. ASSUME NEW r \in Submissions, CommandFails(r)
        PROVE  SimulationTypeOK'
    BY <1>4 DEF CommandFails, SimulationTypeOK
  <1>5. ASSUME NEW u \in Users, DemoSync(u)
        PROVE  SimulationTypeOK'
    BY <1>5 DEF DemoSync, SimulationTypeOK
  <1>6. ASSUME NEW m \in Messages, Publish(m)
        PROVE  SimulationTypeOK'
    BY <1>6 DEF Publish, SimulationTypeOK
  <1>7. CASE UNCHANGED simulationVars
    BY <1>7 DEF simulationVars, SimulationTypeOK
  <1>. QED
    BY <1>1, <1>2, <1>3, <1>4, <1>5, <1>6, <1>7 DEF SimulationNext

\* Every variable stays in its type.
THEOREM SimulationTypeCorrect == SimulationSpec => []SimulationTypeOK
  <1>1. SimulationInit => SimulationTypeOK
    BY DEF SimulationInit, SimulationTypeOK
  <1>. QED
    BY <1>1, TypeStep, PTL DEF SimulationSpec

----------------------------------------------------------------------------
(* Once.                                                                   *)

\* An action that is not executed has processed nothing; the row of its key that a
\* request has seen is there still; and only a command that processes the outbox looks
\* at messages.
SimulationInv ==
    /\ SimulationTypeOK
    /\ EffectOnce
    /\ ToldStays
    /\ \A a \in Actions : actions[a] = NoRow => applied[a] = {}
    /\ \A r \in Submissions : Begins(r) =>
           /\ SeenRow(r) # NoRow => actions[request[r].action] = SeenRow(r)
           /\ request[r].command.code # "outbox_process" =>
                request[r].snapshot.pending = {}

\* Every step keeps the invariant of the simulator.
LEMMA SimulationStep == SimulationInv /\ [SimulationNext]_simulationVars => SimulationInv'
  <1>. SUFFICES ASSUME SimulationInv, [SimulationNext]_simulationVars PROVE SimulationInv'
    OBVIOUS
  <1>. SimulationAssumptions
    BY SimulationConstants
  <1>0. SimulationTypeOK /\ SimulationTypeOK'
    BY TypeStep DEF SimulationInv
  <1>1. ASSUME NEW r \in Submissions, NEW a \in Actions, NEW c \in Commands, BeginCommand(r, a, c)
        PROVE  SimulationInv'
    <2>1. /\ request'[r].action = a /\ request'[r].snapshot.row = actions[a]
          /\ request'[r].command = c
          /\ c.code # "outbox_process" => request'[r].snapshot.pending = {}
      BY <1>0, <1>1 DEF BeginCommand, Snapshot, SimulationTypeOK
    <2>2. \A q \in Submissions : q # r => request'[q] = request[q]
      BY <1>0, <1>1 DEF BeginCommand, SimulationTypeOK
    <2>3. UNCHANGED <<actions, audit, visits, outbox, told, applied>>
      BY <1>1 DEF BeginCommand
    <2>4. \A q \in Submissions : Begins(q)' =>
            /\ SeenRow(q)' # NoRow => actions'[request'[q].action] = SeenRow(q)'
            /\ request'[q].command.code # "outbox_process" =>
                 request'[q].snapshot.pending = {}
      BY <2>1, <2>2, <2>3 DEF SimulationInv, Begins, SeenRow
    <2>. QED
      BY <1>0, <2>3, <2>4 DEF SimulationInv, EffectOnce, ToldStays
  <1>2. ASSUME NEW r \in Submissions, Repeat(r)
        PROVE  SimulationInv'
    <2>1. request[r].action \in Actions
      BY <1>0, <1>2, BegunFields DEF Repeat
    <2>2. actions[request[r].action] = SeenRow(r)
      BY <1>2 DEF Repeat, SimulationInv
    <2>3. /\ \A q \in Submissions : q # r => request'[q] = request[q]
          /\ request'[r] = NoCommand
          /\ UNCHANGED <<actions, audit, visits, outbox, applied>>
      BY <1>0, <1>2 DEF Repeat, SimulationTypeOK
    <2>4. \A q \in Submissions : Begins(q)' =>
            /\ SeenRow(q)' # NoRow => actions'[request'[q].action] = SeenRow(q)'
            /\ request'[q].command.code # "outbox_process" =>
                 request'[q].snapshot.pending = {}
      BY <2>3 DEF SimulationInv, Begins, SeenRow
    <2>5. ToldStays'
      BY <1>0, <1>2, <2>1, <2>2, <2>3 DEF Repeat, Answered, SimulationInv, ToldStays, SimulationTypeOK
    <2>. QED
      BY <1>0, <2>3, <2>4, <2>5 DEF SimulationInv, EffectOnce
  <1>3. ASSUME NEW r \in Submissions, CommitCommand(r)
        PROVE  SimulationInv'
    <2>0. PICK a \in Actions, c \in Commands :
            a = request[r].action /\ c = request[r].command
      BY <1>0, <1>3, BegunFields DEF CommitCommand
    <2>. DEFINE result == [command |-> c, affected |-> Affected(c, request[r].snapshot)]
                taken == request[r].snapshot.pending
    <2>1. result \in Results /\ result # NoRow
      BY <1>0, <1>3, <2>0, ResultType DEF CommitCommand, SimulationAssumptions, NoRowAssumption
    <2>2. /\ request[r].snapshot.row = actions[a]
          /\ taken \subseteq Pending
          /\ c.code # "outbox_process" => taken = {}
      BY <1>3, <2>0 DEF CommitCommand, Undisturbed, SimulationInv
    <2>3. actions[a] = NoRow /\ applied[a] = {} /\ audit[a] = 0
      BY <1>3, <2>0, <2>2 DEF CommitCommand, SeenRow, SimulationInv, EffectOnce
    <2>4. /\ actions' = [actions EXCEPT ![a] = result]
          /\ audit' = [audit EXCEPT ![a] = @ + 1]
          /\ outbox' = OutboxAfter(c, request[r].snapshot)
          /\ applied' = [applied EXCEPT ![a] = @ \cup taken]
          /\ told' \in {told, [told EXCEPT ![a] = result]}
      BY <1>3, <2>0 DEF CommitCommand, Answered
    <2>5. /\ actions'[a] = result /\ audit'[a] = 1 /\ applied'[a] = taken
          /\ \A b \in Actions : b # a =>
                /\ actions'[b] = actions[b] /\ audit'[b] = audit[b]
                /\ applied'[b] = applied[b] /\ told'[b] = told[b]
          /\ told'[a] \in {told[a], result}
      BY <1>0, <2>3, <2>4 DEF SimulationTypeOK
    <2>6. \A b \in Actions : audit'[b] = IF actions'[b] = NoRow THEN 0 ELSE 1
      BY <2>1, <2>5 DEF SimulationInv, EffectOnce
    <2>7. \A b \in Actions :
            actions'[b] # NoRow /\ actions'[b].command.code = "outbox_process"
              => actions'[b].affected = Cardinality(applied'[b])
      <3>1. c.code = "outbox_process" => result.affected = Cardinality(taken)
        BY DEF Affected, Syncs, Resets
      <3>. QED
        BY <2>1, <2>5, <3>1 DEF SimulationInv, EffectOnce
    <2>8. \A b \in Actions : b # a => taken \cap applied[b] = {}
      <3>1. \A b \in Actions : \A m \in applied[b] : outbox[m] = "processed"
        BY DEF SimulationInv, EffectOnce
      <3>. QED
        BY <2>2, <3>1 DEF Pending
    <2>9. \A b, d \in Actions : b # d => applied'[b] \cap applied'[d] = {}
      BY <2>5, <2>8 DEF SimulationInv, EffectOnce
    <2>10. UNION {applied'[b] : b \in Actions} = {m \in Messages : outbox'[m] = "processed"}
      <3>. SUFFICES ASSUME NEW m
                    PROVE  (\E b \in Actions : m \in applied'[b]) <=>
                             m \in {n \in Messages : outbox'[n] = "processed"}
        OBVIOUS
      <3>1. (\E b \in Actions : m \in applied'[b]) <=>
              (\E b \in Actions : m \in applied[b]) \/ m \in taken
        BY <2>3, <2>5
      <3>2. m \in UNION {applied[b] : b \in Actions} <=>
              m \in {n \in Messages : outbox[n] = "processed"}
        BY DEF SimulationInv, EffectOnce
      <3>3. (\E b \in Actions : m \in applied[b]) <=>
              m \in {n \in Messages : outbox[n] = "processed"}
        BY <3>2
      <3>4. {n \in Messages : outbox'[n] = "processed"} =
              {n \in Messages : outbox[n] = "processed"} \cup taken
        <4>1. taken \in SUBSET Messages
          BY <2>2 DEF Pending
        <4>. QED
          BY <1>0, <2>2, <2>4, <4>1, OutboxAfterProcessed
      <3>. QED
        BY <3>1, <3>3, <3>4
    <2>11. ToldStays'
      BY <2>1, <2>3, <2>5 DEF SimulationInv, ToldStays
    <2>12. \A b \in Actions : actions'[b] = NoRow => applied'[b] = {}
      BY <2>1, <2>5 DEF SimulationInv
    <2>13. \A q \in Submissions : Begins(q)' =>
             /\ SeenRow(q)' # NoRow => actions'[request'[q].action] = SeenRow(q)'
             /\ request'[q].command.code # "outbox_process" =>
                  request'[q].snapshot.pending = {}
      <3>1. /\ request'[r] = NoCommand
            /\ \A q \in Submissions \ {r} :
                 Begins(q)' => /\ Begins(q)
                               /\ request'[q].action = request[q].action
                               /\ request'[q].command = request[q].command
                               /\ request'[q].snapshot = request[q].snapshot
        BY <1>0, <1>3, OthersKept
      <3>2. ASSUME NEW q \in Submissions, q # r, Begins(q), SeenRow(q) # NoRow
            PROVE  actions'[request[q].action] = SeenRow(q)
        <4>1. request[q].action \in Actions
          BY <1>0, <3>2, BegunFields
        <4>2. actions[request[q].action] = SeenRow(q)
          BY <3>2 DEF SimulationInv
        <4>. QED
          BY <2>3, <2>5, <3>2, <4>1, <4>2
      <3>3. ASSUME NEW q \in Submissions, q # r, Begins(q)
            PROVE  request[q].command.code # "outbox_process" =>
                     request[q].snapshot.pending = {}
        BY <3>3 DEF SimulationInv
      <3>. QED
        BY <3>1, <3>2, <3>3 DEF Begins, SeenRow
    <2>. QED
      BY <1>0, <2>6, <2>7, <2>9, <2>10, <2>11, <2>12, <2>13
         DEF SimulationInv, EffectOnce
  <1>4. ASSUME NEW r \in Submissions, CommandFails(r)
        PROVE  SimulationInv'
    <2>1. /\ \A q \in Submissions : q # r => request'[q] = request[q]
          /\ request'[r] = NoCommand
          /\ UNCHANGED <<actions, audit, visits, outbox, applied, told>>
      BY <1>0, <1>4 DEF CommandFails, SimulationTypeOK
    <2>. QED
      BY <1>0, <2>1 DEF SimulationInv, EffectOnce, ToldStays, Begins, SeenRow
  <1>5. ASSUME NEW u \in Users, DemoSync(u)
        PROVE  SimulationInv'
    BY <1>0, <1>5 DEF DemoSync, SimulationInv, EffectOnce, ToldStays, Begins, SeenRow
  <1>6. ASSUME NEW m \in Messages, Publish(m)
        PROVE  SimulationInv'
    <2>1. {n \in Messages : outbox'[n] = "processed"} =
            {n \in Messages : outbox[n] = "processed"}
      BY <1>0, <1>6 DEF Publish, SimulationTypeOK
    <2>. QED
      BY <1>0, <1>6, <2>1 DEF Publish, SimulationInv, EffectOnce, ToldStays, Begins, SeenRow
  <1>7. CASE UNCHANGED simulationVars
    BY <1>0, <1>7 DEF simulationVars, SimulationInv, EffectOnce, ToldStays, Begins, SeenRow
  <1>. QED
    BY <1>1, <1>2, <1>3, <1>4, <1>5, <1>6, <1>7 DEF SimulationNext

\* The inductive invariant holds.
THEOREM SimulationInvariant == SimulationSpec => []SimulationInv
  <1>1. SimulationInit => SimulationInv
    <2>. SUFFICES ASSUME SimulationInit PROVE SimulationInv
      OBVIOUS
    <2>1. SimulationTypeOK
      BY DEF SimulationInit, SimulationTypeOK
    <2>2. EffectOnce
      BY DEF SimulationInit, EffectOnce
    <2>. QED
      BY <2>1, <2>2 DEF SimulationInit, SimulationInv, ToldStays, Begins
  <1>. QED
    BY <1>1, SimulationStep, PTL DEF SimulationSpec

\* An action takes effect once, with whatever else is sent for its key and whatever is
\* published, inserted or deleted while it runs.
THEOREM EffectCorrect == SimulationSpec => []EffectOnce
  <1>1. SimulationInv => EffectOnce
    BY DEF SimulationInv
  <1>. QED
    BY <1>1, SimulationInvariant, PTL

\* What was answered for a key stays what the log has for it.
THEOREM AnswersStay == SimulationSpec => []ToldStays
  <1>1. SimulationInv => ToldStays
    BY DEF SimulationInv
  <1>. QED
    BY <1>1, SimulationInvariant, PTL

\* No command changes the visits of a user who is not a demo user.
THEOREM OnlyDemoUsers == SimulationSpec => DemoUsersOnly
  <1>1. ASSUME SimulationTypeOK, NEW r \in Submissions, CommitCommand(r)
        PROVE  \A u \in Users \ DemoUsers : visits'[u] = visits[u]
    <2>1. request[r].command \in Commands
      BY <1>1, SimulationConstants, BegunFields DEF CommitCommand
    <2>. QED
      BY <1>1, <2>1, SimulationConstants, VisitsAfterDemo DEF CommitCommand
  <1>2. SimulationTypeOK =>
          [\A r \in Submissions :
               CommitCommand(r) =>
                   \A u \in Users \ DemoUsers : visits'[u] = visits[u]]_simulationVars
    BY <1>1
  <1>. QED
    BY <1>2, SimulationTypeCorrect, PTL DEF DemoUsersOnly

----------------------------------------------------------------------------
(* EventCatalog.                                                           *)

CatalogAssumptions == CatalogAssumption /\ AbsentAssumption

\* What the module assumes of its constants, under one name for the lemmas.
LEMMA CatalogConstants == CatalogAssumptions
  BY CatalogAssumption, AbsentAssumption DEF CatalogAssumptions

Tables == [Events -> Rows \cup {Absent}]

\* The rows with a rank or listed in a table.
ActiveIn(table, e) == table[e] # Absent /\ table[e].status = "active"
RankIn(table, e) == IF table[e] = Absent THEN 0 ELSE table[e].rank

\* The events of the steps of one kind that are left.
Left(todo, do) ==
    {e \in Events : \E i \in DOMAIN todo : todo[i].do = do /\ todo[i].event = e}

----------------------------------------------------------------------------
(* The invariant.                                                          *)

\* A row with a rank is listed.
RankedActive(table) == \A e \in Events : RankIn(table, e) > 0 => ActiveIn(table, e)

\* What a transaction of each kind may be.
Shape(t) ==
    /\ t.kind = "none" => t = Ended
    /\ t.kind = "city" => t.city \in CitiesOfEvents
    /\ t.kind = "popular" => t.city = Absent /\ Len(t.list) <= MaxFound
    /\ \A i, j \in DOMAIN t.list : t.list[i] = t.list[j] => i = j

\* What a step may be, by the kind of its transaction.
StepFits(t, step) ==
    /\ t.kind = "city" => /\ step.do \in {"expire", "upsert"}
                          /\ step.rank = 0
                          /\ CityOf[step.event] = t.city
    /\ t.kind = "popular" => step.do \in {"unrank", "upsert"}
    /\ t.kind = "enrich" => step.do = "enrich"
    /\ step.do = "upsert" => step.event \in ToSet(t.list)
    /\ step.do = "upsert" /\ t.kind = "popular" =>
           step.rank \in DOMAIN t.list /\ t.list[step.rank] = step.event

\* Upserts come last, each of an event of its own; the other steps are about
\* rows there are.
Ordered(todo) ==
    \A i, j \in DOMAIN todo : i < j /\ todo[i].do = "upsert" =>
        todo[j].do = "upsert" /\ todo[j].event # todo[i].event
RowsThere(todo, table) ==
    \A i \in DOMAIN todo : todo[i].do # "upsert" => table[todo[i].event] # Absent

TodoSound(t, table) ==
    /\ \A i \in DOMAIN t.todo : StepFits(t, t.todo[i])
    /\ Ordered(t.todo)
    /\ RowsThere(t.todo, table)

\* What a transaction may have written over a row of the table.
WriteFits(t, table, e) ==
    /\ t.writes[e].rank > 0 => t.writes[e].status = "active"
    /\ t.kind \in {"city", "enrich"} => t.writes[e].rank = RankIn(table, e)
    /\ t.kind = "city" => CityOf[e] = t.city
    /\ t.kind = "popular" /\ e \notin ToSet(t.list) =>
        /\ t.writes[e].rank > 0 => RankIn(table, e) > 0
        /\ t.writes[e].status = "active" => ActiveIn(table, e)
    /\ t.kind \in {"popular", "enrich"} /\ ActiveIn(table, e) =>
           t.writes[e].status = "active"
    /\ t.kind = "enrich" => ActiveIn(table, e) /\ t.writes[e].enriched
WritesSound(t, table) == \A e \in DOMAIN t.writes : WriteFits(t, table, e)

\* An event of the list has still to be saved, or its row is as it should be and
\* nothing more is done about it.
Saved(t, e) ==
    /\ e \in DOMAIN t.writes
    /\ t.writes[e].status = "active"
    /\ t.kind = "popular" =>
           t.writes[e].rank \in DOMAIN t.list /\ t.list[t.writes[e].rank] = e
    /\ \A i \in DOMAIN t.todo : t.todo[i].event # e
ListSound(t) ==
    /\ t.kind \in {"city", "popular"} =>
           \A e \in ToSet(t.list) : e \in Left(t.todo, "upsert") \/ Saved(t, e)
    /\ t.kind = "enrich" =>
           \A e \in ToSet(t.list) : e \in Left(t.todo, "enrich") \/ e \in DOMAIN t.writes

\* A search that overlaps no other accounts for the rows it did not find: a rank is
\* taken, a listed row of the city expires unless a popular search has it.
OthersSound(t, table) ==
    \A e \in Events :
        /\ t.kind = "popular" /\ t.apart /\ RankIn(After(t, table), e) > 0 =>
               e \in ToSet(t.list) \cup Left(t.todo, "unrank")
        /\ t.kind = "city" /\ t.apart /\ CityOf[e] = t.city /\ ActiveIn(After(t, table), e) =>
               e \in ToSet(t.list) \cup t.since \cup Left(t.todo, "expire")

\* The popular rows are known to every transaction that runs.
SinceSound(t, table) ==
    t.kind # "none" => \A e \in Events : RankIn(table, e) > 0 => e \in t.since

Sound(t, table) ==
    /\ Shape(t)
    /\ TodoSound(t, table)
    /\ WritesSound(t, table)
    /\ ListSound(t)
    /\ OthersSound(t, table)
    /\ SinceSound(t, table)

\* A search marked as apart is the only one of its kind and city.
ApartSound(transactions) ==
    \A p, q \in Writers :
        /\ p # q
        /\ transactions[p].kind \in {"city", "popular"}
        /\ transactions[p].apart
        => ~ /\ transactions[q].kind = transactions[p].kind
             /\ transactions[q].city = transactions[p].city

CatalogInv ==
    /\ CatalogTypeOK
    /\ RankedActive(events)
    /\ \A p \in Writers : Sound(tx[p], events)
    /\ ApartSound(tx)
    /\ ListsAreLast

----------------------------------------------------------------------------
(* Operators.                                                              *)

\* A queue without its head is the rest of it, shifted.
LEMMA TailFacts ==
    ASSUME NEW S, NEW s \in Seq(S), s # <<>>
    PROVE  /\ Tail(s) \in Seq(S)
           /\ Head(s) \in S
           /\ 1 \in DOMAIN s /\ s[1] = Head(s)
           /\ \A i \in DOMAIN Tail(s) : /\ i \in Nat /\ i + 1 \in DOMAIN s
                                       /\ 1 < i + 1
                                       /\ Tail(s)[i] = s[i + 1]
           /\ \A i \in DOMAIN s :
                  i # 1 => i - 1 \in DOMAIN Tail(s) /\ Tail(s)[i - 1] = s[i]
  OBVIOUS

\* What is left of a queue after its head: all but the head's event.
LEMMA LeftTail ==
    ASSUME NEW todo \in Seq(Steps), todo # <<>>, NEW do,
           NEW e \in Left(todo, do)
    PROVE  \/ e \in Left(Tail(todo), do)
           \/ Head(todo).do = do /\ Head(todo).event = e
  <1>1. PICK i \in DOMAIN todo : todo[i].do = do /\ todo[i].event = e
    BY DEF Left
  <1>2. CASE i = 1
    BY <1>1, <1>2, TailFacts
  <1>3. CASE i # 1
    <2>1. i - 1 \in DOMAIN Tail(todo) /\ Tail(todo)[i - 1] = todo[i]
      BY <1>3, TailFacts
    <2>2. e \in Events
      BY DEF Left
    <2>. QED
      BY <1>1, <2>1, <2>2 DEF Left
  <1>. QED
    BY <1>2, <1>3

\* The functions that transactions write: a row per event.
LEMMA WritesType ==
    ASSUME NEW w
    PROVE  w \in Writes <=> /\ DOMAIN w \subseteq Events
                            /\ w \in [DOMAIN w -> Rows]
  BY DEF Writes

\* A transaction that has written nothing.
LEMMA NothingWritten == <<>> \in Writes /\ DOMAIN <<>> = {}
  <1>1. DOMAIN <<>> = {}
    OBVIOUS
  <1>2. <<>> \in [DOMAIN <<>> -> Rows]
    <2>1. <<>> \in Seq(Rows)
      OBVIOUS
    <2>. QED
      BY <2>1
  <1>. QED
    BY <1>1, <1>2, WritesType

\* A table with the rows that were written is a table, row by row.
LEMMA AfterFacts ==
    ASSUME NEW t \in Transactions, NEW table \in Tables
    PROVE  /\ After(t, table) \in Tables
           /\ \A e \in Events : After(t, table)[e] =
                  IF e \in DOMAIN t.writes THEN t.writes[e] ELSE table[e]
           /\ DOMAIN t.writes \subseteq Events
           /\ \A e \in DOMAIN t.writes : t.writes[e] \in Rows
  <1>1. t.writes \in Writes
    BY DEF Transactions
  <1>2. /\ DOMAIN t.writes \subseteq Events
        /\ t.writes \in [DOMAIN t.writes -> Rows]
    BY <1>1, WritesType
  <1>3. \A e \in DOMAIN t.writes : t.writes[e] \in Rows
    BY <1>2
  <1>. QED
    BY <1>2, <1>3 DEF After, Tables

\* A row of a table that is written is not Absent.
LEMMA RowFacts ==
    ASSUME CatalogAssumptions, NEW row \in Rows
    PROVE  /\ row # Absent
           /\ row.rank \in 0..MaxFound
           /\ row.status \in {"active", "expired"}
  BY DEF CatalogAssumptions, AbsentAssumption, Rows

\* The orders of a set are lists of it, each element once and none left out.
LEMMA OrderFacts ==
    ASSUME CatalogAssumptions, NEW S \in SUBSET Events, NEW order \in Orders(S)
    PROVE  /\ order \in Seq(Events)
           /\ ToSet(order) = S
           /\ \A i, j \in DOMAIN order : order[i] = order[j] => i = j
  <1>1. IsFiniteSet(S) /\ Cardinality(S) \in Nat
    BY FS_Subset, FS_CardinalityType DEF CatalogAssumptions, CatalogAssumption
  <1>. DEFINE D == 1..Cardinality(S)
  <1>2. /\ order \in [D -> S]
        /\ \A i, j \in D : i # j => order[i] # order[j]
    BY DEF Orders, SetToSeqs
  <1>3. order \in Injection(D, S)
    BY <1>2 DEF Injection, IsInjective
  <1>4. Cardinality(D) = Cardinality(S)
    BY <1>1, FS_Interval
  <1>5. order \in Surjection(D, S)
    BY <1>1, <1>3, <1>4, FS_Injection, Zenon
  <1>6. ToSet(order) = S
    BY <1>2, <1>5 DEF ToSet, Surjection
  <1>7. order \in Seq(Events)
    BY <1>1, <1>2
  <1>. QED
    BY <1>2, <1>6, <1>7

\* What a search finds are events, each once and at most MaxFound.
LEMMA FoundFacts ==
    ASSUME CatalogAssumptions, NEW S \in SUBSET Events, NEW list \in Found(S)
    PROVE  /\ list \in Seq(Events)
           /\ ToSet(list) \subseteq S
           /\ Len(list) <= MaxFound
           /\ \A i, j \in DOMAIN list : list[i] = list[j] => i = j
  <1>1. PICK T \in SUBSET S : list \in Orders(T)
    BY DEF Found
  <1>2. Len(list) \in 1..MaxFound
    BY DEF Found
  <1>3. T \in SUBSET Events
    OBVIOUS
  <1>. QED
    BY <1>1, <1>2, <1>3, OrderFacts DEF CatalogAssumptions, CatalogAssumption

\* The steps made of a list, one for each of its events and in its order.
LEMMA DoFacts ==
    ASSUME CatalogAssumptions, NEW seq \in Seq(Events),
           NEW do \in {"expire", "unrank", "upsert", "enrich"}
    PROVE  /\ Do(do, seq) \in Seq(Steps)
           /\ DOMAIN Do(do, seq) = DOMAIN seq
           /\ \A i \in DOMAIN seq : /\ Do(do, seq)[i].do = do
                                   /\ Do(do, seq)[i].event = seq[i]
                                   /\ Do(do, seq)[i].rank = 0
  <1>1. 0 \in 0..MaxFound
    BY DEF CatalogAssumptions, CatalogAssumption
  <1>2. DOMAIN seq = 1..Len(seq) /\ Len(seq) \in Nat
    OBVIOUS
  <1>3. ASSUME NEW i \in DOMAIN seq
        PROVE  [do |-> do, event |-> seq[i], rank |-> 0] \in Steps
    BY <1>1, <1>2 DEF Steps
  <1>4. Do(do, seq) \in [1..Len(seq) -> Steps]
    BY <1>2, <1>3 DEF Do
  <1>. QED
    BY <1>2, <1>4 DEF Do

\* The same for the steps that give ranks.
LEMMA RankingFacts ==
    ASSUME CatalogAssumptions, NEW seq \in Seq(Events), Len(seq) <= MaxFound
    PROVE  /\ Ranking(seq) \in Seq(Steps)
           /\ DOMAIN Ranking(seq) = DOMAIN seq
           /\ \A i \in DOMAIN seq : /\ Ranking(seq)[i].do = "upsert"
                                   /\ Ranking(seq)[i].event = seq[i]
                                   /\ Ranking(seq)[i].rank = i
  <1>1. MaxFound \in Nat
    BY DEF CatalogAssumptions, CatalogAssumption
  <1>2. DOMAIN seq = 1..Len(seq) /\ Len(seq) \in Nat
    OBVIOUS
  <1>3. ASSUME NEW i \in DOMAIN seq
        PROVE  [do |-> "upsert", event |-> seq[i], rank |-> i] \in Steps
    <2>1. i \in 0..MaxFound
      BY <1>1, <1>2
    <2>. QED
      BY <2>1 DEF Steps
  <1>4. Ranking(seq) \in [1..Len(seq) -> Steps]
    BY <1>2, <1>3 DEF Ranking
  <1>. QED
    BY <1>2, <1>4 DEF Ranking

----------------------------------------------------------------------------
(* Beginning and ending.                                                   *)

\* The record of a writer that runs no transaction.
LEMMA EndedSound ==
    ASSUME NEW table \in Tables
    PROVE  Ended \in Transactions /\ Sound(Ended, table)
  <1>1. /\ Ended.kind = "none" /\ Ended.todo = <<>> /\ Ended.list = <<>>
        /\ Ended.writes = <<>> /\ Ended.apart = TRUE /\ Ended.city = Absent
        /\ Ended.since = {}
    BY DEF Ended
  <1>2. DOMAIN Ended.writes = {} /\ DOMAIN Ended.todo = {} /\ DOMAIN Ended.list = {}
    BY <1>1
  <1>4. Ended \in Transactions
    BY NothingWritten DEF Ended, Transactions, Kinds
  <1>. QED
    BY <1>1, <1>2, <1>4
    DEF Sound, Shape, TodoSound, Ordered, RowsThere, WritesSound, ListSound,
        OthersSound, SinceSound

\* A search that is overlapped has less to account for.
LEMMA NotApartSound ==
    ASSUME NEW t \in Transactions, NEW table \in Tables, Sound(t, table),
           t.kind # "none"
    PROVE  /\ [t EXCEPT !.apart = FALSE] \in Transactions
           /\ Sound([t EXCEPT !.apart = FALSE], table)
  <1>. DEFINE n == [t EXCEPT !.apart = FALSE]
  <1>1. /\ n \in Transactions
        /\ n.kind = t.kind /\ n.city = t.city /\ n.todo = t.todo
        /\ n.list = t.list /\ n.writes = t.writes /\ n.since = t.since
        /\ ~n.apart
    BY DEF Transactions
  <1>. HIDE DEF n
  <1>2. Shape(n) /\ SinceSound(n, table)
    BY <1>1 DEF Sound, Shape, SinceSound
  <1>3. TodoSound(n, table)
    BY <1>1 DEF Sound, TodoSound, StepFits
  <1>4. WritesSound(n, table)
    BY <1>1 DEF Sound, WritesSound, WriteFits
  <1>5. ListSound(n)
    BY <1>1 DEF Sound, ListSound, Saved
  <1>6. OthersSound(n, table)
    BY <1>1 DEF OthersSound
  <1>7. Sound(n, table)
    BY <1>2, <1>3, <1>4, <1>5, <1>6 DEF Sound
  <1>. QED
    BY <1>1, <1>7 DEF n

\* A search's steps: one statement for a set of rows and then the saves of a list,
\* each in its place and nothing left out.
SearchSteps(todo, do, S, list, saves) ==
    /\ todo \in Seq(Steps)
    /\ \A i \in DOMAIN todo :
          \/ todo[i].do = do /\ todo[i].event \in S /\ todo[i].rank = 0
          \/ \E k \in DOMAIN list : todo[i] = saves[k]
    /\ Left(todo, do) = S
    /\ Left(todo, "upsert") = ToSet(list)
    /\ Ordered(todo)

\* The steps a search begins with are of this form.
LEMMA SearchTodo ==
    ASSUME CatalogAssumptions, NEW do \in {"expire", "unrank"},
           NEW S \in SUBSET Events, NEW order \in Orders(S),
           NEW list \in Found(Events),
           NEW saves \in {Do("upsert", list), Ranking(list)}
    PROVE  SearchSteps(Do(do, order) \o saves, do, S, list, saves)
  <1>. DEFINE a == Do(do, order)
              todo == a \o saves
  <1>1. /\ order \in Seq(Events) /\ ToSet(order) = S
        /\ list \in Seq(Events) /\ Len(list) <= MaxFound
        /\ \A i, j \in DOMAIN list : list[i] = list[j] => i = j
    BY OrderFacts, FoundFacts
  <1>2. /\ a \in Seq(Steps)
        /\ DOMAIN a = DOMAIN order
        /\ \A i \in DOMAIN order : a[i].do = do /\ a[i].event = order[i] /\ a[i].rank = 0
    BY <1>1, DoFacts
  <1>3. /\ saves \in Seq(Steps)
        /\ DOMAIN saves = DOMAIN list
        /\ \A i \in DOMAIN list : saves[i].do = "upsert" /\ saves[i].event = list[i]
    <2>1. CASE saves = Do("upsert", list)
      BY <2>1, <1>1, DoFacts
    <2>2. CASE saves = Ranking(list)
      BY <2>2, <1>1, RankingFacts
    <2>. QED
      BY <2>1, <2>2
  <1>. HIDE DEF a
  <1>4. /\ todo \in Seq(Steps)
        /\ Len(a) \in Nat /\ Len(saves) \in Nat
        /\ DOMAIN a = 1..Len(a) /\ DOMAIN saves = 1..Len(saves)
        /\ DOMAIN todo = 1 .. Len(a) + Len(saves)
        /\ \A i \in 1 .. Len(a) + Len(saves) :
               todo[i] = IF i <= Len(a) THEN a[i] ELSE saves[i - Len(a)]
    BY <1>2, <1>3
  <1>. HIDE DEF todo
  <1>5. \A i \in DOMAIN todo :
           /\ i <= Len(a) => i \in DOMAIN a /\ todo[i] = a[i]
           /\ ~(i <= Len(a)) =>
                  i - Len(a) \in DOMAIN saves /\ todo[i] = saves[i - Len(a)]
    BY <1>4
  <1>6. /\ \A i \in DOMAIN a : i \in DOMAIN todo /\ todo[i] = a[i]
        /\ \A i \in DOMAIN saves :
               Len(a) + i \in DOMAIN todo /\ todo[Len(a) + i] = saves[i]
    BY <1>4
  <1>7. \A i \in DOMAIN order : order[i] \in S /\ order[i] \in Events
    BY <1>1 DEF ToSet
  <1>8. \A i \in DOMAIN list : list[i] \in ToSet(list) /\ list[i] \in Events
    BY <1>1 DEF ToSet
  <1>9. \A i \in DOMAIN todo :
           \/ todo[i].do = do /\ todo[i].event \in S /\ todo[i].rank = 0
           \/ \E k \in DOMAIN list : todo[i] = saves[k]
    BY <1>2, <1>3, <1>5, <1>7
  <1>10. Left(todo, do) = S
    <2>1. ASSUME NEW e \in S PROVE e \in Left(todo, do)
      <3>1. PICK i \in DOMAIN order : order[i] = e
        BY <1>1 DEF ToSet
      <3>. QED
        BY <3>1, <1>2, <1>6 DEF Left
    <2>2. ASSUME NEW e \in Left(todo, do) PROVE e \in S
      <3>1. PICK i \in DOMAIN todo : todo[i].do = do /\ todo[i].event = e
        BY DEF Left
      <3>. QED
        BY <3>1, <1>3, <1>9
    <2>. QED
      BY <2>1, <2>2
  <1>11. Left(todo, "upsert") = ToSet(list)
    <2>1. ASSUME NEW e \in ToSet(list) PROVE e \in Left(todo, "upsert")
      <3>1. PICK i \in DOMAIN list : list[i] = e
        BY DEF ToSet
      <3>2. e \in Events
        BY <3>1, <1>8
      <3>. QED
        BY <3>1, <3>2, <1>3, <1>6 DEF Left
    <2>2. ASSUME NEW e \in Left(todo, "upsert") PROVE e \in ToSet(list)
      <3>1. PICK i \in DOMAIN todo : todo[i].do = "upsert" /\ todo[i].event = e
        BY DEF Left
      <3>. QED
        BY <3>1, <1>3, <1>8, <1>9
    <2>. QED
      BY <2>1, <2>2
  <1>12. Ordered(todo)
    <2>1. ASSUME NEW i \in DOMAIN todo, NEW j \in DOMAIN todo, i < j,
                 todo[i].do = "upsert"
          PROVE  todo[j].do = "upsert" /\ todo[j].event # todo[i].event
      <3>1. ~(i <= Len(a))
        BY <2>1, <1>2, <1>5
      <3>2. ~(j <= Len(a))
        BY <3>1, <2>1, <1>4
      <3>3. /\ i - Len(a) \in DOMAIN saves /\ todo[i] = saves[i - Len(a)]
            /\ j - Len(a) \in DOMAIN saves /\ todo[j] = saves[j - Len(a)]
        BY <3>1, <3>2, <1>5
      <3>4. i - Len(a) # j - Len(a)
        BY <2>1, <1>4
      <3>. QED
        BY <3>3, <3>4, <1>1, <1>3
    <2>. QED
      BY <2>1 DEF Ordered
  <1>. QED
    BY <1>4, <1>9, <1>10, <1>11, <1>12 DEF SearchSteps, todo, a

\* A city's search begins with nothing written and everything to do.
LEMMA CityBegins ==
    ASSUME CatalogAssumptions, NEW table \in Tables, NEW n \in Transactions,
           n.kind = "city", n.city \in CitiesOfEvents, DOMAIN n.writes = {},
           NEW S \in SUBSET Events, n.list \in Found(Events),
           SearchSteps(n.todo, "expire", S, n.list, Do("upsert", n.list)),
           \A e \in Events : RankIn(table, e) > 0 <=> e \in n.since,
           \A e \in Events : e \in S <=> /\ CityOf[e] = n.city
                                         /\ ActiveIn(table, e)
                                         /\ e \notin n.since,
           \A e \in ToSet(n.list) : CityOf[e] = n.city
    PROVE  Sound(n, table)
  <1>. DEFINE list == n.list
              todo == n.todo
              saves == Do("upsert", list)
  <1>1. /\ list \in Seq(Events) /\ list \in Found(Events)
        /\ \A i, j \in DOMAIN list : list[i] = list[j] => i = j
        /\ \A i \in DOMAIN list : list[i] \in ToSet(list)
    BY FoundFacts DEF ToSet
  <1>2. /\ saves \in Seq(Steps)
        /\ DOMAIN saves = DOMAIN list
        /\ \A i \in DOMAIN list : /\ saves[i].do = "upsert" /\ saves[i].event = list[i]
                                  /\ saves[i].rank = 0
    BY <1>1, DoFacts
  <1>. HIDE DEF saves, list, todo
  <1>3. /\ todo \in Seq(Steps)
        /\ \A i \in DOMAIN todo :
              \/ todo[i].do = "expire" /\ todo[i].event \in S /\ todo[i].rank = 0
              \/ \E k \in DOMAIN list : todo[i] = saves[k]
        /\ Left(todo, "expire") = S
        /\ Left(todo, "upsert") = ToSet(list)
        /\ Ordered(todo)
    BY DEF SearchSteps, todo, list, saves
  <1>4. Shape(n)
    BY <1>1 DEF Shape, list
  <1>5. TodoSound(n, table)
    <2>1. ASSUME NEW i \in DOMAIN todo
          PROVE  /\ todo[i].do \in {"expire", "upsert"}
                 /\ todo[i].rank = 0
                 /\ CityOf[todo[i].event] = n.city
                 /\ todo[i].do = "upsert" => todo[i].event \in ToSet(list)
                 /\ todo[i].do # "upsert" => table[todo[i].event] # Absent
      <3>1. CASE todo[i].do = "expire" /\ todo[i].event \in S /\ todo[i].rank = 0
        BY <3>1 DEF ActiveIn
      <3>2. CASE \E k \in DOMAIN list : todo[i] = saves[k]
        BY <3>2, <1>1, <1>2 DEF list
      <3>. QED
        BY <3>1, <3>2, <1>3
    <2>. QED
      BY <2>1, <1>3 DEF TodoSound, StepFits, RowsThere, todo, list
  <1>6. WritesSound(n, table) /\ ListSound(n) /\ SinceSound(n, table)
    BY <1>3 DEF WritesSound, ListSound, SinceSound, todo, list
  <1>7. OthersSound(n, table)
    <2>1. ASSUME NEW e \in Events, CityOf[e] = n.city, ActiveIn(After(n, table), e)
          PROVE  e \in n.since \cup Left(todo, "expire")
      <3>1. After(n, table)[e] = table[e]
        BY AfterFacts
      <3>2. ActiveIn(table, e)
        BY <2>1, <3>1 DEF ActiveIn
      <3>. QED
        BY <2>1, <3>2, <1>3
    <2>. QED
      BY <2>1 DEF OthersSound, todo
  <1>. QED
    BY <1>4, <1>5, <1>6, <1>7 DEF Sound

\* So does a search for the country: every ranked row is about to lose its rank.
LEMMA PopularBegins ==
    ASSUME CatalogAssumptions, NEW table \in Tables, NEW n \in Transactions,
           n.kind = "popular", n.city = Absent, DOMAIN n.writes = {},
           n.list \in Found(Events),
           SearchSteps(n.todo, "unrank", n.since, n.list, Ranking(n.list)),
           \A e \in Events : RankIn(table, e) > 0 <=> e \in n.since
    PROVE  Sound(n, table)
  <1>. DEFINE list == n.list
              todo == n.todo
              saves == Ranking(list)
  <1>1. /\ list \in Seq(Events) /\ Len(list) <= MaxFound
        /\ \A i, j \in DOMAIN list : list[i] = list[j] => i = j
        /\ \A i \in DOMAIN list : list[i] \in ToSet(list)
        /\ n.since \in SUBSET Events
    BY FoundFacts DEF ToSet, Transactions
  <1>2. /\ saves \in Seq(Steps)
        /\ DOMAIN saves = DOMAIN list
        /\ \A i \in DOMAIN list : /\ saves[i].do = "upsert" /\ saves[i].event = list[i]
                                  /\ saves[i].rank = i
    BY <1>1, RankingFacts
  <1>. HIDE DEF saves, list, todo
  <1>3. /\ todo \in Seq(Steps)
        /\ \A i \in DOMAIN todo :
              \/ todo[i].do = "unrank" /\ todo[i].event \in n.since /\ todo[i].rank = 0
              \/ \E k \in DOMAIN list : todo[i] = saves[k]
        /\ Left(todo, "unrank") = n.since
        /\ Left(todo, "upsert") = ToSet(list)
        /\ Ordered(todo)
    BY DEF SearchSteps, todo, list, saves
  <1>4. Shape(n)
    BY <1>1 DEF Shape, list
  <1>5. TodoSound(n, table)
    <2>1. ASSUME NEW i \in DOMAIN todo
          PROVE  /\ todo[i].do \in {"unrank", "upsert"}
                 /\ todo[i].do = "upsert" => /\ todo[i].event \in ToSet(list)
                                             /\ todo[i].rank \in DOMAIN list
                                             /\ list[todo[i].rank] = todo[i].event
                 /\ todo[i].do # "upsert" => table[todo[i].event] # Absent
      <3>1. CASE todo[i].do = "unrank" /\ todo[i].event \in n.since
        BY <3>1, <1>1 DEF RankIn
      <3>2. CASE \E k \in DOMAIN list : todo[i] = saves[k]
        BY <3>2, <1>1, <1>2
      <3>. QED
        BY <3>1, <3>2, <1>3
    <2>. QED
      BY <2>1, <1>3 DEF TodoSound, StepFits, RowsThere, todo, list
  <1>6. WritesSound(n, table) /\ ListSound(n) /\ SinceSound(n, table)
    BY <1>3 DEF WritesSound, ListSound, SinceSound, todo, list
  <1>7. OthersSound(n, table)
    <2>1. ASSUME NEW e \in Events, RankIn(After(n, table), e) > 0
          PROVE  e \in Left(todo, "unrank")
      <3>1. After(n, table)[e] = table[e]
        BY AfterFacts
      <3>2. RankIn(table, e) > 0
        BY <2>1, <3>1 DEF RankIn
      <3>. QED
        BY <3>2, <1>3
    <2>. QED
      BY <2>1 DEF OthersSound, todo
  <1>. QED
    BY <1>4, <1>5, <1>6, <1>7 DEF Sound

\* And an enrichment, of events that are listed.
LEMMA EnrichBegins ==
    ASSUME CatalogAssumptions, NEW table \in Tables, NEW n \in Transactions,
           n.kind = "enrich", DOMAIN n.writes = {},
           n.list \in Orders({e \in Events : CityOf[e] = n.city /\ ActiveIn(table, e)}),
           n.todo = Do("enrich", n.list),
           \A e \in Events : RankIn(table, e) > 0 <=> e \in n.since
    PROVE  Sound(n, table)
  <1>. DEFINE list == n.list
              todo == n.todo
  <1>1. /\ list \in Seq(Events)
        /\ ToSet(list) = {e \in Events : CityOf[e] = n.city /\ ActiveIn(table, e)}
        /\ \A i, j \in DOMAIN list : list[i] = list[j] => i = j
    BY OrderFacts
  <1>2. /\ todo \in Seq(Steps)
        /\ DOMAIN todo = DOMAIN list
        /\ \A i \in DOMAIN list : todo[i].do = "enrich" /\ todo[i].event = list[i]
    BY <1>1, DoFacts
  <1>3. \A i \in DOMAIN list : list[i] \in Events /\ table[list[i]] # Absent
    BY <1>1 DEF ToSet, ActiveIn
  <1>. HIDE DEF list, todo
  <1>4. Shape(n)
    BY <1>1 DEF Shape, list
  <1>5. TodoSound(n, table)
    BY <1>2, <1>3 DEF TodoSound, StepFits, Ordered, RowsThere, todo
  <1>6. \A e \in ToSet(list) : e \in Left(todo, "enrich")
    BY <1>2, <1>3 DEF ToSet, Left
  <1>7. ListSound(n)
    BY <1>6 DEF ListSound, list, todo
  <1>8. WritesSound(n, table) /\ SinceSound(n, table) /\ OthersSound(n, table)
    BY DEF WritesSound, SinceSound, OthersSound
  <1>. QED
    BY <1>4, <1>5, <1>7, <1>8 DEF Sound

----------------------------------------------------------------------------
(* One step of a transaction.                                              *)

\* Whatever the statement, a transaction that takes its next step stays sound if the
\* row it writes fits, and if the step did what the transaction rests on later: an
\* upsert saved its event, an enrichment wrote its row, no rank is left after an
\* unrank, and an expire left no row listed but those a popular search has.
LEMMA StepSound ==
    ASSUME CatalogAssumptions, NEW table \in Tables, NEW t \in Transactions, Sound(t, table),
           t.todo # <<>>, NEW step, step = Head(t.todo),
           NEW n \in Transactions, n.kind = t.kind, n.city = t.city, n.list = t.list,
           n.since = t.since, n.apart <=> t.apart, n.todo = Tail(t.todo),
           DOMAIN t.writes \subseteq DOMAIN n.writes,
           DOMAIN n.writes \subseteq DOMAIN t.writes \cup {step.event},
           \A e \in DOMAIN n.writes : e # step.event => n.writes[e] = t.writes[e],
           step.event \in DOMAIN n.writes => WriteFits(n, table, step.event),
           step.do = "upsert" =>
               /\ step.event \in DOMAIN n.writes
               /\ n.writes[step.event].status = "active"
               /\ n.kind = "popular" => n.writes[step.event].rank = step.rank,
           step.do = "enrich" => step.event \in DOMAIN n.writes,
           step.do = "unrank" => RankIn(After(n, table), step.event) = 0,
           step.do = "expire" /\ ActiveIn(After(n, table), step.event) =>
               step.event \in t.since
    PROVE  Sound(n, table)
  <1>1. /\ t.todo \in Seq(Steps) /\ n.todo \in Seq(Steps)
        /\ step \in Steps /\ step.event \in Events
        /\ t.list \in Seq(Events)
    <2>1. t.todo \in Seq(Steps) /\ n.todo \in Seq(Steps) /\ t.list \in Seq(Events)
      BY DEF Transactions
    <2>2. step \in Steps
      BY <2>1, TailFacts
    <2>. QED
      BY <2>1, <2>2 DEF Steps
  <1>2. /\ 1 \in DOMAIN t.todo /\ t.todo[1] = step
        /\ \A i \in DOMAIN n.todo : /\ i \in Nat /\ i + 1 \in DOMAIN t.todo /\ 1 < i + 1
                                    /\ n.todo[i] = t.todo[i + 1]
    BY <1>1, TailFacts
  <1>3. ASSUME NEW do, NEW e \in Left(t.todo, do)
        PROVE  e \in Left(n.todo, do) \/ (step.do = do /\ step.event = e)
    <2>1. \/ e \in Left(Tail(t.todo), do)
          \/ Head(t.todo).do = do /\ Head(t.todo).event = e
      BY <1>1, <1>3, LeftTail, Zenon
    <2>. QED
      BY <2>1, Zenon
  <1>4. Shape(n)
    BY <1>1 DEF Sound, Shape, TodoSound, Ended
  <1>5. TodoSound(n, table)
    <2>1. \A i \in DOMAIN n.todo : StepFits(n, n.todo[i])
      BY <1>2 DEF Sound, TodoSound, StepFits
    <2>2. Ordered(n.todo)
      <3>1. ASSUME NEW i \in DOMAIN n.todo, NEW j \in DOMAIN n.todo, i < j,
                   n.todo[i].do = "upsert"
            PROVE  n.todo[j].do = "upsert" /\ n.todo[j].event # n.todo[i].event
        <4>1. i + 1 < j + 1
          BY <3>1, <1>2
        <4>. QED
          BY <3>1, <4>1, <1>2 DEF Sound, TodoSound, Ordered
      <3>. QED
        BY <3>1 DEF Ordered
    <2>3. RowsThere(n.todo, table)
      BY <1>2 DEF Sound, TodoSound, RowsThere
    <2>. QED
      BY <2>1, <2>2, <2>3 DEF TodoSound
  <1>6. WritesSound(n, table)
    <2>1. ASSUME NEW e \in DOMAIN n.writes, e # step.event
          PROVE  WriteFits(n, table, e)
      <3>1. e \in DOMAIN t.writes /\ n.writes[e] = t.writes[e]
        BY <2>1
      <3>. QED
        BY <3>1 DEF Sound, WritesSound, WriteFits
    <2>. QED
      BY <2>1 DEF WritesSound
  <1>7. step.do = "upsert" => \A i \in DOMAIN n.todo : n.todo[i].event # step.event
    BY <1>2 DEF Sound, TodoSound, Ordered
  <1>8. StepFits(t, step)
    BY <1>2 DEF Sound, TodoSound
  <1>9. ListSound(n)
    <2>1. ASSUME n.kind \in {"city", "popular"}, NEW e \in ToSet(n.list)
          PROVE  e \in Left(n.todo, "upsert") \/ Saved(n, e)
      <3>1. e \in Left(t.todo, "upsert") \/ Saved(t, e)
        BY <2>1 DEF Sound, ListSound
      <3>2. CASE Saved(t, e)
        <4>1. e # step.event
          BY <3>2, <1>2 DEF Saved
        <4>. QED
          BY <3>2, <4>1, <1>2 DEF Saved
      <3>3. CASE step.do = "upsert" /\ step.event = e
        BY <3>3, <1>7, <1>8 DEF Saved, StepFits
      <3>. QED
        BY <3>1, <3>2, <3>3, <1>3
    <2>2. ASSUME n.kind = "enrich", NEW e \in ToSet(n.list)
          PROVE  e \in Left(n.todo, "enrich") \/ e \in DOMAIN n.writes
      BY <2>2, <1>3 DEF Sound, ListSound
    <2>. QED
      BY <2>1, <2>2 DEF ListSound
  <1>10. ASSUME NEW e \in Events, e # step.event
         PROVE  After(n, table)[e] = After(t, table)[e]
    BY <1>10, AfterFacts
  <1>11. OthersSound(n, table)
    <2>1. ASSUME NEW e \in Events, n.kind = "popular", n.apart,
                 RankIn(After(n, table), e) > 0
          PROVE  e \in ToSet(n.list) \cup Left(n.todo, "unrank")
      <3>1. CASE e = step.event
        BY <3>1, <2>1, <1>8 DEF StepFits
      <3>2. CASE e # step.event
        <4>1. RankIn(After(t, table), e) > 0
          BY <3>2, <2>1, <1>10 DEF RankIn
        <4>. QED
          BY <3>2, <4>1, <2>1, <1>3 DEF Sound, OthersSound
      <3>. QED
        BY <3>1, <3>2
    <2>2. ASSUME NEW e \in Events, n.kind = "city", n.apart, CityOf[e] = n.city,
                 ActiveIn(After(n, table), e)
          PROVE  e \in ToSet(n.list) \cup n.since \cup Left(n.todo, "expire")
      <3>1. CASE e = step.event
        BY <3>1, <2>2, <1>8 DEF StepFits
      <3>2. CASE e # step.event
        <4>1. ActiveIn(After(t, table), e)
          BY <3>2, <2>2, <1>10 DEF ActiveIn
        <4>. QED
          BY <3>2, <4>1, <2>2, <1>3 DEF Sound, OthersSound
      <3>. QED
        BY <3>1, <3>2
    <2>. QED
      BY <2>1, <2>2 DEF OthersSound
  <1>12. SinceSound(n, table)
    BY DEF Sound, SinceSound
  <1>. QED
    BY <1>4, <1>5, <1>6, <1>9, <1>11, <1>12 DEF Sound

----------------------------------------------------------------------------
(* The commit.                                                             *)

\* What a commit does to a row, by the kind of the transaction: only a search for
\* the country gives or takes ranks, only the search for its city expires a row, and
\* only a search that has found an event can make it listed.
LEMMA CommittedRow ==
    ASSUME CatalogAssumptions, NEW table \in Tables, RankedActive(table),
           NEW q \in Transactions, Sound(q, table), q.kind # "none", NEW e \in Events,
           NEW new, new = After(q, table)
    PROVE  /\ table[e] # Absent => new[e] # Absent
           /\ q.kind \in {"city", "enrich"} => RankIn(new, e) = RankIn(table, e)
           /\ q.kind = "city" /\ CityOf[e] # q.city => new[e] = table[e]
           /\ q.kind # "city" /\ ActiveIn(table, e) => ActiveIn(new, e)
           /\ q.kind = "enrich" /\ ActiveIn(new, e) => ActiveIn(table, e)
           /\ q.kind = "popular" /\ e \notin ToSet(q.list) =>
                  /\ RankIn(new, e) > 0 => RankIn(table, e) > 0
                  /\ ActiveIn(new, e) => ActiveIn(table, e)
           /\ RankIn(new, e) > 0 => ActiveIn(new, e)
  <1>1. /\ new[e] = IF e \in DOMAIN q.writes THEN q.writes[e] ELSE table[e]
        /\ e \in DOMAIN q.writes => q.writes[e] \in Rows
    BY AfterFacts
  <1>2. CASE e \notin DOMAIN q.writes
    BY <1>1, <1>2 DEF RankIn, ActiveIn, RankedActive
  <1>3. CASE e \in DOMAIN q.writes
    <2>1. /\ new[e] # Absent /\ new[e] = q.writes[e]
          /\ RankIn(new, e) = q.writes[e].rank
          /\ ActiveIn(new, e) <=> q.writes[e].status = "active"
      BY <1>1, <1>3, RowFacts DEF RankIn, ActiveIn
    <2>2. WriteFits(q, table, e)
      BY <1>3 DEF Sound, WritesSound
    <2>3. q.kind \in {"city", "popular", "enrich"}
      BY DEF Transactions, Kinds
    <2>. QED
      BY <2>1, <2>2, <2>3 DEF WriteFits
  <1>. QED
    BY <1>2, <1>3

\* What a search leaves behind: all it found is listed, a search for the country
\* with the ranks of its list, and what an undisturbed search did not find has lost
\* its rank, or is not listed unless it was popular.
LEMMA CommittedSearch ==
    ASSUME CatalogAssumptions, NEW table \in Tables,
           NEW q \in Transactions, Sound(q, table), q.todo = <<>>, NEW e \in Events,
           NEW new, new = After(q, table)
    PROVE  /\ q.kind \in {"city", "popular"} /\ e \in ToSet(q.list) => ActiveIn(new, e)
           /\ q.kind = "popular" /\ e \in ToSet(q.list) =>
                  RankIn(new, e) \in DOMAIN q.list /\ q.list[RankIn(new, e)] = e
           /\ q.kind = "popular" /\ q.apart /\ e \notin ToSet(q.list) =>
                  ~(RankIn(new, e) > 0)
           /\ q.kind = "city" /\ q.apart /\ CityOf[e] = q.city /\ ActiveIn(new, e) =>
                  e \in ToSet(q.list) \cup q.since
           /\ q.kind = "enrich" /\ e \in ToSet(q.list) =>
                  ActiveIn(table, e) /\ new[e].enriched
  <1>1. \A do : Left(q.todo, do) = {}
    BY DEF Left
  <1>2. OthersSound(q, table)
    BY DEF Sound
  <1>3. ASSUME q.kind \in {"city", "popular"}, e \in ToSet(q.list)
        PROVE  /\ ActiveIn(new, e)
               /\ q.kind = "popular" =>
                      RankIn(new, e) \in DOMAIN q.list /\ q.list[RankIn(new, e)] = e
    <2>1. Saved(q, e)
      BY <1>1, <1>3 DEF Sound, ListSound
    <2>2. new[e] = q.writes[e] /\ q.writes[e] \in Rows
      BY <2>1, AfterFacts DEF Saved
    <2>3. new[e] # Absent
      BY <2>2, RowFacts
    <2>. QED
      BY <2>1, <2>2, <2>3 DEF Saved, ActiveIn, RankIn
  <1>4. ASSUME q.kind = "enrich", e \in ToSet(q.list)
        PROVE  ActiveIn(table, e) /\ new[e].enriched
    <2>1. e \in DOMAIN q.writes
      BY <1>1, <1>4 DEF Sound, ListSound
    <2>2. WriteFits(q, table, e) /\ new[e] = q.writes[e]
      BY <2>1, AfterFacts DEF Sound, WritesSound
    <2>. QED
      BY <1>4, <2>2 DEF WriteFits
  <1>5. q.kind = "popular" /\ q.apart /\ e \notin ToSet(q.list) => ~(RankIn(new, e) > 0)
    BY <1>1, <1>2 DEF OthersSound
  <1>6. q.kind = "city" /\ q.apart /\ CityOf[e] = q.city /\ ActiveIn(new, e) =>
            e \in ToSet(q.list) \cup q.since
    BY <1>1, <1>2 DEF OthersSound
  <1>. QED
    BY <1>3, <1>4, <1>5, <1>6

\* The others stay sound over the table that is committed: they have written none
\* of its rows, and learn which events are popular now.
LEMMA OthersStaySound ==
    ASSUME CatalogAssumptions, NEW table \in Tables, RankedActive(table),
           NEW q \in Transactions, Sound(q, table), q.kind # "none",
           NEW t \in Transactions, Sound(t, table), t.kind # "none",
           DOMAIN t.writes \cap DOMAIN q.writes = {},
           t.kind \in {"city", "popular"} /\ t.apart =>
               ~(q.kind = t.kind /\ q.city = t.city),
           NEW n \in Transactions, n.kind = t.kind, n.city = t.city, n.list = t.list,
           n.todo = t.todo, n.writes = t.writes, n.apart <=> t.apart,
           t.since \subseteq n.since,
           q.kind = "popular" => ToSet(q.list) \subseteq n.since
    PROVE  Sound(n, After(q, table))
  <1>. DEFINE new == After(q, table)
  <1>1. /\ new \in Tables
        /\ DOMAIN t.writes \subseteq Events
        /\ q.kind \in {"city", "popular", "enrich"}
    BY AfterFacts DEF Transactions, Kinds
  <1>2. \A e \in DOMAIN t.writes : new[e] = table[e]
    BY <1>1, AfterFacts
  <1>3. \A e \in Events : After(n, new)[e] = IF e \in DOMAIN t.writes THEN t.writes[e]
                                                                       ELSE new[e]
    BY <1>1, AfterFacts
  <1>4. \A e \in Events : After(t, table)[e] = IF e \in DOMAIN t.writes THEN t.writes[e]
                                                                        ELSE table[e]
    BY AfterFacts
  <1>5. \A i \in DOMAIN t.todo : t.todo[i].event \in Events
    <2>1. t.todo \in Seq(Steps)
      BY DEF Transactions
    <2>2. \A i \in DOMAIN t.todo : t.todo[i] \in Steps
      BY <2>1
    <2>. QED
      BY <2>2 DEF Steps
  <1>. HIDE DEF new
  <1>6. \A e \in Events :
           /\ table[e] # Absent => new[e] # Absent
           /\ q.kind \in {"city", "enrich"} => RankIn(new, e) = RankIn(table, e)
           /\ q.kind = "city" /\ CityOf[e] # q.city => new[e] = table[e]
           /\ q.kind = "enrich" /\ ActiveIn(new, e) => ActiveIn(table, e)
           /\ q.kind = "popular" /\ e \notin ToSet(q.list) =>
                  /\ RankIn(new, e) > 0 => RankIn(table, e) > 0
                  /\ ActiveIn(new, e) => ActiveIn(table, e)
    BY CommittedRow DEF new
  <1>7. Shape(n)
    BY DEF Sound, Shape
  <1>8. TodoSound(n, new)
    BY <1>5, <1>6 DEF Sound, TodoSound, StepFits, RowsThere
  <1>9. WritesSound(n, new)
    BY <1>2 DEF Sound, WritesSound, WriteFits, RankIn, ActiveIn
  <1>10. ListSound(n)
    BY DEF Sound, ListSound, Saved
  <1>11. SinceSound(n, new)
    <2>1. ASSUME NEW e \in Events, RankIn(new, e) > 0
          PROVE  e \in n.since
      <3>1. CASE q.kind = "popular" /\ e \in ToSet(q.list)
        BY <3>1
      <3>2. CASE ~(q.kind = "popular" /\ e \in ToSet(q.list))
        <4>1. RankIn(table, e) > 0
          BY <2>1, <3>2, <1>1, <1>6
        <4>. QED
          BY <4>1 DEF Sound, SinceSound
      <3>. QED
        BY <3>1, <3>2
    <2>. QED
      BY <2>1 DEF SinceSound
  <1>12. OthersSound(n, new)
    <2>1. ASSUME NEW e \in Events, n.kind = "popular", n.apart,
                 RankIn(After(n, new), e) > 0
          PROVE  e \in ToSet(n.list) \cup Left(n.todo, "unrank")
      <3>1. q.kind # "popular"
        BY <2>1 DEF Sound, Shape
      <3>2. RankIn(After(t, table), e) > 0
        BY <2>1, <3>1, <1>1, <1>3, <1>4, <1>6 DEF RankIn
      <3>. QED
        BY <2>1, <3>2 DEF Sound, OthersSound
    <2>2. ASSUME NEW e \in Events, n.kind = "city", n.apart, CityOf[e] = n.city,
                 ActiveIn(After(n, new), e)
          PROVE  e \in ToSet(n.list) \cup n.since \cup Left(n.todo, "expire")
      <3>1. ~(q.kind = "city" /\ q.city = CityOf[e])
        BY <2>2
      <3>2. CASE q.kind = "popular" /\ e \in ToSet(q.list)
        BY <3>2
      <3>3. CASE ~(q.kind = "popular" /\ e \in ToSet(q.list))
        <4>1. ActiveIn(After(t, table), e)
          BY <2>2, <3>1, <3>3, <1>1, <1>3, <1>4, <1>6 DEF ActiveIn
        <4>. QED
          BY <2>2, <4>1 DEF Sound, OthersSound
      <3>. QED
        BY <3>2, <3>3
    <2>. QED
      BY <2>1, <2>2 DEF OthersSound
  <1>. QED
    BY <1>7, <1>8, <1>9, <1>10, <1>11, <1>12 DEF Sound, new

----------------------------------------------------------------------------
(* The lists, as properties of rows.                                       *)

ListsSound(table, ranks, lists) ==
    /\ ranks # Absent => \A e \in Events :
           /\ RankIn(table, e) > 0 <=> ranks[e] > 0
           /\ RankIn(table, e) > 0 => RankIn(table, e) = ranks[e]
    /\ \A c \in CitiesOfEvents :
           /\ \A e \in lists[c].found : /\ e \in Events /\ CityOf[e] = c
                                        /\ ActiveIn(table, e)
           /\ \A e \in Events : CityOf[e] = c /\ ActiveIn(table, e) => e \in lists[c].may

\* The property in these terms, of a state and of the next one.
LEMMA ListsToRows ==
    ASSUME RankedActive(events), ListsAreLast
    PROVE  ListsSound(events, popular, kept)
  <1>1. ASSUME popular # Absent, NEW e \in Events
        PROVE  /\ RankIn(events, e) > 0 <=> popular[e] > 0
               /\ RankIn(events, e) > 0 => RankIn(events, e) = popular[e]
    <2>1. e \in Popular <=> RankIn(events, e) > 0
      BY DEF Popular, Ranked, Row, RankIn, RankedActive, ActiveIn
    <2>2. e \in Popular => RankIn(events, e) = events[e].rank
      BY DEF Popular, Ranked, RankIn
    <2>. QED
      BY <1>1, <2>1, <2>2 DEF ListsAreLast, Row
  <1>2. ASSUME NEW c \in CitiesOfEvents
        PROVE  /\ \A e \in kept[c].found : e \in Events /\ CityOf[e] = c /\ ActiveIn(events, e)
               /\ \A e \in Events :
                      CityOf[e] = c /\ ActiveIn(events, e) => e \in kept[c].may
    BY DEF ListsAreLast, Listed, Row, ActiveIn
  <1>. QED
    BY <1>1, <1>2 DEF ListsSound

\* Ranks that follow the last popular search, and cities that follow the last
\* search of each, are all that the lists are read from.
LEMMA RowsToLists ==
    ASSUME RankedActive(events'), ListsSound(events', popular', kept'),
           events' \in Tables
    PROVE  ListsAreLast'
  <1>1. ASSUME popular' # Absent
        PROVE  /\ Popular' = {e \in Events : popular'[e] > 0}
               /\ \A e \in Popular' : events'[e].rank = popular'[e]
    <2>1. ASSUME NEW e \in Events
          PROVE  e \in Popular' <=> RankIn(events', e) > 0
      BY DEF Popular, Ranked, Row, RankIn, RankedActive, ActiveIn
    <2>2. Popular' \subseteq Events
      BY DEF Popular, Ranked
    <2>3. \A e \in Popular' : RankIn(events', e) = events'[e].rank
      BY DEF Popular, Ranked, RankIn
    <2>. QED
      BY <1>1, <2>1, <2>2, <2>3 DEF ListsSound
  <1>2. ASSUME NEW c \in CitiesOfEvents
        PROVE  kept'[c].found \subseteq Listed(c)' /\ Listed(c)' \subseteq kept'[c].may
    BY DEF ListsSound, Listed, Row, ActiveIn
  <1>. QED
    BY <1>1, <1>2 DEF ListsAreLast, Row

\* The rows with a rank.
LEMMA RankedRows ==
    \A e \in Events : e \in Ranked <=> RankIn(events, e) > 0
  BY DEF Ranked, Row, RankIn

----------------------------------------------------------------------------
(* The steps.                                                              *)

\* Whatever transaction begins with these steps is sound.
BeginsSound(kind, c, list, todo) ==
    \A n \in Transactions :
        /\ n.kind = kind /\ n.city = c /\ n.list = list /\ n.todo = todo
        /\ DOMAIN n.writes = {} /\ n.since = Ranked
        => Sound(n, events)

\* A transaction begins: those it overlaps are not apart any more.
LEMMA BeginStep ==
    ASSUME CatalogAssumptions, CatalogInv, NEW p \in Writers, NEW kind \in Kinds \ {"none"},
           NEW c \in CitiesOfEvents \cup {Absent}, NEW list \in Seq(Events),
           NEW todo \in Seq(Steps), Begin(p, kind, c, list, todo),
           BeginsSound(kind, c, list, todo)
    PROVE  CatalogInv'
  <1>. DEFINE same == IF kind = "enrich" THEN {} ELSE SameSearch(p, kind, c)
              n == [Ended EXCEPT !.kind = kind, !.city = c, !.todo = todo, !.list = list,
                                 !.since = Ranked, !.apart = same = {}]
  <1>1. /\ CatalogTypeOK /\ events \in Tables /\ tx \in [Writers -> Transactions]
        /\ \A q \in Writers : Sound(tx[q], events)
    BY DEF CatalogInv, CatalogTypeOK, Tables
  <1>2. /\ tx' = [q \in Writers |->
               IF q = p THEN n
               ELSE IF q \in same THEN [tx[q] EXCEPT !.apart = FALSE] ELSE tx[q]]
        /\ begun < MaxBegun /\ begun' = begun + 1
        /\ UNCHANGED <<events, popular, kept>>
    BY DEF Begin
  <1>3. /\ Ended \in Transactions /\ DOMAIN Ended.writes = {}
        /\ Ranked \in SUBSET Events /\ (same = {}) \in BOOLEAN
    BY <1>1, EndedSound, NothingWritten DEF Ranked, Ended
  <1>4. /\ n \in Transactions
        /\ n.kind = kind /\ n.city = c /\ n.list = list /\ n.todo = todo
        /\ DOMAIN n.writes = {} /\ n.since = Ranked
        /\ n.apart => same = {}
    BY <1>3 DEF Transactions
  <1>5. Sound(n, events)
    BY <1>4 DEF BeginsSound
  <1>. HIDE DEF n
  <1>6. \A q \in same : q \in Writers \ {p} /\ tx[q].kind = kind /\ tx[q].city = c
    BY DEF SameSearch
  <1>7. ASSUME NEW q \in same
        PROVE  /\ tx'[q] \in Transactions /\ Sound(tx'[q], events)
               /\ tx'[q].kind = tx[q].kind /\ tx'[q].city = tx[q].city
               /\ tx'[q].writes = tx[q].writes /\ ~tx'[q].apart
    <2>1. q \in Writers /\ q # p /\ tx[q].kind # "none" /\ tx[q] \in Transactions
      BY <1>1, <1>6
    <2>2. tx'[q] = [tx[q] EXCEPT !.apart = FALSE]
      BY <1>2, <2>1
    <2>3. tx'[q] \in Transactions /\ Sound(tx'[q], events)
      BY <1>1, <2>1, <2>2, NotApartSound
    <2>. QED
      BY <2>1, <2>2, <2>3 DEF Transactions
  <1>8. ASSUME NEW q \in Writers, q # p, q \notin same PROVE tx'[q] = tx[q]
    BY <1>2, <1>8
  <1>9. tx'[p] = n
    BY <1>2
  <1>10. \A q \in Writers : tx'[q] \in Transactions /\ Sound(tx'[q], events)
    BY <1>1, <1>4, <1>5, <1>7, <1>8, <1>9
  <1>11. CatalogTypeOK'
    <2>1. tx' \in [Writers -> Transactions]
      BY <1>2, <1>10
    <2>2. begun' \in 0..MaxBegun
      BY <1>1, <1>2 DEF CatalogTypeOK, CatalogAssumptions, CatalogAssumption
    <2>3. \A q \in Writers : DOMAIN tx'[q].writes \subseteq DOMAIN tx[q].writes
      BY <1>4, <1>7, <1>8, <1>9
    <2>4. \A q, r \in Writers :
              q # r => DOMAIN tx'[q].writes \cap DOMAIN tx'[r].writes = {}
      BY <1>1, <2>3 DEF CatalogTypeOK
    <2>. QED
      BY <1>1, <1>2, <2>1, <2>2, <2>4 DEF CatalogTypeOK
  <1>12. ApartSound(tx')
    <2>1. SUFFICES ASSUME NEW a \in Writers, NEW b \in Writers, a # b,
                          tx'[a].kind \in {"city", "popular"}, tx'[a].apart,
                          tx'[b].kind = tx'[a].kind, tx'[b].city = tx'[a].city
                   PROVE  FALSE
      BY DEF ApartSound
    <2>2. a \notin same
      BY <2>1, <1>7
    <2>3. CASE a = p
      <3>1. same = {} /\ kind # "enrich"
        BY <2>1, <2>3, <1>4, <1>9
      <3>2. tx[b].kind = kind /\ tx[b].city = c
        BY <2>1, <2>3, <3>1, <1>4, <1>8, <1>9
      <3>. QED
        BY <2>1, <2>3, <3>1, <3>2 DEF SameSearch
    <2>4. CASE a # p
      <3>1. tx'[a] = tx[a]
        BY <2>2, <2>4, <1>8
      <3>2. CASE b = p
        <4>1. kind # "enrich" /\ tx[a].kind = kind /\ tx[a].city = c
          BY <2>1, <3>1, <3>2, <1>4, <1>9
        <4>. QED
          BY <2>2, <2>4, <4>1 DEF SameSearch
      <3>3. CASE b # p
        <4>1. tx'[b].kind = tx[b].kind /\ tx'[b].city = tx[b].city
          BY <3>3, <1>7, <1>8
        <4>. QED
          BY <2>1, <3>1, <4>1 DEF CatalogInv, ApartSound
      <3>. QED
        BY <3>2, <3>3
    <2>. QED
      BY <2>3, <2>4
  <1>13. ListsAreLast'
    BY <1>2 DEF CatalogInv, ListsAreLast, Popular, Ranked, Listed, Row
  <1>14. RankedActive(events') /\ \A q \in Writers : Sound(tx'[q], events')
    BY <1>2, <1>10 DEF CatalogInv
  <1>. QED
    BY <1>11, <1>12, <1>13, <1>14 DEF CatalogInv

\* A transaction takes a step of its own, or ends without a commit.
LEMMA LocalStep ==
    ASSUME CatalogInv, UNCHANGED <<events, begun, popular, kept>>, NEW p \in Writers,
           NEW n \in Transactions, tx' = [tx EXCEPT ![p] = n], Sound(n, events),
           \/ n.kind = "none"
           \/ n.kind = tx[p].kind /\ n.city = tx[p].city /\ (n.apart => tx[p].apart),
           \A q \in Writers \ {p} : DOMAIN n.writes \cap DOMAIN tx[q].writes = {}
    PROVE  CatalogInv'
  <1>1. /\ CatalogTypeOK /\ tx \in [Writers -> Transactions]
        /\ tx'[p] = n /\ \A q \in Writers : q # p => tx'[q] = tx[q]
    BY DEF CatalogInv, CatalogTypeOK
  <1>2. CatalogTypeOK'
    <2>1. tx' \in [Writers -> Transactions]
      BY <1>1
    <2>2. \A q, r \in Writers :
              q # r => DOMAIN tx'[q].writes \cap DOMAIN tx'[r].writes = {}
      BY <1>1 DEF CatalogTypeOK
    <2>. QED
      BY <1>1, <2>1, <2>2 DEF CatalogTypeOK
  <1>3. RankedActive(events') /\ \A q \in Writers : Sound(tx'[q], events')
    BY <1>1 DEF CatalogInv
  <1>4. ApartSound(tx')
    <2>1. ASSUME NEW q \in Writers, tx'[q].kind \in {"city", "popular"}
          PROVE  /\ tx'[q].kind = tx[q].kind /\ tx'[q].city = tx[q].city
                 /\ tx'[q].apart => tx[q].apart
      BY <2>1, <1>1
    <2>. QED
      BY <2>1 DEF ApartSound, CatalogInv
  <1>5. ListsAreLast'
    BY DEF CatalogInv, ListsAreLast, Popular, Ranked, Listed, Row
  <1>. QED
    BY <1>2, <1>3, <1>4, <1>5 DEF CatalogInv

\* A transaction is rolled back.
LEMMA EndStep ==
    ASSUME CatalogInv, UNCHANGED <<events, begun, popular, kept>>, NEW p \in Writers,
           tx' = [tx EXCEPT ![p] = Ended]
    PROVE  CatalogInv'
  <1>1. events \in Tables
    BY DEF CatalogInv, CatalogTypeOK, Tables
  <1>2. Ended \in Transactions /\ Sound(Ended, events)
    BY <1>1, EndedSound
  <1>3. Ended.kind = "none" /\ DOMAIN Ended.writes = {}
    BY NothingWritten DEF Ended
  <1>. QED
    BY <1>2, <1>3, LocalStep

\* The row a statement sees is one the transaction may have written, or one that is
\* committed.
LEMMA CurrentRow ==
    ASSUME CatalogAssumptions, NEW table \in Tables, RankedActive(table),
           NEW t \in Transactions, Sound(t, table), NEW e \in Events,
           NEW row, row = After(t, table)[e], row # Absent
    PROVE  /\ row \in Rows
           /\ row.rank \in 0..MaxFound /\ row.status \in {"active", "expired"}
           /\ row.rank > 0 => row.status = "active"
           /\ t.kind \in {"city", "enrich"} => row.rank = RankIn(table, e)
           /\ t.kind = "popular" /\ e \notin ToSet(t.list) =>
                  /\ row.rank > 0 => RankIn(table, e) > 0
                  /\ row.status = "active" => ActiveIn(table, e)
           /\ t.kind \in {"popular", "enrich"} /\ ActiveIn(table, e) =>
                  row.status = "active"
           /\ t.kind = "enrich" /\ row.status = "active" => ActiveIn(table, e)
  <1>1. row = IF e \in DOMAIN t.writes THEN t.writes[e] ELSE table[e]
    BY AfterFacts
  <1>2. row \in Rows
    BY AfterFacts DEF Tables
  <1>3. row.rank \in 0..MaxFound /\ row.status \in {"active", "expired"}
    BY <1>2 DEF Rows
  <1>4. CASE e \in DOMAIN t.writes
    <2>1. WriteFits(t, table, e) /\ row = t.writes[e]
      BY <1>1, <1>4 DEF Sound, WritesSound
    <2>. QED
      BY <1>2, <1>3, <2>1 DEF WriteFits
  <1>5. CASE e \notin DOMAIN t.writes
    <2>1. row = table[e] /\ RankIn(table, e) = row.rank
      BY <1>1, <1>5 DEF RankIn
    <2>2. ActiveIn(table, e) <=> row.status = "active"
      BY <2>1 DEF ActiveIn
    <2>. QED
      BY <1>2, <1>3, <2>1, <2>2 DEF RankedActive
  <1>. QED
    BY <1>4, <1>5

\* The record of a transaction after it wrote a row, and after it skipped one.
LEMMA WroteRecord ==
    ASSUME CatalogTypeOK, NEW p \in Writers, tx[p].todo # <<>>, NEW e \in Events, NEW row \in Rows,
           Wrote(p, e, row), NEW n, n = tx'[p]
    PROVE  /\ n \in Transactions /\ tx' = [tx EXCEPT ![p] = n]
           /\ n.kind = tx[p].kind /\ n.city = tx[p].city /\ n.list = tx[p].list
           /\ n.since = tx[p].since /\ (n.apart <=> tx[p].apart)
           /\ n.todo = Tail(tx[p].todo)
           /\ DOMAIN n.writes = DOMAIN tx[p].writes \cup {e}
           /\ \A x \in DOMAIN n.writes : n.writes[x] = IF x = e THEN row ELSE tx[p].writes[x]
  <1>. DEFINE w == [x \in DOMAIN tx[p].writes \cup {e} |->
                        IF x = e THEN row ELSE tx[p].writes[x]]
  <1>1. /\ tx \in [Writers -> Transactions] /\ tx[p] \in Transactions
        /\ tx[p].todo \in Seq(Steps) /\ tx[p].writes \in Writes
    BY DEF CatalogTypeOK, Transactions
  <1>2. DOMAIN tx[p].writes \subseteq Events /\ tx[p].writes \in [DOMAIN tx[p].writes -> Rows]
    BY <1>1, WritesType
  <1>3. DOMAIN w \subseteq Events /\ w \in [DOMAIN w -> Rows]
    BY <1>2
  <1>4. w \in Writes
    BY <1>3, WritesType
  <1>5. tx' = [tx EXCEPT ![p] = [tx[p] EXCEPT !.todo = Tail(tx[p].todo), !.writes = w]]
    BY <1>1 DEF Wrote
  <1>6. n = [tx[p] EXCEPT !.todo = Tail(tx[p].todo), !.writes = w]
    BY <1>1, <1>5
  <1>7. Tail(tx[p].todo) \in Seq(Steps)
    BY <1>1
  <1>8. DOMAIN w = DOMAIN tx[p].writes \cup {e}
    OBVIOUS
  <1>9. \A x \in DOMAIN w : w[x] = IF x = e THEN row ELSE tx[p].writes[x]
    OBVIOUS
  <1>. HIDE DEF w
  <1>10. n.writes = w
    BY <1>1, <1>6 DEF Transactions
  <1>. QED
    BY <1>1, <1>4, <1>5, <1>6, <1>7, <1>8, <1>9, <1>10 DEF Transactions

\* A statement whose condition no longer holds of its row is done, and leaves the
\* writes of its transaction as they are.
LEMMA SkippedRecord ==
    ASSUME CatalogTypeOK, NEW p \in Writers, tx[p].todo # <<>>, Skipped(p), NEW n, n = tx'[p]
    PROVE  /\ n \in Transactions /\ tx' = [tx EXCEPT ![p] = n]
           /\ n.kind = tx[p].kind /\ n.city = tx[p].city /\ n.list = tx[p].list
           /\ n.since = tx[p].since /\ (n.apart <=> tx[p].apart)
           /\ n.todo = Tail(tx[p].todo)
           /\ n.writes = tx[p].writes
  <1>1. /\ tx \in [Writers -> Transactions] /\ tx[p] \in Transactions
        /\ tx[p].todo \in Seq(Steps)
    BY DEF CatalogTypeOK, Transactions
  <1>2. tx' = [tx EXCEPT ![p] = [tx[p] EXCEPT !.todo = Tail(tx[p].todo)]]
    BY <1>1 DEF Skipped
  <1>3. n = [tx[p] EXCEPT !.todo = Tail(tx[p].todo)]
    BY <1>1, <1>2
  <1>4. Tail(tx[p].todo) \in Seq(Steps)
    BY <1>1
  <1>. QED
    BY <1>1, <1>2, <1>3, <1>4 DEF Transactions

\* The statements, row by row.
LEMMA WriteStep ==
    ASSUME CatalogAssumptions, CatalogInv, NEW p \in Writers, Write(p)
    PROVE  CatalogInv'
  <1>. DEFINE t == tx[p]
              step == Head(t.todo)
              e == step.event
              row == Current(p, e)
              old == IF row = Absent THEN 0 ELSE row.rank
  <1>1. /\ CatalogTypeOK /\ events \in Tables /\ t \in Transactions /\ Sound(t, events)
        /\ RankedActive(events)
    BY DEF CatalogInv, CatalogTypeOK, Tables
  <1>2. /\ t.todo # <<>> /\ WaitsFor(p) = {}
        /\ UNCHANGED <<events, begun, popular, kept>>
        /\ ExpireRow(p) \/ Unrank(p) \/ Upsert(p) \/ Enrich(p)
    BY DEF Write
  <1>3. t.todo \in Seq(Steps)
    BY <1>1 DEF Transactions
  <1>4. step \in Steps /\ 1 \in DOMAIN t.todo /\ t.todo[1] = step
    BY <1>2, <1>3, TailFacts
  <1>5. /\ e \in Events /\ step.rank \in 0..MaxFound
        /\ StepFits(t, step)
        /\ step.do # "upsert" => events[e] # Absent
    BY <1>1, <1>4 DEF Steps, Sound, TodoSound, RowsThere
  <1>6. \A q \in Writers \ {p} : e \notin DOMAIN tx[q].writes
    BY <1>2 DEF WaitsFor, Holders, NextStep
  <1>7. \A q \in Writers \ {p} : DOMAIN t.writes \cap DOMAIN tx[q].writes = {}
    BY <1>1 DEF CatalogTypeOK
  <1>8. row = After(t, events)[e]
    BY DEF Current
  <1>9. row = IF e \in DOMAIN t.writes THEN t.writes[e] ELSE events[e]
    BY <1>1, <1>5, <1>8, AfterFacts
  <1>10. step.do # "upsert" => row # Absent
    BY <1>1, <1>5, <1>9, AfterFacts, RowFacts
  <1>11. row # Absent =>
           /\ row \in Rows
           /\ row.rank \in 0..MaxFound /\ row.status \in {"active", "expired"}
           /\ row.rank > 0 => row.status = "active"
           /\ t.kind \in {"city", "enrich"} => row.rank = RankIn(events, e)
           /\ t.kind = "popular" /\ e \notin ToSet(t.list) =>
                  /\ row.rank > 0 => RankIn(events, e) > 0
                  /\ row.status = "active" => ActiveIn(events, e)
           /\ t.kind \in {"popular", "enrich"} /\ ActiveIn(events, e) =>
                  row.status = "active"
           /\ t.kind = "enrich" /\ row.status = "active" => ActiveIn(events, e)
    BY <1>1, <1>5, <1>8, CurrentRow
  <1>12. t.kind \in {"city", "popular", "enrich"}
    <2>1. t.kind # "none"
      BY <1>1, <1>2 DEF Sound, Shape, Ended
    <2>. QED
      BY <1>1, <2>1 DEF Transactions, Kinds
  <1>13. SinceSound(t, events)
    BY <1>1 DEF Sound
  <1>. HIDE DEF row
  \* A row is written, and the transaction stays sound.
  <1>14. ASSUME NEW new \in Rows, Wrote(p, e, new),
                new.rank > 0 => new.status = "active",
                t.kind \in {"city", "enrich"} => new.rank = RankIn(events, e),
                t.kind = "popular" /\ e \notin ToSet(t.list) =>
                    /\ new.rank > 0 => RankIn(events, e) > 0
                    /\ new.status = "active" => ActiveIn(events, e),
                t.kind \in {"popular", "enrich"} /\ ActiveIn(events, e) =>
                    new.status = "active",
                t.kind = "enrich" => ActiveIn(events, e) /\ new.enriched,
                step.do = "upsert" =>
                    /\ new.status = "active"
                    /\ t.kind = "popular" => new.rank = step.rank,
                step.do = "unrank" => new.rank = 0,
                step.do = "expire" => new.status # "active"
         PROVE  CatalogInv'
    <2>1. PICK n : n = tx'[p]
      OBVIOUS
    <2>2. /\ n \in Transactions /\ tx' = [tx EXCEPT ![p] = n]
          /\ n.kind = t.kind /\ n.city = t.city /\ n.list = t.list
          /\ n.since = t.since /\ (n.apart <=> t.apart)
          /\ n.todo = Tail(t.todo)
          /\ DOMAIN n.writes = DOMAIN t.writes \cup {e}
          /\ \A x \in DOMAIN n.writes : n.writes[x] = IF x = e THEN new ELSE t.writes[x]
      BY <1>1, <1>2, <1>5, <1>14, <2>1, WroteRecord
    <2>3. e \in DOMAIN n.writes /\ n.writes[e] = new
      BY <2>2
    <2>4. After(n, events)[e] = new /\ new # Absent
      BY <1>1, <1>5, <2>2, <2>3, AfterFacts, RowFacts
    <2>5. RankIn(After(n, events), e) = new.rank
      BY <2>4 DEF RankIn
    <2>6. ActiveIn(After(n, events), e) => new.status = "active"
      BY <2>4 DEF ActiveIn
    <2>7. WriteFits(n, events, e)
      BY <1>5, <1>14, <2>2, <2>3, <1>4, <1>12 DEF WriteFits, StepFits, Steps
    <2>8. Sound(n, events)
      BY <1>1, <1>2, <1>14, <2>2, <2>3, <2>5, <2>6, <2>7, StepSound
    <2>9. \A q \in Writers \ {p} : DOMAIN n.writes \cap DOMAIN tx[q].writes = {}
      BY <1>6, <1>7, <2>2
    <2>. QED
      BY <1>2, <2>2, <2>8, <2>9, LocalStep
  \* A row is skipped: it is not listed but for a rank, or has none.
  <1>15. ASSUME Skipped(p), step.do \in {"expire", "unrank"},
                step.do = "unrank" => row.rank = 0,
                step.do = "expire" /\ row.status = "active" => row.rank > 0
         PROVE  CatalogInv'
    <2>1. PICK n : n = tx'[p]
      OBVIOUS
    <2>2. /\ n \in Transactions /\ tx' = [tx EXCEPT ![p] = n]
          /\ n.kind = t.kind /\ n.city = t.city /\ n.list = t.list
          /\ n.since = t.since /\ (n.apart <=> t.apart)
          /\ n.todo = Tail(t.todo)
          /\ n.writes = t.writes
      BY <1>1, <1>2, <1>15, <2>1, SkippedRecord
    <2>3. After(n, events)[e] = row /\ row # Absent
      BY <1>1, <1>5, <1>9, <1>10, <1>15, <2>2, AfterFacts
    <2>4. RankIn(After(n, events), e) = row.rank
      BY <2>3 DEF RankIn
    <2>5. step.do = "expire" /\ ActiveIn(After(n, events), e) => e \in t.since
      <3>1. ASSUME step.do = "expire", ActiveIn(After(n, events), e)
            PROVE  e \in t.since
        <4>1. t.kind = "city"
          BY <1>5, <1>12, <3>1 DEF StepFits
        <4>2. row.status = "active"
          BY <2>3, <3>1 DEF ActiveIn
        <4>3. row.rank > 0
          BY <1>15, <3>1, <4>2
        <4>4. RankIn(events, e) > 0
          BY <1>11, <2>3, <4>1, <4>3
        <4>. QED
          BY <1>5, <1>13, <4>1, <4>4 DEF SinceSound
      <3>. QED
        BY <3>1
    <2>6. e \in DOMAIN n.writes => WriteFits(n, events, e)
      BY <1>1, <2>2 DEF Sound, WritesSound, WriteFits
    <2>7. Sound(n, events)
      BY <1>1, <1>2, <1>15, <2>2, <2>4, <2>5, <2>6, StepSound
    <2>. QED
      BY <1>2, <1>7, <2>2, <2>7, LocalStep
  <1>16. CASE ExpireRow(p)
    <2>1. step.do = "expire" /\ t.kind = "city" /\ row # Absent
      BY <1>5, <1>10, <1>12, <1>16 DEF ExpireRow, NextStep, StepFits
    <2>2. CASE row.status = "active" /\ row.rank = 0
      <3>1. PICK new : new = [row EXCEPT !.status = "expired"]
        OBVIOUS
      <3>2. new \in Rows /\ new.status = "expired" /\ new.rank = row.rank
        BY <1>11, <2>1, <3>1 DEF Rows
      <3>3. Wrote(p, e, new)
        BY <1>16, <2>2, <3>1 DEF ExpireRow, NextStep, row
      <3>. QED
        BY <1>11, <1>14, <2>1, <2>2, <3>2, <3>3
    <2>3. CASE ~(row.status = "active" /\ row.rank = 0)
      <3>1. Skipped(p)
        BY <1>16, <2>3 DEF ExpireRow, NextStep, row
      <3>. QED
        BY <1>11, <1>15, <2>1, <2>3, <3>1
    <2>. QED
      BY <2>2, <2>3
  <1>17. CASE Unrank(p)
    <2>1. step.do = "unrank" /\ t.kind = "popular" /\ row # Absent
      BY <1>5, <1>10, <1>12, <1>17 DEF Unrank, NextStep, StepFits
    <2>2. CASE row.rank > 0
      <3>1. PICK new : new = [row EXCEPT !.rank = 0]
        OBVIOUS
      <3>2. new \in Rows /\ new.status = row.status /\ new.rank = 0
        <4>1. 0 \in 0..MaxFound
          BY DEF CatalogAssumptions, CatalogAssumption
        <4>. QED
          BY <1>11, <2>1, <3>1, <4>1 DEF Rows
      <3>3. Wrote(p, e, new)
        BY <1>17, <2>2, <3>1 DEF Unrank, NextStep, row
      <3>. QED
        BY <1>11, <1>14, <2>1, <2>2, <3>2, <3>3
    <2>3. CASE ~(row.rank > 0)
      <3>1. Skipped(p)
        BY <1>17, <2>3 DEF Unrank, NextStep, row
      <3>2. row.rank = 0
        BY <1>11, <2>1, <2>3
      <3>. QED
        BY <1>15, <2>1, <3>1, <3>2
    <2>. QED
      BY <2>2, <2>3
  <1>18. CASE Upsert(p)
    <2>1. step.do = "upsert" /\ t.kind \in {"city", "popular"}
      BY <1>5, <1>12, <1>18 DEF Upsert, NextStep, StepFits
    <2>2. PICK new : new = [status |-> "active", enriched |-> FALSE,
                            rank |-> IF step.rank > 0 THEN step.rank ELSE old]
      OBVIOUS
    <2>3. old \in 0..MaxFound /\ (t.kind = "city" => old = RankIn(events, e))
      <3>1. CASE row = Absent
        <4>1. 0 \in 0..MaxFound
          BY DEF CatalogAssumptions, CatalogAssumption
        <4>2. e \notin DOMAIN t.writes
          BY <1>1, <1>9, <3>1, AfterFacts, RowFacts
        <4>3. events[e] = Absent
          BY <1>9, <3>1, <4>2
        <4>. QED
          BY <3>1, <4>1, <4>3 DEF RankIn
      <3>2. CASE row # Absent
        BY <1>11, <3>2
      <3>. QED
        BY <3>1, <3>2
    <2>4. new \in Rows /\ new.status = "active"
      BY <1>5, <2>2, <2>3 DEF Rows
    <2>5. t.kind = "city" => new.rank = RankIn(events, e)
      BY <1>5, <2>2, <2>3 DEF StepFits
    <2>6. t.kind = "popular" => new.rank = step.rank
      <3>1. ASSUME t.kind = "popular" PROVE step.rank > 0
        <4>1. step.rank \in DOMAIN t.list /\ t.list \in Seq(Events)
          BY <1>1, <1>5, <2>1, <3>1 DEF StepFits, Transactions
        <4>. QED
          BY <4>1
      <3>. QED
        BY <2>2, <3>1
    <2>7. Wrote(p, e, new)
      BY <1>18, <2>2 DEF Upsert, NextStep, row
    <2>8. t.kind = "popular" => e \in ToSet(t.list)
      BY <1>5, <2>1 DEF StepFits
    <2>. QED
      BY <1>14, <2>1, <2>4, <2>5, <2>6, <2>7, <2>8
  <1>19. CASE Enrich(p)
    <2>1. step.do = "enrich" /\ t.kind = "enrich" /\ row # Absent
      BY <1>5, <1>10, <1>12, <1>19 DEF Enrich, NextStep, StepFits
    <2>2. CASE row.status = "active"
      <3>1. PICK new : new = [row EXCEPT !.enriched = TRUE]
        OBVIOUS
      <3>2. new \in Rows /\ new.status = "active" /\ new.rank = row.rank /\ new.enriched
        BY <1>11, <2>1, <2>2, <3>1 DEF Rows
      <3>3. Wrote(p, e, new)
        BY <1>19, <2>2, <3>1 DEF Enrich, NextStep, row
      <3>. QED
        BY <1>11, <1>14, <2>1, <2>2, <3>2, <3>3
    <2>3. CASE row.status # "active"
      <3>1. tx' = [tx EXCEPT ![p] = Ended]
        BY <1>19, <2>3 DEF Enrich, NextStep, row
      <3>. QED
        BY <1>2, <3>1, EndStep
    <2>. QED
      BY <2>2, <2>3
  <1>. QED
    BY <1>2, <1>16, <1>17, <1>18, <1>19

\* A transaction commits: its rows are the table's, and the others stay sound.
LEMMA CommitStep ==
    ASSUME CatalogAssumptions, CatalogInv, NEW p \in Writers, Commit(p)
    PROVE  CatalogInv'
  <1>. DEFINE t == tx[p]
              found == ToSet(t.list)
              new == After(t, events)
  <1>1. /\ CatalogTypeOK /\ events \in Tables /\ tx \in [Writers -> Transactions]
        /\ t \in Transactions /\ Sound(t, events) /\ RankedActive(events)
        /\ \A q \in Writers : Sound(tx[q], events)
        /\ ListsSound(events, popular, kept)
    BY ListsToRows DEF CatalogInv, CatalogTypeOK, Tables
  <1>2. /\ t # Ended /\ t.todo = <<>> /\ events' = new /\ begun' = begun
        /\ tx' = [q \in Writers |->
               IF q = p THEN Ended
               ELSE IF t.kind = "popular" /\ tx[q] # Ended
               THEN [tx[q] EXCEPT !.since = @ \cup found] ELSE tx[q]]
    BY DEF Commit
  <1>3. t.kind # "none" /\ t.kind \in {"city", "popular", "enrich"}
    BY <1>1, <1>2 DEF Sound, Shape, Transactions, Kinds
  <1>4. new \in Tables /\ found \in SUBSET Events
    <2>1. t.list \in Seq(Events)
      BY <1>1 DEF Transactions
    <2>. QED
      BY <1>1, <2>1, AfterFacts DEF ToSet
  <1>5. tx'[p] = Ended /\ Ended \in Transactions /\ Sound(Ended, new)
    BY <1>2, <1>4, EndedSound
  <1>6. ASSUME NEW q \in Writers, q # p, tx[q].kind # "none"
        PROVE  /\ tx'[q] \in Transactions /\ Sound(tx'[q], new)
               /\ tx'[q].kind = tx[q].kind /\ tx'[q].city = tx[q].city
               /\ tx'[q].writes = tx[q].writes /\ (tx'[q].apart <=> tx[q].apart)
    <2>1. PICK n : n = tx'[q]
      OBVIOUS
    <2>2. tx[q] \in Transactions /\ tx[q].kind # Ended.kind
      BY <1>1, <1>6 DEF Ended
    <2>3. n = IF t.kind = "popular" THEN [tx[q] EXCEPT !.since = @ \cup found] ELSE tx[q]
      BY <1>2, <1>6, <2>1, <2>2
    <2>4. /\ n \in Transactions /\ n.kind = tx[q].kind /\ n.city = tx[q].city
          /\ n.list = tx[q].list /\ n.todo = tx[q].todo /\ n.writes = tx[q].writes
          /\ (n.apart <=> tx[q].apart) /\ tx[q].since \subseteq n.since
          /\ t.kind = "popular" => found \subseteq n.since
      <3>1. CASE t.kind = "popular"
        BY <3>1, <1>4, <2>2, <2>3 DEF Transactions
      <3>2. CASE t.kind # "popular"
        BY <3>2, <2>2, <2>3
      <3>. QED
        BY <3>1, <3>2
    <2>5. DOMAIN tx[q].writes \cap DOMAIN t.writes = {}
      BY <1>1, <1>6 DEF CatalogTypeOK
    <2>6. tx[q].kind \in {"city", "popular"} /\ tx[q].apart =>
              ~(t.kind = tx[q].kind /\ t.city = tx[q].city)
      BY <1>6 DEF CatalogInv, ApartSound
    <2>7. Sound(n, new)
      BY <1>1, <1>3, <1>6, <2>2, <2>4, <2>5, <2>6, OthersStaySound
    <2>. QED
      BY <2>1, <2>4, <2>7
  <1>7. ASSUME NEW q \in Writers, q # p, tx[q].kind = "none"
        PROVE  tx'[q] = Ended /\ tx[q] = Ended
    BY <1>1, <1>2, <1>7 DEF Sound, Shape
  <1>8. \A q \in Writers : tx'[q] \in Transactions /\ Sound(tx'[q], new)
    BY <1>5, <1>6, <1>7
  <1>9. RankedActive(new)
    BY <1>1, <1>3, CommittedRow DEF RankedActive
  <1>10. ApartSound(tx')
    <2>1. Ended.kind = "none"
      BY DEF Ended
    <2>2. ASSUME NEW q \in Writers, tx'[q].kind \in {"city", "popular"}
          PROVE  /\ tx'[q].kind = tx[q].kind /\ tx'[q].city = tx[q].city
                 /\ tx'[q].apart => tx[q].apart
      BY <2>1, <2>2, <1>5, <1>6, <1>7
    <2>. QED
      BY <2>2 DEF ApartSound, CatalogInv
  <1>11. /\ t.kind # "popular" => popular' = popular
         /\ t.kind = "popular" /\ ~t.apart => popular' = Absent
         /\ t.kind = "popular" /\ t.apart =>
                popular' = [e \in Events |-> IF e \in found
                                             THEN CHOOSE i \in DOMAIN t.list : t.list[i] = e
                                             ELSE 0]
    BY DEF Commit
  <1>12. kept' = [c \in CitiesOfEvents |->
           CASE t.kind = "popular" ->
                    [kept[c] EXCEPT !.may = @ \cup {e \in found : CityOf[e] = c}]
             [] t.kind = "city" /\ t.city = c ->
                    IF t.apart
                    THEN [found |-> found,
                          may |-> found \cup {e \in t.since : CityOf[e] = c}]
                    ELSE [found |-> {}, may |-> Events]
             [] OTHER -> kept[c]]
    BY DEF Commit
  \* The ranks of the list, and what its rows have.
  <1>13. ASSUME t.kind = "popular", t.apart, NEW e \in Events
         PROVE  /\ popular'[e] \in 0..MaxFound
                /\ RankIn(new, e) > 0 <=> popular'[e] > 0
                /\ RankIn(new, e) > 0 => RankIn(new, e) = popular'[e]
    <2>1. CASE e \in found
      <3>1. popular'[e] = CHOOSE i \in DOMAIN t.list : t.list[i] = e
        BY <1>11, <1>13, <2>1
      <3>2. RankIn(new, e) \in DOMAIN t.list /\ t.list[RankIn(new, e)] = e
        BY <1>1, <1>2, <1>13, <2>1, CommittedSearch
      <3>3. popular'[e] \in DOMAIN t.list /\ t.list[popular'[e]] = e
        BY <3>1, <3>2
      <3>4. popular'[e] = RankIn(new, e)
        BY <1>1, <3>2, <3>3 DEF Sound, Shape
      <3>5. DOMAIN t.list = 1..Len(t.list) /\ Len(t.list) \in Nat /\ Len(t.list) <= MaxFound
        <4>1. t.list \in Seq(Events) /\ Len(t.list) <= MaxFound
          BY <1>1, <1>13 DEF Transactions, Sound, Shape
        <4>. QED
          BY <4>1
      <3>6. MaxFound \in Nat
        BY DEF CatalogAssumptions, CatalogAssumption
      <3>. QED
        BY <3>3, <3>4, <3>5, <3>6
    <2>2. CASE e \notin found
      <3>1. popular'[e] = 0
        BY <1>11, <1>13, <2>2
      <3>2. ~(RankIn(new, e) > 0)
        BY <1>1, <1>2, <1>13, <2>2, CommittedSearch
      <3>3. 0 \in 0..MaxFound
        BY DEF CatalogAssumptions, CatalogAssumption
      <3>. QED
        BY <3>1, <3>2, <3>3
    <2>. QED
      BY <2>1, <2>2
  <1>14. popular' # Absent => \A e \in Events :
           /\ RankIn(new, e) > 0 <=> popular'[e] > 0
           /\ RankIn(new, e) > 0 => RankIn(new, e) = popular'[e]
    <2>1. CASE t.kind # "popular"
      <3>1. popular' = popular
        BY <1>11, <2>1
      <3>2. \A e \in Events : RankIn(new, e) = RankIn(events, e)
        BY <1>1, <1>3, <2>1, CommittedRow
      <3>. QED
        BY <1>1, <3>1, <3>2 DEF ListsSound
    <2>2. CASE t.kind = "popular"
      BY <1>11, <1>13, <2>2
    <2>. QED
      BY <2>1, <2>2
  <1>15. ASSUME NEW c \in CitiesOfEvents
         PROVE  /\ kept'[c] \in [found: SUBSET Events, may: SUBSET Events]
                /\ \A e \in kept'[c].found : CityOf[e] = c /\ ActiveIn(new, e)
                /\ \A e \in Events :
                       CityOf[e] = c /\ ActiveIn(new, e) => e \in kept'[c].may
    <2>1. /\ kept[c] \in [found: SUBSET Events, may: SUBSET Events]
          /\ \A e \in kept[c].found : e \in Events /\ CityOf[e] = c /\ ActiveIn(events, e)
          /\ \A e \in Events : CityOf[e] = c /\ ActiveIn(events, e) => e \in kept[c].may
      BY <1>1 DEF CatalogTypeOK, ListsSound
    <2>2. t.since \in SUBSET Events
      BY <1>1 DEF Transactions
    <2>3. CASE t.kind = "popular"
      <3>1. kept'[c] = [kept[c] EXCEPT !.may = @ \cup {e \in found : CityOf[e] = c}]
        BY <1>12, <2>3
      <3>2. /\ kept'[c] \in [found: SUBSET Events, may: SUBSET Events]
            /\ kept'[c].found = kept[c].found
            /\ kept'[c].may = kept[c].may \cup {e \in found : CityOf[e] = c}
        BY <1>4, <2>1, <3>1
      <3>3. \A e \in Events : /\ ActiveIn(events, e) => ActiveIn(new, e)
                              /\ e \notin found /\ ActiveIn(new, e) => ActiveIn(events, e)
        BY <1>1, <1>3, <2>3, CommittedRow
      <3>. QED
        BY <2>1, <3>2, <3>3
    <2>4. CASE t.kind = "city" /\ t.city = c
      <3>1. kept'[c] = IF t.apart
                       THEN [found |-> found,
                             may |-> found \cup {e \in t.since : CityOf[e] = c}]
                       ELSE [found |-> {}, may |-> Events]
        BY <1>12, <2>4
      <3>2. CASE t.apart
        <4>1. /\ kept'[c] \in [found: SUBSET Events, may: SUBSET Events]
              /\ kept'[c].found = found
              /\ kept'[c].may = found \cup {e \in t.since : CityOf[e] = c}
          BY <1>4, <2>2, <3>1, <3>2
        <4>2. \A e \in found : e \in Events /\ CityOf[e] = c /\ ActiveIn(new, e)
          <5>1. \A e \in found : e \in Events /\ ActiveIn(new, e)
            BY <1>1, <1>2, <1>4, <2>4, CommittedSearch
          <5>2. \A e \in found : e \in DOMAIN t.writes
            BY <1>1, <1>2, <2>4 DEF Sound, ListSound, Left, Saved
          <5>3. \A e \in found : CityOf[e] = c
            BY <1>1, <2>4, <5>2 DEF Sound, WritesSound, WriteFits
          <5>. QED
            BY <5>1, <5>3
        <4>3. \A e \in Events :
                  CityOf[e] = c /\ ActiveIn(new, e) => e \in found \cup t.since
          BY <1>1, <1>2, <2>4, <3>2, CommittedSearch
        <4>. QED
          BY <4>1, <4>2, <4>3
      <3>3. CASE ~t.apart
        <4>1. /\ kept'[c] \in [found: SUBSET Events, may: SUBSET Events]
              /\ kept'[c].found = {} /\ kept'[c].may = Events
          BY <3>1, <3>3
        <4>. QED
          BY <4>1
      <3>. QED
        BY <3>2, <3>3
    <2>5. CASE t.kind # "popular" /\ ~(t.kind = "city" /\ t.city = c)
      <3>1. kept'[c] = kept[c]
        BY <1>12, <2>5
      <3>2. \A e \in Events :
                CityOf[e] = c => (ActiveIn(new, e) <=> ActiveIn(events, e))
        <4>1. CASE t.kind = "city"
          <5>1. \A e \in Events : CityOf[e] = c => new[e] = events[e]
            BY <1>1, <1>3, <2>5, <4>1, CommittedRow
          <5>. QED
            BY <5>1 DEF ActiveIn
        <4>2. CASE t.kind = "enrich"
          BY <1>1, <1>3, <4>2, CommittedRow
        <4>. QED
          BY <1>3, <2>5, <4>1, <4>2
      <3>. QED
        BY <2>1, <3>1, <3>2
    <2>. QED
      BY <2>3, <2>4, <2>5
  <1>16. ListsAreLast'
    <2>1. \A c \in CitiesOfEvents : \A e \in kept'[c].found : e \in Events
      BY <1>15
    <2>2. ListsSound(events', popular', kept')
      BY <1>2, <1>14, <1>15, <2>1 DEF ListsSound
    <2>3. RankedActive(events') /\ events' \in Tables
      BY <1>2, <1>4, <1>9
    <2>. QED
      BY <2>2, <2>3, RowsToLists
  <1>17. CatalogTypeOK'
    <2>1. tx' \in [Writers -> Transactions]
      BY <1>2, <1>8
    <2>2. \A q, r \in Writers :
              q # r => DOMAIN tx'[q].writes \cap DOMAIN tx'[r].writes = {}
      <3>1. DOMAIN Ended.writes = {}
        BY NothingWritten DEF Ended
      <3>2. \A q \in Writers : DOMAIN tx'[q].writes \subseteq DOMAIN tx[q].writes
        BY <3>1, <1>5, <1>6, <1>7
      <3>. QED
        BY <1>1, <3>2 DEF CatalogTypeOK
    <2>3. popular' \in [Events -> 0..MaxFound] \cup {Absent}
      <3>1. CASE t.kind = "popular" /\ t.apart
        BY <1>11, <1>13, <3>1
      <3>2. CASE ~(t.kind = "popular" /\ t.apart)
        BY <1>1, <1>11, <3>2 DEF CatalogTypeOK
      <3>. QED
        BY <3>1, <3>2
    <2>4. kept' \in [CitiesOfEvents -> [found: SUBSET Events, may: SUBSET Events]]
      BY <1>12, <1>15
    <2>5. events' \in [Events -> Rows \cup {Absent}] /\ begun' \in 0..MaxBegun
      BY <1>1, <1>2, <1>4 DEF CatalogTypeOK, Tables
    <2>. QED
      BY <2>1, <2>2, <2>3, <2>4, <2>5 DEF CatalogTypeOK
  <1>. QED
    BY <1>2, <1>8, <1>9, <1>10, <1>16, <1>17 DEF CatalogInv

----------------------------------------------------------------------------
(* The theorems.                                                           *)

\* The inductive invariant holds initially, and every step of a writer keeps it.
LEMMA CatalogInvKept == CatalogInit /\ [][CatalogNext]_catalogVars => []CatalogInv
  <1>. CatalogAssumptions
    BY CatalogConstants
  <1>1. CatalogInit => CatalogInv
    <2>. SUFFICES ASSUME CatalogInit PROVE CatalogInv
      OBVIOUS
    <2>1. events \in Tables /\ \A e \in Events : events[e] = Absent
      BY DEF CatalogInit, Tables
    <2>2. Ended \in Transactions /\ Sound(Ended, events)
      BY <2>1, EndedSound
    <2>3. /\ tx \in [Writers -> Transactions]
          /\ \A p \in Writers : tx[p] = Ended /\ Sound(tx[p], events)
      BY <2>2 DEF CatalogInit
    <2>4. Ended.kind = "none" /\ DOMAIN Ended.writes = {}
      BY NothingWritten DEF Ended
    <2>5. 0 \in 0..MaxFound /\ 0 \in 0..MaxBegun
      BY DEF CatalogAssumptions, CatalogAssumption
    <2>6. CatalogTypeOK
      BY <2>1, <2>3, <2>4, <2>5 DEF CatalogTypeOK, CatalogInit, Tables
    <2>7. RankedActive(events)
      BY <2>1 DEF RankedActive, RankIn
    <2>8. ApartSound(tx)
      BY <2>3, <2>4 DEF ApartSound
    <2>9. ListsAreLast
      BY <2>1 DEF ListsAreLast, CatalogInit, Popular, Ranked, Listed, Row
    <2>. QED
      BY <2>3, <2>6, <2>7, <2>8, <2>9 DEF CatalogInv
  <1>2. CatalogInv /\ [CatalogNext]_catalogVars => CatalogInv'
    <2>. SUFFICES ASSUME CatalogInv, [CatalogNext]_catalogVars PROVE CatalogInv'
      OBVIOUS
    <2>1. /\ events \in Tables
          /\ \A c \in CitiesOfEvents : c \in CitiesOfEvents \cup {Absent}
          /\ \A c : Listed(c) = {e \in Events : CityOf[e] = c /\ ActiveIn(events, e)}
          /\ \A e \in Events : e \in Ranked <=> RankIn(events, e) > 0
          /\ Ranked \in SUBSET Events
      BY RankedRows DEF CatalogInv, CatalogTypeOK, Tables, Listed, Row, ActiveIn, Ranked
    <2>2. ASSUME NEW p \in Writers, NEW c \in CitiesOfEvents, SaveCityDiscovery(p, c)
          PROVE  CatalogInv'
      <3>1. PICK list \in Found({e \in Events : CityOf[e] = c}),
                 order \in Orders(Listed(c) \ Ranked) :
              Begin(p, "city", c, list, Do("expire", order) \o Do("upsert", list))
        BY <2>2 DEF SaveCityDiscovery
      <3>. DEFINE S == Listed(c) \ Ranked
                  todo == Do("expire", order) \o Do("upsert", list)
      <3>2. S \in SUBSET Events /\ order \in Orders(S) /\ list \in Found(Events)
        BY DEF Listed, Found
      <3>3. /\ list \in Seq(Events)
            /\ \A e \in ToSet(list) : CityOf[e] = c
        BY FoundFacts
      <3>4. SearchSteps(todo, "expire", S, list, Do("upsert", list))
        BY <3>2, SearchTodo
      <3>5. todo \in Seq(Steps)
        BY <3>4 DEF SearchSteps
      <3>6. \A e \in Events :
                e \in S <=> CityOf[e] = c /\ ActiveIn(events, e) /\ e \notin Ranked
        BY <2>1
      <3>7. Begin(p, "city", c, list, todo)
        BY <3>1
      <3>. HIDE DEF S, todo
      <3>8. BeginsSound("city", c, list, todo)
        <4>1. ASSUME NEW n \in Transactions, n.kind = "city", n.city = c, n.list = list,
                     n.todo = todo, DOMAIN n.writes = {}, n.since = Ranked
              PROVE  Sound(n, events)
          BY <2>1, <3>2, <3>3, <3>4, <3>6, <4>1, CityBegins
        <4>. QED
          BY <4>1 DEF BeginsSound
      <3>9. "city" \in Kinds \ {"none"}
        BY DEF Kinds
      <3>. QED
        BY <2>1, <3>3, <3>5, <3>7, <3>8, <3>9, BeginStep
    <2>3. ASSUME NEW p \in Writers, SavePopularDiscovery(p)
          PROVE  CatalogInv'
      <3>1. PICK list \in Found(Events), order \in Orders(Ranked) :
              Begin(p, "popular", Absent, list, Do("unrank", order) \o Ranking(list))
        BY <2>3 DEF SavePopularDiscovery
      <3>. DEFINE todo == Do("unrank", order) \o Ranking(list)
      <3>2. list \in Seq(Events)
        BY FoundFacts
      <3>3. SearchSteps(todo, "unrank", Ranked, list, Ranking(list))
        BY <2>1, SearchTodo
      <3>4. todo \in Seq(Steps)
        BY <3>3 DEF SearchSteps
      <3>5. Begin(p, "popular", Absent, list, todo)
        BY <3>1
      <3>. HIDE DEF todo
      <3>6. BeginsSound("popular", Absent, list, todo)
        <4>1. ASSUME NEW n \in Transactions, n.kind = "popular", n.city = Absent, n.list = list,
                     n.todo = todo, DOMAIN n.writes = {}, n.since = Ranked
              PROVE  Sound(n, events)
          BY <2>1, <3>3, <4>1, PopularBegins
        <4>. QED
          BY <4>1 DEF BeginsSound
      <3>7. "popular" \in Kinds \ {"none"} /\ Absent \in CitiesOfEvents \cup {Absent}
        BY DEF Kinds
      <3>. QED
        BY <3>2, <3>4, <3>5, <3>6, <3>7, BeginStep
    <2>4. ASSUME NEW p \in Writers, NEW c \in CitiesOfEvents, Refresh(p, c)
          PROVE  CatalogInv'
      <3>1. PICK order \in Orders(Listed(c)) :
              Begin(p, "enrich", c, order, Do("enrich", order))
        BY <2>4 DEF Refresh
      <3>2. order \in Orders({e \in Events : CityOf[e] = c /\ ActiveIn(events, e)})
        BY <2>1
      <3>3. order \in Seq(Events)
        BY <3>2, OrderFacts
      <3>4. Do("enrich", order) \in Seq(Steps)
        BY <3>3, DoFacts
      <3>5. BeginsSound("enrich", c, order, Do("enrich", order))
        <4>1. ASSUME NEW n \in Transactions, n.kind = "enrich", n.city = c, n.list = order,
                     n.todo = Do("enrich", order), DOMAIN n.writes = {}, n.since = Ranked
              PROVE  Sound(n, events)
          BY <2>1, <3>2, <4>1, EnrichBegins
        <4>. QED
          BY <4>1 DEF BeginsSound
      <3>6. "enrich" \in Kinds \ {"none"}
        BY DEF Kinds
      <3>. QED
        BY <2>1, <3>1, <3>3, <3>4, <3>5, <3>6, BeginStep
    <2>5. ASSUME NEW p \in Writers, Rollback(p)
          PROVE  CatalogInv'
      BY <2>5, EndStep DEF Rollback
    <2>6. CASE UNCHANGED catalogVars
      BY <2>6 DEF catalogVars, CatalogInv, CatalogTypeOK, ListsAreLast, Popular, Ranked, Listed, Row
    <2>7. CASE CatalogNext
      BY <2>2, <2>3, <2>4, <2>5, <2>7, WriteStep, CommitStep DEF CatalogNext, Fails, Victim
    <2>. QED
      BY <2>6, <2>7
  <1>. QED
    BY <1>1, <1>2, PTL

\* The invariant.
THEOREM CatalogInvariant == CatalogSpec => []CatalogInv
  BY CatalogInvKept, PTL DEF CatalogSpec

\* Every variable stays in its type, and no two transactions have written one row.
THEOREM CatalogTypeCorrect == CatalogSpec => []CatalogTypeOK
  <1>1. CatalogInv => CatalogTypeOK
    BY DEF CatalogInv
  <1>. QED
    BY <1>1, CatalogInvariant, PTL

\* The popular list and the cities' lists are what the last searches found, in
\* whatever order searches and enrichments write their rows and commit, and
\* whichever of them are rolled back.
THEOREM ListsCorrect == CatalogSpec => []ListsAreLast
  <1>1. CatalogInv => ListsAreLast
    BY DEF CatalogInv
  <1>. QED
    BY <1>1, CatalogInvariant, PTL

\* An enrichment is saved for every event of the list that was read, each of them
\* still listed, or for none.
THEOREM EnrichmentsCorrect == CatalogSpec => EnrichedWhole
  <1>1. CatalogInv /\ [CatalogNext]_catalogVars =>
          \A p \in Writers :
              tx[p].kind = "enrich" /\ Commit(p) =>
                  \A e \in ToSet(tx[p].list) :
                      Row(e).status = "active" /\ events'[e].enriched
    <2>. SUFFICES ASSUME CatalogInv, NEW p \in Writers, tx[p].kind = "enrich", Commit(p),
                         NEW e \in ToSet(tx[p].list)
                  PROVE  Row(e).status = "active" /\ events'[e].enriched
      OBVIOUS
    <2>1. /\ events \in Tables /\ tx[p] \in Transactions /\ Sound(tx[p], events)
      BY DEF CatalogInv, CatalogTypeOK, Tables
    <2>2. tx[p].todo = <<>> /\ events' = After(tx[p], events)
      BY DEF Commit
    <2>3. e \in Events
      <3>1. tx[p].list \in Seq(Events)
        BY <2>1 DEF Transactions
      <3>. QED
        BY <3>1 DEF ToSet
    <2>4. ActiveIn(events, e) /\ After(tx[p], events)[e].enriched
      BY <2>1, <2>2, <2>3, CatalogConstants, CommittedSearch
    <2>. QED
      BY <2>2, <2>4 DEF Row, ActiveIn
  <1>. QED
    BY <1>1, CatalogInvariant, PTL DEF CatalogSpec, EnrichedWhole

============================================================================
