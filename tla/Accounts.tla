------------------------------ MODULE Accounts ------------------------------
(***************************************************************************)
(* Authentication, profile updates and guild membership over the rows they *)
(* share.                                                                  *)
(***************************************************************************)
EXTENDS Authentication, ProfileUpdates, GuildMembership

Next ==
    \/ \E r \in Requests, e \in Emails : RegisterInsert(r, e) \/ LoginVerify(r, e)
    \/ \E r \in Requests, t \in Tokens :
        RegisterCommit(r, t) \/ RegisterUnconfirmed(r, t) \/ LoginSession(r, t)
    \/ \E r \in Requests :
        \/ RegisterAborts(r)
        \/ LoginFails(r)
        \/ SaveUserRow(r)
        \/ SavePrefsRow(r)
        \/ UpdateFails(r)
        \/ JoinAnswer(r)
    \/ \E t \in Tokens : Logout(t) \/ Expire(t)
    \/ \E r \in Requests, t \in Tokens, e \in Emails :
        \/ BeginUpdate(r, t, e)
        \/ \E g \in Guilds : JoinGuild(r, t, e, g)
    \/ \E t \in Tokens, e \in Emails : LeaveGuild(t, e)

Spec == Init /\ [][Next]_vars

----------------------------------------------------------------------------
(* Properties.                                                             *)

\* An account is whole or absent, whatever statement of a registration fails and
\* although updates write its two tables apart: a user without preferences could
\* neither log in nor register again.  So a session a client was given resolves to
\* its user until it is revoked or expires; and of the registrations of one email,
\* however they overlap, at most one is answered 201.
AccountsWhole ==
    /\ \A e \in Emails : users[e] # None <=> prefs[e] # None
    /\ \A t \in given : \E e \in Emails : Resolves(t, e)
    /\ \A e \in Emails : created[e] <= 1

\* No update is lost by a client that waits for its answers: unless updates of the
\* user overlapped or one of them failed, the rows are what the last answer
\* showed, although every update writes all of the user it has read.
ShownIsStored ==
    \A e \in Emails :
        shown[e] # None /\ Updating(e) = {} => shown[e] = Profile(e)

\* Who could join when the row was inserted, and neither left nor moved since, is
\* answered as a member; and whoever is, is in that guild and in no other, with
\* whatever joins, moves and leaves the answer overlaps.
JoinAnswered ==
    \A r \in Requests :
        LET e == req[r].user IN
        req[r].pc = "joined" =>
            /\ req[r].free => Suggested(e) = [guild |-> req[r].guild, member |-> TRUE]
            /\ Suggested(e).member =>
                   Membership(e) = {[user |-> e, guild |-> Suggested(e).guild]}

=============================================================================
