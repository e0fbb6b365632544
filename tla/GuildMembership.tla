--------------------------- MODULE GuildMembership ---------------------------
(***************************************************************************)
(* Joining and leaving a guild.  Joining is one INSERT ...  SELECT, which  *)
(* does nothing when the guild is not of the home city there is now or     *)
(* one_active_guild_per_user has a row; the answer is the guild suggested  *)
(* by a second statement.                                                  *)
(***************************************************************************)
EXTENDS AccountRows

account == <<users, prefs, sessions, shown, given, created>>

\* Mutant of Insertable: unique by guild and user.
InsertableByGuild(e, g) ==
    /\ g = users[e].home
    /\ ~\E m \in members : m.user = e /\ m.guild = g

\* The row the INSERT of JoinGuild produces is not in conflict.
Insertable(e, g) ==
    /\ g = users[e].home
    /\ Membership(e) = {}

JoinGuild(r, t, e, g) ==
    /\ req[r] = Idle
    /\ Resolves(t, e)
    /\ members' = IF Insertable(e, g) THEN members \cup {[user |-> e, guild |-> g]}
                                      ELSE members
    /\ req' = [req EXCEPT ![r] = [Idle EXCEPT !.pc = "joined", !.user = e, !.guild = g,
                                  !.free = Membership(e) = {} /\ g = users[e].home]]
    /\ UNCHANGED account

\* SuggestedGuild: the guild of the home city, and whether the user is in it.
Suggested(e) == [guild |-> users[e].home,
                 member |-> [user |-> e, guild |-> users[e].home] \in members]

\* JoinGuild answers 200 with what SuggestedGuild returns, or an error.
JoinAnswer(r) ==
    /\ req[r].pc = "joined"
    /\ End(r)
    /\ UNCHANGED <<members, account>>

LeaveGuild(t, e) ==
    /\ Resolves(t, e)
    /\ members' = members \ Membership(e)
    /\ req' = [r \in Requests |-> IF req[r].user = e THEN [req[r] EXCEPT !.free = FALSE]
                                                     ELSE req[r]]
    /\ UNCHANGED account

============================================================================
