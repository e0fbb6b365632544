--------------------------- MODULE Authentication ---------------------------
(***************************************************************************)
(* Registration, login, logout and the end of sessions.  How many attempts *)
(* a login has is decided before, by the counters of RateLimiter.          *)
(***************************************************************************)
EXTENDS AccountRows

others == <<members, shown>>

\* Mutant of RegisterInsert: outside a transaction, the row is there at once.
RegisterInsertCommitted(r, e) ==
    /\ req[r] = Idle
    /\ users[e] = None
    /\ users' = [users EXCEPT ![e] = [home |-> HomeCity, onboarded |-> FALSE]]
    /\ req' = [req EXCEPT ![r] = [Idle EXCEPT !.pc = "inserted", !.user = e]]
    /\ UNCHANGED <<prefs, sessions, given, created, others>>

\* The transaction of Register has inserted the row of users.  The unique index
\* makes another insert of the email wait until this one ends, and refuses it
\* if there is a row (ErrCredentials).  The read of the city, the insert of the
\* preferences, the read of the user and the insert of the session follow in the
\* same transaction and show at its commit.
RegisterInsert(r, e) ==
    /\ req[r] = Idle
    /\ users[e] = None
    /\ ~\E q \in Requests : req[q].pc = "inserted" /\ req[q].user = e
    /\ req' = [req EXCEPT ![r] = [Idle EXCEPT !.pc = "inserted", !.user = e]]
    /\ UNCHANGED <<users, prefs, sessions, given, created, others>>

\* What the commit makes visible, with a session of token t.
Registered(r, t) ==
    LET e == req[r].user IN
    /\ req[r].pc = "inserted"
    /\ Unused(t)
    /\ users' = [users EXCEPT ![e] = [home |-> HomeCity, onboarded |-> FALSE]]
    /\ prefs' = [prefs EXCEPT ![e] = NoWishes]
    /\ NewSession(t, e)
    /\ End(r)

\* Answered 201, with the cookie.
RegisterCommit(r, t) ==
    /\ Registered(r, t)
    /\ given' = given \cup {t}
    /\ created' = [created EXCEPT ![req[r].user] = @ + 1]
    /\ UNCHANGED others

\* The commit took place, but the confirmation or the answer was lost.
RegisterUnconfirmed(r, t) ==
    /\ Registered(r, t)
    /\ UNCHANGED <<given, created, others>>

\* A statement fails or panics, or the process dies: the transaction manager, or
\* Postgres, rolls back.
RegisterAborts(r) ==
    /\ req[r].pc = "inserted"
    /\ End(r)
    /\ UNCHANGED <<users, prefs, sessions, given, created, others>>

\* Authenticate found the row and the password is right.
LoginVerify(r, e) ==
    /\ req[r] = Idle
    /\ HasRows(e)
    /\ req' = [req EXCEPT ![r] = [Idle EXCEPT !.pc = "verified", !.user = e]]
    /\ UNCHANGED <<users, prefs, sessions, given, created, others>>

\* The session is stored and answered, or the answer does not arrive.
LoginSession(r, t) ==
    /\ req[r].pc = "verified"
    /\ Unused(t)
    /\ NewSession(t, req[r].user)
    /\ given' \in {given, given \cup {t}}
    /\ End(r)
    /\ UNCHANGED <<users, prefs, created, others>>

\* The INSERT of the session fails, or the request ends before it.
LoginFails(r) ==
    /\ req[r].pc = "verified"
    /\ End(r)
    /\ UNCHANGED <<users, prefs, sessions, given, created, others>>

\* RevokeSession, and the cookie is cleared.
Logout(t) ==
    /\ sessions[t] # None
    /\ sessions' = [sessions EXCEPT ![t] = None]
    /\ given' = given \ {t}
    /\ UNCHANGED <<users, prefs, req, created, others>>

\* SESSION_LIFETIME is over, for the row and for the cookie.
Expire(t) ==
    /\ sessions[t] # None
    /\ sessions' = [sessions EXCEPT ![t] = None]
    /\ given' = given \ {t}
    /\ UNCHANGED <<users, prefs, req, created, others>>

============================================================================
