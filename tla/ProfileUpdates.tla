--------------------------- MODULE ProfileUpdates ---------------------------
(***************************************************************************)
(* Preferences, home city, visibility and onboarding.  Each handler        *)
(* changes one thing in the user the middleware has read and saves the     *)
(* whole user, users first and user_preferences next, without a            *)
(* transaction.                                                            *)
(*                                                                         *)
(* The personal recommendation that is started afterwards is a caller of   *)
(* RecommendationWorkflow; its failure is only logged.                     *)
(***************************************************************************)
EXTENDS AccountRows

unread == <<sessions, members, given, created>>

\* Mutant of Changes: the home city is not resolved.
ChangesUnchecked(p) ==
    {p} \cup {[p EXCEPT !.wishes = w] : w \in Wishes \ {NoWishes}}
        \cup {[p EXCEPT !.home = c] : c \in (Cities \cup {None}) \ {p.home}}
        \cup {[p EXCEPT !.home = c, !.onboarded = TRUE] : c \in Cities}

\* What SetTravelVisibility, SavePreferences, SetHomeCity and CompleteOnboarding make
\* of a profile.  The visibility is not modelled, but saving it writes the rest as
\* well; preferences name a means of transport, which new ones lack, and an
\* onboarding is refused without.
Changes(p) ==
    {p} \cup {[p EXCEPT !.wishes = w] : w \in Wishes \ {NoWishes}}
        \cup {[p EXCEPT !.home = c] : c \in Cities \ {p.home}}
        \cup {[p EXCEPT !.home = c, !.onboarded = TRUE] :
                c \in {d \in Cities : p.wishes # NoWishes}}

\* Authenticate reads the user and the handler decides what to save.  A home city
\* that is the present one is answered without a write, and so is input that is
\* not valid.
BeginUpdate(r, t, e) ==
    /\ req[r] = Idle
    /\ Resolves(t, e)
    /\ \E p \in Changes(Profile(e)) : req' = [q \in Requests |->
            IF q = r THEN [Idle EXCEPT !.pc = "authed", !.user = e, !.want = p,
                                       !.alone = Updating(e) = {}]
            ELSE IF q \in Updating(e) THEN [req[q] EXCEPT !.alone = FALSE]
            ELSE req[q]]
    /\ UNCHANGED <<users, prefs, shown, unread>>

\* Mutant of SaveUserRow: a completed onboarding is kept by the UPDATE, the home
\* city is only set with it.
SaveUserRowPartly(r) ==
    LET e == req[r].user IN
    /\ req[r].pc = "authed"
    /\ users' = [users EXCEPT ![e].onboarded = @ \/ req[r].want.onboarded,
                              ![e].home = IF req[r].want.onboarded
                                          THEN req[r].want.home ELSE @]
    /\ req' = [req EXCEPT ![r].pc = "half"]
    /\ UNCHANGED <<prefs, shown, unread>>

\* UPDATE users: home_city_id and onboarding_completed_at, which becomes NULL when
\* the snapshot was not onboarded.
SaveUserRow(r) ==
    LET e == req[r].user IN
    /\ req[r].pc = "authed"
    /\ users' = [users EXCEPT ![e] = [home |-> req[r].want.home,
                                      onboarded |-> req[r].want.onboarded]]
    /\ req' = [q \in Requests |->
            IF q = r THEN [req[q] EXCEPT !.pc = "half"]
            ELSE IF req[q].user = e /\ req[r].want.home # users[e].home
                 THEN [req[q] EXCEPT !.free = FALSE]
            ELSE req[q]]
    /\ UNCHANGED <<prefs, shown, unread>>

\* The upsert of user_preferences, and the answer with the user as it was meant.
SavePrefsRow(r) ==
    LET e == req[r].user IN
    /\ req[r].pc = "half"
    /\ prefs' = [prefs EXCEPT ![e] = req[r].want.wishes]
    /\ shown' = [shown EXCEPT ![e] = IF req[r].alone THEN req[r].want ELSE None]
    /\ End(r)
    /\ UNCHANGED <<users, unread>>

\* A statement fails, the client's connection or the process ends: what was
\* written stays.
UpdateFails(r) ==
    /\ req[r].pc \in {"authed", "half"}
    /\ shown' = [shown EXCEPT ![req[r].user] = None]
    /\ End(r)
    /\ UNCHANGED <<users, prefs, unread>>

============================================================================
