---------------------------- MODULE RateLimiter ----------------------------
(***************************************************************************)
(* The limiter over Redis and the two handlers that ask it.  A request for *)
(* a recommendation is counted for the hour and then for the day; a login  *)
(* is counted for its email and then for its address, and one that         *)
(* succeeds resets the counter of the email.  A counter is a key that      *)
(* names its bucket of time and expires one window after it was last       *)
(* incremented.  Calls of several replicas interleave between drawing the  *)
(* key from their clock and Redis executing the commands, so that a bucket *)
(* may be over, and its key expired, when a call is counted.               *)
(***************************************************************************)
EXTENDS Naturals, FiniteSetsExt

CONSTANTS
    Callers,    \* identities: a user, or an email with its address
    Calls,      \* requests at the same time
    Handlers,   \* "quota", "login"
    Limit,      \* per scope: quotas.PerHour, PerDay, attemptsLimit
    Width,      \* per scope: the windows, in ticks
    MaxTime,    \* bound on the clock, per handler
    MaxResets   \* bound on the resets

Scopes == {"hour", "day", "email", "address"}

ASSUME CallsAssumption == IsFiniteSet(Calls)

ASSUME WindowsAssumption ==
    /\ Handlers \subseteq {"quota", "login"}
    /\ Limit \in [Scopes -> Nat]
    /\ Width \in [Scopes -> Nat \ {0}]
    /\ Width["email"] = Width["address"]    \* attemptWindow
    /\ MaxTime \in [Handlers -> Nat]
    /\ MaxResets \in Nat

VARIABLES
    handler,    \* which handler is asked; the two have no key in common
    now,
    counter,    \* per user, scope and bucket; beyond the limit all are alike
    touched,    \* when the counter was last incremented, and its expiry set
    call,       \* the key a call has drawn, for which scope
    passed,     \* calls Redis let pass, by the time their key was drawn (history)
    resets      \* resets of an email's counter, by its bucket (history)

limiterVars == <<handler, now, counter, touched, call, passed, resets>>

Times == 0..Max({MaxTime[k] : k \in Handlers})
CallSteps == Scopes \cup {"verify", "reset"}
NoCall == [user |-> "none"]
Keys == [user: Callers, scope: CallSteps, at: Times]

\* time.Now().UnixNano() / int64(window)
Bucket(scope, t) == t \div Width[scope]

LimiterTypeOK ==
    /\ handler \in Handlers
    /\ now \in Times
    /\ counter \in [Callers \X Scopes \X Times -> Nat]
    /\ touched \in [Callers \X Scopes \X Times -> Times]
    /\ call \in [Calls -> Keys \cup {NoCall}]
    /\ passed \in [Callers \X Scopes \X Times -> Nat]
    /\ resets \in [Callers \X Times -> 0..MaxResets]
    /\ \A u \in Callers, sc \in Scopes, t \in Times :
        counter[<<u, sc, t>>] <= Limit[sc] + 1

LimiterInit ==
    /\ handler \in Handlers
    /\ now = 0
    /\ counter = [k \in Callers \X Scopes \X Times |-> 0]
    /\ touched = [k \in Callers \X Scopes \X Times |-> 0]
    /\ call = [c \in Calls |-> NoCall]
    /\ passed = [k \in Callers \X Scopes \X Times |-> 0]
    /\ resets = [k \in Callers \X Times |-> 0]

----------------------------------------------------------------------------
(* Allow.                                                                  *)

\* The call waits for the answer of Allow.
Asking(c) == call[c] # NoCall /\ call[c].scope \in Scopes

\* The key of a call, and the values INCR may find there: none once the key expires,
\* which it does within the tick that is a window after it was touched.
Counter(c) ==
    <<call[c].user, call[c].scope, Bucket(call[c].scope, call[c].at)>>
Expiry(c) == touched[Counter(c)] + Width[call[c].scope]
FoundCount(c) ==
    (IF now <= Expiry(c) THEN {counter[Counter(c)]} ELSE {})
    \cup (IF now >= Expiry(c) THEN {0} ELSE {})

\* INCR and EXPIRE, in one transaction.
Count(c, n) ==
    /\ counter' = [counter EXCEPT ![Counter(c)] =
           IF n <= Limit[call[c].scope] THEN n + 1 ELSE n]
    /\ touched' = [touched EXCEPT ![Counter(c)] = now]

\* ensureQuota goes on to the day and ends; Login goes on to the address and
\* then verifies the password.
Following == [hour |-> "day", day |-> "end", email |-> "address", address |-> "verify"]
Advanced(c) ==
    IF Following[call[c].scope] = "end"
    THEN [call EXCEPT ![c] = NoCall]
    ELSE [call EXCEPT ![c].scope = Following[@], ![c].at = now]

Ask(c, u) ==
    /\ call[c] = NoCall
    /\ call' = [call EXCEPT ![c] = [user |-> u, at |-> now,
                    scope |-> IF handler = "quota" THEN "hour" ELSE "email"]]
    /\ UNCHANGED <<handler, now, counter, touched, passed, resets>>

Pass(c) ==
    LET k == <<call[c].user, call[c].scope, call[c].at>> IN
    /\ Asking(c)
    /\ \E n \in FoundCount(c) : n < Limit[call[c].scope] /\ Count(c, n)
    /\ passed' = [passed EXCEPT ![k] = @ + 1]
    /\ call' = Advanced(c)
    /\ UNCHANGED <<handler, now, resets>>

\* RATE_LIMITED; what the first scope counted stays counted when the second refuses.
\* Without a limit nothing is asked.
Refuse(c) ==
    /\ Asking(c)
    /\ \/ Limit[call[c].scope] = 0 /\ UNCHANGED <<counter, touched>>
       \/ Limit[call[c].scope] > 0 /\
          \E n \in FoundCount(c) : n >= Limit[call[c].scope] /\ Count(c, n)
    /\ call' = [call EXCEPT ![c] = NoCall]
    /\ UNCHANGED <<handler, now, passed, resets>>

\* Redis does not answer, having counted or not: the call passes, with a log.
FailOpen(c) ==
    /\ Asking(c)
    /\ Limit[call[c].scope] > 0
    /\ \/ \E n \in FoundCount(c) : Count(c, n)
       \/ UNCHANGED <<counter, touched>>
    /\ call' = Advanced(c)
    /\ UNCHANGED <<handler, now, passed, resets>>

----------------------------------------------------------------------------
(* The rest of a login.                                                    *)

\* How often the counter of u was reset, and the calls that are about to reset one.
ResetsOf(u) == SumFunctionOnSet([t \in Times |-> resets[<<u, t>>]], Times)
Resetting(c) == call[c] # NoCall /\ call[c].scope = "reset"

\* The password is right: the key of the reset is drawn from the clock again.
Verified(c) ==
    /\ call[c] # NoCall /\ call[c].scope = "verify"
    /\ ResetsOf(call[c].user) + Cardinality({d \in Calls : Resetting(d)}) < MaxResets
    /\ call' = [call EXCEPT ![c].scope = "reset", ![c].at = now]
    /\ UNCHANGED <<handler, now, counter, touched, passed, resets>>

\* It is wrong, or the database fails; or the DEL fails, which is only logged.
LoginEnds(c) ==
    /\ call[c] # NoCall /\ call[c].scope \in {"verify", "reset"}
    /\ call' = [call EXCEPT ![c] = NoCall]
    /\ UNCHANGED <<handler, now, counter, touched, passed, resets>>

\* Mutant of Reset: the counter of the address as well.
ResetBoth(c) ==
    LET b == Bucket("email", call[c].at) IN
    /\ Resetting(c)
    /\ counter' = [counter EXCEPT ![<<call[c].user, "email", b>>] = 0,
                                  ![<<call[c].user, "address", b>>] = 0]
    /\ resets' = [resets EXCEPT ![<<call[c].user, b>>] = @ + 1]
    /\ call' = [call EXCEPT ![c] = NoCall]
    /\ UNCHANGED <<handler, now, touched, passed>>

\* Reset: DEL of the email's key for the bucket of its own clock, whatever other
\* attempts have counted in it.
Reset(c) ==
    LET b == Bucket("email", call[c].at) IN
    /\ Resetting(c)
    /\ counter' = [counter EXCEPT ![<<call[c].user, "email", b>>] = 0]
    /\ resets' = [resets EXCEPT ![<<call[c].user, b>>] = @ + 1]
    /\ call' = [call EXCEPT ![c] = NoCall]
    /\ UNCHANGED <<handler, now, touched, passed>>

\* A call to Redis is over before the tick after the one that drew its key has passed:
\* its client's timeouts are seconds, the windows at least an hour.
Tick ==
    /\ now < MaxTime[handler]
    /\ \A c \in Calls : call[c] # NoCall => call[c].at = now
    /\ now' = now + 1
    /\ UNCHANGED <<handler, counter, touched, call, passed, resets>>

LimiterNext ==
    \/ \E c \in Calls :
        \/ \E u \in Callers : Ask(c, u)
        \/ Pass(c)
        \/ Refuse(c)
        \/ FailOpen(c)
        \/ Verified(c)
        \/ LoginEnds(c)
        \/ Reset(c)
    \/ Tick

LimiterSpec == LimiterInit /\ [][LimiterNext]_limiterVars

----------------------------------------------------------------------------
(* Properties.                                                             *)

\* How many calls of u Redis let pass with a key drawn at one of these times.
PassedIn(u, sc, times) ==
    SumFunctionOnSet([t \in Times |-> passed[<<u, sc, t>>]], times)

\* How many limits a bucket can let pass: a login that succeeds gives its email
\* another one, and no other counter.
Limits(u, sc, b) == IF sc = "email" THEN 1 + resets[<<u, b>>] ELSE 1

\* However the calls of all replicas interleave, Redis lets no more of them pass per
\* bucket, as long as it lasts, than the limit, and than one more limit for each login
\* of that email and bucket that succeeded.  When it is over its key may expire before
\* the last call that has drawn it is counted: such calls have one limit more, not
\* one each.
LimitPerBucket ==
    \A u \in Callers, sc \in Scopes, b \in Times :
        PassedIn(u, sc, {t \in Times : Bucket(sc, t) = b})
            <= Limit[sc] * (Limits(u, sc, b) + (IF Bucket(sc, now) > b THEN 1 ELSE 0))

\* The times of the window of a scope that ends at t.
WindowTo(sc, t) == {m \in Times : m <= t /\ t < m + Width[sc]}

\* README.md:547: the domain quotas are a sliding window over Redis.  No window
\* of the scope's width, wherever it begins, sees more calls than the limit.
SlidingWindow ==
    \A u \in Callers, sc \in Scopes, t \in Times :
        PassedIn(u, sc, WindowTo(sc, t)) <= Limit[sc]

============================================================================
