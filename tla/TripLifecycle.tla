--------------------------- MODULE TripLifecycle ---------------------------
(***************************************************************************)
(* Trips from the selection of a recommended option to the arrival, with   *)
(* everything an arrival writes: the visit, the reward ledger, the promo   *)
(* code, the season score and the outbox event.                            *)
(*                                                                         *)
(* A session stands for one HTTP request served by a goroutine.  Requests  *)
(* of several sessions interleave between their database statements; the   *)
(* arrival runs in one SERIALIZABLE transaction, whose effects appear at   *)
(* its commit and which holds the row lock of its trip from the SELECT ... *)
(* FOR UPDATE on.  A trip is named by its option, (user, option) being     *)
(* unique in the table, and an option belongs to the user who asked for    *)
(* it.                                                                     *)
(***************************************************************************)
EXTENDS Naturals, Sequences, Functions

CONSTANTS
    Users, Cities, Sessions,
    Options,        \* recommendation options, each of one request
    Keys,           \* Idempotency-Key header values clients send
    SyncKey,        \* the literal 'demo-sync:<user>' of a user's demo sync
    Owner,          \* [Options -> Users]
    City,           \* [Options -> Cities]: option.city_id
    Reward,         \* [Options -> Nat]: option.reward
    SyncAmount,     \* 1280
    SyncCities,     \* [Users -> SUBSET Cities]: home city and demo history
    PromoCities,    \* territories with promo_percent > 0
    Code,           \* [Users -> [Cities -> ...]]: six hex digits of an md5
    SeasonActive,   \* a season has status 'active'
    MaxAttempts     \* arrivalAttempts

ASSUME DataAssumption ==
    /\ Owner \in [Options -> Users]
    /\ City \in [Options -> Cities]
    /\ Reward \in [Options -> Nat]
    /\ SyncAmount \in Nat
    /\ SyncCities \in [Users -> SUBSET Cities]
    /\ PromoCities \subseteq Cities
    /\ SeasonActive \in BOOLEAN

ASSUME AttemptsAssumption == MaxAttempts \in Nat \ {0}

VARIABLES
    trips,      \* status of the trip of each option, "none" before selection
    expired,    \* options whose expires_at has passed
    visits,     \* user_visits with source demo_sync
    ledger,     \* reward_ledger, its rows in the order of their creation
    promos,     \* user_promo_codes
    season,     \* rows of season_score_ledger about each trip
    outbox,     \* TripArrived rows of outbox_events about each trip
    pc,         \* where each session's request is
    job,        \* what that request is about
    told,       \* trip -> ledger rows reported to clients (history)
    fresh       \* trip -> answers given with replayed = false (history)

tables == <<trips, expired, visits, ledger, promos, season, outbox>>
history == <<told, fresh>>
vars == <<tables, pc, job, history>>

Statuses == {"none", "planned", "checkout_created", "departed", "arrived",
             "cancelled"}
CheckoutAllowed == {"planned", "checkout_created"}
Arrivable == {"planned", "checkout_created", "departed"}

KeySpace == Keys \cup {SyncKey}
Entries == [user: Users, amount: Nat, type: {"trip"}, ref: Options,
            key: KeySpace]
           \cup
           [user: Users, amount: Nat, type: {"user"}, ref: Users,
            key: KeySpace]
Promos == [user: Users, city: Cities]

\* reward is the number of the ledger row to report, 0 before there is one.
Jobs == [trip: Options, key: KeySpace, attempt: 1..MaxAttempts, reward: Nat,
         replayed: BOOLEAN]
NoJob == [trip |-> "none"]
Steps == {"idle", "checkout", "begin", "locked", "answer"}

TypeOK ==
    /\ trips \in [Options -> Statuses]
    /\ expired \subseteq Options
    /\ visits \in [Users -> SUBSET Cities]
    /\ ledger \in Seq(Entries)
    /\ promos \subseteq Promos
    /\ season \in [Options -> Nat]
    /\ outbox \in [Options -> Nat]
    /\ pc \in [Sessions -> Steps]
    /\ job \in [Sessions -> Jobs \cup {NoJob}]
    /\ \A s \in Sessions : pc[s] # "idle" => job[s] \in Jobs
    /\ told \in [Options -> SUBSET Nat]
    /\ fresh \in [Options -> Nat]

Init ==
    /\ trips = [o \in Options |-> "none"]
    /\ expired = {}
    /\ visits = [u \in Users |-> {}]
    /\ ledger = <<>>
    /\ promos = {}
    /\ season = [o \in Options |-> 0]
    /\ outbox = [o \in Options |-> 0]
    /\ pc = [s \in Sessions |-> "idle"]
    /\ job = [s \in Sessions |-> NoJob]
    /\ told = [o \in Options |-> {}]
    /\ fresh = [o \in Options |-> 0]

----------------------------------------------------------------------------
(* The tables' unique indexes, and the statements that rely on them.       *)

\* reward_ledger: unique (user, idempotency key) and (user, reference).
Insertable(e) ==
    \A i \in DOMAIN ledger : ledger[i].user = e.user =>
        /\ ledger[i].key # e.key
        /\ <<ledger[i].type, ledger[i].ref>> # <<e.type, e.ref>>

\* Mutant of Deposit: a plain INSERT, no unique index to stop it.
DepositAlways(e) == Append(ledger, e)

\* INSERT INTO reward_ledger ... ON CONFLICT DO NOTHING.
Deposit(e) == IF Insertable(e) THEN Append(ledger, e) ELSE ledger

\* The ledger rows about a trip, and the one rewardByTrip selects.
TripRows(rows, o) ==
    {i \in DOMAIN rows : rows[i].type = "trip" /\ rows[i].ref = o}
RewardByTrip(rows, o, i) ==
    i \in TripRows(rows, o) /\ \A j \in TripRows(rows, o) : i <= j

\* INSERT ... ON CONFLICT DO NOTHING on a table unique per trip.
InsertOnce(table, o) ==
    IF table[o] = 0 THEN [table EXCEPT ![o] = 1] ELSE table

\* Mutant of Clash: the code column is not unique.
ClashByCity(p, q) == p = q

\* user_promo_codes: unique code, unique 'visit:<user>:<city>'.
Clash(p, q) == p = q \/ Code[p.user][p.city] = Code[q.user][q.city]

\* INSERT INTO user_promo_codes ... SELECT ... ON CONFLICT DO NOTHING: of the
\* rows selected, as many as the indexes admit.
IssuePromos(u, cities) ==
    LET rows == {[user |-> u, city |-> c] : c \in cities \cap PromoCities}
    IN  \E new \in SUBSET (rows \ promos) :
            /\ \A p \in new, q \in promos \cup new : Clash(p, q) => p = q
            /\ \A p \in rows : \E q \in promos \cup new : Clash(p, q)
            /\ promos' = promos \cup new

\* Mutant of RowLocked: waiters in line count as holders, their own included.
RowQueued(o) ==
    \E s \in Sessions : pc[s] \in {"begin", "locked"} /\ job[s].trip = o

\* Somebody else's arrival transaction holds the row lock of the trip.
RowLocked(o) == \E s \in Sessions : pc[s] = "locked" /\ job[s].trip = o

\* A request about trip o, before its first attempt.
Request(o, k) == [trip |-> o, key |-> k, attempt |-> 1, reward |-> 0,
                  replayed |-> FALSE]

\* The request of session s ends.
Finish(s) ==
    /\ pc' = [pc EXCEPT ![s] = "idle"]
    /\ job' = [job EXCEPT ![s] = NoJob]

----------------------------------------------------------------------------
(* Selecting an option.                                                    *)

\* One INSERT ... SELECT; a second selection violates the unique index of
\* (user, option), reads the trip there is and changes nothing.
SelectOption(o) ==
    /\ o \notin expired
    /\ trips[o] = "none"
    /\ trips' = [trips EXCEPT ![o] = "planned"]
    /\ UNCHANGED <<expired, visits, ledger, promos, season, outbox, pc, job,
                   history>>

\* Time passes the option's expires_at.
Expire(o) ==
    /\ o \notin expired
    /\ expired' = expired \cup {o}
    /\ UNCHANGED <<trips, visits, ledger, promos, season, outbox, pc, job,
                   history>>

----------------------------------------------------------------------------
(* Checkout: read, call Tutu MCP, then a guarded UPDATE.                   *)

CheckoutStart(s, o) ==
    /\ pc[s] = "idle"
    /\ trips[o] \in CheckoutAllowed
    /\ o \notin expired
    /\ pc' = [pc EXCEPT ![s] = "checkout"]
    /\ job' = [job EXCEPT ![s] = Request(o, SyncKey)]  \* the key is not read
    /\ UNCHANGED <<tables, history>>

\* Mutant of SaveCheckout: an UPDATE by id alone.
SaveCheckoutUnguarded(s) ==
    /\ pc[s] = "checkout"
    /\ ~RowLocked(job[s].trip)
    /\ trips' = [trips EXCEPT ![job[s].trip] = "checkout_created"]
    /\ Finish(s)
    /\ UNCHANGED <<expired, visits, ledger, promos, season, outbox, history>>

\* The link came back and its host is allowed.  The UPDATE waits for the row
\* lock and then tests the status again: ErrInvalidState if it moved on.
SaveCheckout(s) ==
    LET o == job[s].trip IN
    /\ pc[s] = "checkout"
    /\ ~RowLocked(o)
    /\ trips' = IF trips[o] \in CheckoutAllowed
                THEN [trips EXCEPT ![o] = "checkout_created"]
                ELSE trips
    /\ Finish(s)
    /\ UNCHANGED <<expired, visits, ledger, promos, season, outbox, history>>

----------------------------------------------------------------------------
(* Arrival.                                                                *)

ArriveCall(s, o, k) ==
    /\ pc[s] = "idle"
    /\ pc' = [pc EXCEPT ![s] = "begin"]
    /\ job' = [job EXCEPT ![s] = Request(o, k)]
    /\ UNCHANGED <<tables, history>>

\* Mutant of ArriveLock: the status read is not tested.
ArriveLockUnchecked(s) ==
    /\ pc[s] = "begin"
    /\ ~RowLocked(job[s].trip)
    /\ trips[job[s].trip] # "none"
    /\ pc' = [pc EXCEPT ![s] = "locked"]
    /\ UNCHANGED <<tables, job, history>>

\* SELECT ... FOR UPDATE finds the trip in a status it can arrive from.
ArriveLock(s) ==
    LET o == job[s].trip IN
    /\ pc[s] = "begin"
    /\ ~RowLocked(o)
    /\ trips[o] \in Arrivable
    /\ pc' = [pc EXCEPT ![s] = "locked"]
    /\ UNCHANGED <<tables, job, history>>

\* The trip has arrived already: report the reward it was paid.
ArriveReplay(s) ==
    LET o == job[s].trip IN
    /\ pc[s] = "begin"
    /\ trips[o] = "arrived"
    /\ \E i \in DOMAIN ledger :
        /\ RewardByTrip(ledger, o, i)
        /\ job' = [job EXCEPT ![s].reward = i, ![s].replayed = TRUE]
    /\ pc' = [pc EXCEPT ![s] = "answer"]
    /\ UNCHANGED <<tables, history>>

\* ErrNotFound, ErrInvalidState, or an arrived trip without a reward.
ArriveReject(s) ==
    LET o == job[s].trip IN
    /\ pc[s] = "begin"
    /\ ~RowLocked(o)
    /\ trips[o] \notin Arrivable
    /\ trips[o] = "arrived" => TripRows(ledger, o) = {}
    /\ Finish(s)
    /\ UNCHANGED <<tables, history>>

RewardEntry(s) ==
    LET o == job[s].trip
    IN  [user |-> Owner[o], amount |-> Reward[o], type |-> "trip",
         ref |-> o, key |-> job[s].key]

\* The statements of the transaction and its commit.
ArriveCommit(s) ==
    LET o == job[s].trip
        e == RewardEntry(s)
        u == Owner[o]
    IN
    /\ pc[s] = "locked"
    /\ trips' = [trips EXCEPT ![o] = "arrived"]
    /\ visits' = [visits EXCEPT ![u] = @ \cup {City[o]}]
    /\ ledger' = Deposit(e)
    /\ \E i \in DOMAIN ledger' :
        /\ RewardByTrip(ledger', o, i)
        /\ job' = [job EXCEPT ![s].reward = i]
    /\ IssuePromos(u, {City[o]})
    /\ season' = IF SeasonActive THEN InsertOnce(season, o) ELSE season
    /\ outbox' = InsertOnce(outbox, o)
    /\ pc' = [pc EXCEPT ![s] = "answer"]
    /\ UNCHANGED <<expired, history>>

\* Mutant of ArriveKeyTaken: what was done before the insert is committed.
ArriveKeyTakenCommits(s) ==
    /\ pc[s] = "locked"
    /\ TripRows(Deposit(RewardEntry(s)), job[s].trip) = {}
    /\ trips' = [trips EXCEPT ![job[s].trip] = "arrived"]
    /\ Finish(s)
    /\ UNCHANGED <<expired, visits, ledger, promos, season, outbox, history>>

\* The key paid for something else: the insert does nothing, rewardByTrip
\* finds no row, and the whole transaction rolls back.
ArriveKeyTaken(s) ==
    /\ pc[s] = "locked"
    /\ TripRows(Deposit(RewardEntry(s)), job[s].trip) = {}
    /\ Finish(s)
    /\ UNCHANGED <<tables, history>>

\* Mutant of ArriveRetry: one attempt too many.
ArriveRetryOnceMore(s) ==
    /\ pc[s] \in {"begin", "locked"}
    /\ job[s].attempt <= MaxAttempts
    /\ pc' = [pc EXCEPT ![s] = "begin"]
    /\ job' = [job EXCEPT ![s].attempt = @ + 1]
    /\ UNCHANGED <<tables, history>>

\* Serialization failure or deadlock: roll back and try again.  The database
\* may abort a serializable transaction whatever the others do.
ArriveRetry(s) ==
    /\ pc[s] \in {"begin", "locked"}
    /\ job[s].attempt < MaxAttempts
    /\ pc' = [pc EXCEPT ![s] = "begin"]
    /\ job' = [job EXCEPT ![s].attempt = @ + 1]
    /\ UNCHANGED <<tables, history>>

\* The response reaches the client.
Answer(s) ==
    LET o == job[s].trip IN
    /\ pc[s] = "answer"
    /\ told' = [told EXCEPT ![o] = @ \cup {job[s].reward}]
    /\ fresh' = IF job[s].replayed THEN fresh
                ELSE [fresh EXCEPT ![o] = @ + 1]
    /\ Finish(s)
    /\ UNCHANGED tables

\* The request ends without its answer: the MCP call or a statement fails, the
\* attempts are used up, the client is gone, the Get after the commit fails.
Fail(s) ==
    /\ pc[s] # "idle"
    /\ Finish(s)
    /\ UNCHANGED <<tables, history>>

\* The process dies: open transactions roll back, committed ones stay.
Crash ==
    /\ \E s \in Sessions : pc[s] # "idle"
    /\ pc' = [s \in Sessions |-> "idle"]
    /\ job' = [s \in Sessions |-> NoJob]
    /\ UNCHANGED <<tables, history>>

----------------------------------------------------------------------------
(* The demo history sync of the world service.                             *)

SyncEntry(u) == [user |-> u, amount |-> SyncAmount, type |-> "user",
                 ref |-> u, key |-> SyncKey]

\* One transaction, and every insert of it does nothing on conflict.
DemoSync(u) ==
    /\ visits' = [visits EXCEPT ![u] = @ \cup SyncCities[u]]
    /\ ledger' = Deposit(SyncEntry(u))
    /\ IssuePromos(u, visits'[u])
    /\ UNCHANGED <<trips, expired, season, outbox, pc, job, history>>

----------------------------------------------------------------------------

\* What the code and the database do of themselves once a request is there.
Progress(s) ==
    \/ SaveCheckout(s)
    \/ ArriveLock(s)
    \/ ArriveReplay(s)
    \/ ArriveReject(s)
    \/ ArriveCommit(s)
    \/ ArriveKeyTaken(s)
    \/ Answer(s)

Next ==
    \/ \E o \in Options : SelectOption(o) \/ Expire(o)
    \/ \E s \in Sessions :
        \/ Progress(s)
        \/ ArriveRetry(s)
        \/ Fail(s)
        \/ \E o \in Options :
            \/ CheckoutStart(s, o)
            \/ \E k \in Keys : ArriveCall(s, o, k)
    \/ Crash
    \/ \E u \in Users : DemoSync(u)

\* Goroutines are scheduled and statements return; a row lock is granted in
\* the order of the waiters, hence strong fairness.
Fairness == \A s \in Sessions : SF_vars(Progress(s))

Spec == Init /\ [][Next]_vars /\ Fairness

----------------------------------------------------------------------------
(* Properties.                                                             *)

\* A trip is paid for exactly when it has arrived: then the ledger holds one
\* entry about it, its owner's and of the option's reward, however often and
\* with whichever keys the arrival was requested, retried or cut off.
RewardIffArrived ==
    \A o \in Options :
        /\ trips[o] # "arrived" => TripRows(ledger, o) = {}
        /\ trips[o] = "arrived" =>
            \E i \in DOMAIN ledger : /\ TripRows(ledger, o) = {i}
                                     /\ ledger[i].user = Owner[o]
                                     /\ ledger[i].amount = Reward[o]

\* SELECT COALESCE(SUM(amount), 0) FROM reward_ledger WHERE user_id = ...
Mine(u) == {i \in DOMAIN ledger : ledger[i].user = u}
Balance(u) ==
    SumFunctionOnSet([i \in DOMAIN ledger |-> ledger[i].amount], Mine(u))

\* The trips of u that have arrived, and whether u was paid for the demo sync.
ArrivedOf(u) == {o \in Options : Owner[o] = u /\ trips[o] = "arrived"}
Synced(u) == \E i \in Mine(u) : ledger[i].type = "user"

\* The arrival is all or nothing across its tables: an arrived trip has its
\* visit, one season score (while a season is active) and one outbox event,
\* and no other trip has a score or an event.
ArrivalComplete ==
    \A o \in Options :
        IF trips[o] = "arrived"
        THEN /\ City[o] \in visits[Owner[o]]
             /\ outbox[o] = 1
             /\ season[o] = IF SeasonActive THEN 1 ELSE 0
        ELSE outbox[o] = 0 /\ season[o] = 0

\* Every ledger row reported to a client about a trip is the trip's only one:
\* no client is told of a payment that was rolled back or that differs from
\* the one another request was told.  At most one answer says the payment is
\* new.
AnswersAgree ==
    \A o \in Options :
        /\ \A i \in told[o] : TripRows(ledger, o) = {i}
        /\ fresh[o] <= 1

\* A city with a promo percentage that the user has visited, by trip or by
\* sync, has its code in the table once; a code is missing only where another
\* user's city hashed to the same six digits.
PromoPerVisitedCity ==
    /\ \A u \in Users : \A c \in visits[u] \cap PromoCities :
        \E p \in promos : Code[p.user][p.city] = Code[u][c]
    /\ \A p, q \in promos : Code[p.user][p.city] = Code[q.user][q.city] => p = q
    /\ \A p \in promos : p.city \in visits[p.user]

\* While an arrival transaction holds the row of its trip nobody else changes
\* the trip, and only one transaction holds it.
LockedTripStable ==
    /\ \A s, t \in Sessions :
        pc[s] = "locked" /\ pc[t] = "locked" /\ job[s].trip = job[t].trip
            => s = t
    /\ \A s \in Sessions :
        pc[s] = "locked" => trips[job[s].trip] \in Arrivable

\* What the properties above rest on between two steps of a request: a request
\* about to answer names the one row of an arrived trip, one such request at
\* most found the payment new and nobody was told so before, and nothing was
\* said about a trip that has not arrived.
AnswerPending ==
    /\ \A s \in Sessions : pc[s] = "answer" =>
        /\ trips[job[s].trip] = "arrived"
        /\ TripRows(ledger, job[s].trip) = {job[s].reward}
        /\ ~job[s].replayed => fresh[job[s].trip] = 0
    /\ \A s, t \in Sessions :
        /\ pc[s] = "answer" /\ ~job[s].replayed
        /\ pc[t] = "answer" /\ ~job[t].replayed
        /\ job[s].trip = job[t].trip
        => s = t
    /\ \A o \in Options : trips[o] # "arrived" => told[o] = {} /\ fresh[o] = 0

\* The inductive invariant of the proofs.
PaymentInv ==
    /\ TypeOK
    /\ LockedTripStable
    /\ RewardIffArrived
    /\ ArrivalComplete
    /\ AnswersAgree
    /\ AnswerPending

\* What a user's balance amounts to, services/rewards summing the ledger: the
\* rewards of the arrived trips, each once, and the demo sync's amount once.
BalanceExplained ==
    \A u \in Users :
        Balance(u) = SumFunctionOnSet(Reward, ArrivedOf(u))
                       + (IF Synced(u) THEN SyncAmount ELSE 0)

\* Every request ends: none waits for a row lock for ever, and none stays in
\* a state in which the handler has no branch to take.
RequestsEnd ==
    \A s \in Sessions : pc[s] # "idle" ~> pc[s] = "idle"

Payment(e) == [user |-> e.user, amount |-> e.amount, type |-> e.type,
               ref |-> e.ref]

Paid == INSTANCE PaidTrips WITH
            Trips <- Options,
            open <- {o \in Options : trips[o] # "none"},
            arrived <- {o \in Options : trips[o] = "arrived"},
            paid <- {Payment(ledger[i]) : i \in DOMAIN ledger},
            told <- {o \in Options : told[o] # {}}

\* The component implements PaidTrips: requests, locks, retries, key reuse and
\* crashes are stutters of it, and a commit is the one step that pays.
ImplementsPaidTrips == Paid!Spec

============================================================================
