# Formal model of the travel world backend

TLA+ modules, TLC runs and TLAPS proofs about the Go backend in `src/backend`:
a service in which a user asks for travel recommendations, selects an option,
checks out at Tutu through its MCP server, arrives, and is paid in points,
promo codes and season score. Paths below are relative to `src/backend`;
`README.md` with a line is that of the repository.

Run a configuration with `tlc -config X.cfg M` and the proofs of a module with
`tlapm M.tla`, for each `*Proofs.tla`; `PROJECT.json` lists which module goes with
which configuration, and for every definition the lines it models.

| Modules | What they model | Composed in |
|---|---|---|
| `PaidTrips`, `TripLifecycle`, `TripLifecycleProofs` | trips, checkout, arrival, rewards, demo sync | `MCTripLifecycle` |
| `EventDiscovery`, `EventDiscoveryProofs` | claims, slots and outcomes of the event search | `MCEventDiscovery`, `MCBackground` |
| `EventCatalog`, `StorageProofs` | transactions over the events table | `MCComponents`, `MCBackground` |
| `EventAnswers`, `ComponentsProofs` | one search of the AI client and what is read from its answer | `MCComponents` |
| `RecommendationWorkflow`, `RecommendationWorkflowProofs` | requests, staged goroutines, event streams | by itself |
| `OfferSelection`, `ComponentsProofs` | plan, transport search, scoring and explanation | `MCComponents` |
| `StableOrder`, `DataLemmas` | filtering and stable sorting of slices; what the proofs need of them, of sums and of finite sets | `OfferSelection`, `EventAnswers` |
| `RateLimiter`, `ComponentsProofs` | counters of quotas and of login attempts | `MCRateLimiter`, `MCComponents` |
| `AccountRows`, `Authentication`, `ProfileUpdates`, `GuildMembership`, `Accounts`, `StorageProofs` | users, preferences, sessions, memberships | `MCComponents` |
| `AdminSimulation`, `StorageProofs` | the administrator's commands | `MCComponents` |
| `McpSession`, `McpSessionProofs` | the client of the Tutu MCP server | by itself |
| `Startup`, `StartupProofs` | migrations, fixtures and demo accounts of starting replicas | `MCBackground` |

## 1. Inventory of the system

The backend is one process per replica (`cmd/api`), several replicas over one
Postgres and one Redis. A request is a goroutine; there is no job queue. What
outlives a request is in Postgres (statements under READ COMMITTED unless a
transaction says SERIALIZABLE), in Redis (attempt counters), in goroutines a
handler starts and does not wait for (recommendation workflow, event
discovery), and in two in-memory objects: the slots channel of the discovery
and the session of the MCP client.

| Component | State | Operations | Hard behaviour | Correct when |
|---|---|---|---|---|
| **Trips and arrival** `services/trips`, `infra/storage/trips`, `handlers/trips`, `infra/checkout/tutumcp` | `trips`, and on arrival `user_visits`, `reward_ledger`, `user_promo_codes`, `season_score_ledger`, `outbox_events` | SelectOption, CreateCheckout, SimulateArrival | checkout reads, calls MCP, then writes; arrival is a SERIALIZABLE transaction with row lock and retries; clients repeat with other keys | an arrival is paid once, wholly or not at all, and every answer names that payment |
| **World** `services/world`, `infra/storage/world` | the same visits, ledger and codes by the demo sync | DemoSync, bootstrap (reads, starts a personal recommendation) | shares unique indexes with arrivals | a sync pays once, codes match visits |
| **Recommendation workflow** `services/recommendation`, `infra/storage/recommendations`, `handlers/recommendations` | `recommendation_requests`, `recommendation_options`, one goroutine per request | Create, CreatePersonalized, RebuildPersonalized, the six stages, Complete, Fail, Block, SSE stream | a context of 45 s over everything; ignored and logged write errors; unguarded overwrites; two-statement reads | outcome and options agree, an outcome is final, a stream ends with it |
| **Quota and limiter** `infra/ratelimit`, `ensureQuota` | Redis counters per scope, identity and bucket | Allow, Reset | concurrent calls, bucket borders, Redis unavailable | no bucket passes more than its limit |
| **Event discovery** `services/events`, `infra/storage/events`, watchers in `internal/api` | `event_discovery_runs`, `events`, slots channel per replica | ListCity, Popular, PrewarmCities, runDiscovery, Refresh | claims by several replicas, takeovers after a timeout, panics, lost writes | claims keep their distance, no slot leaks, no key is stuck |
| **Authentication** `services/auth`, `infra/storage/auth`, `handlers/auth`, `middlewares` | `users`, `sessions`, attempt counters | Register, Login, Logout, session lookup | overlapping registrations of one email, failures inside the transaction, lost answers; counters reset by a success while attempts run | an account is whole and registered once, a session that was given resolves to its user, attempts are bounded |
| **Profile** `services/profile`, `infra/storage/profile` | home city, preferences, onboarding flag | SavePreferences, SetHomeCity, CompleteOnboarding | the whole user read by the middleware is written back, in two statements without a transaction | a client that waits for its answers loses no update; overlapping ones may (nothing promises otherwise) |
| **Community** `services/community`, `infra/storage/community` | `guild_memberships` | JoinGuild, LeaveGuild, SuggestedGuild (others only read) | unique active membership, the home city changes, the answer is a second statement | a join is answered by what is stored, and there is one active guild |
| **Admin simulation** `services/adminsim`, `infra/storage/adminsim` | `admin_simulation_actions`, audit log, any demo user's rows | CreateSimulation | idempotent SERIALIZABLE action without a retry; the outbox and the visits change meanwhile; reset of visits others have paid for | one effect and one audit record per key, demo users only, results that add up |
| **MCP client and transport** `infra/tutumcp` | initialized flag, session id, protocol version | Initialize, CallTool, Close, retries | several callers meet an expired session; retries of idempotent messages | a call runs in a live session or fails; a mutating tool is not sent twice |
| **Transport provider** `infra/transport/tutumcp` | none | fan-out of searches | any order, partial results | one offer per candidate, the suitable one; what is missing is told |
| **Scoring** `services/scoring` | none | pure | rounding and bounds | order and range of scores |
| **Rewards** `services/rewards` | none (reads the ledger) | Balance, history | – | balance is the sum of the ledger |
| **DeepSeek client** `infra/clients/deepseek` | none | web search with retries, salvage and normalization, validation of plans, rankings and enrichments | answers that are cut off, broken, repetitive or foreign | what is usable comes back, nothing else does |
| **Postgres access** `infra/storage/postgres` | schema, migrations table, fixtures, demo accounts | migrate, seed, transactions | replicas starting together or cut off | migrations run once and in order; who serves has a prepared database |
| **HTTP API and start** `internal/api`, `internal/router`, `internal/middlewares`, `cmd/api` | none | routing, watchers, start and shutdown | – | – |
| **Frontend** | browser state | – | – | not part of the model |

Interactions: handlers call services, services call repositories. Profile and
world call recommendation (Rebuild/CreatePersonalized). Recommendation calls
the limiter, DeepSeek, the transport provider (and through it the MCP client)
and scoring. Trips call the MCP client for the checkout link and read options
written by recommendation. Trips, world and admin simulation share visits,
ledger and codes. Event discovery writes the events recommendation reads.

The hazards found while reading are listed with their lines in `PROJECT.json`;
the modules were chosen to reach them.

## 2. Modules

### PaidTrips, TripLifecycle, MCTripLifecycle

`PaidTrips` is the promise: a trip is opened, arrives at most once, that step
pays its owner the option's reward, the demo sync pays a user at most once, and
a client is told of a payment only after it happened. It has no requests, no
locks, no keys and no failures.

`TripLifecycle` is the code. A *session* is the goroutine of one HTTP request,
with `pc` its place between two database statements and `job` its local
variables. The tables are variables: `trips` (status by option, the unique index
of user and option naming a trip by its option), `visits`, `ledger` (rows in
order, since rewardByTrip picks the earliest), `promos`, `season`, `outbox`.

| Code | Actions |
|---|---|
| `CreateFromRecommendation` (one INSERT ... SELECT) | `SelectOption`, `Expire` |
| `CreateCheckout`: read, MCP call, guarded UPDATE | `CheckoutStart`, `SaveCheckout` |
| `Arrive`, `arriveOnce` | `ArriveCall`, `ArriveLock` (SELECT ... FOR UPDATE and the tests of the status), `ArriveReplay`, `ArriveReject`, `ArriveCommit`, `ArriveKeyTaken` (rollback), `ArriveRetry` (serialization failure or deadlock) |
| response, errors, process death | `Answer`, `Fail`, `Crash` |
| `DemoSync` of world | `DemoSync` |

The transaction shows its effects at the commit and holds the lock of the trip
from `ArriveLock` on. SERIALIZABLE lets a commit be one step: whatever other
serializable transactions do in between, the result is that of some order, or
an abort, which `ArriveRetry` takes at any time. The demo sync is a transaction
of inserts that do nothing on conflict, and likewise one step. The unique
indexes are operators (`Insertable`, `Clash`, `InsertOnce`) used by the inserts
that rely on them.

`told` and `fresh` are history variables: which ledger row was reported about a
trip and how many answers called the payment new.

What is abstracted: amounts are small numbers, ids and keys model values, the
promo code (six hex digits of a hash) is a constant function `Code` in which two
users' cities may collide. The read of the trip before SELECT ... FOR UPDATE
has no effect. The level of a visit is 1 always. `departed` and `cancelled`
stay in the type since the code tests for them, although no operation sets
them for a trip that is not a demo. Admin simulation, which can delete visits
of demo users, is not part of this module.

### EventDiscovery, MCEventDiscovery

Rows of `event_discovery_runs` and the goroutines `runDiscovery` of several
replicas. `Claim` is the atomic upsert of `ClaimDiscovery` together with the
start of the goroutine; `AcquireSlot` and `SlotBusy` the select on the slots
channel, a timer and the context; `SearchAndSave`, `SearchFails` and `Panic` the
search with the transaction that stores its events; `Complete` the update under
the run's context, `ReportFailure` the one under a context of its own
(`context.WithoutCancel` and 5 s), `ReportLost` either failing. `Crash(p)` kills
one replica. `Tick` lets time pass for rows and contexts alike.

How long an outcome holds is drawn from the clock before the UPDATE that stores it:
a run carries it from then on (`run.ttl`) and it runs down while the write waits,
that of a result as long as the run's context lives, that of a failure
`stateWriteTimeout`. So the shortest time between two claims of a key, `MinGap`, is
the least of the run timeout, the cache time without a run timeout, and the shorter
backoff without the timeout of the write (`Left`); without these allowances TLC
refutes `ClaimsSpaced`. A statement takes its `now()` when it takes effect. Left out
are the difference between the clocks of a replica and of the database, and the
moment between the upsert and the start of the run's context.

Clocks are relative (age of a claim, rest of a context) and saturate where the
code no longer tells values apart, which makes the state space finite without a
bound on time. The read of `DiscoveryState` before the claim only avoids a
useless upsert, so it is no step. Goroutines are an interchangeable pool: a run
whose context is over may still be about to write, as in the code, where a
search that ignores its context delays the report.

### RecommendationWorkflow

`rows` holds the requests in the order of their creation, `wf` the goroutine of
each. A stage is `SetStage` (an UPDATE that takes effect only in `processing`)
and then `WorkDone` or `WorkFails`; the first stage may `Block`, the last one
`Complete`s in a transaction with the options. `live` says whether the context
of 45 s is alive; once it has ended every write fails, the one of the failure
included. With `DatabaseFails` a write may also fail for other reasons, and a
commit may take place without being confirmed (`CompleteUnconfirmed`). `cut`
records how a goroutine was parted from the database, which is what the
properties make exceptions for. Callers model `createPersonalized`: read the
latest row, later insert. Streams model the SSE handler, which reads the row and
the options in two statements.

The six stages are numbered; all between the analysis and the transport search
behave alike, so runs use three or six of them.

### OfferSelection

What the stages of one request compute: `Analyze` and `Block` for the analysis of
the prompt, `Plan` for the cities the model proposes (`ValidPlan` is the validation
of its envelope), `SearchAnswers` for each answer of the provider, in any order
and at most `SearchConcurrency` at a time, `Search` for the merging, `Score` for
the formula and `Explain` for the texts (`ValidRanking` is the validation).
Each choice of the AI and of the provider is arbitrary, and the validations are
the guards. `CheapestValidOffer`, `CalculateScore` and `RankedOptions` are the
algorithms (`Kept` and `Sorted` of `StableOrder` are their loops and their
`sort.SliceStable`); the score is computed over a common denominator instead of in
floating point, the weighted value of a city apart from price and friction is a
constant `Merit`, and a provider's price is in half roubles, so that rounding
is there and a budget may lie between. What becomes of the request when a stage
fails, times out or cannot write is `RecommendationWorkflow`.

The branch of `planWorkflowSearch` for a request without modes is left out: the
normalization of the input requires one. With weights that only count friction
the code's formula divides by zero before the clamp; `WeightsAssumption` admits such
weights, and the score is 0 as in the code.

### RateLimiter, MCRateLimiter

A call draws a key from its clock (`call.at`) and Redis executes INCR and EXPIRE
later, possibly after the border of the bucket. `handler` says which one asks.
`ensureQuota` asks for the hour and then for the day; what the hour counted stays
counted when the day refuses. `Login` asks for the email and then for the
address, verifies the password (`Verified`, `LoginEnds`) and, if it was right,
deletes the counter of the email (`Reset`) under a key drawn from its clock then:
that may be another bucket than the one it was counted in, and other attempts
may have been counted there. An error of Redis lets the call pass (`FailOpen`).
`passed` counts what Redis let pass and `resets` the resets.

EXPIRE gives a key one window from each INCR (`touched`, `Expiry`). While its bucket
lasts it cannot expire; but when all calls of a bucket came at its beginning, a call
that drew the key before the border and is executed after it may find the key expired
and count from 1 (`FoundCount`; within the tick of the expiry, either). `Tick` assumes
that such a call is late by one tick at most: the client of Redis gives up after
seconds (`resources.go:93`), and the windows are an hour and a day. `LimitPerBucket`
says what that leaves: the limit as long as the bucket lasts, and afterwards one more
limit for all late calls together. The client library may repeat INCR after a lost
answer; it then counts once too often, which only refuses more and is not modelled.

### AccountRows, Authentication, ProfileUpdates, GuildMembership, Accounts

`AccountRows` has the tables, the requests and the session lookup of the
middleware; the next three are the handlers, and `Accounts` joins their actions.
A request keeps the user it has read, as `want`, while others write.

| Code | Actions |
|---|---|
| `Register` in `WithinTransaction` | `RegisterInsert` (the unique index makes a second one wait), then `RegisterCommit`, `RegisterUnconfirmed` or `RegisterAborts` |
| `Login` | `LoginVerify`, `LoginSession`, `LoginFails` |
| `Logout`, the end of a session | `Logout`, `Expire` |
| `SavePreferences`, `SetHomeCity`, `CompleteOnboarding`, `SetTravelVisibility` | `BeginUpdate` (reads and decides: `Changes`), `SaveUserRow`, `SavePrefsRow`, `UpdateFails` |
| `JoinGuild`, `LeaveGuild` | `JoinGuild` (INSERT ... SELECT), `JoinAnswer` (the second statement), `LeaveGuild` |

Of a profile the model keeps home city, onboarding and one value of preferences;
names, avatars, budgets and dates behave like that value. `shown`, `given` and
`created` record what clients were told: the profile of the last answer, the
tokens, the number of answered registrations; and `alone` and `free`, in the
request, whether others overlapped, which is where the code promises nothing.
The attempts of a login are counted in `RateLimiter`.

### AdminSimulation

A command is a SERIALIZABLE transaction: `BeginCommand` takes the snapshot, the
statements of `CommitCommand` work on the rows of that snapshot, and `Repeat` answers
the stored action when its key was used. `CommandFails` is every error, a
serialization failure among them, after which the administrator may send the command
again. The demo sync of any user (`DemoSync`) and arrivals (`Publish`) are READ
COMMITTED and insert into the same tables meanwhile, which by itself refuses
nothing: a message published after the snapshot stays pending, a visit synced after
it survives the reset. Postgres refuses a commit where a row of the snapshot that the
command changes or deletes was changed or deleted by another one, or where a row it
inserts was inserted out of its sight: the row of its key, or a visit
(`Undisturbed`; `gone` keeps the visits of the snapshot that were deleted since, since
the same visit may be there again as another row). `applied` records which messages
an action has processed, to be compared with the `affected_rows` it reports.
A command for a target whose type is not looked up (`assertDemoTarget`) goes on,
and only the condition of its statement keeps it from other users.

### EventCatalog

The transactions that write the events: `SaveCityDiscovery`,
`SavePopularDiscovery` and `Refresh` each begin one with the list of its
statements, row by row; `Write` executes the next when nobody else holds the row
(`ExpireRow`, `Unrank`, `Upsert`, `Enrich`), on what was committed by then, as READ
COMMITTED does; `Commit`, `Fails` and `Victim`, the end of a deadlock, end it. The
order in which a statement reaches its rows is arbitrary. `popular` and `kept`
record what the last search has found. A search that overlaps one with the same
key (which happens after a takeover, see `EventDiscovery`) lets the lists be any
mixture, so the properties except it. `EventDiscovery` takes the whole save for
one step, `SearchAndSave`: its rows do not depend on the contents of the events.

### EventAnswers

One call of `discover`: the attempts of `search` and `attemptSearch`, a text that
may be cut (an error that is not retried but carries the text), `decodeDiscovery`
with `salvageDiscovery`, `normalizeDiscovered` and, for the country, the match with
known cities. An answer is a sequence of payloads, some of them broken. `Take` is
one turn of the loop in `normalizeDiscovered`, `Taken` folds it over the answer.

### Startup

A replica from `InitResources` to its first request: `LookForTable` and
`CreateTable` (CREATE TABLE IF NOT EXISTS is two steps of Postgres, and no lock is
held), for each migration `Lock`, `Check`, `Execute` and `Commit`, then the demo
data: `SeedBadge` for each badge and the deactivation, `SeedCities`,
`SeedContent`, and `EnsureUser` and `EnsurePreferences` for both accounts. `Stop`
is an error, a signal or a crash at any point. The database is empty or was left
by an earlier build, whose users may have registered the demo accounts' emails.
`EnsureDemoAccount` does not change the password of such an account.

### MCComponents, MCBackground

The components that are too small for a run of their own: each module holds
several that share no state; `component` says which one runs, and the
variables of the others keep one initial value. So the states are those of the
components one after the other, not their product, and what is found is what a
run of each would find. `MCComponents` extends its six components, whose names
differ for that purpose (`SimulationNext`, `LimiterNext`), and `MCBackground`
extends `Startup`, so that the properties a run checks are the definitions the
theorems are about. The catalogue and the discovery of `MCBackground` are instances:
they get their constants in the `INSTANCE` and their assumptions are `ASSUME`d
there. `TypesOK` is the type invariant of each component of `MCComponents`.

### McpSession

The one `tutumcp.Client` of a process. A call is a goroutine in `Client.call`;
`message` says which of its three requests it is at (initialize, the
notification, the tool) and `pc` whether an attempt is to be sent, under way or
answered. `session` is `Streamable.sessionID`, which the headers of an attempt
take at `Send` and any success stores again (`KeepSession`); `lock` is the
holder of the handshake mutex.

| Code | Actions |
|---|---|
| `CallTool`, `Initialize` | `Start`, `Enter` |
| `attempt`: headers, then the response | `Send`, then `Introduced`, `Notified`, `Done`, `Undecoded` by what it answers |
| `do` and `retryable` | `Retry` |
| `call` after `ErrSessionExpired` | `Expired`, `Renew` |
| errors, contexts that end | `Fails`, `GiveUp` |

The server is external, modelled as the client takes it to be: it opens a
session for an initialize without one and names it in the answer, answers 404
to a session it does not know, and 4xx to a tool without one. Left out are
`Close`, called at the end of the process, the lists and pings, which are calls
like those of a tool that changes nothing, the protocol version, and the
contents of messages.

## 3. What the runs check

| Run | Checks | Bounds, and why they are enough |
|---|---|---|
| `trip_safety` | `RewardIffArrived`, `ArrivalComplete`, `AnswersAgree`, `PromoPerVisitedCity`, `BalanceExplained`, refinement `ImplementsPaidTrips` | two sessions, two trips of one user to one city, one client key and the sync's own (so that a key is reused for another trip), two attempts, a second user whose code collides. Conflicts are between two requests about one trip or one key; a third would meet the same lock or index. 0.6 million states up to the exchange of sessions. |
| `trip_progress` | `RequestsEnd` | three sessions on one trip: one holds the lock, two wait, so that waiters also compete. |
| `discovery_safety` | `SlotsAccounted`, `ReadyMeansSaved`, `ClaimsSpaced` | two keys, two goroutines on one replica with one slot and one on another; a slot wait of 1, writes of up to 2, backoffs of 3, a run of 3, a cache of 5, so that `MinGap` is 1 and a write may use up all the time beyond it. The keys have the same backoff here and are exchanged by symmetry, as are the goroutines of a replica. 2.2 million states. |
| `discovery_parallel` | `NoParallelSearch`, violated | one key, retry backoff (3) below the run timeout (5), three goroutines: the run taken over, its successor and the one started too early. |
| `recommendation` | `OptionsStored`, `AbandonedExplained`, `StreamOutcome`, `OutcomeFinal`, `WorkflowEnds` | two requests of one user, three stages (analysis, search, finalize: those between behave alike), one caller, one stream, one crash. A stream follows one request, and the requests of a user meet in pairs. 0.4 million states. |
| `recommendation_lands` | `ResultLands`, violated | no crash and no database failure at all: the timeout suffices. |
| `quota_window` | `SlidingWindow`, violated | two calls, an hour of two ticks and a day of three, limit 1. |
| `mcp_session` | `ToolRunOnce`, `SessionKept`, `CallsEnd` | two calls, two attempts each, a session ended by the server and two faults, so that both calls renew and a late response of the old session meets the new one; the bound of 8 sessions is never reached (at most 6 are opened). 0.4 million states. |
| `mcp_repeats` | `HandshakeRepeats`, violated | one call, one ended session and one fault. |
| `components`, accounts | `AccountsWhole`, `ShownIsStored`, `JoinAnswered` | one email, two requests at a time, two tokens, two cities with guilds, two values of preferences. Every hazard is a pair of requests about one account; accounts share no row. |
| `components`, limiter | `LimitPerBucket` | two calls of one user, limit 1, an hour of two ticks and a day of three over four ticks, so that both kinds of border are crossed; logins over two windows of a tick with one reset. A call outlasts at most one tick, so that it meets an expired key after each border. |
| `components`, selection | `OptionsSuit`, `BestAreShown` | three requests (with and without a limit of time, and for a destination), up to three candidates, answers of up to two offers that are cheap, quick, dear or not bookable, two options shown: the limit cuts a city off, prices round, scores tie. |
| `components`, answers | `FirstUsableReturned` | all answers of up to four payloads out of eight, limit 2. |
| `components`, simulation | `EffectOnce`, `ToldStays`, `DemoUsersOnly` | two commands at a time, two keys, three commands (one of them about a user who is not a demo), two messages (one in the snapshot, one published after it) and one place. |
| `components`, catalogue | `ListsAreLast`, `EnrichedWhole` | three events in two cities, two transactions at a time, three in all, of up to two events. Together 1.2 million states, up to the exchange of the two requests, calls and transactions. |
| `background`, startup | `MigratedOnce`, `ServesPrepared`, `StartEnds` | two replicas, three starts (so that one starts again after it was cut off), two migrations, two badges and one of an earlier vocabulary. |
| `background`, catalogue | `WritersEnd` | two transactions with two rows each: a deadlock needs no more. |
| `background`, discovery | `NeverStuck` | one key, one goroutine per replica, one crash. |
| `late_start` | `LateOnlyWait`, violated | as `background`. |

The type invariant of a component is checked in one run (in `components` together,
as `TypesOK`); that of `EventDiscovery` is proved and in no run. Each passing property has a
mutant: an operator in the module that changes one definition as a plausible
bug would, and under which TLC finds the property violated.

The five violated properties are sentences of the repository's READMEs the code
does not keep; `PROJECT.json` quotes them.

* README.md:320 calls `event_discovery_runs` a protection from parallel
  duplicates. `FailDiscovery` does not test whose run the row describes, so a
  late report ends the successor's row. Claims stay `MinGap` apart
  (`ClaimsSpaced`), which is what limits the damage.
* README.md:288 says the result is in the database in any case. After the
  workflow's timeout `failWorkflow` writes under the context that has ended.
* README.md:547 says sliding window; the key is a fixed bucket.
* infra/tutumcp/README.md:32 says the handshake is repeated by itself after the
  loss of a session. A response of initialize that cannot be decoded leaves its
  session id behind; once that session has ended every initialize carries it, is
  answered 404, and nobody resets it, since only the 404 of a tool does.
* README.md:193 says that late replicas only wait for the lock. The table of
  migrations is created before the lock is taken, so on an empty database the
  later of two gets a duplicate key and exits. Migrations still run once.

Other differences were met and need no run: `openapi.json:739` describes GET /guild
as the current guild, the code returns the guild of the home city; README.md:319
says every found event is stored with its `source_url`, which may be empty.

### Fairness

* Trips: strong fairness of `Progress(s)` for each session. Postgres grants a
  row lock in the order of the waiters, so a request for which the lock is free
  again and again gets it; under weak fairness other sessions could take it
  every time. Retries, failures and crashes are never forced.
* Discovery: time passes, every key is asked for again (watchers and listings),
  a goroutine gets a slot or gives up, a search returns. Strong fairness of the
  two reports says that the database does not refuse the writes of every run for
  ever; without it nothing can be promised by any code.
* MCP: calls come again and again, goroutines are scheduled, requests are
  answered or time out; the fairness of `Progress(c)` is strong because of the two
  actions that take the mutex: Go's mutex hands itself to a waiter after a
  millisecond. Faults, ended
  sessions and ended contexts are bounded and never forced.
* Recommendation: the goroutine moves on whatever the outcome, and its timer
  fires. No success is assumed. In `recommendation_lands` the fairness is the
  same.
* Start: weak fairness of `Progress(r)`: a start goes on until it serves or ends.
  Nobody has to start, stop or restart a replica. The lock is freed by a commit
  or by the end of its holder, and each start takes it once for each migration,
  so that weak fairness is enough.
* Catalogue: a transaction goes on (`Write` or `Commit`), and Postgres looks for a
  deadlock while one waits (`Victim`), after `deadlock_timeout`.
* The other components of `components` are checked for safety only.

`CHECK_DEADLOCK FALSE` is set in `recommendation_lands`, where the one request
ends and nothing is left to do, and in `components`, `background` and
`late_start`, where the selection and the answer of one request end, and bounds
on clocks, transactions and starts may be reached.

## 4. What is proved

Each theorem is about every value of the constants: any number of sessions,
replicas, requests or transactions, any data, and any bounds. TLC has checked each
inductive invariant, or the properties it is made of, on the instances of
section 3 first.

| Module | Theorems: property for `Spec` | Inductive invariant |
|---|---|---|
| `TripLifecycleProofs` | `TypeCorrect`, `RewardCorrect` (`RewardIffArrived`), `ArrivalIsAtomic` (`ArrivalComplete`), `AnswersCorrect` (`AnswersAgree`), `LockCorrect` (`LockedTripStable`), `PromosCorrect` (`PromoPerVisitedCity`), `BalanceCorrect` (`BalanceExplained`), `Refinement` (`ImplementsPaidTrips`) | `PaymentInv`; with it `PromoPerVisitedCity` and `BalanceInv` |
| `EventDiscoveryProofs` | `TypeCorrect`, `SlotsCorrect` (`SlotsAccounted`), `ReadyCorrect` (`ReadyMeansSaved`), `ClaimsCorrect` (`ClaimsSpaced`) | `DiscoveryInv` |
| `RecommendationWorkflowProofs` | `TypeCorrect`, `OptionsCorrect` (`OptionsStored`), `AbandonedCorrect` (`AbandonedExplained`), `StreamsCorrect` (`StreamOutcome`), `OutcomesFinal` (`OutcomeFinal`) | `WorkflowInv` |
| `McpSessionProofs` | `TypeCorrect`, `RunsCorrect` (`ToolRunOnce`), `SessionCorrect` (`SessionKept`) | `SessionInv` |
| `StartupProofs` | `TypeCorrect`, `MigrationsCorrect` (`MigratedOnce`), `ServesCorrect` (`ServesPrepared`) | `StartupInv` |
| `StorageProofs`, accounts | `AccountsTypeCorrect`, `WholeCorrect` (`AccountsWhole`), `JoinCorrect` (`JoinAnswered`), `UpdatesKept` (`ShownIsStored`) | `AccountsInv`; with it `MembersInv` and `ShownInv` |
| `StorageProofs`, simulator | `SimulationTypeCorrect`, `EffectCorrect` (`EffectOnce`), `AnswersStay` (`ToldStays`), `OnlyDemoUsers` (`DemoUsersOnly`) | `SimulationInv` |
| `StorageProofs`, catalogue | `CatalogTypeCorrect`, `ListsCorrect` (`ListsAreLast`), `EnrichmentsCorrect` (`EnrichedWhole`) | `CatalogInv` |
| `ComponentsProofs`, limiter | `LimiterTypeCorrect`, `LimitPerBucketHolds` (`LimitPerBucket`), `WindowWithinTwice` | `LimiterInv` |
| `ComponentsProofs`, selection | `SelectionTypeCorrect`, `OptionsAlwaysSuit` (`OptionsSuit`), `BestAreAlwaysShown` (`BestAreShown`) | `SelectionInv` |
| `ComponentsProofs`, answers | `AnswersTypeCorrect`, `FirstUsableAlwaysReturned` (`FirstUsableReturned`) | `AnswersInv` |
| `ComponentsProofs`, the composition | `ComponentsTypeCorrect` (`TypesOK`) | the six type theorems |

`DataLemmas` has no theorem about a component, only lemmas: sums over finite sets,
the least of a set of numbers, and what `Kept` and `Sorted` return. So every
invariant and every action property a passing run checks is a theorem.

### Why the invariants are needed

*Trips.* The properties alone are not inductive: `RewardIffArrived` survives a
commit only if the trip had not arrived when the lock was taken and nobody
changed it since (`LockedTripStable`); and `AnswersAgree` survives an answer only
if the request that is about to answer still names the one row there is, and no
other request is about to call the same payment new (`AnswerPending`). The
lemmas about `Deposit` say what an insert that does nothing on conflict leaves
behind: the rows before it with their numbers, and at most one new one.
`QuietStep` covers the actions that touch no table (requests, retries, failures,
crashes), `StatusStep` those that move a trip between states it can arrive from,
`CommitStep` the arrival. For the refinement each action maps to a step of
`PaidTrips` or a stutter (`MappedStep`). For the codes, `IssueKeepsPromos` says
that what `IssuePromos` adds for a set of visited cities leaves exactly one code
for each of them that no other user's city collides with; an arrival issues for
one city, a sync for several. The balance is a sum over the
rows of the ledger, what it is worth a sum over the arrived trips; `BalanceExplained`
is kept step by step (`BalanceInv`): an arrival adds one row to the one and one trip to
the other (`CommitBalance`), a sync a row that names its user (`SyncBalance`,
`LedgerNames`), and every other step neither (`QuietBalance`).

*Discovery.* `ClaimsSpaced` speaks of two claims, the invariant of one row: the
age of a running row, up to `MinGap`, is no more than the time since the last claim
of its key, and the time to live of an outcome makes up for what is missing
(`RowSound`). Both survive the late report of a run that was taken over, which is
the hazard, because an outcome that can still be written holds for `MinGap` and the
time its write has left (`RunSound`): both run down together while the write waits. Slots are the cardinality of the set of runs that hold one, each of
which is at a place where it will release it.

*Catalogue.* Each transaction by itself is related to the committed table
(`Sound`): every event of its list has still to be written or is written as the
list says (`ListSound`), every row a search did not find has still to be expired or
unranked (`OthersSound`), and what it has written fits the row that is committed
(`WritesSound`), although other transactions commit in between. The last is where
the row locks enter: a transaction that commits changes no row the other has
written. `ApartSound` says what "no other search overlaps" gives. A step of one
writer and the commit of another are lemmas about records, one for each kind of
statement.

*Workflow.* `Sound` relates a row to its goroutine and says which pairs of outcome,
options and place there can be; `Succeeds` says how a row may go on, and from it
follows that what a stream has read in its first statement is still an outcome of
the row at its second (`FollowsStays`).

*MCP client.* A call whose tool has run stands before an answer that leads to no
further attempt (`RunOnce`), and an accepted initialize names a session (`Opened`).
That the holder of the mutex is alone was not needed.

*Accounts.* A registration that has inserted has no committed row to meet and is
the only one of its email (`OneRegistration`); every other request carries a user
who exists (`RequestsCarry`). `MembersInv` keeps the unique active membership next to
the home city a join has set, `ShownInv` the row a half-written profile belongs to.

*Simulator.* The row of a key that a transaction has read is still there at its
commit, which makes `Repeat` answer what is stored; an action that is not executed has
processed no message; and only a command that processes the outbox carries pending
messages in its snapshot. Nothing is said of messages published since: what a commit
marks is its snapshot, of which every message is still pending (`Undisturbed`), so that
its count, its marks and `applied` are the same set.

*Start.* What is applied is a prefix of the files, a replica comes to a file only
when all before it are applied, and each place of the start implies what was
seeded on the way (`Seeded`). `Kept` says that no other replica takes it back, which
holds because every statement of the seeding is idempotent and all replicas seed
the same labels.

*Limiter.* `LimitPerBucket` bounds a sum over times by the limit, the code tests one
counter. `Account` joins them: what passed in a bucket is at most what its counter holds
now, one limit for each reset of the bucket, and one limit more (`Extra`) if the counter
was touched after the bucket; a second line bounds the same sum without the counter,
which a refused call raises beyond the limit. That there is one more limit and not one
for each expiry needs the dates: a key that expires under the last calls of its bucket
was last touched at the bucket's first tick (`Dated`), so that no call of another tick
has passed (`TouchedAtFirst`, `ExpiredAtBorder`), and the touch after the border keeps it
alive for all calls that are still under way (`Prompt`). The account is therefore kept
three times: for the bucket, for its ticks without the first, and for its ticks without
the last, and only the first of these has `Extra`. `WindowWithinTwice` follows from the
other two: a window of a scope's width that meets two buckets has no call of the first
tick of the one and none of the last of the other (`WindowParts`). That is the bound the
fixed buckets keep, next to the finding that they do not keep the limit itself
(`SlidingWindow`); it is not claimed for the email, whose counter a login resets.

*Selection.* `SelectionInv` says that at each stage what was computed is the value of the
same operators on the request, the planned cities and the answers as they are then
(`offers = FoundOffers`, `scored = RankedOptions`): since nothing changes its inputs
later (`SearchIsSame`, `SameRanking`), the order in which the goroutines answered has
no place in it. The rest is about the algorithms. `SortedIsOrder` and `KeptIsOrder`
say that the stable sort and the filter return each element once, in the order;
`CheapestIsChosen` that sorting by price and then looking for the first in time, or
else sorting by minutes, gives the one offer no other is preferred to;
`ScoreInRange` that the clamped fraction is in 0..100; `RankedAre` that cutting the
sorted list leaves the best.

*Answers.* `TakenSoFar` is the invariant of the loop: after k payloads the list holds
the first usable ones among them, each in its place, and has room or is full.
`TakeTurn` is one turn: a payload with the key of one that was taken is not usable, and
one beyond the limit changes nothing. `DecodedIs` says that what is decoded is the
longest intact prefix, `MatchedIs` that the match with known cities keeps the order
and closes the ranks up.

### Induction over data

The sums, the folds and the orders above are about data of any size. The theorems
about induction in the library take the statement to be proved as an operator, which
the provers cannot instantiate. Instead, a counterexample is taken to be least:
`LeastNumber` (a non-empty set of naturals has a least element, from the library's
theorem about minimal elements of well-founded relations) and `SubsetInduction` (a
set of finite sets that contains {} and grows by single elements contains them
all) speak of sets, not of operators. The folds of the community modules are
recursive functions over subsets that are given by a choice; `SumsExist` and
`TakesExist` show that there is such a function, `SumUnfolds` and `TakenUnfolds` what
it does at each set, `SumsAgree` that the element it chooses first does not matter.

### Assumptions

The proofs use the assumptions of the modules, which TLC evaluates in their runs.
They give the constants their types, and further:

* absence (`None`, `Absent`, SQL's NULL) is none of the values that can be present
  (`NoneAssumption` of two modules, `NoRowAssumption`, `AbsentAssumption`);
* the places and messages of the simulator and the events of the catalogue are
  finite sets, as tables are, and the list of files of `Startup` has no file twice
  and at least one;
* a guild is a city, the demo users are users, the two demo accounts are not one,
  the label of the earlier vocabulary is not among the present ones;
* the calls of the limiter are finitely many, windows are not empty, and email and
  address have the same window, as in the handler (`CallsAssumption`,
  `WindowsAssumption`); a limit may be zero;
* the weights of the formula are not all zero and a city's merit is at most the sum of
  its weights (`WeightsAssumption`); limits of the selection and of the answers are not
  zero (`LimitsAssumption`, `AttemptsAssumption`); requests, candidates, pages and
  contents are what their types say (`InputsAssumption`, `ContentsAssumption`): an
  answer of the provider or of the model may be any sequence, with negative prices,
  times in any order and elements that do not decode;
* in `RecommendationWorkflow` there is at least one stage of a search before the
  last, and attempts, slots and the run timeout are not zero.

In the proofs about the simulator, the catalogue and the selection the assumptions
have one name (`SimulationAssumptions`, `CatalogAssumptions`, `SelectionAssumptions`),
which a lemma derives from them. In `EventDiscovery` nothing is
assumed about the order of the times: `MinGap` is a minimum.

### What the proofs found about the models

* The new ranks after a commit in `EventCatalog` were a CASE with two arms that could
  both be true; the proof could not decide between them, and the definition is an
  IF now.
* The functions that join a transaction's rows with the table were written with `@@`,
  of which the provers know nothing; `After` says the same as a function.
* Filtering used the recursive `SelectSeq` and sorting had a definition of its own.
  `StableOrder` defines both by the number of places that come before one, which says
  the same and can be counted.
* Most parameters of `RateLimiter`, `OfferSelection` and `EventAnswers` had no assumption
  about their values; the proofs showed which are needed, and TLC evaluates them now.
* The assumptions about `None` left out user rows and results. With model values TLC
  could not see that.

### Model-checked only

* `RequestsEnd`, `NeverStuck`, `WorkflowEnds`, `CallsEnd`, `StartEnds`, `WritersEnd`: liveness
  under fairness, and ENABLED, are out of the prover's reach.
* The five properties of section 3 the code does not keep: TLC refutes them.

No module a theorem reaches declares a RECURSIVE operator.

## 5. Plan

All modules of the plan are written, and every safety property that a passing run checks
is proved. What a next step could add:

* Abstract specifications for the workflow (a request reaches at most one outcome) and
  for the discovery (claims of a key), with the refinements, as for `PaidTrips`.
* A property for the hazard that has none, two bootstraps that both start a personal
  request: the code promises nothing there, and a sentence about it would have to come
  first.
* Reads that return several rows (leaderboard, maps, ledger pages), should they come
  to depend on each other.

## 6. Not modelled

* Texts: prompts, titles, descriptions, explanations, names, coordinates, and
  their formatting and decoding. Prices, scores and times of offers and the times
  and keys of events are modelled where something is decided by them.
* Input validation and authorisation of handlers, except where a guard decides
  which state a request meets.
* Operations that only read: lists, leaderboards, seasons, cohorts, balances, maps.
* Commands of the simulator about demo trips and demo events, of which no code
  makes any, and about the size of cohorts and the leaderboard.
* The levels of visits; the deletion of arrivals' visits by the reset of a demo user.
* Isolation anomalies of READ COMMITTED beyond the interleaving of single
  statements, and in `EventCatalog` of single rows; multi-statement work outside
  a transaction is split into steps.
* Shutdown, which ends goroutines like a crash; the frontend, SQL fixtures,
  generated documentation, logging.
