--------------------------- MODULE EventDiscovery ---------------------------
(***************************************************************************)
(* Discovery of events by web search: the rows of event_discovery_runs,    *)
(* which the replicas of the API claim by an atomic upsert, and the        *)
(* goroutines that wait for a slot, search, save and report the outcome.   *)
(*                                                                         *)
(* Times are relative: a row knows how long ago it was claimed and how long*)
(* its outcome still holds, a run how long its context lives, and how long *)
(* the outcome it is about to write would hold: the code draws expires_at  *)
(* from the clock before the UPDATE, which may wait.  All saturate at the  *)
(* value beyond which the code no longer tells them apart.  The read that  *)
(* precedes the upsert only spares the upsert and is not a step.           *)
(***************************************************************************)
EXTENDS Naturals, FiniteSets

CONSTANTS
    Keys,           \* cities, and the country's popular selection
    Runs,           \* goroutines running runDiscovery at the same time
    Replicas,
    ReplicaOf,      \* [Runs -> Replicas]
    Concurrency,    \* capacity of a replica's slots channel
    RunTimeout,     \* config.RunTimeout, 5 min by default
    SlotWait,       \* slotWaitTimeout, 60 s
    WriteTimeout,   \* stateWriteTimeout, 5 s
    BusyBackoff,    \* busyBackoff, 2 min
    FailureBackoff, \* [Keys -> Nat]: 1 h for a city, at most 10 min else
    CacheTTL,       \* config.CacheTTL
    MaxCrashes      \* bound on the crashes of replicas

ASSUME TimesAssumption ==
    /\ RunTimeout \in Nat \ {0}
    /\ SlotWait \in Nat
    /\ WriteTimeout \in Nat
    /\ BusyBackoff \in Nat
    /\ FailureBackoff \in [Keys -> Nat]
    /\ CacheTTL \in Nat

ASSUME ReplicasAssumption ==
    /\ ReplicaOf \in [Runs -> Replicas]
    /\ Concurrency \in Nat \ {0}
    /\ MaxCrashes \in Nat

VARIABLES
    row,        \* event_discovery_runs: status, age of the claim, time to live
    pc,         \* where each goroutine is
    run,        \* its key, the rest of its context, of the timer it is on (the
                \* slot wait, later the timeout of the failure's write), and of
                \* the time to live of the outcome it is writing
    slots,      \* elements in each replica's slots channel
    holding,    \* goroutines that put one of them there
    saved,      \* keys whose events some run has saved (history)
    since,      \* time since the last claim of each key (history)
    crashes

vars == <<row, pc, run, slots, holding, saved, since, crashes>>

Smaller(m, n) == IF m < n THEN m ELSE n
Down(n) == IF n = 0 THEN 0 ELSE n - 1

\* What is left of a time to live when its write has taken the longest it may.
Left(ttl, longest) == IF ttl > longest THEN ttl - longest ELSE 0

\* The shortest time after which a run may be repeated: it is stuck, or an outcome
\* holds no longer.  The write of a result may take as long as the run's context
\* lives, that of a failure WriteTimeout; their outcomes age meanwhile.
MinGap(k) ==
    Smaller(Smaller(RunTimeout, Left(CacheTTL, RunTimeout)),
            Left(Smaller(BusyBackoff, FailureBackoff[k]), WriteTimeout))

Rows == [status: {"absent", "running", "ready", "failed"},
         age: 0..RunTimeout, ttl: Nat]
RunRecords == [key: Keys, life: 0..RunTimeout, timer: Nat, ttl: Nat]
Steps == {"off", "waiting", "searching", "saved", "failing"}
NoRun == [key |-> "none"]

TypeOK ==
    /\ row \in [Keys -> Rows]
    /\ pc \in [Runs -> Steps]
    /\ run \in [Runs -> RunRecords \cup {NoRun}]
    /\ \A r \in Runs : pc[r] # "off" => run[r] \in RunRecords
    /\ slots \in [Replicas -> 0..Concurrency]
    /\ holding \subseteq Runs
    /\ saved \subseteq Keys
    /\ since \in [Keys -> Nat]
    /\ crashes \in 0..MaxCrashes

Init ==
    /\ row = [k \in Keys |-> [status |-> "absent", age |-> 0, ttl |-> 0]]
    /\ pc = [r \in Runs |-> "off"]
    /\ run = [r \in Runs |-> NoRun]
    /\ slots = [p \in Replicas |-> 0]
    /\ holding = {}
    /\ saved = {}
    /\ since = [k \in Keys |-> MinGap(k)]
    /\ crashes = 0

----------------------------------------------------------------------------
(* The claim.                                                              *)

\* Mutant of Claimable: no outcome is cached.
ClaimableUncached(k) == row[k].status = "running" => row[k].age = RunTimeout

\* Mutant of Claimable: a run that never reported is not taken over.
ClaimableFinished(k) == row[k].status # "running" /\ row[k].ttl = 0

\* The WHERE of the upsert: no row yet, the outcome has expired, or the run was
\* started so long ago that its context is over.
Claimable(k) ==
    IF row[k].status = "running" THEN row[k].age = RunTimeout
                                 ELSE row[k].ttl = 0

\* ensureDiscovery, for a listing, a watcher or the prewarming: the upsert
\* succeeds and the goroutine starts.
Claim(r, k) ==
    /\ pc[r] = "off"
    /\ Claimable(k)
    /\ row' = [row EXCEPT ![k].status = "running", ![k].age = 0]
    /\ pc' = [pc EXCEPT ![r] = "waiting"]
    /\ run' = [run EXCEPT ![r] = [key |-> k, life |-> RunTimeout,
                                  timer |-> SlotWait, ttl |-> 0]]
    /\ since' = [since EXCEPT ![k] = 0]
    /\ UNCHANGED <<slots, holding, saved, crashes>>

----------------------------------------------------------------------------
(* The goroutine.                                                          *)

AcquireSlot(r) ==
    LET p == ReplicaOf[r] IN
    /\ pc[r] = "waiting"
    /\ slots[p] < Concurrency
    /\ slots' = [slots EXCEPT ![p] = @ + 1]
    /\ holding' = holding \cup {r}
    /\ pc' = [pc EXCEPT ![r] = "searching"]
    /\ run' = [run EXCEPT ![r].timer = 0]
    /\ UNCHANGED <<row, saved, since, crashes>>

\* releaseSlot, deferred once the slot is taken; it never blocks.
Release(r) ==
    LET p == ReplicaOf[r] IN
    /\ slots' = IF r \in holding /\ slots[p] > 0
                THEN [slots EXCEPT ![p] = @ - 1] ELSE slots
    /\ holding' = holding \ {r}

\* The goroutine goes on to failDiscovery, which draws retryAfter from the clock; the
\* context of the run no longer matters.
Failing(r, backoff) ==
    /\ pc' = [pc EXCEPT ![r] = "failing"]
    /\ run' = [run EXCEPT ![r].life = 0, ![r].timer = WriteTimeout,
                          ![r].ttl = backoff]

\* DISCOVERY_BUSY: the timer fired or the context ended first.
SlotBusy(r) ==
    /\ pc[r] = "waiting"
    /\ run[r].timer = 0 \/ run[r].life = 0
    /\ Failing(r, BusyBackoff)
    /\ UNCHANGED <<row, slots, holding, saved, since, crashes>>

\* The search and the transaction that stores its events succeed; expiresAt is drawn
\* from the clock.
SearchAndSave(r) ==
    /\ pc[r] = "searching"
    /\ run[r].life > 0
    /\ saved' = saved \cup {run[r].key}
    /\ pc' = [pc EXCEPT ![r] = "saved"]
    /\ run' = [run EXCEPT ![r].ttl = CacheTTL]
    /\ UNCHANGED <<row, slots, holding, since, crashes>>

\* Mutant of SearchFails: an empty or failed search counts as a result.
SearchFailsUnnoticed(r) ==
    /\ pc[r] = "searching"
    /\ pc' = [pc EXCEPT ![r] = "saved"]
    /\ run' = [run EXCEPT ![r].ttl = CacheTTL]
    /\ UNCHANGED <<row, slots, holding, saved, since, crashes>>

\* The provider, the save or the context fails.
SearchFails(r) ==
    /\ pc[r] = "searching"
    /\ Failing(r, FailureBackoff[run[r].key])
    /\ UNCHANGED <<row, slots, holding, saved, since, crashes>>

\* Mutant of Panic: the slot is released by the code after the search only.
PanicKeepsSlot(r) ==
    /\ pc[r] = "searching"
    /\ Failing(r, BusyBackoff)
    /\ holding' = holding \ {r}
    /\ UNCHANGED <<row, slots, saved, since, crashes>>

\* A panic: the slot is released first, the recovering defer reports then.
Panic(r) ==
    /\ pc[r] = "searching"
    /\ Failing(r, BusyBackoff)
    /\ Release(r)
    /\ UNCHANGED <<row, saved, since, crashes>>

\* The goroutine returns.
Return(r) ==
    /\ pc' = [pc EXCEPT ![r] = "off"]
    /\ run' = [run EXCEPT ![r] = NoRun]
    /\ Release(r)

\* A row with an outcome; started_at is not read until the next claim.
Outcome(status, ttl) == [status |-> status, age |-> 0, ttl |-> ttl]

\* CompleteDiscovery: an UPDATE by key alone, under the run's context, with the
\* expiry drawn before it.
Complete(r) ==
    /\ pc[r] = "saved"
    /\ run[r].life > 0
    /\ row' = [row EXCEPT ![run[r].key] = Outcome("ready", run[r].ttl)]
    /\ Return(r)
    /\ UNCHANGED <<saved, since, crashes>>

\* FailDiscovery: an UPDATE by key alone, under a context of its own, with the expiry
\* drawn before it.
ReportFailure(r) ==
    /\ pc[r] = "failing"
    /\ run[r].timer > 0
    /\ row' = [row EXCEPT ![run[r].key] = Outcome("failed", run[r].ttl)]
    /\ Return(r)
    /\ UNCHANGED <<saved, since, crashes>>

\* Either write fails or runs out of time: it is logged and the row stays as it is.
ReportLost(r) ==
    /\ pc[r] \in {"saved", "failing"}
    /\ Return(r)
    /\ UNCHANGED <<row, saved, since, crashes>>

\* A replica dies with its goroutines and its channel.
Crash(p) ==
    LET dead == {r \in Runs : ReplicaOf[r] = p} IN
    /\ crashes < MaxCrashes
    /\ \E r \in dead : pc[r] # "off"
    /\ crashes' = crashes + 1
    /\ pc' = [r \in Runs |-> IF r \in dead THEN "off" ELSE pc[r]]
    /\ run' = [r \in Runs |-> IF r \in dead THEN NoRun ELSE run[r]]
    /\ slots' = [slots EXCEPT ![p] = 0]
    /\ holding' = holding \ dead
    /\ UNCHANGED <<row, saved, since>>

----------------------------------------------------------------------------

\* Time passes; a goroutine past its deadline may still be about to act.
Tick ==
    /\ row' = [k \in Keys |->
                IF row[k].status = "running"
                THEN [row[k] EXCEPT !.age = Smaller(@ + 1, RunTimeout)]
                ELSE [row[k] EXCEPT !.ttl = Down(@)]]
    /\ run' = [r \in Runs |->
                IF pc[r] = "off" THEN run[r]
                ELSE [run[r] EXCEPT !.life = Down(@), !.timer = Down(@), !.ttl = Down(@)]]
    /\ since' = [k \in Keys |-> Smaller(since[k] + 1, MinGap(k))]
    /\ UNCHANGED <<pc, slots, holding, saved, crashes>>

Next ==
    \/ \E r \in Runs :
        \/ \E k \in Keys : Claim(r, k)
        \/ AcquireSlot(r)
        \/ SlotBusy(r)
        \/ SearchAndSave(r)
        \/ SearchFails(r)
        \/ Panic(r)
        \/ Complete(r)
        \/ ReportFailure(r)
        \/ ReportLost(r)
    \/ \E p \in Replicas : Crash(p)
    \/ Tick

\* Time passes and the watchers of every replica ask for every key again and
\* again.  A goroutine moves on: it gets a slot or gives up, its search ends
\* with its context at the latest, and the database does not refuse the writes
\* of every run for ever.
Fairness ==
    /\ WF_vars(Tick)
    /\ \A k \in Keys : WF_vars(\E r \in Runs : Claim(r, k))
    /\ \A r \in Runs :
        /\ WF_vars(AcquireSlot(r) \/ SlotBusy(r))
        /\ WF_vars(SearchAndSave(r) \/ SearchFails(r))
        /\ SF_vars(ReportFailure(r))
        /\ SF_vars(Complete(r))
        /\ WF_vars(ReportLost(r))

Spec == Init /\ [][Next]_vars /\ Fairness

----------------------------------------------------------------------------
(* Properties.                                                             *)

\* The channel holds one element for each goroutine that put one there and has
\* not returned: failures, panics and lost writes leak no slot, so that a
\* replica cannot end up answering DISCOVERY_BUSY for ever, and no release
\* takes the slot of another run.
SlotsAccounted ==
    \A p \in Replicas :
        slots[p] = Cardinality({r \in holding : ReplicaOf[r] = p})

\* Web searches are paid for: whatever replicas, watchers and listings do, although a
\* run taken over may still write to the row of its successor, and however long an
\* outcome was on its way to the row while its time to live ran, two claims of a key
\* are at least MinGap(k) apart.
ClaimsSpaced ==
    [][\A k \in Keys, r \in Runs : Claim(r, k) => since[k] >= MinGap(k)]_vars

\* A row says ready only after events were saved for its key.
ReadyMeansSaved ==
    \A k \in Keys : row[k].status = "ready" => k \in saved

\* No key is stuck: a row left running by a crash, a lost write or a run past
\* its deadline reaches an outcome again.
NeverStuck ==
    \A k \in Keys : row[k].status = "running" ~> row[k].status # "running"

\* README.md:320: event_discovery_runs protects from duplicating the work in
\* parallel.  Two runs of one key do not search at the same time, both with
\* contexts that are not over.
NoParallelSearch ==
    \A r, q \in Runs :
        /\ pc[r] = "searching" /\ run[r].life > 0
        /\ pc[q] = "searching" /\ run[q].life > 0
        /\ run[r].key = run[q].key
        => r = q

============================================================================
