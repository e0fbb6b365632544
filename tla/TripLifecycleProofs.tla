------------------------ MODULE TripLifecycleProofs ------------------------
(***************************************************************************)
(* TripLifecycle for every set of users, options, keys and sessions: its   *)
(* type invariant, that a trip is paid for exactly when it arrived, what   *)
(* clients are told, the codes, the balance, and that PaidTrips is         *)
(* implemented.                                                            *)
(***************************************************************************)
EXTENDS TripLifecycle, DataLemmas

----------------------------------------------------------------------------
(* The ledger.                                                             *)

\* A deposit about a trip appends an entry, or leaves the ledger as it is.
LEMMA DepositType ==
    ASSUME ledger \in Seq(Entries), NEW e \in Entries
    PROVE  Deposit(e) \in Seq(Entries)
  BY DEF Deposit

\* A new row about a trip is the only one about it if there was none.
LEMMA AppendTripRows ==
    ASSUME NEW rows \in Seq(Entries), NEW e \in Entries, NEW o
    PROVE  TripRows(Append(rows, e), o) =
             TripRows(rows, o) \cup
             (IF e.type = "trip" /\ e.ref = o THEN {Len(rows) + 1} ELSE {})
  <1>1. DOMAIN Append(rows, e) = 1 .. Len(rows) + 1
    OBVIOUS
  <1>2. \A i \in 1 .. Len(rows) : Append(rows, e)[i] = rows[i]
    OBVIOUS
  <1>3. Append(rows, e)[Len(rows) + 1] = e
    OBVIOUS
  <1>4. DOMAIN rows = 1 .. Len(rows) /\ Len(rows) \in Nat
    OBVIOUS
  <1>5. DOMAIN Append(rows, e) = DOMAIN rows \cup {Len(rows) + 1}
    BY <1>1, <1>4
  <1>. QED
    BY <1>2, <1>3, <1>4, <1>5 DEF TripRows

\* Depositing keeps the rows there are, with their numbers.
LEMMA DepositKeeps ==
    ASSUME ledger \in Seq(Entries), NEW e \in Entries
    PROVE  \A i \in DOMAIN ledger :
             i \in DOMAIN Deposit(e) /\ Deposit(e)[i] = ledger[i]
  BY DEF Deposit

\* A deposit about a user is no row of any trip.
LEMMA UserDeposit ==
    ASSUME ledger \in Seq(Entries), NEW e \in Entries, e.type = "user", NEW o
    PROVE  TripRows(Deposit(e), o) = TripRows(ledger, o)
  <1>1. ~(e.type = "trip" /\ e.ref = o)
    OBVIOUS
  <1>2. TripRows(Append(ledger, e), o) = TripRows(ledger, o) \cup {}
    BY <1>1, AppendTripRows, Zenon
  <1>. QED
    BY <1>2 DEF Deposit

\* A deposit about a trip is no row of another trip.
LEMMA TripDeposit ==
    ASSUME ledger \in Seq(Entries), NEW e \in Entries, e.type = "trip", NEW o
    PROVE  /\ e.ref # o => TripRows(Deposit(e), o) = TripRows(ledger, o)
           /\ e.ref = o /\ TripRows(ledger, o) = {} =>
                \/ TripRows(Deposit(e), o) = {}
                \/ /\ TripRows(Deposit(e), o) = {Len(ledger) + 1}
                   /\ Len(ledger) + 1 \in DOMAIN Deposit(e)
                   /\ Deposit(e)[Len(ledger) + 1] = e
  <1>1. TripRows(Append(ledger, e), o) =
          TripRows(ledger, o) \cup
          (IF e.ref = o THEN {Len(ledger) + 1} ELSE {})
    BY AppendTripRows
  <1>2. /\ Len(ledger) + 1 \in DOMAIN Append(ledger, e)
        /\ Append(ledger, e)[Len(ledger) + 1] = e
    OBVIOUS
  <1>. QED
    BY <1>1, <1>2 DEF Deposit

----------------------------------------------------------------------------
(* Type correctness.                                                       *)

\* The request of a client is a job of a session.
LEMMA RequestType ==
    ASSUME NEW o \in Options, NEW k \in KeySpace
    PROVE  Request(o, k) \in Jobs
  BY AttemptsAssumption DEF Request, Jobs

\* The ledger row of an arrival names the trip, its owner and the reward.
LEMMA RewardEntryType ==
    ASSUME NEW s \in Sessions, job[s] \in Jobs
    PROVE  /\ job[s].trip \in Options
           /\ RewardEntry(s) \in Entries
           /\ RewardEntry(s).type = "trip"
           /\ RewardEntry(s).ref = job[s].trip
           /\ RewardEntry(s).user = Owner[job[s].trip]
           /\ RewardEntry(s).amount = Reward[job[s].trip]
  BY DataAssumption DEF RewardEntry, Entries, Jobs

\* The ledger row of the demo sync is a ledger row.
LEMMA SyncEntryType ==
    ASSUME NEW u \in Users
    PROVE  SyncEntry(u) \in Entries
  BY DataAssumption DEF SyncEntry, Entries, KeySpace

\* Issuing codes for cities adds codes only.
LEMMA IssuePromosType ==
    ASSUME promos \subseteq Promos, NEW u \in Users,
           NEW C \in SUBSET Cities, IssuePromos(u, C)
    PROVE  promos' \subseteq Promos
  BY DEF IssuePromos, Promos

\* Every variable stays in its type.
THEOREM TypeCorrect == Spec => []TypeOK
  <1>1. Init => TypeOK
    BY DEF Init, TypeOK, Statuses, Steps
  <1>2. TypeOK /\ [Next]_vars => TypeOK'
    <2>. SUFFICES ASSUME TypeOK, [Next]_vars PROVE TypeOK'
      OBVIOUS
    <2>. USE DEF TypeOK
    <2>1. ASSUME NEW o \in Options, SelectOption(o) \/ Expire(o)
          PROVE  TypeOK'
      BY <2>1 DEF SelectOption, Expire, Statuses, history
    <2>2. ASSUME NEW s \in Sessions, NEW o \in Options, CheckoutStart(s, o)
          PROVE  TypeOK'
      BY <2>2, RequestType DEF CheckoutStart, Steps, tables, history, KeySpace
    <2>3. ASSUME NEW s \in Sessions, NEW o \in Options, NEW k \in Keys,
                 ArriveCall(s, o, k)
          PROVE  TypeOK'
      BY <2>3, RequestType DEF ArriveCall, Steps, tables, history, KeySpace
    <2>4. ASSUME NEW s \in Sessions, SaveCheckout(s)
          PROVE  TypeOK'
      BY <2>4 DEF SaveCheckout, Finish, Statuses, Steps, history
    <2>5. ASSUME NEW s \in Sessions, ArriveLock(s)
          PROVE  TypeOK'
      BY <2>5 DEF ArriveLock, Steps, tables, history
    <2>6. ASSUME NEW s \in Sessions, ArriveReplay(s)
          PROVE  TypeOK'
      <3>1. PICK i \in DOMAIN ledger :
              job' = [job EXCEPT ![s].reward = i, ![s].replayed = TRUE]
        BY <2>6 DEF ArriveReplay
      <3>2. i \in Nat /\ job[s] \in Jobs
        BY <2>6 DEF ArriveReplay
      <3>3. job'[s] \in Jobs
        BY <3>1, <3>2 DEF Jobs
      <3>. QED
        BY <2>6, <3>1, <3>3 DEF ArriveReplay, Steps, tables, history
    <2>7. ASSUME NEW s \in Sessions,
                 ArriveReject(s) \/ ArriveKeyTaken(s) \/ Fail(s)
          PROVE  TypeOK'
      BY <2>7 DEF ArriveReject, ArriveKeyTaken, Fail, Finish, Steps, tables,
                  history
    <2>8. ASSUME NEW s \in Sessions, ArriveCommit(s)
          PROVE  TypeOK'
      <3>1. job[s] \in Jobs
        BY <2>8 DEF ArriveCommit
      <3>2. ledger' \in Seq(Entries)
        BY <2>8, <3>1, RewardEntryType, DepositType DEF ArriveCommit
      <3>3. PICK i \in DOMAIN ledger' : job' = [job EXCEPT ![s].reward = i]
        BY <2>8 DEF ArriveCommit
      <3>4. i \in Nat
        BY <3>2
      <3>5. job'[s] \in Jobs /\ job' \in [Sessions -> Jobs \cup {NoJob}]
        BY <3>1, <3>3, <3>4 DEF Jobs
      <3>6. job[s].trip \in Options
        BY <3>1 DEF Jobs
      <3>7. promos' \subseteq Promos
        <4>1. IssuePromos(Owner[job[s].trip], {City[job[s].trip]})
          BY <2>8 DEF ArriveCommit
        <4>2. Owner[job[s].trip] \in Users /\ City[job[s].trip] \in Cities
          BY <3>6, DataAssumption
        <4>3. {City[job[s].trip]} \in SUBSET Cities
          BY <4>2
        <4>. HIDE DEF TypeOK
        <4>4. promos \subseteq Promos
          BY DEF TypeOK
        <4>. QED
          BY <4>1, <4>2, <4>3, <4>4, IssuePromosType
      <3>8. /\ season' \in [Options -> Nat]
            /\ outbox' \in [Options -> Nat]
        BY <2>8, <3>6 DEF ArriveCommit, InsertOnce
      <3>9. visits' \in [Users -> SUBSET Cities]
        <4>1. City[job[s].trip] \in Cities
          BY <3>6, DataAssumption
        <4>. QED
          BY <2>8, <4>1 DEF ArriveCommit
      <3>10. trips' \in [Options -> Statuses]
        BY <2>8, <3>6 DEF ArriveCommit, Statuses
      <3>11. \A t \in Sessions : pc'[t] # "idle" => job'[t] \in Jobs
        BY <2>8, <3>3, <3>5 DEF ArriveCommit
      <3>12. /\ pc' \in [Sessions -> Steps]
             /\ UNCHANGED <<expired, told, fresh>>
        BY <2>8 DEF ArriveCommit, Steps, history
      <3>. QED
        BY <3>2, <3>5, <3>7, <3>8, <3>9, <3>10, <3>11, <3>12
    <2>9. ASSUME NEW s \in Sessions, ArriveRetry(s)
          PROVE  TypeOK'
      <3>1. job[s] \in Jobs
        BY <2>9 DEF ArriveRetry
      <3>2. job'[s] = [job[s] EXCEPT !.attempt = @ + 1]
        BY <2>9 DEF ArriveRetry
      <3>3. job[s].attempt + 1 \in 1 .. MaxAttempts
        BY <2>9, <3>1, AttemptsAssumption DEF ArriveRetry, Jobs
      <3>4. job'[s] \in Jobs
        BY <3>1, <3>2, <3>3 DEF Jobs
      <3>. QED
        BY <2>9, <3>4 DEF ArriveRetry, Steps, tables, history
    <2>10. ASSUME NEW s \in Sessions, Answer(s)
           PROVE  TypeOK'
      <3>1. job[s] \in Jobs
        BY <2>10 DEF Answer
      <3>. QED
        BY <2>10, <3>1 DEF Answer, Finish, Steps, Jobs, tables
    <2>11. CASE Crash
      BY <2>11 DEF Crash, Steps, tables, history
    <2>12. ASSUME NEW u \in Users, DemoSync(u)
           PROVE  TypeOK'
      <3>1. visits' \in [Users -> SUBSET Cities]
        BY <2>12, DataAssumption DEF DemoSync
      <3>2. ledger' \in Seq(Entries)
        BY <2>12, SyncEntryType, DepositType DEF DemoSync
      <3>3. promos' \subseteq Promos
        BY <2>12, <3>1, IssuePromosType DEF DemoSync
      <3>. QED
        BY <2>12, <3>1, <3>2, <3>3 DEF DemoSync, history
    <2>13. CASE UNCHANGED vars
      BY <2>13 DEF vars, tables, history
    <2>. QED
      BY <2>1, <2>2, <2>3, <2>4, <2>5, <2>6, <2>7, <2>8, <2>9, <2>10, <2>11,
         <2>12, <2>13 DEF Next, Progress
  <1>. QED
    BY <1>1, <1>2, PTL DEF Spec

----------------------------------------------------------------------------
(* The payment invariant.                                                  *)

\* Steps that touch no table and no history keep the invariant as long as
\* they enter neither a lock nor an answer.
LEMMA QuietStep ==
    ASSUME PaymentInv, TypeOK', UNCHANGED <<tables, history>>,
           \A s \in Sessions : pc'[s] \in {"locked", "answer"} =>
               pc'[s] = pc[s] /\ job'[s] = job[s]
    PROVE  PaymentInv'
  <1>. USE DEF PaymentInv, tables, history
  <1>1. LockedTripStable'
    BY DEF LockedTripStable
  <1>2. RewardIffArrived' /\ ArrivalComplete' /\ AnswersAgree'
    BY DEF RewardIffArrived, ArrivalComplete, AnswersAgree
  <1>3. AnswerPending'
    BY DEF AnswerPending
  <1>. QED
    BY <1>1, <1>2, <1>3

\* A step that changes the status of trips that have not arrived, to one in
\* which they have not arrived either.
LEMMA StatusStep ==
    ASSUME PaymentInv, TypeOK', UNCHANGED <<visits, ledger, season, outbox>>,
           UNCHANGED history,
           \A o \in Options : trips[o] = "arrived" <=> trips'[o] = "arrived",
           \A o \in Options : RowLocked(o) => trips'[o] = trips[o],
           \A s \in Sessions : pc'[s] \in {"locked", "answer"} =>
               pc'[s] = pc[s] /\ job'[s] = job[s]
    PROVE  PaymentInv'
  <1>. USE DEF PaymentInv, history
  <1>1. LockedTripStable'
    <2>1. ASSUME NEW s \in Sessions, pc'[s] = "locked"
          PROVE  /\ pc[s] = "locked" /\ job'[s] = job[s]
                 /\ job[s].trip \in Options
                 /\ trips'[job[s].trip] = trips[job[s].trip]
      BY <2>1 DEF RowLocked, TypeOK, Jobs
    <2>. QED
      BY <2>1 DEF LockedTripStable
  <1>2. RewardIffArrived' /\ ArrivalComplete' /\ AnswersAgree'
    BY DEF RewardIffArrived, ArrivalComplete, AnswersAgree
  <1>3. AnswerPending'
    <2>1. ASSUME NEW s \in Sessions, pc'[s] = "answer"
          PROVE  /\ pc[s] = "answer" /\ job'[s] = job[s]
                 /\ job[s].trip \in Options
                 /\ trips'[job[s].trip] = "arrived"
      BY <2>1 DEF AnswerPending, TypeOK, Jobs
    <2>. QED
      BY <2>1 DEF AnswerPending
  <1>. QED
    BY <1>1, <1>2, <1>3

\* Paying: the one step that makes a trip arrived.
LEMMA CommitStep ==
    ASSUME PaymentInv, TypeOK', NEW s \in Sessions, ArriveCommit(s)
    PROVE  PaymentInv'
  <1>. DEFINE o == job[s].trip
              e == RewardEntry(s)
  <1>1. /\ TypeOK
        /\ job[s] \in Jobs
        /\ pc[s] = "locked"
        /\ o \in Options
        /\ trips[o] # "arrived"
    BY DEF PaymentInv, TypeOK, ArriveCommit, LockedTripStable, Arrivable, Jobs
  <1>2. /\ e \in Entries /\ e.type = "trip" /\ e.ref = o
        /\ e.user = Owner[o] /\ e.amount = Reward[o]
    BY <1>1, RewardEntryType
  <1>3. /\ ledger \in Seq(Entries) /\ ledger' = Deposit(e)
        /\ TripRows(ledger, o) = {}
        /\ told[o] = {} /\ fresh[o] = 0
    BY <1>1 DEF ArriveCommit, PaymentInv, TypeOK, RewardIffArrived,
                AnswerPending
  <1>4. PICK i \in DOMAIN ledger' : /\ RewardByTrip(ledger', o, i)
                                    /\ job' = [job EXCEPT ![s].reward = i]
    BY DEF ArriveCommit
  <1>5. /\ i = Len(ledger) + 1
        /\ TripRows(ledger', o) = {i}
        /\ ledger'[i] = e
    <2>1. i \in TripRows(ledger', o)
      BY <1>4 DEF RewardByTrip
    <2>2. /\ TripRows(ledger', o) = {Len(ledger) + 1}
          /\ ledger'[Len(ledger) + 1] = e
      BY <1>2, <1>3, <2>1, TripDeposit
    <2>. QED
      BY <2>1, <2>2
  <1>6. \A p \in Options \ {o} : TripRows(ledger', p) = TripRows(ledger, p)
    BY <1>2, <1>3, TripDeposit
  <1>7. \A j \in DOMAIN ledger : j \in DOMAIN ledger' /\ ledger'[j] = ledger[j]
    BY <1>2, <1>3, DepositKeeps
  <1>8. /\ trips' = [trips EXCEPT ![o] = "arrived"]
        /\ pc' = [pc EXCEPT ![s] = "answer"]
        /\ UNCHANGED <<told, fresh>>
    BY DEF ArriveCommit, history
  <1>9. /\ trips \in [Options -> Statuses]
        /\ pc \in [Sessions -> Steps]
        /\ job \in [Sessions -> Jobs \cup {NoJob}]
        /\ \A t \in Sessions : pc[t] # "idle" => job[t] \in Jobs
    BY <1>1 DEF TypeOK
  <1>10. \A t \in Sessions \ {s} : job'[t] = job[t] /\ pc'[t] = pc[t]
    BY <1>4, <1>8, <1>9
  <1>11. /\ job'[s].trip = o /\ job'[s].reward = i
         /\ job'[s].replayed = job[s].replayed
         /\ pc'[s] = "answer"
    BY <1>1, <1>4, <1>8, <1>9 DEF Jobs
  <1>12. /\ trips'[o] = "arrived"
         /\ \A p \in Options \ {o} : trips'[p] = trips[p]
    BY <1>1, <1>8, <1>9
  <1>13. \A t \in Sessions \ {s} :
            pc[t] \in {"locked", "answer"} => job[t].trip \in Options \ {o}
    BY <1>1, <1>9 DEF PaymentInv, LockedTripStable, AnswerPending, Jobs
  <1>14. LockedTripStable'
    BY <1>10, <1>11, <1>12, <1>13 DEF PaymentInv, LockedTripStable
  <1>15. RewardIffArrived'
    <2>1. \E k \in DOMAIN ledger' : /\ TripRows(ledger', o) = {k}
                                    /\ ledger'[k].user = Owner[o]
                                    /\ ledger'[k].amount = Reward[o]
      BY <1>2, <1>4, <1>5
    <2>2. ASSUME NEW p \in Options \ {o}, trips[p] # "arrived"
          PROVE  TripRows(ledger', p) = {}
      BY <1>6, <2>2 DEF PaymentInv, RewardIffArrived
    <2>3. ASSUME NEW p \in Options \ {o}, trips[p] = "arrived"
          PROVE  \E k \in DOMAIN ledger' : /\ TripRows(ledger', p) = {k}
                                           /\ ledger'[k].user = Owner[p]
                                           /\ ledger'[k].amount = Reward[p]
      <3>1. PICK k \in DOMAIN ledger : /\ TripRows(ledger, p) = {k}
                                       /\ ledger[k].user = Owner[p]
                                       /\ ledger[k].amount = Reward[p]
        BY <2>3 DEF PaymentInv, RewardIffArrived
      <3>. QED
        BY <1>6, <1>7, <3>1
    <2>. QED
      BY <1>12, <2>1, <2>2, <2>3 DEF RewardIffArrived
  <1>16. ArrivalComplete'
    <2>1. ASSUME NEW p \in Options \ {o}
          PROVE  /\ visits[Owner[p]] \subseteq visits'[Owner[p]]
                 /\ season'[p] = season[p] /\ outbox'[p] = outbox[p]
      BY <1>1, <2>1, DataAssumption DEF ArriveCommit, InsertOnce, TypeOK
    <2>2. /\ City[o] \in visits'[Owner[o]]
          /\ outbox'[o] = 1
          /\ season'[o] = IF SeasonActive THEN 1 ELSE 0
      BY <1>1, DataAssumption
         DEF ArriveCommit, InsertOnce, TypeOK, PaymentInv, ArrivalComplete
    <2>. QED
      BY <1>12, <2>1, <2>2 DEF PaymentInv, ArrivalComplete
  <1>17. AnswersAgree'
    BY <1>3, <1>6, <1>8 DEF PaymentInv, AnswersAgree
  <1>18. AnswerPending'
    <2>1. \A t \in Sessions : pc'[t] = "answer" =>
            /\ trips'[job'[t].trip] = "arrived"
            /\ TripRows(ledger', job'[t].trip) = {job'[t].reward}
            /\ ~job'[t].replayed => fresh'[job'[t].trip] = 0
      <3>1. ASSUME NEW t \in Sessions \ {s}, pc[t] = "answer"
            PROVE  /\ job[t].trip \in Options \ {o}
                   /\ trips'[job[t].trip] = "arrived"
                   /\ TripRows(ledger', job[t].trip) = {job[t].reward}
                   /\ ~job[t].replayed => fresh'[job[t].trip] = 0
        <4>1. job[t].trip \in Options \ {o}
          BY <1>13, <3>1
        <4>2. TripRows(ledger', job[t].trip) = TripRows(ledger, job[t].trip)
          BY <1>6, <4>1
        <4>. QED
          BY <1>8, <1>12, <3>1, <4>1, <4>2 DEF PaymentInv, AnswerPending
      <3>2. /\ trips'[job'[s].trip] = "arrived"
            /\ TripRows(ledger', job'[s].trip) = {job'[s].reward}
            /\ fresh'[job'[s].trip] = 0
        BY <1>3, <1>5, <1>8, <1>11, <1>12
      <3>. QED
        BY <1>10, <3>1, <3>2
    <2>2. \A t, v \in Sessions :
            /\ pc'[t] = "answer" /\ ~job'[t].replayed
            /\ pc'[v] = "answer" /\ ~job'[v].replayed
            /\ job'[t].trip = job'[v].trip
            => t = v
      BY <1>10, <1>11, <1>13 DEF PaymentInv, AnswerPending
    <2>3. \A p \in Options :
            trips'[p] # "arrived" => told'[p] = {} /\ fresh'[p] = 0
      BY <1>8, <1>12 DEF PaymentInv, AnswerPending
    <2>. QED
      BY <2>1, <2>2, <2>3 DEF AnswerPending
  <1>. QED
    BY <1>14, <1>15, <1>16, <1>17, <1>18 DEF PaymentInv

\* What is proved inductively: the payments with what they rest on.
LEMMA PaymentInvariant == Spec => []PaymentInv
  <1>1. Init => PaymentInv
    <2>. SUFFICES ASSUME Init PROVE PaymentInv
      OBVIOUS
    <2>1. TypeOK
      BY DEF Init, TypeOK, Statuses, Steps
    <2>2. \A o \in Options : TripRows(ledger, o) = {}
      BY DEF Init, TripRows
    <2>. QED
      BY <2>1, <2>2 DEF Init, PaymentInv, LockedTripStable, RewardIffArrived,
                        ArrivalComplete, AnswersAgree, AnswerPending
  <1>2. PaymentInv /\ TypeOK' /\ [Next]_vars => PaymentInv'
    <2>. SUFFICES ASSUME PaymentInv, TypeOK', [Next]_vars PROVE PaymentInv'
      OBVIOUS
    <2>0. TypeOK
      BY DEF PaymentInv
    <2>1. ASSUME NEW o \in Options, SelectOption(o) \/ Expire(o)
          PROVE  PaymentInv'
      <3>1. UNCHANGED <<visits, ledger, season, outbox, pc, job, history>>
        BY <2>1 DEF SelectOption, Expire
      <3>2. \A p \in Options : trips'[p] = trips[p] \/
              (trips[p] = "none" /\ trips'[p] = "planned")
        BY <2>0, <2>1 DEF SelectOption, Expire, TypeOK
      <3>3. \A p \in Options : RowLocked(p) => trips[p] # "none"
        BY DEF RowLocked, PaymentInv, LockedTripStable, Arrivable
      <3>. QED
        BY <3>1, <3>2, <3>3, StatusStep
    <2>2. ASSUME NEW s \in Sessions, NEW o \in Options, CheckoutStart(s, o)
          PROVE  PaymentInv'
      BY <2>0, <2>2, QuietStep DEF CheckoutStart, TypeOK
    <2>3. ASSUME NEW s \in Sessions, NEW o \in Options, NEW k \in Keys,
                 ArriveCall(s, o, k)
          PROVE  PaymentInv'
      BY <2>0, <2>3, QuietStep DEF ArriveCall, TypeOK
    <2>4. ASSUME NEW s \in Sessions, SaveCheckout(s)
          PROVE  PaymentInv'
      <3>. DEFINE o == job[s].trip
      <3>1. o \in Options
        BY <2>0, <2>4 DEF SaveCheckout, TypeOK, Jobs
      <3>2. \A p \in Options : trips'[p] = trips[p] \/
              (p = o /\ trips[p] \in CheckoutAllowed
                     /\ trips'[p] = "checkout_created")
        BY <2>0, <2>4 DEF SaveCheckout, TypeOK
      <3>3. ~RowLocked(o)
        BY <2>4 DEF SaveCheckout
      <3>4. \A t \in Sessions : pc'[t] \in {"locked", "answer"} =>
              pc'[t] = pc[t] /\ job'[t] = job[t]
        BY <2>0, <2>4 DEF SaveCheckout, Finish, TypeOK
      <3>5. UNCHANGED <<visits, ledger, season, outbox, history>>
        BY <2>4 DEF SaveCheckout
      <3>. QED
        BY <3>1, <3>2, <3>3, <3>4, <3>5, StatusStep DEF CheckoutAllowed
    <2>5. ASSUME NEW s \in Sessions, ArriveLock(s)
          PROVE  PaymentInv'
      <3>. DEFINE o == job[s].trip
      <3>1. /\ pc' = [pc EXCEPT ![s] = "locked"]
            /\ UNCHANGED <<tables, job, history>>
            /\ trips[o] \in Arrivable
            /\ \A t \in Sessions : pc[t] = "locked" => job[t].trip # o
        BY <2>5 DEF ArriveLock, RowLocked
      <3>2. LockedTripStable'
        BY <2>0, <3>1 DEF PaymentInv, LockedTripStable, TypeOK, tables
      <3>3. RewardIffArrived' /\ ArrivalComplete' /\ AnswersAgree'
        BY <3>1 DEF PaymentInv, RewardIffArrived, ArrivalComplete,
                    AnswersAgree, tables, history
      <3>4. AnswerPending'
        BY <2>0, <3>1 DEF PaymentInv, AnswerPending, TypeOK, tables, history
      <3>. QED
        BY <3>2, <3>3, <3>4 DEF PaymentInv
    <2>6. ASSUME NEW s \in Sessions, ArriveReplay(s)
          PROVE  PaymentInv'
      <3>. DEFINE o == job[s].trip
      <3>1. PICK i \in DOMAIN ledger :
              /\ RewardByTrip(ledger, o, i)
              /\ job' = [job EXCEPT ![s].reward = i, ![s].replayed = TRUE]
        BY <2>6 DEF ArriveReplay
      <3>2. /\ pc' = [pc EXCEPT ![s] = "answer"]
            /\ UNCHANGED <<tables, history>>
            /\ trips[o] = "arrived"
            /\ job[s] \in Jobs /\ o \in Options
        BY <2>0, <2>6 DEF ArriveReplay, TypeOK, Jobs
      <3>3. TripRows(ledger, o) = {i}
        BY <3>1, <3>2 DEF PaymentInv, RewardIffArrived, RewardByTrip
      <3>4. /\ job'[s].trip = o /\ job'[s].reward = i /\ job'[s].replayed
            /\ \A t \in Sessions \ {s} : job'[t] = job[t] /\ pc'[t] = pc[t]
            /\ pc'[s] = "answer"
        BY <2>0, <3>1, <3>2 DEF TypeOK, Jobs
      <3>5. LockedTripStable'
        BY <3>2, <3>4 DEF PaymentInv, LockedTripStable, tables
      <3>6. RewardIffArrived' /\ ArrivalComplete' /\ AnswersAgree'
        BY <3>2 DEF PaymentInv, RewardIffArrived, ArrivalComplete,
                    AnswersAgree, tables, history
      <3>7. AnswerPending'
        BY <3>2, <3>3, <3>4 DEF PaymentInv, AnswerPending, tables, history
      <3>. QED
        BY <3>5, <3>6, <3>7 DEF PaymentInv
    <2>7. ASSUME NEW s \in Sessions,
                 ArriveReject(s) \/ ArriveKeyTaken(s) \/ Fail(s)
          PROVE  PaymentInv'
      BY <2>0, <2>7, QuietStep
         DEF ArriveReject, ArriveKeyTaken, Fail, Finish, TypeOK
    <2>8. ASSUME NEW s \in Sessions, ArriveCommit(s)
          PROVE  PaymentInv'
      BY <2>8, CommitStep
    <2>9. ASSUME NEW s \in Sessions, ArriveRetry(s)
          PROVE  PaymentInv'
      BY <2>0, <2>9, QuietStep DEF ArriveRetry, TypeOK
    <2>10. ASSUME NEW s \in Sessions, Answer(s)
           PROVE  PaymentInv'
      <3>. DEFINE o == job[s].trip
      <3>1. /\ o \in Options /\ job[s] \in Jobs /\ pc[s] = "answer"
            /\ trips[o] = "arrived"
            /\ TripRows(ledger, o) = {job[s].reward}
            /\ ~job[s].replayed => fresh[o] = 0
        BY <2>0, <2>10 DEF Answer, TypeOK, Jobs, PaymentInv, AnswerPending
      <3>2. /\ UNCHANGED tables
            /\ pc' = [pc EXCEPT ![s] = "idle"]
            /\ job' = [job EXCEPT ![s] = NoJob]
            /\ told' = [told EXCEPT ![o] = @ \cup {job[s].reward}]
            /\ fresh' = IF job[s].replayed THEN fresh
                        ELSE [fresh EXCEPT ![o] = @ + 1]
        BY <2>10 DEF Answer, Finish
      <3>3. /\ pc'[s] = "idle"
            /\ \A t \in Sessions \ {s} : job'[t] = job[t] /\ pc'[t] = pc[t]
        BY <2>0, <3>2 DEF TypeOK
      <3>4. /\ \A p \in Options \ {o} : told'[p] = told[p] /\ fresh'[p] = fresh[p]
            /\ told'[o] = told[o] \cup {job[s].reward}
            /\ fresh'[o] = IF job[s].replayed THEN fresh[o] ELSE 1
        BY <2>0, <3>1, <3>2 DEF TypeOK
      <3>5. LockedTripStable'
        BY <3>2, <3>3 DEF PaymentInv, LockedTripStable, tables
      <3>6. RewardIffArrived' /\ ArrivalComplete'
        BY <3>2 DEF PaymentInv, RewardIffArrived, ArrivalComplete, tables
      <3>7. AnswersAgree'
        BY <3>1, <3>2, <3>4 DEF PaymentInv, AnswersAgree, tables
      <3>8. AnswerPending'
        <4>1. ASSUME NEW t \in Sessions, pc'[t] = "answer", ~job'[t].replayed
              PROVE  fresh'[job'[t].trip] = 0
          <5>1. t # s /\ pc[t] = "answer" /\ job'[t] = job[t]
            BY <3>3, <4>1
          <5>2. job[t].trip \in Options /\ fresh[job[t].trip] = 0
            BY <2>0, <4>1, <5>1
               DEF TypeOK, Jobs, PaymentInv, AnswerPending
          <5>3. job[t].trip = o => job[s].replayed
            BY <3>1, <4>1, <5>1 DEF PaymentInv, AnswerPending
          <5>. QED
            BY <3>4, <5>1, <5>2, <5>3
        <4>2. \A p \in Options : trips[p] # "arrived" =>
                told'[p] = {} /\ fresh'[p] = 0
          BY <3>1, <3>4 DEF PaymentInv, AnswerPending
        <4>. QED
          BY <3>2, <3>3, <4>1, <4>2 DEF PaymentInv, AnswerPending, tables
      <3>. QED
        BY <3>5, <3>6, <3>7, <3>8 DEF PaymentInv
    <2>11. CASE Crash
      BY <2>11, QuietStep DEF Crash
    <2>12. ASSUME NEW u \in Users, DemoSync(u)
           PROVE  PaymentInv'
      <3>1. /\ ledger' = Deposit(SyncEntry(u))
            /\ visits' = [visits EXCEPT ![u] = @ \cup SyncCities[u]]
            /\ UNCHANGED <<trips, season, outbox, pc, job, told, fresh>>
        BY <2>12 DEF DemoSync, history
      <3>2. /\ SyncEntry(u) \in Entries /\ SyncEntry(u).type = "user"
            /\ ledger \in Seq(Entries)
        BY <2>0, SyncEntryType DEF SyncEntry, TypeOK
      <3>3. \A o \in Options : TripRows(ledger', o) = TripRows(ledger, o)
        BY <3>1, <3>2, UserDeposit
      <3>4. \A i \in DOMAIN ledger :
              i \in DOMAIN ledger' /\ ledger'[i] = ledger[i]
        BY <3>1, <3>2, DepositKeeps
      <3>5. \A v \in Users : visits[v] \subseteq visits'[v]
        BY <2>0, <3>1 DEF TypeOK
      <3>6. LockedTripStable'
        BY <3>1 DEF PaymentInv, LockedTripStable
      <3>7. RewardIffArrived'
        BY <3>1, <3>3, <3>4 DEF PaymentInv, RewardIffArrived
      <3>8. ArrivalComplete'
        BY <3>1, <3>5, DataAssumption DEF PaymentInv, ArrivalComplete
      <3>9. AnswersAgree'
        BY <3>1, <3>3 DEF PaymentInv, AnswersAgree
      <3>10. AnswerPending'
        BY <2>0, <3>1, <3>3 DEF PaymentInv, AnswerPending, TypeOK, Jobs
      <3>. QED
        BY <3>6, <3>7, <3>8, <3>9, <3>10 DEF PaymentInv
    <2>13. CASE UNCHANGED vars
      BY <2>13, QuietStep DEF vars
    <2>. QED
      BY <2>1, <2>2, <2>3, <2>4, <2>5, <2>6, <2>7, <2>8, <2>9, <2>10, <2>11,
         <2>12, <2>13 DEF Next, Progress
  <1>. QED
    BY <1>1, <1>2, TypeCorrect, PTL DEF Spec

\* A trip is paid exactly when it has arrived, once, to its owner and with the
\* option's reward.
THEOREM RewardCorrect == Spec => []RewardIffArrived
  <1>1. PaymentInv => RewardIffArrived
    BY DEF PaymentInv
  <1>. QED
    BY <1>1, PaymentInvariant, PTL

\* An arrival is all or nothing across visit, ledger, season and outbox.
THEOREM ArrivalIsAtomic == Spec => []ArrivalComplete
  <1>1. PaymentInv => ArrivalComplete
    BY DEF PaymentInv
  <1>. QED
    BY <1>1, PaymentInvariant, PTL

\* Whatever clients are told of an arrival is the one payment of the trip, and
\* at most one of them is told it is new.
THEOREM AnswersCorrect == Spec => []AnswersAgree
  <1>1. PaymentInv => AnswersAgree
    BY DEF PaymentInv
  <1>. QED
    BY <1>1, PaymentInvariant, PTL

\* One transaction at a time holds a trip, and the trip can still arrive.
THEOREM LockCorrect == Spec => []LockedTripStable
  <1>1. PaymentInv => LockedTripStable
    BY DEF PaymentInv
  <1>. QED
    BY <1>1, PaymentInvariant, PTL

----------------------------------------------------------------------------
(* The promo codes.                                                        *)

\* The INSERT of promo codes leaves none missing: if a user visits further
\* cities and codes are issued for at least those, then every visited city
\* has its code again, once, and no code is for a city not visited.
LEMMA IssueKeepsPromos ==
    ASSUME TypeOK, PromoPerVisitedCity, NEW u \in Users,
           NEW D \in SUBSET Cities, NEW C \in SUBSET Cities, D \subseteq C,
           visits' = [visits EXCEPT ![u] = @ \cup D], C \subseteq visits'[u],
           IssuePromos(u, C)
    PROVE  PromoPerVisitedCity'
  <1>. DEFINE rows == {[user |-> u, city |-> c] : c \in C \cap PromoCities}
  <1>1. PICK new \in SUBSET (rows \ promos) :
          /\ \A p \in new, q \in promos \cup new : Clash(p, q) => p = q
          /\ \A p \in rows : \E q \in promos \cup new : Clash(p, q)
          /\ promos' = promos \cup new
    BY DEF IssuePromos
  <1>2. /\ \A p \in new : p.user = u /\ p.city \in C
        /\ \A c \in C \cap PromoCities : [user |-> u, city |-> c] \in rows
        /\ visits \in [Users -> SUBSET Cities]
        /\ promos \subseteq Promos
    BY DEF TypeOK
  <1>3. /\ visits'[u] = visits[u] \cup D
        /\ \A v \in Users \ {u} : visits'[v] = visits[v]
        /\ \A v \in Users : visits[v] \subseteq visits'[v]
    BY <1>2
  <1>4. ASSUME NEW v \in Users, NEW c \in visits'[v] \cap PromoCities
        PROVE  \E p \in promos' : Code[p.user][p.city] = Code[v][c]
    <2>1. CASE c \in visits[v]
      BY <2>1, <1>1 DEF PromoPerVisitedCity
    <2>2. CASE c \notin visits[v]
      <3>1. v = u /\ c \in C \cap PromoCities
        BY <2>2, <1>3
      <3>2. PICK q \in promos' : Clash([user |-> u, city |-> c], q)
        BY <3>1, <1>1, <1>2
      <3>3. Code[u][c] = Code[q.user][q.city]
        BY <3>2 DEF Clash
      <3>. QED
        BY <3>1, <3>2, <3>3
    <2>. QED
      BY <2>1, <2>2
  <1>5. ASSUME NEW p \in promos', NEW q \in promos',
               Code[p.user][p.city] = Code[q.user][q.city]
        PROVE  p = q
    <2>1. Clash(p, q) /\ Clash(q, p)
      BY <1>5 DEF Clash
    <2>2. CASE p \in new \/ q \in new
      BY <2>1, <2>2, <1>1
    <2>3. CASE p \in promos /\ q \in promos
      BY <2>3, <1>5 DEF PromoPerVisitedCity
    <2>. QED
      BY <2>2, <2>3, <1>1
  <1>6. ASSUME NEW p \in promos'
        PROVE  p.city \in visits'[p.user]
    <2>1. CASE p \in new
      BY <2>1, <1>2
    <2>2. CASE p \in promos
      BY <2>2, <1>2, <1>3 DEF PromoPerVisitedCity, Promos
    <2>. QED
      BY <2>1, <2>2, <1>1
  <1>. QED
    BY <1>4, <1>5, <1>6 DEF PromoPerVisitedCity

\* Every visited city with a promo percentage has its code, once, unless
\* another user's city hashed to the same digits; no code is for a city its
\* user never visited.
THEOREM PromosCorrect == Spec => []PromoPerVisitedCity
  <1>1. Init => PromoPerVisitedCity
    BY DEF Init, PromoPerVisitedCity
  <1>2. TypeOK /\ TypeOK' /\ PromoPerVisitedCity /\ [Next]_vars
          => PromoPerVisitedCity'
    <2>. SUFFICES ASSUME TypeOK, TypeOK', PromoPerVisitedCity, [Next]_vars
                  PROVE  PromoPerVisitedCity'
      OBVIOUS
    <2>1. ASSUME UNCHANGED <<visits, promos>>
          PROVE  PromoPerVisitedCity'
      BY <2>1 DEF PromoPerVisitedCity
    <2>2. ASSUME NEW s \in Sessions, ArriveCommit(s)
          PROVE  PromoPerVisitedCity'
      <3>. DEFINE o == job[s].trip
      <3>1. o \in Options /\ Owner[o] \in Users /\ City[o] \in Cities
        BY <2>2, DataAssumption DEF TypeOK, ArriveCommit, Jobs
      <3>2. /\ visits' = [visits EXCEPT ![Owner[o]] = @ \cup {City[o]}]
            /\ IssuePromos(Owner[o], {City[o]})
        BY <2>2 DEF ArriveCommit
      <3>3. {City[o]} \subseteq visits'[Owner[o]]
        BY <3>1, <3>2 DEF TypeOK
      <3>4. {City[o]} \in SUBSET Cities
        BY <3>1
      <3>. HIDE DEF o
      <3>. QED
        BY <3>1, <3>2, <3>3, <3>4, IssueKeepsPromos
    <2>3. ASSUME NEW u \in Users, DemoSync(u)
          PROVE  PromoPerVisitedCity'
      <3>1. /\ visits' = [visits EXCEPT ![u] = @ \cup SyncCities[u]]
            /\ IssuePromos(u, visits'[u])
        BY <2>3 DEF DemoSync
      <3>2. SyncCities[u] \in SUBSET Cities /\ visits'[u] \in SUBSET Cities
        BY DataAssumption DEF TypeOK
      <3>3. SyncCities[u] \subseteq visits'[u]
        BY <3>1 DEF TypeOK
      <3>. QED
        BY <3>1, <3>2, <3>3, IssueKeepsPromos
    <2>. QED
      <3>1. CASE UNCHANGED vars
        BY <3>1, <2>1 DEF vars, tables
      <3>2. CASE Next
        BY <3>2, <2>1, <2>2, <2>3
        DEF Next, Progress, SelectOption, Expire, CheckoutStart, SaveCheckout,
            ArriveCall, ArriveLock, ArriveReplay, ArriveReject,
            ArriveKeyTaken, ArriveRetry, Answer, Fail, Crash, tables
      <3>. QED
        BY <3>1, <3>2
  <1>. QED
    BY <1>1, <1>2, TypeCorrect, PTL DEF Spec

----------------------------------------------------------------------------
(* The refinement.                                                         *)

MappedOpen == {o \in Options : trips[o] # "none"}
MappedArrived == {o \in Options : trips[o] = "arrived"}
MappedPaid == {Payment(ledger[i]) : i \in DOMAIN ledger}
MappedTold == {o \in Options : told[o] # {}}
mapped == <<MappedOpen, MappedArrived, MappedPaid, MappedTold>>

\* A deposit adds one payment, or none when the indexes refuse it.
LEMMA DepositPays ==
    ASSUME ledger \in Seq(Entries), NEW e \in Entries, ledger' = Deposit(e)
    PROVE  MappedPaid' = IF Insertable(e) THEN MappedPaid \cup {Payment(e)}
                         ELSE MappedPaid
  <1>1. CASE Insertable(e)
    <2>1. ledger' = Append(ledger, e)
      BY <1>1 DEF Deposit
    <2>2. /\ DOMAIN ledger' = DOMAIN ledger \cup {Len(ledger) + 1}
          /\ \A i \in DOMAIN ledger : ledger'[i] = ledger[i]
          /\ ledger'[Len(ledger) + 1] = e
      BY <2>1
    <2>. QED
      BY <1>1, <2>2 DEF MappedPaid
  <1>2. CASE ~Insertable(e)
    BY <1>2 DEF Deposit, MappedPaid
  <1>. QED
    BY <1>1, <1>2

\* A commit is the abstract arrival of its trip.
LEMMA CommitPays ==
    ASSUME PaymentInv, NEW s \in Sessions, ArriveCommit(s),
           NEW o \in Options, o = job[s].trip
    PROVE  Paid!Arrive(o)
  <1>. DEFINE e == RewardEntry(s)
  <1>1. /\ job[s] \in Jobs /\ o \in Options
        /\ ledger \in Seq(Entries)
        /\ trips \in [Options -> Statuses]
        /\ trips[o] # "arrived" /\ trips[o] # "none"
        /\ TripRows(ledger, o) = {}
    BY DEF PaymentInv, TypeOK, ArriveCommit, LockedTripStable, Arrivable,
           RewardIffArrived, Jobs
  <1>2. e \in Entries /\ e.type = "trip" /\ e.ref = o
    BY <1>1, RewardEntryType
  <1>3. Payment(e) = Paid!TripPayment(o)
    BY DEF Payment, RewardEntry, Paid!TripPayment
  <1>4. ledger' = Deposit(e) /\ trips' = [trips EXCEPT ![o] = "arrived"]
        /\ told' = told
    BY DEF ArriveCommit, history
  <1>5. Insertable(e)
    <2>1. PICK i \in DOMAIN ledger' : RewardByTrip(ledger', o, i)
      BY DEF ArriveCommit
    <2>2. TripRows(ledger', o) # {}
      BY <2>1 DEF RewardByTrip
    <2>. QED
      BY <1>1, <1>4, <2>2 DEF Deposit
  <1>6. MappedPaid' = MappedPaid \cup {Paid!TripPayment(o)}
    BY <1>1, <1>2, <1>3, <1>4, <1>5, DepositPays
  <1>7. Paid!TripPayment(o) \notin MappedPaid
    BY <1>1 DEF MappedPaid, Payment, Paid!TripPayment, TripRows
  <1>8. /\ o \in MappedOpen \ MappedArrived
        /\ MappedOpen' = MappedOpen
        /\ MappedArrived' = MappedArrived \cup {o}
        /\ MappedTold' = MappedTold
    BY <1>1, <1>4 DEF MappedOpen, MappedArrived, MappedTold
  <1>. QED
    BY <1>6, <1>7, <1>8
       DEF Paid!Arrive, MappedOpen, MappedArrived, MappedPaid, MappedTold

\* A demo sync is the abstract one the first time, and then nothing.
LEMMA SyncPays ==
    ASSUME PaymentInv, NEW u \in Users, DemoSync(u)
    PROVE  Paid!Sync(u) \/ UNCHANGED mapped
  <1>. DEFINE e == SyncEntry(u)
  <1>1. ledger \in Seq(Entries) /\ e \in Entries /\ ledger' = Deposit(e)
    BY SyncEntryType DEF PaymentInv, TypeOK, DemoSync
  <1>2. trips' = trips /\ told' = told
    BY DEF DemoSync, history
  <1>3. UNCHANGED <<MappedOpen, MappedArrived, MappedTold>>
    BY <1>2 DEF MappedOpen, MappedArrived, MappedTold
  <1>4. Payment(e) = Paid!SyncPayment(u)
    BY DEF Payment, SyncEntry, Paid!SyncPayment
  <1>5. CASE Insertable(e)
    <2>1. MappedPaid' = MappedPaid \cup {Paid!SyncPayment(u)}
      BY <1>1, <1>4, <1>5, DepositPays
    <2>2. Paid!SyncPayment(u) \notin MappedPaid
      BY <1>5 DEF MappedPaid, Payment, Paid!SyncPayment, Insertable, SyncEntry
    <2>. QED
      BY <1>3, <2>1, <2>2
         DEF Paid!Sync, MappedOpen, MappedArrived, MappedPaid, MappedTold
  <1>6. CASE ~Insertable(e)
    BY <1>1, <1>3, <1>6, DepositPays DEF mapped
  <1>. QED
    BY <1>5, <1>6

\* Every step of the component is a step of PaidTrips or a stutter of it.
LEMMA MappedStep ==
    ASSUME PaymentInv, [Next]_vars
    PROVE  Paid!Next \/ UNCHANGED mapped
  <1>1. trips \in [Options -> Statuses] /\ told \in [Options -> SUBSET Nat]
    BY DEF PaymentInv, TypeOK
  <1>2. ASSUME NEW o \in Options, SelectOption(o)
        PROVE  Paid!Open(o)
    BY <1>1, <1>2 DEF SelectOption, history, Paid!Open
  <1>3. ASSUME UNCHANGED <<trips, ledger, told>>
        PROVE  UNCHANGED mapped
    BY <1>3 DEF mapped, MappedOpen, MappedArrived, MappedPaid, MappedTold
  <1>4. ASSUME NEW s \in Sessions, SaveCheckout(s)
        PROVE  UNCHANGED mapped
    <2>1. ledger' = ledger /\ told' = told
      BY <1>4 DEF SaveCheckout, history
    <2>2. \A o \in Options :
            /\ trips'[o] = "none" <=> trips[o] = "none"
            /\ trips'[o] = "arrived" <=> trips[o] = "arrived"
      BY <1>1, <1>4 DEF SaveCheckout, CheckoutAllowed
    <2>. QED
      BY <2>1, <2>2 DEF mapped, MappedOpen, MappedArrived, MappedPaid,
                        MappedTold
  <1>5. ASSUME NEW s \in Sessions, Answer(s),
               NEW o \in Options, o = job[s].trip
        PROVE  Paid!Tell(o) \/ UNCHANGED mapped
    <2>1. o \in Options /\ trips[o] = "arrived"
      BY <1>5 DEF Answer, PaymentInv, TypeOK, Jobs, AnswerPending
    <2>2. /\ trips' = trips /\ ledger' = ledger
          /\ told' = [told EXCEPT ![o] = @ \cup {job[s].reward}]
      BY <1>5 DEF Answer, tables
    <2>3. MappedTold' = MappedTold \cup {o}
      BY <1>1, <2>1, <2>2 DEF MappedTold
    <2>4. UNCHANGED <<MappedOpen, MappedArrived, MappedPaid>>
      BY <2>2 DEF MappedOpen, MappedArrived, MappedPaid
    <2>5. o \in MappedArrived
      BY <2>1 DEF MappedArrived
    <2>6. CASE o \in MappedTold
      BY <2>3, <2>4, <2>6 DEF mapped
    <2>7. CASE o \notin MappedTold
      BY <2>1, <2>3, <2>4, <2>5, <2>7
         DEF Paid!Tell, MappedOpen, MappedArrived, MappedPaid, MappedTold
    <2>. QED
      BY <2>6, <2>7
  <1>6. ASSUME NEW s \in Sessions,
               \/ ArriveLock(s) \/ ArriveReplay(s) \/ ArriveReject(s)
               \/ ArriveKeyTaken(s) \/ ArriveRetry(s) \/ Fail(s)
        PROVE  UNCHANGED mapped
    BY <1>3, <1>6 DEF ArriveLock, ArriveReplay, ArriveReject, ArriveKeyTaken,
                      ArriveRetry, Fail, tables, history
  <1>7. ASSUME NEW s \in Sessions, NEW o \in Options,
               CheckoutStart(s, o) \/ \E k \in Keys : ArriveCall(s, o, k)
        PROVE  UNCHANGED mapped
    BY <1>3, <1>7 DEF CheckoutStart, ArriveCall, tables, history
  <1>8. ASSUME NEW o \in Options, Expire(o)
        PROVE  UNCHANGED mapped
    BY <1>3, <1>8 DEF Expire, history
  <1>9. CASE Crash
    BY <1>3, <1>9 DEF Crash, tables, history
  <1>10. CASE UNCHANGED vars
    BY <1>3, <1>10 DEF vars, tables, history
  <1>11. ASSUME NEW s \in Sessions, ArriveCommit(s),
                NEW o \in Options, o = job[s].trip
         PROVE  Paid!Arrive(o)
    BY <1>11, CommitPays
  <1>12. ASSUME NEW s \in Sessions,
                \/ Progress(s) \/ ArriveRetry(s) \/ Fail(s)
                \/ \E o \in Options :
                    CheckoutStart(s, o) \/ \E k \in Keys : ArriveCall(s, o, k)
         PROVE  Paid!Next \/ UNCHANGED mapped
    <2>0. job[s].trip \in Options \/ pc[s] = "idle"
      BY DEF PaymentInv, TypeOK, Jobs
    <2>1. CASE ArriveCommit(s)
      <3>1. PICK o \in Options : o = job[s].trip
        BY <2>0, <2>1 DEF ArriveCommit
      <3>. QED
        BY <1>11, <2>1, <3>1 DEF Paid!Next
    <2>2. CASE Answer(s)
      <3>1. PICK o \in Options : o = job[s].trip
        BY <2>0, <2>2 DEF Answer
      <3>. QED
        BY <1>5, <2>2, <3>1 DEF Paid!Next
    <2>3. CASE \/ SaveCheckout(s) \/ ArriveRetry(s) \/ Fail(s)
               \/ ArriveLock(s) \/ ArriveReplay(s) \/ ArriveReject(s)
               \/ ArriveKeyTaken(s)
      BY <1>4, <1>6, <2>3
    <2>4. ASSUME NEW o \in Options,
                 CheckoutStart(s, o) \/ \E k \in Keys : ArriveCall(s, o, k)
          PROVE  UNCHANGED mapped
      BY <1>7, <2>4
    <2>. QED
      BY <1>12, <2>1, <2>2, <2>3, <2>4 DEF Progress
  <1>13. ASSUME NEW u \in Users, DemoSync(u)
         PROVE  Paid!Next \/ UNCHANGED mapped
    BY <1>13, SyncPays DEF Paid!Next
  <1>14. ASSUME NEW o \in Options, SelectOption(o) \/ Expire(o)
         PROVE  Paid!Next \/ UNCHANGED mapped
    BY <1>2, <1>8, <1>14 DEF Paid!Next
  <1>. QED
    BY <1>9, <1>10, <1>12, <1>13, <1>14 DEF Next

\* The component implements PaidTrips.
THEOREM Refinement == Spec => ImplementsPaidTrips
  <1>1. Init => Paid!Init
    BY DEF Init, Paid!Init
  <1>2. PaymentInv /\ [Next]_vars => [Paid!Next]_(Paid!vars)
    BY MappedStep DEF Paid!vars, mapped, MappedOpen, MappedArrived, MappedPaid,
                      MappedTold
  <1>. QED
    BY <1>1, <1>2, PaymentInvariant, PTL
       DEF Spec, ImplementsPaidTrips, Paid!Spec

----------------------------------------------------------------------------
(* The balance.                                                            *)

\* What the balance rests on besides: the payment for a sync names its user,
\* and finitely many trips have arrived.
LedgerNames ==
    /\ \A i \in DOMAIN ledger : ledger[i].type = "user" => ledger[i].ref = ledger[i].user
    /\ IsFiniteSet({o \in Options : trips[o] = "arrived"})

BalanceInv == PaymentInv /\ LedgerNames /\ BalanceExplained

\* The rows of a user are finitely many, and their amounts are numbers.
LEMMA MineFinite ==
    ASSUME ledger \in Seq(Entries), NEW u
    PROVE  /\ IsFiniteSet(Mine(u))
           /\ \A i \in Mine(u) : i \in DOMAIN ledger /\ ledger[i].amount \in Int
           /\ Balance(u) \in Int
  <1>. DEFINE f == [i \in DOMAIN ledger |-> ledger[i].amount]
  <1>1. IsFiniteSet(DOMAIN ledger)
    <2>1. DOMAIN ledger = 1..Len(ledger) /\ Len(ledger) \in Nat
      OBVIOUS
    <2>. QED
      BY <2>1, FS_Interval
  <1>2. Mine(u) \in SUBSET DOMAIN ledger
    BY DEF Mine
  <1>3. IsFiniteSet(Mine(u))
    BY <1>1, <1>2, FS_Subset
  <1>4. \A i \in Mine(u) : i \in DOMAIN ledger /\ ledger[i].amount \in Int
    <2>1. \A i \in DOMAIN ledger : ledger[i] \in Entries
      OBVIOUS
    <2>. QED
      BY <1>2, <2>1 DEF Entries
  <1>5. \A i \in Mine(u) : f[i] \in Int
    BY <1>4
  <1>. HIDE DEF f
  <1>6. SumFunctionOnSet(f, Mine(u)) \in Int
    BY <1>3, <1>5, SumWithout
  <1>. QED
    BY <1>3, <1>4, <1>6 DEF Balance, f

\* A row that is appended adds its amount to its user's balance, and to no other.
LEMMA AppendBalance ==
    ASSUME ledger \in Seq(Entries), NEW e \in Entries, ledger' = Append(ledger, e),
           NEW u
    PROVE  /\ (Balance(u))' = Balance(u) + (IF e.user = u THEN e.amount ELSE 0)
           /\ (Synced(u))' <=> Synced(u) \/ (e.user = u /\ e.type = "user")
  <1>. DEFINE f == [i \in DOMAIN ledger |-> ledger[i].amount]
              k == [i \in DOMAIN ledger' |-> ledger'[i].amount]
              n == Len(ledger) + 1
  <1>1. /\ DOMAIN ledger' = DOMAIN ledger \cup {n} /\ n \notin DOMAIN ledger
        /\ \A i \in DOMAIN ledger : ledger'[i] = ledger[i]
        /\ ledger'[n] = e
    OBVIOUS
  <1>2. (Mine(u))' = IF e.user = u THEN Mine(u) \cup {n} ELSE Mine(u)
    BY <1>1 DEF Mine
  <1>3. (Balance(u))' = SumFunctionOnSet(k, (Mine(u))')
        /\ Balance(u) = SumFunctionOnSet(f, Mine(u))
    BY DEF Balance
  <1>4. \A i \in Mine(u) : k[i] = f[i] /\ k[i] \in Int
    BY <1>1, MineFinite
  <1>5. k[n] = e.amount /\ e.amount \in Int /\ n \notin Mine(u)
    BY <1>1 DEF Entries, Mine
  <1>6. (Synced(u))' <=> Synced(u) \/ (e.user = u /\ e.type = "user")
    BY <1>1, <1>2 DEF Synced, Mine
  <1>. HIDE DEF f, k, n
  <1>7. SumFunctionOnSet(k, Mine(u)) = SumFunctionOnSet(f, Mine(u))
    BY <1>4, MineFinite, SumOfEquals
  <1>8. CASE e.user = u
    <2>1. \A i \in Mine(u) \cup {n} : k[i] \in Int
      BY <1>4, <1>5
    <2>2. SumFunctionOnSet(k, Mine(u) \cup {n}) = k[n] + SumFunctionOnSet(k, Mine(u))
      BY <1>5, <2>1, MineFinite, SumWith
    <2>3. (Balance(u))' = e.amount + Balance(u)
      BY <1>2, <1>3, <1>5, <1>7, <1>8, <2>2
    <2>. QED
      BY <1>5, <1>6, <1>8, <2>3, MineFinite
  <1>9. CASE e.user # u
    <2>1. (Balance(u))' = Balance(u)
      BY <1>2, <1>3, <1>7, <1>9
    <2>. QED
      BY <1>6, <1>9, <2>1, MineFinite
  <1>. QED
    BY <1>8, <1>9

\* A trip that arrives adds its reward to what its owner's trips are worth.
LEMMA ArrivedRewards ==
    ASSUME trips \in [Options -> Statuses], LedgerNames, NEW u
    PROVE  /\ IsFiniteSet(ArrivedOf(u))
           /\ SumFunctionOnSet(Reward, ArrivedOf(u)) \in Int
           /\ \A o \in Options \ ArrivedOf(u) :
                  SumFunctionOnSet(Reward, ArrivedOf(u) \cup {o})
                      = Reward[o] + SumFunctionOnSet(Reward, ArrivedOf(u))
  <1>1. ArrivedOf(u) \in SUBSET {o \in Options : trips[o] = "arrived"}
    BY DEF ArrivedOf
  <1>2. IsFiniteSet(ArrivedOf(u))
    BY <1>1, FS_Subset DEF LedgerNames
  <1>3. \A o \in Options : Reward[o] \in Int
    BY DataAssumption
  <1>4. SumFunctionOnSet(Reward, ArrivedOf(u)) \in Int
    BY <1>1, <1>2, <1>3, SumWithout
  <1>5. ASSUME NEW o \in Options, o \notin ArrivedOf(u)
        PROVE  SumFunctionOnSet(Reward, ArrivedOf(u) \cup {o})
                   = Reward[o] + SumFunctionOnSet(Reward, ArrivedOf(u))
    <2>1. \A p \in ArrivedOf(u) \cup {o} : Reward[p] \in Int
      BY <1>1, <1>3
    <2>. QED
      BY <1>2, <1>5, <2>1, SumWith
  <1>. QED
    BY <1>2, <1>4, <1>5

\* A step that pays nothing and by which no trip arrives.
LEMMA QuietBalance ==
    ASSUME BalanceInv, UNCHANGED ledger,
           \A o \in Options : trips[o] = "arrived" <=> trips'[o] = "arrived"
    PROVE  LedgerNames' /\ BalanceExplained'
  <1>1. {o \in Options : trips'[o] = "arrived"} = {o \in Options : trips[o] = "arrived"}
    OBVIOUS
  <1>2. LedgerNames'
    BY <1>1 DEF BalanceInv, LedgerNames
  <1>3. \A u : (ArrivedOf(u))' = ArrivedOf(u)
    BY DEF ArrivedOf
  <1>4. \A u : (Balance(u))' = Balance(u) /\ ((Synced(u))' <=> Synced(u))
    BY DEF Balance, Synced, Mine
  <1>. QED
    BY <1>2, <1>3, <1>4 DEF BalanceInv, BalanceExplained

\* A commit pays the reward of the trip that arrives.
LEMMA CommitBalance ==
    ASSUME BalanceInv, NEW s \in Sessions, ArriveCommit(s),
           NEW o \in Options, o = job[s].trip
    PROVE  LedgerNames' /\ BalanceExplained'
  <1>. DEFINE e == RewardEntry(s)
  <1>1. /\ job[s] \in Jobs
        /\ ledger \in Seq(Entries)
        /\ trips \in [Options -> Statuses]
        /\ trips[o] # "arrived"
        /\ TripRows(ledger, o) = {}
    BY DEF BalanceInv, PaymentInv, TypeOK, ArriveCommit, LockedTripStable, Arrivable,
           RewardIffArrived, Jobs
  <1>2. e \in Entries /\ e.type = "trip" /\ e.user = Owner[o] /\ e.amount = Reward[o]
    BY <1>1, RewardEntryType
  <1>3. ledger' = Deposit(e) /\ trips' = [trips EXCEPT ![o] = "arrived"]
    BY DEF ArriveCommit
  <1>4. ledger' = Append(ledger, e)
    <2>1. PICK i \in DOMAIN ledger' : RewardByTrip(ledger', o, i)
      BY DEF ArriveCommit
    <2>2. TripRows(ledger', o) # {}
      BY <2>1 DEF RewardByTrip
    <2>. QED
      BY <1>1, <1>3, <2>2 DEF Deposit
  <1>. HIDE DEF e
  <1>5. LedgerNames'
    <2>1. \A i \in DOMAIN ledger' : ledger'[i].type = "user" =>
              i \in DOMAIN ledger /\ ledger'[i] = ledger[i]
      BY <1>1, <1>2, <1>4
    <2>2. {p \in Options : trips'[p] = "arrived"}
              = {p \in Options : trips[p] = "arrived"} \cup {o}
      BY <1>1, <1>3
    <2>3. IsFiniteSet({p \in Options : trips'[p] = "arrived"})
      <3>. DEFINE before == {p \in Options : trips[p] = "arrived"}
      <3>1. IsFiniteSet(before)
        BY DEF BalanceInv, LedgerNames
      <3>. HIDE DEF before
      <3>2. IsFiniteSet(before \cup {o})
        BY <3>1, FS_AddElement
      <3>. QED
        BY <2>2, <3>2 DEF before
    <2>. QED
      BY <2>1, <2>3 DEF BalanceInv, LedgerNames
  <1>6. ASSUME NEW u \in Users
        PROVE  (Balance(u) = SumFunctionOnSet(Reward, ArrivedOf(u))
                                + (IF Synced(u) THEN SyncAmount ELSE 0))'
    <2>1. Balance(u) = SumFunctionOnSet(Reward, ArrivedOf(u))
                         + (IF Synced(u) THEN SyncAmount ELSE 0)
      BY DEF BalanceInv, BalanceExplained
    <2>2. (Balance(u))' = Balance(u) + (IF Owner[o] = u THEN Reward[o] ELSE 0)
          /\ ((Synced(u))' <=> Synced(u))
      BY <1>1, <1>2, <1>4, AppendBalance
    <2>3. SumFunctionOnSet(Reward, ArrivedOf(u)) \in Int /\ Reward[o] \in Int
          /\ SyncAmount \in Int
      BY <1>1, ArrivedRewards, DataAssumption DEF BalanceInv
    <2>4. CASE Owner[o] = u
      <3>1. (ArrivedOf(u))' = ArrivedOf(u) \cup {o} /\ o \notin ArrivedOf(u)
        BY <1>1, <1>3, <2>4 DEF ArrivedOf
      <3>2. SumFunctionOnSet(Reward, ArrivedOf(u) \cup {o})
                = Reward[o] + SumFunctionOnSet(Reward, ArrivedOf(u))
        BY <1>1, <3>1, ArrivedRewards DEF BalanceInv
      <3>. QED
        BY <2>1, <2>2, <2>3, <2>4, <3>1, <3>2
    <2>5. CASE Owner[o] # u
      <3>1. (ArrivedOf(u))' = ArrivedOf(u)
        BY <1>1, <1>3, <2>5 DEF ArrivedOf
      <3>. QED
        BY <2>1, <2>2, <2>3, <2>5, <3>1
    <2>. QED
      BY <2>4, <2>5
  <1>. QED
    BY <1>5, <1>6 DEF BalanceExplained

\* A sync pays its amount the first time.
LEMMA SyncBalance ==
    ASSUME BalanceInv, NEW v \in Users, DemoSync(v)
    PROVE  LedgerNames' /\ BalanceExplained'
  <1>. DEFINE e == SyncEntry(v)
  <1>1. ledger \in Seq(Entries) /\ trips \in [Options -> Statuses]
        /\ ledger' = Deposit(e) /\ trips' = trips
    BY DEF BalanceInv, PaymentInv, TypeOK, DemoSync
  <1>2. e \in Entries /\ e.user = v /\ e.ref = v /\ e.type = "user"
        /\ e.amount = SyncAmount
    BY SyncEntryType DEF SyncEntry
  <1>. HIDE DEF e
  <1>3. CASE ledger' = ledger
    BY <1>1, <1>3, QuietBalance
  <1>4. CASE Insertable(e)
    <2>1. ledger' = Append(ledger, e)
      BY <1>1, <1>4 DEF Deposit
    <2>2. ~Synced(v)
      BY <1>2, <1>4 DEF Synced, Mine, Insertable, BalanceInv, LedgerNames
    <2>3. LedgerNames'
      <3>1. \A i \in DOMAIN ledger' :
                ledger'[i] = e \/ (i \in DOMAIN ledger /\ ledger'[i] = ledger[i])
        BY <1>1, <1>2, <2>1
      <3>. QED
        BY <1>1, <1>2, <3>1 DEF BalanceInv, LedgerNames
    <2>4. ASSUME NEW u \in Users
          PROVE  (Balance(u) = SumFunctionOnSet(Reward, ArrivedOf(u))
                                  + (IF Synced(u) THEN SyncAmount ELSE 0))'
      <3>1. Balance(u) = SumFunctionOnSet(Reward, ArrivedOf(u))
                           + (IF Synced(u) THEN SyncAmount ELSE 0)
        BY DEF BalanceInv, BalanceExplained
      <3>2. (Balance(u))' = Balance(u) + (IF v = u THEN SyncAmount ELSE 0)
            /\ ((Synced(u))' <=> Synced(u) \/ v = u)
        BY <1>1, <1>2, <2>1, AppendBalance
      <3>3. SumFunctionOnSet(Reward, ArrivedOf(u)) \in Int /\ SyncAmount \in Int
        BY <1>1, ArrivedRewards, DataAssumption DEF BalanceInv
      <3>4. (ArrivedOf(u))' = ArrivedOf(u)
        BY <1>1 DEF ArrivedOf
      <3>. QED
        BY <2>2, <3>1, <3>2, <3>3, <3>4
    <2>. QED
      BY <2>3, <2>4 DEF BalanceExplained
  <1>. QED
    BY <1>1, <1>3, <1>4 DEF Deposit

\* A balance is, whatever was retried, repeated, refused or cut off, what the
\* arrived trips and one sync are worth.
THEOREM BalanceCorrect == Spec => []BalanceExplained
  <1>1. Init => LedgerNames /\ BalanceExplained
    <2>. SUFFICES ASSUME Init PROVE LedgerNames /\ BalanceExplained
      OBVIOUS
    <2>1. ledger = <<>> /\ {o \in Options : trips[o] = "arrived"} = {}
      BY DEF Init
    <2>2. ASSUME NEW u \in Users
          PROVE  Balance(u) = 0 /\ ArrivedOf(u) = {} /\ ~Synced(u)
      <3>1. Mine(u) = {} /\ ArrivedOf(u) = {}
        BY <2>1 DEF Mine, ArrivedOf
      <3>. QED
        BY <3>1, SumOfNothing DEF Balance, Synced
    <2>3. SumFunctionOnSet(Reward, {}) = 0
      BY SumOfNothing
    <2>4. LedgerNames
      BY <2>1, FS_EmptySet DEF LedgerNames
    <2>5. BalanceExplained
      BY <2>2, <2>3 DEF BalanceExplained
    <2>. QED
      BY <2>4, <2>5
  <1>2. BalanceInv /\ [Next]_vars => LedgerNames' /\ BalanceExplained'
    <2>. SUFFICES ASSUME BalanceInv, [Next]_vars PROVE LedgerNames' /\ BalanceExplained'
      OBVIOUS
    <2>0. trips \in [Options -> Statuses] /\ job \in [Sessions -> Jobs \cup {NoJob}]
          /\ \A s \in Sessions : pc[s] # "idle" => job[s].trip \in Options
      BY DEF BalanceInv, PaymentInv, TypeOK, Jobs
    <2>1. CASE UNCHANGED <<trips, ledger>>
      BY <2>1, QuietBalance
    <2>2. ASSUME NEW s \in Sessions, ArriveCommit(s)
          PROVE  LedgerNames' /\ BalanceExplained'
      <3>1. job[s].trip \in Options
        BY <2>0, <2>2 DEF ArriveCommit
      <3>. QED
        BY <2>2, <3>1, CommitBalance
    <2>3. ASSUME NEW u \in Users, DemoSync(u)
          PROVE  LedgerNames' /\ BalanceExplained'
      BY <2>3, SyncBalance
    <2>4. ASSUME NEW s \in Sessions, SaveCheckout(s)
          PROVE  LedgerNames' /\ BalanceExplained'
      <3>1. \A o \in Options : trips[o] = "arrived" <=> trips'[o] = "arrived"
        BY <2>0, <2>4 DEF SaveCheckout, CheckoutAllowed
      <3>. QED
        BY <2>4, <3>1, QuietBalance DEF SaveCheckout
    <2>5. ASSUME NEW o \in Options, SelectOption(o)
          PROVE  LedgerNames' /\ BalanceExplained'
      <3>1. \A p \in Options : trips[p] = "arrived" <=> trips'[p] = "arrived"
        BY <2>0, <2>5 DEF SelectOption
      <3>. QED
        BY <2>5, <3>1, QuietBalance DEF SelectOption
    <2>6. ASSUME NEW s \in Sessions,
                 \/ ArriveLock(s) \/ ArriveReplay(s) \/ ArriveReject(s)
                 \/ ArriveKeyTaken(s) \/ Answer(s) \/ ArriveRetry(s) \/ Fail(s)
                 \/ \E o \in Options :
                     CheckoutStart(s, o) \/ \E k \in Keys : ArriveCall(s, o, k)
          PROVE  UNCHANGED <<trips, ledger>>
      BY <2>6 DEF ArriveLock, ArriveReplay, ArriveReject, ArriveKeyTaken, Answer,
                  ArriveRetry, Fail, CheckoutStart, ArriveCall, tables, history
    <2>7. ASSUME Crash \/ UNCHANGED vars \/ \E o \in Options : Expire(o)
          PROVE  UNCHANGED <<trips, ledger>>
      BY <2>7 DEF Crash, Expire, vars, tables
    <2>. QED
      BY <2>1, <2>2, <2>3, <2>4, <2>5, <2>6, <2>7 DEF Next, Progress
  <1>. QED
    BY <1>1, <1>2, PaymentInvariant, PTL DEF Spec, BalanceInv

============================================================================
