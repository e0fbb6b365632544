----------------------------- MODULE PaidTrips -----------------------------
(***************************************************************************)
(* What the trips component promises about money: a trip is opened, arrives*)
(* at most once, and that very step pays its owner the option's reward; a  *)
(* user is paid at most once for the demo sync; a client is told of an     *)
(* arrival only after it was paid.  Nothing else pays and nothing is taken *)
(* back.  TripLifecycle implements this with requests, locks, keys, retries*)
(* and crashes.                                                            *)
(***************************************************************************)
EXTENDS Naturals

CONSTANTS Users, Trips, Owner, Reward, SyncAmount

VARIABLES open, arrived, paid, told
vars == <<open, arrived, paid, told>>

TripPayment(t) == [user |-> Owner[t], amount |-> Reward[t], type |-> "trip",
                   ref |-> t]
SyncPayment(u) == [user |-> u, amount |-> SyncAmount, type |-> "user",
                   ref |-> u]

Init == open = {} /\ arrived = {} /\ paid = {} /\ told = {}

Open(t) ==
    /\ t \notin open
    /\ open' = open \cup {t}
    /\ UNCHANGED <<arrived, paid, told>>

Arrive(t) ==
    /\ t \in open \ arrived
    /\ TripPayment(t) \notin paid
    /\ arrived' = arrived \cup {t}
    /\ paid' = paid \cup {TripPayment(t)}
    /\ UNCHANGED <<open, told>>

Sync(u) ==
    /\ SyncPayment(u) \notin paid
    /\ paid' = paid \cup {SyncPayment(u)}
    /\ UNCHANGED <<open, arrived, told>>

Tell(t) ==
    /\ t \in arrived \ told
    /\ told' = told \cup {t}
    /\ UNCHANGED <<open, arrived, paid>>

Next ==
    \/ \E t \in Trips : Open(t) \/ Arrive(t) \/ Tell(t)
    \/ \E u \in Users : Sync(u)

Spec == Init /\ [][Next]_vars
============================================================================
