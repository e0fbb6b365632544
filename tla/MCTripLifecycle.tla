-------------------------- MODULE MCTripLifecycle --------------------------
(* Small instances of TripLifecycle for TLC. *)
EXTENDS TripLifecycle, TLC

CONSTANTS u1, a, b, o1

\* Both options belong to u1 and lead to the same city; u1 has city b from the
\* demo history as well, whose code is also that of city a for u2.
MCOwner == [o \in Options |-> u1]
MCCity == [o \in Options |-> a]
MCReward == [o \in Options |-> IF o = o1 THEN 1 ELSE 3]
MCSyncCities == [u \in Users |-> IF u = u1 THEN {b} ELSE {a}]
MCCode == [u \in Users |-> [c \in Cities |->
              CASE u = u1 /\ c = a -> 1
                [] u = u1 /\ c = b -> 2
                [] u # u1 /\ c = a -> 2
                [] u # u1 /\ c = b -> 3]]

\* Sessions are interchangeable.
Symmetry == Permutations(Sessions)
============================================================================
