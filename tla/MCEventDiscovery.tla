-------------------------- MODULE MCEventDiscovery --------------------------
(* Small instances of EventDiscovery for TLC; the times are cut down so that  *)
(* a write may wait for a while and the gap between claims is not zero.       *)
EXTENDS EventDiscovery, TLC

CONSTANTS r1, r2, r3, p1, p2

\* Two goroutines on one replica, the third on another.
MCReplicaOf == [r \in Runs |-> IF r = r3 THEN p2 ELSE p1]
\* As long as the busy one; a write that waits makes it shorter than the timeout of a
\* run.
MCFailureBackoff == [k \in Keys |-> 3]
\* EVENT_DISCOVERY_RETRY_BACKOFF, which must only be positive, below the timeout.
MCShortBackoff == [k \in Keys |-> 3]

\* The goroutines of one replica are interchangeable, and so are the keys.
Symmetry == Permutations({r1, r2}) \cup Permutations(Keys)
============================================================================
