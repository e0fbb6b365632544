----------------------------- MODULE MCBackground ----------------------------
(***************************************************************************)
(* Small instances for TLC of three components that share no state: which  *)
(* of them runs is chosen at the beginning, the others stay as they are.   *)
(***************************************************************************)
EXTENDS Startup, TLC

CONSTANTS v1, v2, e1, e2, e3, A, B, Absent, city, g1, g2, p1, p2

VARIABLES
    component,
    events, tx, begun, popular, kept,
    row, pc, run, slots, holding, saved, since, crashes

----------------------------------------------------------------------------
MCFiles == <<v1, v2>>
MCLabels == <<A, B>>

\* Two transactions, which may take the same two rows in different orders.
Catalog == INSTANCE EventCatalog WITH
    Events <- {e1, e2, e3}, CityOf <- (e1 :> A) @@ (e2 :> A) @@ (e3 :> B),
    Writers <- {p1, p2}, MaxFound <- 2, MaxBegun <- 2

\* One goroutine on each of two replicas.
Discovery == INSTANCE EventDiscovery WITH
    Keys <- {city}, Runs <- {g1, g2}, Replicas <- {p1, p2},
    ReplicaOf <- (g1 :> p1) @@ (g2 :> p2),
    Concurrency <- 1, RunTimeout <- 3, SlotWait <- 1, WriteTimeout <- 2,
    BusyBackoff <- 3, FailureBackoff <- (city :> 4), CacheTTL <- 4, MaxCrashes <- 1

ASSUME Catalog!CatalogAssumption /\ Catalog!AbsentAssumption

----------------------------------------------------------------------------
Components == {"startup", "catalog", "discovery"}
CatalogState == <<events, tx, begun, popular, kept>>
DiscoveryState == <<row, pc, run, slots, holding, saved, since, crashes>>
All == <<component, vars, CatalogState, DiscoveryState>>

MCInit ==
    /\ component \in Components
    /\ Init /\ Catalog!CatalogInit /\ Discovery!Init
    /\ component # "startup" => ~table

MCNext ==
    \/ /\ component = "startup" /\ Next
       /\ UNCHANGED <<component, CatalogState, DiscoveryState>>
    \/ /\ component = "catalog" /\ Catalog!CatalogNext
       /\ UNCHANGED <<component, vars, DiscoveryState>>
    \/ /\ component = "discovery" /\ Discovery!Next
       /\ UNCHANGED <<component, vars, CatalogState>>

\* The fairness of the discovery is that of its own specification; the actions it is
\* about are enabled in the initial state, so it holds where discovery runs.
MCSpec ==
    /\ MCInit /\ [][MCNext]_All
    /\ Fairness
    /\ Catalog!Fairness
    /\ (component = "discovery" => Discovery!Fairness)

----------------------------------------------------------------------------
\* The properties of the instances under their names; an inactive one is initial.

\* No transaction waits for ever for the rows of another one.
WritersEnd == Catalog!WritersEnd

\* No key of the event discovery is stuck in a run.
NeverStuck == Discovery!NeverStuck
============================================================================
