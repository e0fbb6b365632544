----------------------------- MODULE MCComponents ----------------------------
(***************************************************************************)
(* Small instances for TLC of six components that share no state: which of *)
(* them runs is chosen at the beginning, the others stay as they are.      *)
(***************************************************************************)
EXTENDS Accounts, AdminSimulation, EventCatalog, MCRateLimiter, OfferSelection,
        EventAnswers, TLC

CONSTANTS w1, w2, ca, cb, cc, Missing, demo, real, s1, s2, s3

VARIABLE component

----------------------------------------------------------------------------
\* In half roubles; the first cannot be booked.
Offer(price, minutes, mode) ==
    [price |-> price, minutes |-> minutes, mode |-> mode, bookable |-> price # 2]
Cheap == Offer(2, 1, "bus")
Slow == Offer(3, 2, "bus")
Quick == Offer(4, 1, "railway")
Dear == Offer(7, 1, "bus")
Asked(budget, minutes, ms, destination) ==
    [budget |-> budget, maxMinutes |-> minutes, modes |-> ms, destination |-> destination]

MCRecommendations ==
    {Asked(3, 1, {"bus", "railway"}, FALSE), Asked(4, 0, {"bus"}, FALSE),
     Asked(4, 1, {"bus", "railway"}, TRUE)}
MCCandidates == {<<ca>>, <<cb, ca>>, <<ca, cb, cc>>}
MCPages ==
    {<<>>, <<Cheap, Dear>>, <<Slow>>, <<Quick, Slow>>, <<Dear, Quick>>, <<Dear, Slow>>}
MCMerit == (ca :> 0) @@ (cb :> 1) @@ (cc :> 2)

\* The period is the eleventh day.  Good, the same title later that day, another
\* whose end is too late, without a title, an hour after the last week, of an
\* unknown city, without a time; and an element that is broken.
Payload(title, city, start, end) ==
    [titled |-> title # Missing, title |-> title, city |-> city, start |-> start, end |-> end]
Payloads ==
    {Payload(w1, ca, 240, -1), Payload(w1, ca, 250, 260), Payload(w2, ca, 250, 900),
     Payload(Missing, ca, 240, 250), Payload(w2, ca, 433, 440), Payload(w2, cb, 264, 263),
     Payload(w1, ca, -1, -1), Missing}
MCContents == BoundedSeq(Payloads, 4)

Command(code, target, type) == [code |-> code, target |-> target, type |-> type]
MCCommands == {Command("demo_sync_history", real, "system"),
               Command("demo_profile_reset", demo, "user"),
               Command("outbox_process", NoRow, "system")}

\* Two events of one city and one of another; three transactions, two at a time.
MCCityOf == (s1 :> ca) @@ (s2 :> ca) @@ (s3 :> cb)

\* Requests, submissions, transactions and calls of one component are interchangeable.
Symmetry == Permutations(Calls)

----------------------------------------------------------------------------
Components == {"accounts", "limiter", "selection", "answers", "simulation", "catalog"}

\* The inactive ones are in one state.
MCInit ==
    /\ component \in Components
    /\ Init /\ SimulationInit /\ CatalogInit
    /\ LimiterInit /\ SelectionInit /\ AnswersInit
    /\ component # "limiter" => handler = "quota"
    /\ component # "selection" =>
           recommendation = Asked(4, 0, {"bus"}, FALSE) /\ candidates = <<ca>>
    /\ component # "answers" => scope = "city"

MCNext ==
    \/ /\ component = "accounts" /\ Next
       /\ UNCHANGED <<component, simulationVars, catalogVars, limiterVars, selectionVars,
                      answersVars>>
    \/ /\ component = "simulation" /\ SimulationNext
       /\ UNCHANGED <<component, vars, catalogVars, limiterVars, selectionVars, answersVars>>
    \/ /\ component = "catalog" /\ CatalogNext
       /\ UNCHANGED <<component, vars, simulationVars, limiterVars, selectionVars,
                      answersVars>>
    \/ /\ component = "limiter" /\ LimiterNext
       /\ UNCHANGED <<component, vars, simulationVars, catalogVars, selectionVars,
                      answersVars>>
    \/ /\ component = "selection" /\ SelectionNext
       /\ UNCHANGED <<component, vars, simulationVars, catalogVars, limiterVars, answersVars>>
    \/ /\ component = "answers" /\ AnswersNext
       /\ UNCHANGED <<component, vars, simulationVars, catalogVars, limiterVars,
                      selectionVars>>

MCSpec ==
    MCInit /\ [][MCNext]_<<component, vars, simulationVars, catalogVars, limiterVars,
                          selectionVars, answersVars>>

----------------------------------------------------------------------------
\* What the variables of the six hold: counters are clipped at the limit, a list that
\* is returned is not empty and ranked from 1, no two transactions hold one row.
TypesOK ==
    /\ TypeOK
    /\ LimiterTypeOK
    /\ SelectionTypeOK
    /\ AnswersTypeOK
    /\ SimulationTypeOK
    /\ CatalogTypeOK
============================================================================
