--------------------------- MODULE OfferSelection ---------------------------
(***************************************************************************)
(* What one recommendation selects, from the model's analysis of the       *)
(* prompt to the options that are saved: the plan of cities, the search of *)
(* their offers, the choice of one offer per city, the formula and the     *)
(* explanations.  What the AI and the provider answer is arbitrary.  A     *)
(* provider's price is in half roubles, any other in roubles.              *)
(***************************************************************************)
EXTENDS Integers, SequencesExt, StableOrder

CONSTANTS
    SearchCities,
    Recommendations,               \* [budget, maxMinutes, modes, destination]
    Candidates,             \* what the query of the candidates may return
    Pages,                  \* answers: sequences of [price, minutes, mode, bookable]
    Merit,                  \* weighted value of a city: all but price and friction
    MeritWeight,            \* ... and the sum of those weights
    PriceWeight, FrictionWeight,
    PreferredMinutes,       \* user.Preferences.MaxTravelMinutes
    CandidateSearchLimit, MaximumRankedOptions,
    SearchConcurrency

ASSUME WeightsAssumption ==
    /\ MeritWeight \in Nat /\ PriceWeight \in Nat /\ FrictionWeight \in Nat
    /\ MeritWeight + PriceWeight + FrictionWeight > 0
    /\ Merit \in [SearchCities -> 0..MeritWeight]
    /\ PreferredMinutes \in Int

ASSUME LimitsAssumption ==
    /\ CandidateSearchLimit \in Nat \ {0}
    /\ MaximumRankedOptions \in Nat \ {0}
    /\ SearchConcurrency \in Nat \ {0}

\* A request is validated when it is made; a page holds what the provider likes.
ASSUME InputsAssumption ==
    /\ Recommendations \subseteq
           [budget: Nat, maxMinutes: Nat, modes: SUBSET STRING, destination: BOOLEAN]
    /\ Candidates \subseteq Seq(SearchCities)
    /\ Pages \subseteq Seq([price: Int, minutes: Int, mode: STRING, bookable: BOOLEAN])

VARIABLES
    recommendation, candidates,
    stage,      \* the stage being worked on, or the status at the end
    modes,      \* recommendation.TransportModes
    selected,   \* the cities to search
    answers,    \* what the provider has answered for each of them
    offers, issues, scored, options

selectionVars == <<recommendation, candidates, stage, modes, selected, answers, offers,
                   issues, scored, options>>
inputs == <<recommendation, candidates>>

Working == {"analysis", "plan", "search", "scoring", "explanation"}
Done == {"completed", "partial"}
NotYet == [said |-> "nothing", offers |-> <<>>]
Answers == [said: {"offers"}, offers: Pages] \cup {[said |-> "failed", offers |-> <<>>]}

Least(a, b) == IF a < b THEN a ELSE b
Searched == 1..Least(CandidateSearchLimit, Len(selected))

SelectionTypeOK ==
    /\ recommendation \in Recommendations /\ candidates \in Candidates
    /\ stage \in Working \cup Done \cup {"blocked", "failed"}
    /\ modes \subseteq recommendation.modes
    /\ selected \in BoundedSeq(SearchCities, CandidateSearchLimit)
    /\ answers \in [Searched -> Answers \cup {NotYet}]
    /\ issues \subseteq ToSet(selected)
    /\ \A i \in DOMAIN options : options[i].score \in 0..100
    /\ stage \in Done <=> options # <<>>

SelectionInit ==
    /\ recommendation \in Recommendations
    /\ candidates \in Candidates
    /\ recommendation.destination => Len(candidates) = 1
    /\ stage = "analysis"
    /\ modes = recommendation.modes
    /\ selected = <<>> /\ answers = <<>> /\ offers = <<>> /\ issues = {}
    /\ scored = <<>> /\ options = <<>>

----------------------------------------------------------------------------
(* Analysis and plan.                                                      *)

\* The intent may narrow the modes; one outside of them fails the request.  A
\* request without a prompt is as if nothing was narrowed.
Analyze(chosen) ==
    /\ stage = "analysis"
    /\ chosen \subseteq modes
    /\ modes' = IF chosen = {} THEN modes ELSE chosen
    /\ stage' = "plan"
    /\ UNCHANGED <<inputs, selected, answers, offers, issues, scored, options>>

Block ==
    /\ stage = "analysis"
    /\ stage' = "blocked"
    /\ UNCHANGED <<inputs, modes, selected, answers, offers, issues, scored, options>>

\* Mutant of ValidPlan: a city may be planned that is no candidate.
ValidPlanAnyCity(cities) ==
    cities # <<>> /\ Len(cities) <= CandidateSearchLimit /\ IsInjective(cities)

\* validateSearchPlanEnvelope: only candidates, each once, and not too many.
ValidPlan(cities) ==
    /\ cities # <<>>
    /\ Len(cities) <= CandidateSearchLimit
    /\ ToSet(cities) \subseteq ToSet(candidates)
    /\ IsInjective(cities)

\* A given destination is searched without a plan.
Plan(cities) ==
    /\ stage = "plan"
    /\ IF recommendation.destination THEN cities = candidates ELSE ValidPlan(cities)
    /\ selected' = cities
    /\ answers' = [i \in 1..Least(CandidateSearchLimit, Len(cities)) |-> NotYet]
    /\ stage' = "search"
    /\ UNCHANGED <<inputs, modes, offers, issues, scored, options>>

----------------------------------------------------------------------------
(* The search of the transport.                                            *)

\* The goroutines start in the order of the cities, so many at a time.
InFlight(i) ==
    /\ answers[i] = NotYet
    /\ Cardinality({j \in 1..(i - 1) : answers[j] = NotYet}) < SearchConcurrency

SearchAnswers(i, answer) ==
    /\ stage = "search"
    /\ InFlight(i)
    /\ answers' = [answers EXCEPT ![i] = answer]
    /\ UNCHANGED <<inputs, stage, modes, selected, offers, issues, scored, options>>

\* bookableOffer.
BookableOffer(o) ==
    /\ 0 <= o.price /\ o.price <= 2 * recommendation.budget
    /\ o.minutes > 0
    /\ o.bookable      \* the currency, the reference, and the times in order
    /\ o.mode \in modes
BookablePlaces(answer) == {k \in DOMAIN answer : BookableOffer(answer[k])}

Places(s) == (DOMAIN s) \X (DOMAIN s)
ByPrice(s) == Sorted(s, {k \in Places(s) : s[k[1]].price < s[k[2]].price})
ByMinutes(s) == Sorted(s, {k \in Places(s) : s[k[1]].minutes < s[k[2]].minutes})

\* Mutant of CheapestValidOffer: the time on the way is not looked at.
CheapestOffer(answer) ==
    LET suitable == ByPrice(Kept(answer, BookablePlaces(answer)))
    IN  suitable[1]

\* cheapestValidOffer: the cheapest that is in time; if none is, the fastest.
CheapestValidOffer(answer) ==
    LET suitable == ByPrice(Kept(answer, BookablePlaces(answer)))
        inTime == {k \in DOMAIN suitable :
                       suitable[k].minutes <= recommendation.maxMinutes}
    IN  IF recommendation.maxMinutes <= 0 THEN suitable[1]
        ELSE IF inTime # {} THEN Kept(suitable, inTime)[1]
        ELSE ByMinutes(suitable)[1]

\* searchCandidate: a search that fails, or without a bookable offer, is an issue.
HasOffer(i) == BookablePlaces(answers[i].offers) # {}

Rounded(price) == (price + 1) \div 2

\* The offer of a city as the workflow goes on with it.
TransportOffer(i) ==
    LET o == CheapestValidOffer(answers[i].offers) IN
    [city |-> selected[i], price |-> Rounded(o.price), minutes |-> o.minutes,
     mode |-> o.mode]

\* The offers of the outcomes, in the order of the cities and then by price.
FoundOffers ==
    LET found == {i \in Searched : HasOffer(i)}
        places == Kept([i \in Searched |-> i], found)
    IN  ByPrice([k \in DOMAIN places |-> TransportOffer(places[k])])

SearchIssues == {selected[i] : i \in {j \in Searched : ~HasOffer(j)}}

\* The provider's Search returns; without any offer the workflow fails.
Search ==
    /\ stage = "search"
    /\ \A i \in Searched : answers[i] # NotYet
    /\ offers' = FoundOffers
    /\ issues' = SearchIssues
    /\ stage' = IF FoundOffers = <<>> THEN "failed" ELSE "scoring"
    /\ UNCHANGED <<inputs, modes, selected, answers, scored, options>>

----------------------------------------------------------------------------
(* Scoring and explanation.                                                *)

\* calculateScore, over the common denominator of its ratios; a friction ceiling
\* or a budget of 0 leaves full friction and no value of the price.
CalculateScore(o) ==
    LET ceiling == IF recommendation.maxMinutes > 0
                   THEN recommendation.maxMinutes ELSE PreferredMinutes
        c == IF ceiling > 0 THEN ceiling ELSE 1
        b == IF recommendation.budget > 0 THEN recommendation.budget ELSE 1
        priceValue == IF recommendation.budget > 0
                      THEN recommendation.budget - o.price ELSE 0
        whole == (MeritWeight + PriceWeight) * b * c
        raw == (Merit[o.city] * b + PriceWeight * priceValue) * c
                   - FrictionWeight * Least(o.minutes, c) * b
    IN  IF raw <= 0 THEN 0 ELSE (200 * Least(raw, whole) + whole) \div (2 * whole)

\* validOffer, again, on the rounded price.
ValidOffer(o) ==
    /\ 0 <= o.price /\ o.price <= recommendation.budget
    /\ o.minutes > 0
    /\ o.mode \in modes

Better(s, t) == s.score > t.score \/ (s.score = t.score /\ s.price < t.price)

WithScore(o) ==
    [city |-> o.city, price |-> o.price, minutes |-> o.minutes, mode |-> o.mode,
     score |-> CalculateScore(o)]

RankedOptions ==
    LET eligible == Kept(offers, {k \in DOMAIN offers : ValidOffer(offers[k])})
        every == [k \in DOMAIN eligible |-> WithScore(eligible[k])]
        all == Sorted(every, {k \in Places(every) : Better(every[k[1]], every[k[2]])})
    IN  SubSeq(all, 1, Least(MaximumRankedOptions, Len(all)))

Score ==
    /\ stage = "scoring"
    /\ scored' = RankedOptions
    /\ stage' = IF RankedOptions = <<>> THEN "failed" ELSE "explanation"
    /\ UNCHANGED <<inputs, modes, selected, answers, offers, issues, options>>

\* joinRankedOptions: exactly one explanation for every scored city, in any order.
ValidRanking(cities) ==
    /\ Len(cities) = Len(scored)
    /\ IsInjective(cities)
    /\ \A i \in DOMAIN scored : scored[i].city \in ToSet(cities)

\* The texts come from the model, everything else and the order from the scoring.
Explain(cities) ==
    /\ stage = "explanation"
    /\ ValidRanking(cities)
    /\ options' = scored
    /\ stage' = IF issues = {} THEN "completed" ELSE "partial"
    /\ UNCHANGED <<inputs, modes, selected, answers, offers, issues, scored>>

\* An answer of the model is invalid or does not come, or a query fails.
SelectionFails ==
    /\ stage \in Working
    /\ stage' = "failed"
    /\ UNCHANGED <<inputs, modes, selected, answers, offers, issues, scored, options>>

SelectionNext ==
    \/ \E chosen \in SUBSET modes : Analyze(chosen)
    \/ Block
    \/ \E cities \in BoundedSeq(SearchCities, CandidateSearchLimit + 1) : Plan(cities)
    \/ \E i \in Searched, answer \in Answers : SearchAnswers(i, answer)
    \/ Search
    \/ Score
    \/ \E cities \in BoundedSeq(SearchCities, MaximumRankedOptions + 1) : Explain(cities)
    \/ SelectionFails

SelectionSpec == SelectionInit /\ [][SelectionNext]_selectionVars

----------------------------------------------------------------------------
(* Properties, of the options that are saved.                              *)

\* README.md:257: an option is never over the budget nor of a mode the user has not
\* chosen, and its city is a candidate the database returned; all of that whatever
\* the model planned and the provider answered, and with the price as it is shown.
OptionsSuit ==
    \A i \in DOMAIN options :
        /\ options[i].price <= recommendation.budget
        /\ options[i].mode \in recommendation.modes
        /\ options[i].city \in ToSet(candidates)

\* The offer a city is represented by, as the user would choose it: of the suitable
\* offers in time, or else of all the fastest, none is better; the first of equals.
Preferred(o, p) ==
    IF recommendation.maxMinutes = 0
         \/ /\ o.minutes <= recommendation.maxMinutes
            /\ p.minutes <= recommendation.maxMinutes
    THEN o.price < p.price
    ELSE o.minutes < p.minutes \/ (o.minutes = p.minutes /\ o.price < p.price)
Representative(i) ==
    CHOOSE k \in DOMAIN answers[i].offers :
        /\ BookableOffer(answers[i].offers[k])
        /\ \A l \in DOMAIN answers[i].offers :
               l # k /\ BookableOffer(answers[i].offers[l]) =>
                   /\ ~Preferred(answers[i].offers[l], answers[i].offers[k])
                   /\ l < k => Preferred(answers[i].offers[k], answers[i].offers[l])
Represented(i) ==
    LET o == answers[i].offers[Representative(i)] IN
    WithScore([city |-> selected[i], price |-> Rounded(o.price),
               minutes |-> o.minutes, mode |-> o.mode])

\* README.md:240: the backend's formula ranks, not the AI, and reproducibly.  The
\* options are, for any order in which the searches ended and whatever order the
\* explanations had, the best of the cities' preferred offers, best first; no city
\* that the limit cut off is better than one that is shown; and the status says
\* "completed" exactly if every city that was searched had a suitable offer.
BestAreShown ==
    stage \in Done =>
        LET found == {i \in Searched : HasOffer(i)}
            shown == {i \in found : Represented(i) \in ToSet(options)}
        IN  /\ Cardinality(shown) = Len(options)
            /\ Len(options) = Least(MaximumRankedOptions, Cardinality(found))
            /\ \A i \in shown, j \in found \ shown :
                   ~Better(Represented(j), Represented(i))
            /\ \A k, l \in DOMAIN options : k < l => ~Better(options[l], options[k])
            /\ stage = "completed" <=> found = Searched

============================================================================
