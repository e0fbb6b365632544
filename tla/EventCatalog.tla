---------------------------- MODULE EventCatalog ----------------------------
(***************************************************************************)
(* The table of events and the transactions that write it: a search for a  *)
(* city, the search for the popular events of the country, and the         *)
(* enrichment of a city's events, which asks the model between its read    *)
(* and its write.                                                          *)
(*                                                                         *)
(* Postgres runs them READ COMMITTED.  A statement finds its rows in the   *)
(* snapshot it begins with, waits for the transaction that holds a row and *)
(* then evaluates its condition on what that one committed.  A transaction *)
(* that waits for itself through others is the victim of the deadlock.     *)
(*                                                                         *)
(* All rows are of the one source that is written, deepseek_web_search: a  *)
(* row is named by its external id, the city and a digest of the title and *)
(* the day.  The times after which a row is not listed any more are left   *)
(* out, and EventDiscovery decides when a search is run.                   *)
(***************************************************************************)
EXTENDS Naturals, SequencesExt

CONSTANTS
    Events,     \* external ids
    CityOf,     \* the city of each
    Writers,    \* transactions at the same time
    MaxFound,   \* bound on the events one search returns
    MaxBegun    \* bound on the transactions

ASSUME CatalogAssumption ==
    /\ IsFiniteSet(Events)
    /\ DOMAIN CityOf = Events
    /\ MaxFound \in Nat
    /\ MaxBegun \in Nat

CONSTANT Absent
ASSUME AbsentAssumption ==
    Absent \notin [status: {"active", "expired"}, rank: 0..MaxFound, enriched: BOOLEAN]

VARIABLES
    events,     \* committed rows
    tx,         \* per writer its transaction
    begun,
    \* What searches found, which no code reads:
    popular,    \* the ranks the popular list should have, Absent when searches overlapped
    kept        \* per city, the events of its last search and those its list may show

catalogVars == <<events, tx, begun, popular, kept>>

CitiesOfEvents == {CityOf[e] : e \in Events}
Rows == [status: {"active", "expired"}, rank: 0..MaxFound, enriched: BOOLEAN]
Row(e) == events[e]

\* The rows of a city that List returns, and the rows that PopularEvents orders.
Listed(c) == {e \in Events : CityOf[e] = c /\ events[e] # Absent /\ Row(e).status = "active"}
Ranked == {e \in Events : events[e] # Absent /\ Row(e).rank > 0}
Popular == {e \in Ranked : Row(e).status = "active"}

\* A transaction is what it still has to write, row by row, and the rows it has
\* written, which others wait for.  since: what popular searches saved meanwhile;
\* apart: no other search of the same city, or of the country, overlaps.
Ended == [kind |-> "none", city |-> Absent, todo |-> <<>>, list |-> <<>>,
          writes |-> <<>>, since |-> {}, apart |-> TRUE]
Kinds == {"none", "city", "popular", "enrich"}
Steps == [do: {"expire", "unrank", "upsert", "enrich"}, event: Events, rank: 0..MaxFound]

Writes == UNION {[S -> Rows] : S \in SUBSET Events}
Transactions ==
    [kind: Kinds, city: CitiesOfEvents \cup {Absent}, todo: Seq(Steps), list: Seq(Events),
     writes: Writes, since: SUBSET Events, apart: BOOLEAN]

CatalogTypeOK ==
    /\ events \in [Events -> Rows \cup {Absent}]
    /\ tx \in [Writers -> Transactions]
    /\ begun \in 0..MaxBegun
    /\ popular \in [Events -> 0..MaxFound] \cup {Absent}
    /\ kept \in [CitiesOfEvents -> [found: SUBSET Events, may: SUBSET Events]]
    \* One transaction at most has written a row and not ended.
    /\ \A p, q \in Writers :
        p # q => DOMAIN tx[p].writes \cap DOMAIN tx[q].writes = {}

CatalogInit ==
    /\ events = [e \in Events |-> Absent]
    /\ tx = [p \in Writers |-> Ended]
    /\ begun = 0
    /\ popular = [e \in Events |-> 0]
    /\ kept = [c \in CitiesOfEvents |-> [found |-> {}, may |-> {}]]

----------------------------------------------------------------------------
(* Beginning a transaction.                                                *)

Do(step, seq) == [i \in DOMAIN seq |-> [do |-> step, event |-> seq[i], rank |-> 0]]

\* Only what is found for the country is ranked, from 1 in the order it was found.
Ranking(list) ==
    [i \in DOMAIN list |-> [do |-> "upsert", event |-> list[i], rank |-> i]]

\* Orders of a statement that writes a set of rows: the plan's, or the model's.
Orders(S) == SetToSeqs(S)

\* What a search may return: distinct events, at least one, or it has failed.
Found(S) == {s \in UNION {Orders(T) : T \in SUBSET S} : Len(s) \in 1..MaxFound}

\* Two searches for the same city, or for the country, may overlap when one took
\* over from the other.
SameSearch(p, kind, c) ==
    {q \in Writers \ {p} : tx[q].kind = kind /\ tx[q].city = c}

Begin(p, kind, c, list, todo) ==
    LET same == IF kind = "enrich" THEN {} ELSE SameSearch(p, kind, c) IN
    /\ tx[p] = Ended
    /\ begun < MaxBegun
    /\ begun' = begun + 1
    /\ tx' = [q \in Writers |->
           IF q = p
           THEN [Ended EXCEPT !.kind = kind, !.city = c, !.todo = todo, !.list = list,
                              !.since = Ranked, !.apart = same = {}]
           ELSE IF q \in same THEN [tx[q] EXCEPT !.apart = FALSE] ELSE tx[q]]
    /\ UNCHANGED <<events, popular, kept>>

\* One UPDATE expires the active rows of the city without a rank; then one INSERT
\* for each event, in the order it was found.
SaveCityDiscovery(p, c) ==
    \E list \in Found({e \in Events : CityOf[e] = c}),
       order \in Orders(Listed(c) \ Ranked) :
        Begin(p, "city", c, list, Do("expire", order) \o Do("upsert", list))

\* One UPDATE takes the rank from every row that has one, of whatever city.
SavePopularDiscovery(p) ==
    \E list \in Found(Events), order \in Orders(Ranked) :
        Begin(p, "popular", Absent, list, Do("unrank", order) \o Ranking(list))

\* Refresh has read the list of the city and asks the model; the answer is valid
\* only if it has each event of the list once, in whatever order.
Refresh(p, c) ==
    /\ Listed(c) # {}
    /\ \E order \in Orders(Listed(c)) :
        Begin(p, "enrich", c, order, Do("enrich", order))

----------------------------------------------------------------------------
(* One row after the other.                                                *)

Holders(e) == {p \in Writers : e \in DOMAIN tx[p].writes}
NextStep(p) == Head(tx[p].todo)

\* Who p waits for: the transaction that has written its next row.
WaitsFor(p) ==
    IF tx[p].todo = <<>> THEN {} ELSE Holders(NextStep(p).event) \ {p}

\* The table as a transaction sees it, and leaves it when it commits.
After(t, table) ==
    [e \in Events |-> IF e \in DOMAIN t.writes THEN t.writes[e] ELSE table[e]]

\* The row as a statement of p sees it once nobody else holds it.
Current(p, e) == After(tx[p], events)[e]

Wrote(p, e, row) ==
    tx' = [tx EXCEPT
        ![p].todo = Tail(@),
        ![p].writes = [x \in DOMAIN @ \cup {e} |-> IF x = e THEN row ELSE @[x]]]

\* The condition does not hold any more for the row that was waited for.
Skipped(p) == tx' = [tx EXCEPT ![p].todo = Tail(@)]

ExpireRow(p) ==
    LET e == NextStep(p).event
        row == Current(p, e) IN
    /\ NextStep(p).do = "expire"
    /\ IF row.status = "active" /\ row.rank = 0
       THEN Wrote(p, e, [row EXCEPT !.status = "expired"])
       ELSE Skipped(p)

Unrank(p) ==
    LET e == NextStep(p).event
        row == Current(p, e) IN
    /\ NextStep(p).do = "unrank"
    /\ IF row.rank > 0 THEN Wrote(p, e, [row EXCEPT !.rank = 0]) ELSE Skipped(p)

\* Mutant of Upsert: ON CONFLICT takes the rank of the new row.
UpsertRank(p) ==
    LET e == NextStep(p).event IN
    /\ NextStep(p).do = "upsert"
    /\ Wrote(p, e, [status |-> "active", enriched |-> FALSE, rank |-> NextStep(p).rank])

\* upsertDiscoveredEvent: a city's search has no rank and keeps the row's.
Upsert(p) ==
    LET e == NextStep(p).event
        row == Current(p, e)
        old == IF row = Absent THEN 0 ELSE row.rank
        new == NextStep(p).rank IN
    /\ NextStep(p).do = "upsert"
    /\ Wrote(p, e, [status |-> "active", enriched |-> FALSE,
                    rank |-> IF new > 0 THEN new ELSE old])

\* Mutant of Enrich: any status.
EnrichAny(p) ==
    LET e == NextStep(p).event IN
    /\ NextStep(p).do = "enrich"
    /\ Wrote(p, e, [Current(p, e) EXCEPT !.enriched = TRUE])

Enrich(p) ==
    LET e == NextStep(p).event
        row == Current(p, e) IN
    /\ NextStep(p).do = "enrich"
    /\ IF row.status = "active"
       THEN Wrote(p, e, [row EXCEPT !.enriched = TRUE])
       ELSE tx' = [tx EXCEPT ![p] = Ended]      \* ErrUnknownEnrichment

Write(p) ==
    /\ tx[p].todo # <<>>
    /\ WaitsFor(p) = {}
    /\ ExpireRow(p) \/ Unrank(p) \/ Upsert(p) \/ Enrich(p)
    /\ UNCHANGED <<events, begun, popular, kept>>

Commit(p) ==
    LET t == tx[p]
        found == ToSet(t.list)
        ranks == [e \in Events |-> IF e \in found THEN CHOOSE i \in DOMAIN t.list : t.list[i] = e
                                                   ELSE 0] IN
    /\ t # Ended
    /\ t.todo = <<>>
    /\ events' = After(t, events)
    /\ popular' = IF t.kind # "popular" THEN popular
                  ELSE IF t.apart THEN ranks ELSE Absent
    /\ kept' = [c \in CitiesOfEvents |->
           CASE t.kind = "popular" ->
                    [kept[c] EXCEPT !.may = @ \cup {e \in found : CityOf[e] = c}]
             [] t.kind = "city" /\ t.city = c ->
                    IF t.apart
                    THEN [found |-> found,
                          may |-> found \cup {e \in t.since : CityOf[e] = c}]
                    ELSE [found |-> {}, may |-> Events]
             [] OTHER -> kept[c]]
    /\ tx' = [q \in Writers |->
           IF q = p THEN Ended
           ELSE IF t.kind = "popular" /\ tx[q] # Ended
           THEN [tx[q] EXCEPT !.since = @ \cup found] ELSE tx[q]]
    /\ UNCHANGED begun

Rollback(p) ==
    /\ tx[p] # Ended
    /\ tx' = [tx EXCEPT ![p] = Ended]
    /\ UNCHANGED <<events, begun, popular, kept>>

\* A statement fails, the run's time is over or the connection is lost.
Fails(p) == Rollback(p)

\* Mutant of Victim: the statement is tried again in the same transaction.
VictimRetries(p) ==
    /\ \E q \in WaitsFor(p) : p \in WaitsFor(q)
    /\ UNCHANGED catalogVars

\* deadlock_detected: of two transactions that wait for each other, one is rolled
\* back.
Victim(p) ==
    /\ \E q \in WaitsFor(p) : p \in WaitsFor(q)
    /\ Rollback(p)

CatalogNext ==
    \E p \in Writers :
        \/ \E c \in CitiesOfEvents : SaveCityDiscovery(p, c) \/ Refresh(p, c)
        \/ SavePopularDiscovery(p)
        \/ Write(p)
        \/ Commit(p)
        \/ Fails(p)
        \/ Victim(p)

\* A transaction works until it ends; Postgres looks for deadlocks while one waits.
Fairness ==
    \A p \in Writers :
        /\ WF_catalogVars(Write(p) \/ Commit(p))
        /\ WF_catalogVars(Victim(p))

CatalogSpec == CatalogInit /\ [][CatalogNext]_catalogVars /\ Fairness

----------------------------------------------------------------------------
(* Properties.                                                             *)

\* Whatever searches and enrichments are saved at the same time, and whichever
\* transactions are rolled back: the popular list is the one that was saved last,
\* with its ranks, unless that search overlapped another one for the country; and
\* the list of a city has what its last search found, unless that overlapped another
\* one for the city, and of earlier searches only events that were popular when it
\* was saved, or were since.
ListsAreLast ==
    /\ popular # Absent =>
        /\ Popular = {e \in Events : popular[e] > 0}
        /\ \A e \in Popular : Row(e).rank = popular[e]
    /\ \A c \in CitiesOfEvents :
        /\ kept[c].found \subseteq Listed(c)
        /\ Listed(c) \subseteq kept[c].may

\* An enrichment is saved for all events of the list it has read, each of them still
\* listed, or for none.
EnrichedWhole ==
    [][\A p \in Writers :
        tx[p].kind = "enrich" /\ Commit(p) =>
            \A e \in ToSet(tx[p].list) :
                Row(e).status = "active" /\ events'[e].enriched]_catalogVars

\* No transaction waits for ever, in whatever order two of them take the same rows.
WritersEnd == \A p \in Writers : tx[p] # Ended ~> tx[p] = Ended

============================================================================
