---------------------------- MODULE EventAnswers ----------------------------
(***************************************************************************)
(* One search of the DeepSeek client for events: the attempts of the web   *)
(* search, and what is read from an answer that may be cut off, broken,    *)
(* repetitive or out of the period.  Times are hours from an arbitrary     *)
(* midnight.                                                               *)
(***************************************************************************)
EXTENDS Integers, SequencesExt, StableOrder

CONSTANTS
    Contents,       \* what an answer may say: sequences of payloads and Broken
    Broken,         \* an element that does not decode, or the end of a cut text
    KnownCities,    \* the index of the cities' names
    DateFrom, DateTo,
    EventLimit, MaximumDiscoveredEvents,
    SearchAttempts

ASSUME AttemptsAssumption ==
    /\ SearchAttempts \in Nat \ {0}
    /\ EventLimit \in Int /\ MaximumDiscoveredEvents \in Nat \ {0}
    /\ DateFrom \in Int /\ DateTo \in Int

NoTime == -1
Day == 24
DefaultHours == 3
TrailingDays == 7
WindowStart == DateFrom - Day
WindowEnd == DateTo + TrailingDays * Day

\* An element decodes to a payload; it may be without a time, or with any.
ASSUME ContentsAssumption ==
    \A text \in Contents :
        /\ text \in Seq({text[i] : i \in DOMAIN text})
        /\ \A i \in DOMAIN text :
               text[i] # Broken =>
                   text[i].titled \in BOOLEAN /\ text[i].start \in Int /\ text[i].end \in Int

VARIABLES
    scope,      \* "city" or "popular"
    attempt,
    content,    \* what the last answer said
    discovered, \* the events discover returns
    phase       \* "searching", "answered", "returned", "provider failed", "empty"

answersVars == <<scope, attempt, content, discovered, phase>>

Phases == {"searching", "answered", "returned", "provider failed", "empty"}

AnswersTypeOK ==
    /\ scope \in {"city", "popular"}
    /\ attempt \in 1..SearchAttempts
    /\ content \in Contents \cup {<<>>}
    /\ phase \in Phases
    /\ phase = "returned" <=> discovered # <<>>
    /\ \A i \in DOMAIN discovered : discovered[i].rank = i

AnswersInit ==
    /\ scope \in {"city", "popular"}
    /\ attempt = 1
    /\ content = <<>> /\ discovered = <<>>
    /\ phase = "searching"

----------------------------------------------------------------------------

\* A complete answer, or one that ran out of tokens: that is an error which is not
\* retried, but comes with the text so far.
Answer(text) ==
    /\ phase = "searching"
    /\ content' = text
    /\ phase' = "answered"
    /\ UNCHANGED <<scope, attempt, discovered>>

\* 408, 429, 5xx, no connection: once more after the pause.
TemporaryFailure ==
    /\ phase = "searching"
    /\ IF attempt < SearchAttempts
       THEN attempt' = attempt + 1 /\ phase' = phase
       ELSE phase' = "provider failed" /\ UNCHANGED attempt
    /\ UNCHANGED <<scope, content, discovered>>

\* Another status, an error of the provider, or the context ends in the pause.
FinalFailure ==
    /\ phase = "searching"
    /\ phase' = "provider failed"
    /\ UNCHANGED <<scope, attempt, content, discovered>>

\* decodeDiscovery: all of it, or what precedes the first element that is broken.
Decoded(text) ==
    LET intact == {n \in 0..Len(text) : \A i \in 1..n : text[i] # Broken}
    IN  SubSeq(text, 1, CHOOSE n \in intact : \A m \in intact : m <= n)

ValidPayload(p) ==
    /\ p.titled     \* long enough and without markup
    /\ p.start # NoTime
    /\ WindowStart <= p.start /\ p.start <= WindowEnd

\* No end, an end before the start or too late an end: three hours.
EndOf(p) ==
    IF p.end = NoTime \/ p.end < p.start \/ p.end > WindowEnd + TrailingDays * Day
    THEN p.start + DefaultHours ELSE p.end

Key(title, start) == <<title, start \div Day>>

\* One turn of the loop: a usable payload is taken, up to the limit and each title
\* once a day.
Take(taken, p, limit) ==
    IF /\ Len(taken) < limit
       /\ ValidPayload(p)
       /\ \A i \in DOMAIN taken :
              Key(taken[i].title, taken[i].start) # Key(p.title, p.start)
    THEN Append(taken, [title |-> p.title, city |-> p.city, start |-> p.start,
                        end |-> EndOf(p), rank |-> Len(taken) + 1])
    ELSE taken

Taken(payloads, limit) ==
    FoldLeft(LAMBDA taken, p : Take(taken, p, limit), <<>>, payloads)

\* Mutant of Normalized: the limit is applied to the payloads.
NormalizedPrefix(payloads) ==
    LET n == IF EventLimit < Len(payloads) THEN EventLimit ELSE Len(payloads)
    IN  Taken(SubSeq(payloads, 1, n), MaximumDiscoveredEvents)

\* normalizeDiscovered.
Normalized(payloads) ==
    Taken(payloads, IF EventLimit <= 0 \/ EventLimit > MaximumDiscoveredEvents
                    THEN MaximumDiscoveredEvents ELSE EventLimit)

\* DiscoverPopular: events of unknown cities are dropped, the ranks close up.
Matched(found) ==
    LET known == Kept(found, {k \in DOMAIN found : found[k].city \in KnownCities})
    IN  [i \in DOMAIN known |-> [known[i] EXCEPT !.rank = i]]

Return ==
    LET found == Normalized(Decoded(content)) IN
    /\ phase = "answered"
    /\ discovered' = IF scope = "popular" THEN Matched(found) ELSE found
    /\ phase' = IF discovered' = <<>> THEN "empty" ELSE "returned"
    /\ UNCHANGED <<scope, attempt, content>>

AnswersNext ==
    \/ \E text \in Contents : Answer(text)
    \/ TemporaryFailure
    \/ FinalFailure
    \/ Return

AnswersSpec == AnswersInit /\ [][AnswersNext]_answersVars

----------------------------------------------------------------------------
(* Properties.                                                             *)

\* With a title, and a start in the period, a day early or a week late at most.
Suitable(p) ==
    /\ p.titled /\ p.start # NoTime
    /\ DateFrom - Day <= p.start /\ p.start <= DateTo + TrailingDays * Day

\* The payloads of the answer that are usable: before anything broken, suitable, and
\* the first of their title and day.
Usable ==
    {i \in DOMAIN content :
        /\ \A j \in 1..i : content[j] # Broken
        /\ Suitable(content[i])
        /\ \A j \in 1..(i - 1) :
               Suitable(content[j]) =>
                   Key(content[j].title, content[j].start)
                       # Key(content[i].title, content[i].start)}
Place(i, S) == Cardinality({j \in S : j <= i})

\* An unusable, repeated or foreign payload takes no place of the limit, and a cut
\* answer loses nothing that precedes the cut: the events are the first usable ones,
\* in the order of the answer, and for the country those of known cities among them;
\* and each ends not before it starts nor a week after the last that may be found.
FirstUsableReturned ==
    phase \in {"returned", "empty"} =>
        LET first == {i \in Usable :
                         /\ Place(i, Usable) <= MaximumDiscoveredEvents
                         /\ EventLimit > 0 => Place(i, Usable) <= EventLimit}
            kept == {i \in first : scope = "popular" => content[i].city \in KnownCities}
        IN  /\ Len(discovered) = Cardinality(kept)
            /\ \A i \in kept : LET e == discovered[Place(i, kept)] IN
                   /\ e.title = content[i].title /\ e.start = content[i].start
                   /\ e.start <= e.end /\ e.end <= DateTo + 2 * TrailingDays * Day

============================================================================
