----------------------------- MODULE ComponentsProofs -----------------------------
(***************************************************************************)
(* What is computed in memory and in Redis: RateLimiter, OfferSelection and *)
(* EventAnswers, for every limit, width and time; every request, answer of *)
(* the transport provider and weight; every answer of the web search.      *)
(* At the end, the six components of MCComponents together.                *)
(***************************************************************************)
EXTENDS MCComponents, StorageProofs, DataLemmas, SequenceTheorems

----------------------------------------------------------------------------
(* RateLimiter.                                                            *)

\* Division stays within its dividend.
LEMMA DivBounds ==
    ASSUME NEW t \in Nat, NEW w \in Nat \ {0}
    PROVE  t \div w \in Nat /\ t \div w <= t
OBVIOUS

\* The bound on the clocks is one of them.
LEMMA LatestTime ==
    ASSUME NEW k \in Handlers
    PROVE  Max({MaxTime[h] : h \in Handlers}) \in Nat /\ MaxTime[k] <= Max({MaxTime[h] : h \in Handlers})
<1> DEFINE S == {MaxTime[h] : h \in Handlers}
<1>1. \E x \in S : \A y \in S : x >= y
  <2>1. Handlers \subseteq {"quota", "login"} /\ MaxTime \in [Handlers -> Nat]
    BY WindowsAssumption
  <2>2. CASE Handlers = {k}
    BY <2>1, <2>2
  <2>3. CASE \E h \in Handlers : h # k
    <3>1. PICK h \in Handlers : h # k
      BY <2>3
    <3>2. S = {MaxTime[h], MaxTime[k]}
      BY <2>1, <3>1
    <3>3. MaxTime[h] <= MaxTime[k] \/ MaxTime[k] <= MaxTime[h]
      BY <2>1, <3>1
    <3>. QED
      BY <2>1, <3>2, <3>3
  <2>. QED
    BY <2>2, <2>3
<1>2. Max(S) \in S /\ \A y \in S : Max(S) >= y
  BY <1>1 DEF Max
<1>. QED
  BY <1>2, WindowsAssumption

\* The calls of u that are about to reset its counter.
ResettingOf(u) == {c \in Calls : Resetting(c) /\ call[c].user = u}

\* Bounded, with the resets under way.
ResetsBounded ==
    \A u \in Callers : ResetsOf(u) + Cardinality(ResettingOf(u)) <= MaxResets

\* A call is counted before the tick after the one that drew its key has passed.
Prompt ==
    \A c \in Calls : call[c] # NoCall => call[c].at <= now /\ now <= call[c].at + 1

\* The ticks of a bucket, and those of them that have another one before or after them.
Ticks(sc, b) == {t \in Times : Bucket(sc, t) = b}
NonFirst(sc, b) == {t \in Ticks(sc, b) : t > 0 /\ Bucket(sc, t - 1) = b}
NonLast(sc, b) == {t \in Ticks(sc, b) : Bucket(sc, t + 1) = b}

\* passed per bucket; what earlier limits, used up before a reset, account for; and the
\* limit that an expired key gives, for a counter that is touched after its bucket.
PassedOf(u, sc, b) == PassedIn(u, sc, Ticks(sc, b))
Earlier(u, sc, b) == Limit[sc] * (Limits(u, sc, b) - 1)
Extra(u, sc, b) == IF Bucket(sc, touched[<<u, sc, b>>]) > b THEN Limit[sc] ELSE 0

\* What passed is paid for by the counter.  A key that expires under its bucket's last
\* calls was touched at the first tick of the bucket only, so that the calls of the other
\* ticks are paid for without the limit it gives; and no call of another tick than the
\* last finds it expired.
Account(u, sc, b) ==
    /\ PassedOf(u, sc, b) <= Earlier(u, sc, b) + Extra(u, sc, b) + counter[<<u, sc, b>>]
    /\ PassedOf(u, sc, b) <= Earlier(u, sc, b) + Extra(u, sc, b) + Limit[sc]
    /\ PassedIn(u, sc, NonFirst(sc, b)) <= Earlier(u, sc, b) + counter[<<u, sc, b>>]
    /\ PassedIn(u, sc, NonFirst(sc, b)) <= Earlier(u, sc, b) + Limit[sc]
    /\ PassedIn(u, sc, NonLast(sc, b)) <= Earlier(u, sc, b) + Limit[sc]

\* When a counter was touched: not in the future, nor before its bucket, nor before a call
\* it let pass.
Dated(u, sc, b) ==
    /\ touched[<<u, sc, b>>] <= now
    /\ counter[<<u, sc, b>>] > 0 => b <= Bucket(sc, touched[<<u, sc, b>>])
    /\ \A t \in Ticks(sc, b) : passed[<<u, sc, t>>] > 0 => t <= touched[<<u, sc, b>>]

Accounted ==
    \A u \in Callers, sc \in Scopes, b \in Times : Account(u, sc, b) /\ Dated(u, sc, b)

LimiterInv == LimiterTypeOK /\ ResetsBounded /\ Prompt /\ Accounted

----------------------------------------------------------------------------
\* The times, once there is a handler.
LEMMA TimesAre ==
    ASSUME Handlers # {}
    PROVE  /\ Times \subseteq Nat
           /\ IsFiniteSet(Times)
           /\ \A t \in Times : 0..t \subseteq Times
           /\ \A h \in Handlers : MaxTime[h] \in Nat /\ 0..MaxTime[h] \subseteq Times
<1>1. PICK k \in Handlers : TRUE
  OBVIOUS
<1>2. Max({MaxTime[h] : h \in Handlers}) \in Nat
  BY <1>1, LatestTime
<1>3. \A h \in Handlers : /\ MaxTime[h] \in Nat
                          /\ MaxTime[h] <= Max({MaxTime[g] : g \in Handlers})
  BY LatestTime, WindowsAssumption
<1> DEFINE last == Max({MaxTime[h] : h \in Handlers})
<1>4. Times = 0..last /\ last \in Nat
  BY <1>2 DEF Times
<1>5. \A h \in Handlers : MaxTime[h] \in Nat /\ MaxTime[h] <= last
  BY <1>3
<1>. HIDE DEF last
<1>6. IsFiniteSet(Times)
  BY <1>4, FS_Interval
<1>7. \A t \in Times : 0..t \subseteq Times
  BY <1>4
<1>8. \A h \in Handlers : 0..MaxTime[h] \subseteq Times
  BY <1>4, <1>5
<1>. QED
  BY <1>4, <1>5, <1>6, <1>7, <1>8

\* A bucket is named by a number that is a time.
LEMMA BucketIn ==
    ASSUME Handlers # {}, NEW sc \in Scopes, NEW t \in Times
    PROVE  Bucket(sc, t) \in Times
<1>1. t \in Nat /\ 0..t \subseteq Times /\ Width[sc] \in Nat \ {0}
  BY TimesAre, WindowsAssumption
<1>2. t \div Width[sc] \in Nat /\ t \div Width[sc] <= t
  BY <1>1, DivBounds
<1>. QED
  BY <1>1, <1>2 DEF Bucket

\* Buckets follow each other in the order of time, one width after another.
LEMMA BucketOrder ==
    ASSUME NEW sc \in Scopes, NEW s \in Nat, NEW t \in Nat
    PROVE  /\ Width[sc] \in Nat \ {0}
           /\ Bucket(sc, t) \in Nat
           /\ s <= t => Bucket(sc, s) <= Bucket(sc, t)
           /\ s + Width[sc] <= t => Bucket(sc, s) + 1 <= Bucket(sc, t)
           /\ t <= s + Width[sc] => Bucket(sc, t) <= Bucket(sc, s) + 1
<1>1. Width[sc] \in Nat \ {0}
  BY WindowsAssumption
<1>2. PICK w \in Nat \ {0} : w = Width[sc]
  BY <1>1
<1>3. s \div w \in Nat /\ t \div w \in Nat
  BY DivBounds
<1>4. \A m, n \in Nat : m <= n => m \div w <= n \div w
  OBVIOUS
<1>5. (s + w) \div w = (s \div w) + 1
  OBVIOUS
<1>6. s + w \in Nat
  OBVIOUS
<1>7. s + w <= t => (s \div w) + 1 <= t \div w
  BY <1>4, <1>5, <1>6
<1>8. t <= s + w => t \div w <= (s \div w) + 1
  BY <1>4, <1>5, <1>6
<1>. QED
  BY <1>1, <1>2, <1>3, <1>4, <1>7, <1>8 DEF Bucket

\* What a call counts.
LEMMA Counting ==
    ASSUME LimiterTypeOK, NEW c \in Calls, Asking(c)
    PROVE  /\ call[c] \in Keys /\ call[c].scope \in Scopes
           /\ call[c].user \in Callers /\ call[c].at \in Times
           /\ Bucket(call[c].scope, call[c].at) \in Times
           /\ Counter(c) \in Callers \X Scopes \X Times
           /\ counter[Counter(c)] \in Nat /\ Limit[call[c].scope] \in Nat
           /\ counter[Counter(c)] <= Limit[call[c].scope] + 1
           /\ FoundCount(c) \subseteq {0, counter[Counter(c)]}
<1>1. Handlers # {} /\ call[c] \in Keys /\ call[c].scope \in Scopes
  BY DEF LimiterTypeOK, Asking
<1>2. call[c].user \in Callers /\ call[c].at \in Times
  BY <1>1 DEF Keys
<1>3. Bucket(call[c].scope, call[c].at) \in Times
  BY <1>1, <1>2, BucketIn
<1>4. Counter(c) \in Callers \X Scopes \X Times
  BY <1>1, <1>2, <1>3 DEF Counter
<1>5. counter[Counter(c)] \in Nat
  BY <1>4 DEF LimiterTypeOK
<1>6. counter[Counter(c)] <= Limit[call[c].scope] + 1
  BY <1>1, <1>2, <1>3 DEF LimiterTypeOK, Counter
<1>7. Limit[call[c].scope] \in Nat
  BY <1>1, WindowsAssumption
<1>. QED
  BY <1>1, <1>2, <1>3, <1>4, <1>5, <1>6, <1>7 DEF FoundCount

\* A call that was let pass goes on or ends.
LEMMA AdvancedIs ==
    ASSUME LimiterTypeOK, NEW c \in Calls, Asking(c)
    PROVE  /\ Advanced(c) \in [Calls -> Keys \cup {NoCall}]
           /\ \A d \in Calls \ {c} : Advanced(c)[d] = call[d]
           /\ Advanced(c)[c] # NoCall =>
                 Advanced(c)[c].scope # "reset" /\ Advanced(c)[c].at = now
<1>1. call[c] \in Keys /\ now \in Times /\ call \in [Calls -> Keys \cup {NoCall}]
  BY Counting DEF LimiterTypeOK
<1>2. call[c].scope \in Scopes
  BY DEF Asking
<1>3. Following[call[c].scope] \in {"day", "end", "address", "verify"}
  BY <1>2 DEF Scopes, Following
<1>4. CASE Following[call[c].scope] = "end"
  BY <1>1, <1>4 DEF Advanced
<1>5. CASE Following[call[c].scope] # "end"
  <2> DEFINE next == [call[c] EXCEPT !.scope = Following[call[c].scope], !.at = now]
  <2>1. next \in Keys /\ next.scope # "reset" /\ next.at = now
    BY <1>1, <1>3, <1>5 DEF Keys, CallSteps, Scopes
  <2>2. Advanced(c) = [call EXCEPT ![c] = next]
    BY <1>1, <1>5 DEF Advanced
  <2>. HIDE DEF next
  <2>. QED
    BY <1>1, <2>1, <2>2
<1>. QED
  BY <1>4, <1>5

----------------------------------------------------------------------------
\* The bound on the resets.

\* The sum of the resets of a user is a number, at least each of them.
LEMMA ResetsAre ==
    ASSUME LimiterTypeOK, NEW u \in Callers
    PROVE  /\ ResetsOf(u) \in Nat
           /\ \A t \in Times : resets[<<u, t>>] \in Nat /\ resets[<<u, t>>] <= ResetsOf(u)
<1> DEFINE f == [t \in Times |-> resets[<<u, t>>]]
<1>1. IsFiniteSet(Times) /\ MaxResets \in Nat
  BY TimesAre, WindowsAssumption DEF LimiterTypeOK
<1>2. \A t \in Times : resets[<<u, t>>] \in Nat
  BY <1>1 DEF LimiterTypeOK
<1>3. \A t \in Times : f[t] \in Nat /\ f[t] = resets[<<u, t>>]
  BY <1>2
<1>. HIDE DEF f
<1>4. SumFunctionOnSet(f, Times) \in Nat
  BY <1>1, <1>3, SumOfNaturals
<1>5. \A t \in Times : f[t] <= SumFunctionOnSet(f, Times)
  BY <1>1, <1>3, SumAtLeast
<1>. QED
  BY <1>2, <1>3, <1>4, <1>5 DEF ResetsOf, f

\* The calls about to reset are finitely many.
LEMMA ResettingFinite ==
    ASSUME NEW u
    PROVE  IsFiniteSet(ResettingOf(u)) /\ Cardinality(ResettingOf(u)) \in Nat
<1>1. ResettingOf(u) \in SUBSET Calls
  BY DEF ResettingOf
<1>. QED
  BY <1>1, CallsAssumption, FS_Subset, FS_CardinalityType

\* The same for the next state.
LEMMA ResettingFiniteNext ==
    ASSUME NEW u
    PROVE  IsFiniteSet(ResettingOf(u)') /\ Cardinality(ResettingOf(u)') \in Nat
<1>1. ResettingOf(u)' \in SUBSET Calls
  BY DEF ResettingOf
<1>. QED
  BY <1>1, CallsAssumption, FS_Subset, FS_CardinalityType

\* Nothing is reset and no call turns to resetting.
LEMMA NoMoreResets ==
    ASSUME LimiterTypeOK, ResetsBounded, UNCHANGED resets,
           \A c \in Calls : (Resetting(c))' => Resetting(c) /\ call'[c].user = call[c].user
    PROVE  ResetsBounded'
<1>1. SUFFICES ASSUME NEW u \in Callers
               PROVE  (ResetsOf(u) + Cardinality(ResettingOf(u)) <= MaxResets)'
  BY DEF ResetsBounded
<1>2. (ResetsOf(u))' = ResetsOf(u)
  BY DEF ResetsOf
<1>3. ResettingOf(u)' \in SUBSET ResettingOf(u)
  BY DEF ResettingOf
<1>4. Cardinality(ResettingOf(u)') <= Cardinality(ResettingOf(u))
  BY <1>3, ResettingFinite, FS_Subset
<1>5. ResetsOf(u) + Cardinality(ResettingOf(u)) <= MaxResets
  BY DEF ResetsBounded
<1>. QED
  BY <1>2, <1>4, <1>5, ResetsAre, ResettingFinite, ResettingFiniteNext, WindowsAssumption

\* One more call is about to reset.
LEMMA VerifiedKeepsBound ==
    ASSUME LimiterTypeOK, ResetsBounded, NEW c \in Calls, Verified(c)
    PROVE  ResetsBounded'
<1>1. SUFFICES ASSUME NEW u \in Callers
               PROVE  (ResetsOf(u) + Cardinality(ResettingOf(u)) <= MaxResets)'
  BY DEF ResetsBounded
<1>2. call[c] \in Keys /\ call' \in [Calls -> Keys \cup {NoCall}]
      /\ call' = [call EXCEPT ![c] = [call[c] EXCEPT !.scope = "reset", !.at = now]]
  BY DEF Verified, LimiterTypeOK, Keys, CallSteps
<1>3. (ResetsOf(u))' = ResetsOf(u)
  BY DEF ResetsOf, Verified
<1>4. CASE call[c].user # u
  <2>1. ResettingOf(u)' \in SUBSET ResettingOf(u)
    BY <1>2, <1>4 DEF ResettingOf, Resetting, Keys, LimiterTypeOK
  <2>2. Cardinality(ResettingOf(u)') <= Cardinality(ResettingOf(u))
    BY <2>1, ResettingFinite, FS_Subset
  <2>3. ResetsOf(u) + Cardinality(ResettingOf(u)) <= MaxResets
    BY DEF ResetsBounded
  <2>. QED
    BY <1>3, <2>2, <2>3, ResetsAre, ResettingFinite, ResettingFiniteNext, WindowsAssumption
<1>5. CASE call[c].user = u
  <2> DEFINE all == {d \in Calls : Resetting(d)}
  <2>1. IsFiniteSet(all) /\ Cardinality(all) \in Nat
    <3>1. all \in SUBSET Calls
      OBVIOUS
    <3>. QED
      BY <3>1, CallsAssumption, FS_Subset, FS_CardinalityType
  <2>2. ResettingOf(u)' \in SUBSET (all \cup {c})
    BY <1>2 DEF ResettingOf, Resetting, LimiterTypeOK
  <2>3. IsFiniteSet(all \cup {c}) /\ Cardinality(all \cup {c}) <= Cardinality(all) + 1
    <3>. HIDE DEF all
    <3>1. IsFiniteSet(all \cup {c})
      BY <2>1, FS_AddElement
    <3>2. Cardinality(all \cup {c}) = IF c \in all THEN Cardinality(all) ELSE Cardinality(all) + 1
      BY <2>1, FS_AddElement
    <3>. QED
      BY <2>1, <3>1, <3>2
  <2>4. Cardinality(ResettingOf(u)') <= Cardinality(all \cup {c})
        /\ Cardinality(all \cup {c}) \in Nat
    BY <2>2, <2>3, FS_Subset, FS_CardinalityType
  <2>5. ResetsOf(u) + Cardinality(all) < MaxResets
    BY <1>5 DEF Verified
  <2>. QED
    BY <1>3, <2>1, <2>3, <2>4, <2>5, ResetsAre, ResettingFiniteNext, WindowsAssumption
<1>. QED
  BY <1>4, <1>5

\* What a reset changes: a call that was about to becomes a reset.
LEMMA ResetKeepsBound ==
    ASSUME LimiterTypeOK, ResetsBounded, NEW c \in Calls, Reset(c)
    PROVE  /\ ResetsBounded'
           /\ resets' \in [Callers \X Times -> 0..MaxResets]
<1> DEFINE v == call[c].user
           b == Bucket("email", call[c].at)
<1>1. call[c] \in Keys /\ v \in Callers /\ b \in Times
  <2>1. call[c] \in Keys /\ call[c].at \in Times /\ Handlers # {}
    BY DEF Reset, Resetting, LimiterTypeOK, Keys
  <2>. QED
    BY <2>1, BucketIn DEF Keys, Scopes
<1>. HIDE DEF b
<1>2. resets' = [resets EXCEPT ![<<v, b>>] = @ + 1] /\ call' = [call EXCEPT ![c] = NoCall]
  BY DEF Reset, b
<1>3. \A u \in Callers, t \in Times :
         /\ resets[<<u, t>>] \in Nat
         /\ resets'[<<u, t>>] = IF u = v /\ t = b THEN resets[<<u, t>>] + 1 ELSE resets[<<u, t>>]
  BY <1>1, <1>2, ResetsAre DEF LimiterTypeOK
<1>4. ASSUME NEW u \in Callers
      PROVE  /\ (ResetsOf(u))' = ResetsOf(u) + (IF u = v THEN 1 ELSE 0)
             /\ (ResetsOf(u))' \in Nat
  <2> DEFINE f == [t \in Times |-> resets[<<u, t>>]]
             k == [t \in Times |-> resets'[<<u, t>>]]
  <2>1. IsFiniteSet(Times) /\ \A t \in Times : f[t] \in Int /\ k[t] \in Int
    BY <1>3, TimesAre DEF LimiterTypeOK
  <2>2. ResetsOf(u) = SumFunctionOnSet(f, Times) /\ (ResetsOf(u))' = SumFunctionOnSet(k, Times)
    BY DEF ResetsOf
  <2>3. \A t \in Times \ {b} : k[t] = f[t]
    BY <1>3
  <2>4. k[b] = f[b] + (IF u = v THEN 1 ELSE 0) /\ f[b] \in Int
    BY <1>1, <1>3
  <2>. HIDE DEF f, k
  <2>5. SumFunctionOnSet(k, Times) = SumFunctionOnSet(f, Times) - f[b] + k[b]
    BY <1>1, <2>1, <2>3, SumWithOther
  <2>. QED
    BY <2>2, <2>4, <2>5, ResetsAre
<1>5. ASSUME NEW u \in Callers
      PROVE  Cardinality(ResettingOf(u)') + (IF u = v THEN 1 ELSE 0) = Cardinality(ResettingOf(u))
  <2>1. CASE u = v
    <3>1. c \in ResettingOf(u) /\ ResettingOf(u)' = ResettingOf(u) \ {c}
      BY <1>2, <2>1 DEF ResettingOf, Resetting, Reset, LimiterTypeOK
    <3>2. Cardinality(ResettingOf(u) \ {c}) = Cardinality(ResettingOf(u)) - 1
      BY <3>1, ResettingFinite, FS_RemoveElement
    <3>. QED
      BY <2>1, <3>1, <3>2, ResettingFinite
  <2>2. CASE u # v
    <3>1. ResettingOf(u)' = ResettingOf(u)
      BY <1>2, <2>2 DEF ResettingOf, Resetting, Reset, LimiterTypeOK
    <3>. QED
      BY <2>2, <3>1, ResettingFinite
  <2>. QED
    BY <2>1, <2>2
<1>6. ASSUME NEW u \in Callers
      PROVE  (ResetsOf(u) + Cardinality(ResettingOf(u)) <= MaxResets)'
  <2>1. ResetsOf(u) + Cardinality(ResettingOf(u)) <= MaxResets
    BY DEF ResetsBounded
  <2>. QED
    BY <1>4, <1>5, <2>1, ResetsAre, ResettingFinite, ResettingFiniteNext, WindowsAssumption
<1>7. ResetsBounded'
  BY <1>6 DEF ResetsBounded
<1>8. resets[<<v, b>>] + 1 \in 0..MaxResets
  <2>1. PICK u \in Callers : u = v
    BY <1>1
  <2>2. (ResetsOf(u))' = ResetsOf(u) + 1
    BY <1>4, <2>1
  <2>3. (ResetsOf(u) + Cardinality(ResettingOf(u)) <= MaxResets)'
    BY <1>6
  <2>4. resets[<<u, b>>] \in Nat /\ resets[<<u, b>>] <= ResetsOf(u) /\ ResetsOf(u) \in Nat
    BY <1>1, ResetsAre
  <2>5. resets[<<u, b>>] + 1 \in 0..MaxResets
    BY <2>2, <2>3, <2>4, ResettingFiniteNext, WindowsAssumption
  <2>. QED
    BY <2>1, <2>5
<1>9. resets' \in [Callers \X Times -> 0..MaxResets]
  BY <1>1, <1>2, <1>8 DEF LimiterTypeOK
<1>. QED
  BY <1>7, <1>9

----------------------------------------------------------------------------
\* The account of a bucket.

\* Multiplication, as the account uses it.
LEMMA OneMoreLimit ==
    ASSUME NEW l \in Nat, NEW n \in Nat
    PROVE  l * n \in Nat /\ l * (n + 1) = l * n + l
OBVIOUS

\* How many limits were used up before.
LEMMA EarlierIs ==
    ASSUME LimiterTypeOK, NEW u \in Callers, NEW sc \in Scopes, NEW b \in Times
    PROVE  /\ Earlier(u, sc, b) \in Nat
           /\ Limit[sc] \in Nat
           /\ Limit[sc] * Limits(u, sc, b) = Earlier(u, sc, b) + Limit[sc]
<1>1. resets[<<u, b>>] \in Nat /\ Limit[sc] \in Nat
  BY ResetsAre, WindowsAssumption
<1>2. PICK n \in Nat : Limits(u, sc, b) = n + 1
  <2>1. CASE sc = "email"
    <3>1. Limits(u, sc, b) = 1 + resets[<<u, b>>]
      BY <2>1 DEF Limits
    <3>2. 1 + resets[<<u, b>>] = resets[<<u, b>>] + 1
      BY <1>1
    <3>. QED
      BY <1>1, <3>1, <3>2
  <2>2. CASE sc # "email"
    <3>1. Limits(u, sc, b) = 0 + 1
      BY <2>2 DEF Limits
    <3>. QED
      BY <3>1
  <2>. QED
    BY <2>1, <2>2
<1>3. Earlier(u, sc, b) = Limit[sc] * n
  BY <1>2 DEF Earlier
<1>. QED
  BY <1>1, <1>2, <1>3, OneMoreLimit

\* The ticks of a bucket are finitely many times.
LEMMA TicksAre ==
    ASSUME Handlers # {}, NEW sc, NEW b
    PROVE  \A T \in SUBSET Ticks(sc, b) : IsFiniteSet(T) /\ T \subseteq Times
<1>1. Ticks(sc, b) \in SUBSET Times /\ IsFiniteSet(Times)
  BY TimesAre DEF Ticks
<1>. QED
  BY <1>1, FS_Subset

\* The parts of a bucket.
LEMMA PartsAre ==
    ASSUME NEW sc, NEW b
    PROVE  NonFirst(sc, b) \in SUBSET Ticks(sc, b) /\ NonLast(sc, b) \in SUBSET Ticks(sc, b)
BY DEF NonFirst, NonLast

\* What was passed at some times is a number, no smaller for more times.
LEMMA PassedIs ==
    ASSUME LimiterTypeOK, NEW u \in Callers, NEW sc \in Scopes, NEW b \in Times,
           NEW T \in SUBSET Ticks(sc, b)
    PROVE  /\ PassedIn(u, sc, T) \in Nat
           /\ PassedIn(u, sc, T) <= PassedOf(u, sc, b)
<1> DEFINE f == [t \in Times |-> passed[<<u, sc, t>>]]
           whole == Ticks(sc, b)
<1>1. /\ IsFiniteSet(T) /\ IsFiniteSet(whole)
      /\ T \subseteq Times /\ whole \subseteq Times
  BY TicksAre DEF LimiterTypeOK
<1>2. \A t \in whole : f[t] \in Nat
  BY <1>1 DEF LimiterTypeOK
<1>3. PassedOf(u, sc, b) = SumFunctionOnSet(f, whole)
  BY DEF PassedOf, PassedIn
<1>4. PassedIn(u, sc, T) = SumFunctionOnSet(f, T)
  BY DEF PassedIn
<1>5. T \subseteq whole
  OBVIOUS
<1>. HIDE DEF f, whole
<1>6. SumFunctionOnSet(f, T) \in Nat
  BY <1>1, <1>2, <1>5, SumOfNaturals
<1>7. SumFunctionOnSet(f, T) <= SumFunctionOnSet(f, whole)
  <2>1. T \subseteq whole \cup {} /\ IsFiniteSet({}) /\ SumFunctionOnSet(f, {}) = 0
    BY <1>5, FS_EmptySet, SumOfNothing
  <2>2. SumFunctionOnSet(f, T) <= SumFunctionOnSet(f, whole) + SumFunctionOnSet(f, {})
    BY <1>1, <1>2, <2>1, SumCovered
  <2>3. SumFunctionOnSet(f, whole) \in Nat
    BY <1>1, <1>2, SumOfNaturals
  <2>. QED
    BY <2>1, <2>2, <2>3
<1>. QED
  BY <1>3, <1>4, <1>6, <1>7

\* A pass counts at the time that drew its key, for its caller and scope.
LEMMA PassCounts ==
    ASSUME LimiterTypeOK, NEW c \in Calls, Pass(c),
           NEW u \in Callers, NEW sc \in Scopes, NEW b \in Times,
           NEW T \in SUBSET Ticks(sc, b)
    PROVE  (PassedIn(u, sc, T))' =
               IF u = call[c].user /\ sc = call[c].scope /\ call[c].at \in T
               THEN PassedIn(u, sc, T) + 1 ELSE PassedIn(u, sc, T)
<1> DEFINE f == [t \in Times |-> passed[<<u, sc, t>>]]
           k == [t \in Times |-> passed'[<<u, sc, t>>]]
           at == call[c].at
<1>1. Asking(c) /\ call[c] \in Keys /\ call[c].scope \in Scopes /\ call[c].user \in Callers
      /\ at \in Times
  BY Counting DEF Pass
<1>2. passed' = [passed EXCEPT ![<<call[c].user, call[c].scope, call[c].at>>] = @ + 1]
  BY DEF Pass
<1>3. \A t \in Times : passed[<<u, sc, t>>] \in Nat
  BY DEF LimiterTypeOK
<1>4. \A t \in Times :
         passed'[<<u, sc, t>>] = IF u = call[c].user /\ sc = call[c].scope /\ t = at
                                 THEN passed[<<u, sc, t>>] + 1 ELSE passed[<<u, sc, t>>]
  BY <1>1, <1>2 DEF LimiterTypeOK
<1>5. PassedIn(u, sc, T) = SumFunctionOnSet(f, T) /\ (PassedIn(u, sc, T))' = SumFunctionOnSet(k, T)
  BY DEF PassedIn
<1>6. IsFiniteSet(T) /\ T \subseteq Times
  BY TicksAre DEF LimiterTypeOK
<1>7. \A t \in Times : f[t] \in Int /\ k[t] \in Int
                       /\ f[t] = passed[<<u, sc, t>>] /\ k[t] = passed'[<<u, sc, t>>]
  BY <1>3, <1>4
<1>. HIDE DEF f, k
<1>8. CASE u = call[c].user /\ sc = call[c].scope /\ at \in T
  <2>1. k[at] = f[at] + 1 /\ \A t \in T \ {at} : k[t] = f[t]
    <3>1. passed'[<<u, sc, at>>] = passed[<<u, sc, at>>] + 1
      BY <1>1, <1>4, <1>8
    <3>2. k[at] = passed'[<<u, sc, at>>] /\ f[at] = passed[<<u, sc, at>>]
      BY <1>1, <1>7
    <3>3. ASSUME NEW t \in T \ {at} PROVE k[t] = f[t]
      <4>1. t \in Times /\ t # at
        BY <1>6
      <4>2. passed'[<<u, sc, t>>] = passed[<<u, sc, t>>]
        BY <1>4, <4>1
      <4>3. k[t] = passed'[<<u, sc, t>>] /\ f[t] = passed[<<u, sc, t>>]
        BY <1>7, <4>1
      <4>. QED
        BY <4>2, <4>3
    <3>. QED
      BY <3>1, <3>2, <3>3
  <2>2. SumFunctionOnSet(k, T) = SumFunctionOnSet(f, T) - f[at] + k[at]
    <3>1. \A t \in T : f[t] \in Int /\ k[t] \in Int
      BY <1>6, <1>7
    <3>. QED
      BY <1>6, <1>8, <2>1, <3>1, SumWithOther
  <2>3. PassedIn(u, sc, T) \in Nat /\ f[at] \in Int
    BY <1>1, <1>7, PassedIs
  <2>. QED
    BY <1>5, <1>8, <2>1, <2>2, <2>3
<1>9. CASE ~(u = call[c].user /\ sc = call[c].scope /\ at \in T)
  <2>1. \A t \in T : k[t] = f[t]
    BY <1>1, <1>4, <1>6, <1>7, <1>9
  <2>. QED
    BY <1>5, <1>6, <1>9, <2>1, SumOfEquals
<1>. QED
  BY <1>8, <1>9

\* Before any call of another tick than the first of its bucket has passed, the counter is
\* touched, if at all, at the first one.
LEMMA TouchedAtFirst ==
    ASSUME LimiterTypeOK, NEW u \in Callers, NEW sc \in Scopes, NEW b \in Times,
           Dated(u, sc, b),
           touched[<<u, sc, b>>] = 0 \/ Bucket(sc, touched[<<u, sc, b>>] - 1) < b
    PROVE  PassedIn(u, sc, NonFirst(sc, b)) = 0
<1> DEFINE f == [t \in Times |-> passed[<<u, sc, t>>]]
           T == NonFirst(sc, b)
           last == touched[<<u, sc, b>>]
<1>1. T \in SUBSET Ticks(sc, b) /\ IsFiniteSet(T) /\ T \subseteq Times /\ Times \subseteq Nat
  BY PartsAre, TicksAre, TimesAre DEF LimiterTypeOK
<1>2. last \in Times
  BY DEF LimiterTypeOK
<1>3. ASSUME NEW t \in T PROVE f[t] = 0
  <2>1. /\ t \in Ticks(sc, b) /\ t \in Times /\ t \in Nat /\ last \in Nat
        /\ t > 0 /\ Bucket(sc, t - 1) = b /\ passed[<<u, sc, t>>] \in Nat
    BY <1>1, <1>2 DEF NonFirst, LimiterTypeOK
  <2>2. SUFFICES ASSUME passed[<<u, sc, t>>] > 0 PROVE FALSE
    BY <2>1
  <2>3. t <= last
    BY <2>1, <2>2 DEF Dated
  <2>4. last > 0 /\ t - 1 \in Nat /\ last - 1 \in Nat /\ t - 1 <= last - 1
    BY <2>1, <2>3
  <2>5. b <= Bucket(sc, last - 1) /\ Bucket(sc, last - 1) \in Nat /\ b \in Nat
    BY <2>1, <2>4, BucketOrder
  <2>. QED
    BY <2>4, <2>5
<1>4. PassedIn(u, sc, T) = SumFunctionOnSet(f, T)
  BY DEF PassedIn
<1> DEFINE zero == [t \in Times |-> 0]
<1>5. \A t \in T : f[t] = zero[t]
  BY <1>1, <1>3
<1>6. SumFunctionOnSet(zero, T) = 0
  BY <1>1, SumOfZeros
<1>. HIDE DEF f, T, zero
<1>7. SumFunctionOnSet(f, T) = SumFunctionOnSet(zero, T)
  BY <1>1, <1>5, SumOfEquals
<1>8. PassedIn(u, sc, T) = 0
  BY <1>4, <1>6, <1>7
<1>. QED
  BY <1>8 DEF T

\* Where nothing passes, is reset or counted, the account stays.
LEMMA AccountStays ==
    ASSUME Accounted, UNCHANGED <<counter, touched, passed, resets>>,
           LimiterTypeOK, LimiterTypeOK', now' >= now
    PROVE  Accounted'
<1>1. SUFFICES ASSUME NEW u \in Callers, NEW sc \in Scopes, NEW b \in Times
               PROVE  Account(u, sc, b)' /\ Dated(u, sc, b)'
  BY DEF Accounted
<1>2. Account(u, sc, b) /\ Dated(u, sc, b)
  BY DEF Accounted
<1>3. Account(u, sc, b)'
  BY <1>2 DEF Account, PassedOf, PassedIn, Earlier, Extra, Limits
<1>4. touched[<<u, sc, b>>] \in Nat /\ now \in Nat /\ now' \in Nat
  BY TimesAre DEF LimiterTypeOK
<1>5. Dated(u, sc, b)'
  BY <1>2, <1>4 DEF Dated
<1>. QED
  BY <1>3, <1>5

\* The clock, while a call is executed: at most one bucket on.
LEMMA Executed ==
    ASSUME LimiterTypeOK, Prompt, NEW c \in Calls, Asking(c)
    PROVE  LET sc == call[c].scope
               b == Bucket(sc, call[c].at) IN
           /\ call[c].at \in Nat /\ now \in Nat /\ Width[sc] \in Nat \ {0}
           /\ call[c].at <= now /\ now <= call[c].at + 1
           /\ Bucket(sc, now) \in Nat /\ b <= Bucket(sc, now) /\ Bucket(sc, now) <= b + 1
<1>1. /\ call[c].scope \in Scopes /\ call[c].at \in Times /\ now \in Times
      /\ call[c].at <= now /\ now <= call[c].at + 1
  BY Counting DEF LimiterTypeOK, Prompt, Asking
<1>2. call[c].at \in Nat /\ now \in Nat
  BY <1>1, TimesAre DEF LimiterTypeOK
<1>3. Width[call[c].scope] \in Nat \ {0}
  BY <1>1, WindowsAssumption
<1>4. now <= call[c].at + Width[call[c].scope]
  BY <1>1, <1>2, <1>3
<1>. QED
  BY <1>1, <1>2, <1>3, <1>4, BucketOrder

\* A call that finds its key expired is executed after the border, and the key was touched
\* at the first tick of its bucket only.
LEMMA ExpiredAtBorder ==
    ASSUME LimiterTypeOK, Prompt, NEW c \in Calls, Asking(c),
           NEW u \in Callers, NEW sc \in Scopes, NEW b \in Times,
           Counter(c) = <<u, sc, b>>, Dated(u, sc, b),
           NEW n \in FoundCount(c), n # counter[Counter(c)]
    PROVE  /\ n = 0
           /\ Extra(u, sc, b) = 0
           /\ Bucket(sc, now) > b
           /\ PassedIn(u, sc, NonFirst(sc, b)) = 0
<1> DEFINE last == touched[<<u, sc, b>>]
<1>1. sc = call[c].scope /\ b = Bucket(sc, call[c].at) /\ u = call[c].user
  BY DEF Counter
<1>2. /\ counter[<<u, sc, b>>] \in Nat
      /\ last \in Nat /\ b \in Nat
  BY TimesAre DEF LimiterTypeOK
<1>3. /\ call[c].at \in Nat /\ now \in Nat /\ Width[sc] \in Nat \ {0}
      /\ call[c].at <= now /\ now <= call[c].at + 1
      /\ Bucket(sc, now) \in Nat /\ Bucket(sc, now) <= b + 1
  BY <1>1, Executed
<1>4. n = 0 /\ now >= last + Width[sc]
  BY <1>1 DEF FoundCount, Expiry
<1>5. b <= Bucket(sc, last)
  BY <1>2, <1>4 DEF Dated
<1>6. Bucket(sc, last) \in Nat /\ Bucket(sc, last) + 1 <= Bucket(sc, now)
  BY <1>2, <1>3, <1>4, BucketOrder
<1>7. Bucket(sc, last) = b /\ Bucket(sc, now) > b
  BY <1>2, <1>3, <1>5, <1>6
<1>8. Extra(u, sc, b) = 0
  BY <1>2, <1>7 DEF Extra
<1>9. last = 0 \/ Bucket(sc, last - 1) < b
  <2>1. SUFFICES ASSUME last # 0 PROVE Bucket(sc, last - 1) < b
    OBVIOUS
  <2>2. last - 1 \in Nat /\ (last - 1) + Width[sc] <= call[c].at
    BY <1>2, <1>3, <1>4, <2>1
  <2>3. Bucket(sc, last - 1) + 1 <= b /\ Bucket(sc, last - 1) \in Nat
    BY <1>1, <1>3, <2>2, BucketOrder
  <2>. QED
    BY <1>2, <2>3
<1>. QED
  BY <1>4, <1>7, <1>8, <1>9, TouchedAtFirst

\* The arithmetic of a count: m is the counter, n what the call finds of it, x and y the
\* extra limit before and after, p and f what passed of the bucket and of its ticks but the
\* first.
LEMMA PaidFor ==
    ASSUME NEW e \in Nat, NEW l \in Nat, NEW x \in Nat, NEW y \in Nat, NEW m \in Nat,
           NEW n \in Nat, NEW p \in Nat, NEW f \in Nat, NEW d \in {0, 1}, NEW g \in {0, d},
           p <= e + x + m, p <= e + x + l, f <= e + m, f <= e + l, x <= y,
           d = 1 => n < l,
           n = m \/ (n = 0 /\ x = 0 /\ y = l /\ f = 0)
    PROVE  LET q == IF n <= l THEN n + 1 ELSE n IN
           /\ p + d <= e + y + q
           /\ p + d <= e + y + l
           /\ f + g <= e + q
           /\ f + g <= e + l
<1>1. CASE n = m
  BY <1>1
<1>2. CASE n = 0 /\ x = 0 /\ y = l /\ f = 0
  BY <1>2
<1>. QED
  BY <1>1, <1>2

\* What a call lets pass of the ticks of a bucket.
LEMMA CountPasses ==
    ASSUME LimiterTypeOK, NEW c \in Calls, Asking(c), UNCHANGED passed \/ Pass(c),
           NEW u \in Callers, NEW sc \in Scopes, NEW b \in Times
    PROVE  \E d \in {0, 1} :
              /\ UNCHANGED passed => d = 0
              /\ \A T \in SUBSET Ticks(sc, b) :
                   (PassedIn(u, sc, T))' =
                       IF Counter(c) = <<u, sc, b>> /\ call[c].at \in T
                       THEN PassedIn(u, sc, T) + d ELSE PassedIn(u, sc, T)
<1>1. Counter(c) = <<call[c].user, call[c].scope, Bucket(call[c].scope, call[c].at)>>
  BY DEF Counter
<1>2. \A T \in SUBSET Ticks(sc, b) : PassedIn(u, sc, T) \in Nat
  BY PassedIs
<1>3. CASE UNCHANGED passed
  <2>1. \A T \in SUBSET Ticks(sc, b) : (PassedIn(u, sc, T))' = PassedIn(u, sc, T)
    BY <1>3 DEF PassedIn
  <2>2. \A T \in SUBSET Ticks(sc, b) : PassedIn(u, sc, T) + 0 = PassedIn(u, sc, T)
    BY <1>2
  <2>. QED
    BY <2>1, <2>2
<1>4. CASE Pass(c) /\ ~UNCHANGED passed
  <2>1. \A T \in SUBSET Ticks(sc, b) :
           (PassedIn(u, sc, T))' =
               IF u = call[c].user /\ sc = call[c].scope /\ call[c].at \in T
               THEN PassedIn(u, sc, T) + 1 ELSE PassedIn(u, sc, T)
    BY <1>4, PassCounts
  <2>2. \A T \in SUBSET Ticks(sc, b) :
           u = call[c].user /\ sc = call[c].scope /\ call[c].at \in T
               <=> Counter(c) = <<u, sc, b>> /\ call[c].at \in T
    BY <1>1 DEF Ticks
  <2>. QED
    BY <1>4, <2>1, <2>2
<1>. QED
  BY <1>3, <1>4

\* What a call counts, and lets pass, is paid for.
LEMMA CountKeepsAccount ==
    ASSUME LimiterTypeOK, Prompt, Accounted, NEW c \in Calls, Asking(c),
           NEW n \in FoundCount(c), Count(c, n), UNCHANGED <<now, resets>>,
           UNCHANGED passed \/ (Pass(c) /\ n < Limit[call[c].scope])
    PROVE  Accounted'
<1>1. SUFFICES ASSUME NEW u \in Callers, NEW sc \in Scopes, NEW b \in Times
               PROVE  Account(u, sc, b)' /\ Dated(u, sc, b)'
  BY DEF Accounted
<1> DEFINE at == call[c].at
           k == <<u, sc, b>>
<1>2. Account(u, sc, b) /\ Dated(u, sc, b)
  BY DEF Accounted
<1>3. /\ counter \in [Callers \X Scopes \X Times -> Nat] /\ counter[k] \in Nat
      /\ touched \in [Callers \X Scopes \X Times -> Times] /\ touched[k] \in Nat
      /\ now \in Nat /\ b \in Nat
      /\ Ticks(sc, b) \subseteq Nat
  BY TimesAre DEF LimiterTypeOK, Ticks
<1>4. /\ Counter(c) \in Callers \X Scopes \X Times
      /\ n \in {0, counter[Counter(c)]} /\ counter[Counter(c)] \in Nat
  BY Counting
<1>5. /\ counter' = [counter EXCEPT ![Counter(c)] =
                         IF n <= Limit[call[c].scope] THEN n + 1 ELSE n]
      /\ touched' = [touched EXCEPT ![Counter(c)] = now]
  BY DEF Count
<1>6. /\ Earlier(u, sc, b) \in Nat /\ Limit[sc] \in Nat
      /\ (Earlier(u, sc, b))' = Earlier(u, sc, b)
  <2>1. (Earlier(u, sc, b))' = Earlier(u, sc, b)
    BY DEF Earlier, Limits
  <2>. QED
    BY <2>1, EarlierIs
<1>7. PICK d \in {0, 1} :
         /\ UNCHANGED passed => d = 0
         /\ \A T \in SUBSET Ticks(sc, b) :
              (PassedIn(u, sc, T))' = IF Counter(c) = k /\ at \in T
                                      THEN PassedIn(u, sc, T) + d ELSE PassedIn(u, sc, T)
  BY CountPasses
<1> DEFINE p == PassedOf(u, sc, b)
           f == PassedIn(u, sc, NonFirst(sc, b))
           l == PassedIn(u, sc, NonLast(sc, b))
<1>8. /\ p' = IF Counter(c) = k /\ at \in Ticks(sc, b) THEN p + d ELSE p
      /\ f' = IF Counter(c) = k /\ at \in NonFirst(sc, b) THEN f + d ELSE f
      /\ l' = IF Counter(c) = k /\ at \in NonLast(sc, b) THEN l + d ELSE l
  <2>1. /\ Ticks(sc, b) \in SUBSET Ticks(sc, b)
        /\ NonFirst(sc, b) \in SUBSET Ticks(sc, b)
        /\ NonLast(sc, b) \in SUBSET Ticks(sc, b)
    BY PartsAre
  <2>. QED
    BY <1>7, <2>1 DEF PassedOf
<1>9. p \in Nat /\ f \in Nat /\ l \in Nat /\ l <= p
  BY PartsAre, PassedIs DEF PassedOf
<1>10. \A t \in Ticks(sc, b) :
          passed'[<<u, sc, t>>] > 0 =>
              \/ passed[<<u, sc, t>>] > 0
              \/ Counter(c) = k /\ t = at
  <2>1. TAKE t \in Ticks(sc, b)
  <2>2. CASE UNCHANGED passed
    BY <2>2
  <2>3. CASE Pass(c)
    <3>1. passed' = [passed EXCEPT ![<<call[c].user, call[c].scope, at>>] = @ + 1]
      BY <2>3 DEF Pass
    <3>2. <<u, sc, t>> # <<call[c].user, call[c].scope, at>>
            => passed'[<<u, sc, t>>] = passed[<<u, sc, t>>]
      BY <3>1 DEF LimiterTypeOK, Ticks
    <3>3. <<u, sc, t>> = <<call[c].user, call[c].scope, at>> => Counter(c) = k /\ t = at
      BY DEF Counter, Ticks
    <3>. QED
      BY <3>2, <3>3
  <2>. QED
    BY <2>2, <2>3
<1>11. /\ p <= Earlier(u, sc, b) + Extra(u, sc, b) + counter[k]
       /\ p <= Earlier(u, sc, b) + Extra(u, sc, b) + Limit[sc]
       /\ f <= Earlier(u, sc, b) + counter[k] /\ f <= Earlier(u, sc, b) + Limit[sc]
       /\ l <= Earlier(u, sc, b) + Limit[sc]
  BY <1>2 DEF Account
<1>12. (Extra(u, sc, b))' = IF Bucket(sc, touched'[k]) > b THEN Limit[sc] ELSE 0
  BY DEF Extra
<1>13. SUFFICES
         /\ p' <= Earlier(u, sc, b) + (Extra(u, sc, b))' + counter'[k]
         /\ p' <= Earlier(u, sc, b) + (Extra(u, sc, b))' + Limit[sc]
         /\ f' <= Earlier(u, sc, b) + counter'[k] /\ f' <= Earlier(u, sc, b) + Limit[sc]
         /\ l' <= Earlier(u, sc, b) + Limit[sc]
         /\ Dated(u, sc, b)'
  BY <1>6 DEF Account
<1>. HIDE DEF p, f, l
<1>14. CASE Counter(c) # k
  <2>1. counter'[k] = counter[k] /\ touched'[k] = touched[k]
    BY <1>3, <1>4, <1>5, <1>14
  <2>2. (Extra(u, sc, b))' = Extra(u, sc, b)
    BY <1>12, <2>1 DEF Extra
  <2>3. Dated(u, sc, b)'
    BY <1>2, <1>10, <1>14, <2>1 DEF Dated
  <2>. QED
    BY <1>8, <1>11, <1>14, <2>1, <2>2, <2>3
<1>15. CASE Counter(c) = k
  <2>1. /\ u = call[c].user /\ sc = call[c].scope /\ b = Bucket(sc, at)
        /\ at \in Ticks(sc, b)
    BY <1>15, Counting DEF Counter, Ticks
  <2>2. /\ at \in Nat /\ at <= now /\ now <= at + 1
        /\ Bucket(sc, now) \in Nat /\ b <= Bucket(sc, now)
    BY <2>1, Executed
  <2>3. /\ counter'[k] = IF n <= Limit[sc] THEN n + 1 ELSE n
        /\ touched'[k] = now
        /\ n \in Nat
    BY <1>3, <1>4, <1>5, <1>15, <2>1
  <2>4. Dated(u, sc, b)'
    <3>1. \A t \in Ticks(sc, b) : passed'[<<u, sc, t>>] > 0 => t <= now
      <4>1. TAKE t \in Ticks(sc, b)
      <4>2. passed[<<u, sc, t>>] > 0 => t <= touched[k] /\ touched[k] <= now
        BY <1>2 DEF Dated
      <4>. QED
        BY <1>3, <1>10, <2>2, <4>2
    <3>2. now' = now /\ (Bucket(sc, touched[k]))' = Bucket(sc, now)
      BY <2>3 DEF Bucket
    <3>. QED
      BY <1>3, <2>2, <2>3, <3>1, <3>2 DEF Dated
  <2>5. /\ Extra(u, sc, b) \in Nat /\ (Extra(u, sc, b))' \in Nat
        /\ Extra(u, sc, b) <= (Extra(u, sc, b))'
    <3>1. touched[k] <= now
      BY <1>2 DEF Dated
    <3>2. Bucket(sc, touched[k]) \in Nat /\ Bucket(sc, touched[k]) <= Bucket(sc, now)
      BY <1>3, <3>1, BucketOrder
    <3>. QED
      BY <1>3, <1>6, <1>12, <2>2, <2>3, <3>2 DEF Extra
  <2>6. n = counter[k] \/ (n = 0 /\ Extra(u, sc, b) = 0
                            /\ (Extra(u, sc, b))' = Limit[sc] /\ f = 0)
    <3>1. SUFFICES ASSUME n # counter[Counter(c)]
                   PROVE  n = 0 /\ Extra(u, sc, b) = 0
                            /\ (Extra(u, sc, b))' = Limit[sc] /\ f = 0
      BY <1>15
    <3>2. /\ n = 0 /\ Extra(u, sc, b) = 0 /\ Bucket(sc, now) > b
          /\ PassedIn(u, sc, NonFirst(sc, b)) = 0
      BY <1>2, <1>15, <3>1, ExpiredAtBorder
    <3>. QED
      BY <1>12, <2>3, <3>2 DEF f
  <2>7. d = 1 => n < Limit[sc]
    BY <1>7, <2>1
  <2>8. PICK g \in {0, d} : f' = f + g
    BY <1>8, <1>9
  <2>9. p' = p + d
    BY <1>8, <1>15, <2>1
  <2>10. /\ p + d <= Earlier(u, sc, b) + (Extra(u, sc, b))' + counter'[k]
         /\ p + d <= Earlier(u, sc, b) + (Extra(u, sc, b))' + Limit[sc]
         /\ f + g <= Earlier(u, sc, b) + counter'[k]
         /\ f + g <= Earlier(u, sc, b) + Limit[sc]
    BY <1>3, <1>6, <1>9, <1>11, <2>3, <2>5, <2>6, <2>7, PaidFor
  <2>11. l' <= Earlier(u, sc, b) + Limit[sc]
    <3>1. CASE at \in NonLast(sc, b)
      <4>1. Bucket(sc, now) <= b
        <5>1. Bucket(sc, at + 1) = b /\ at + 1 \in Nat
          BY <2>2, <3>1 DEF NonLast
        <5>2. Bucket(sc, now) <= Bucket(sc, at + 1)
          BY <1>3, <2>2, <5>1, BucketOrder
        <5>. QED
          BY <5>1, <5>2
      <4>2. (Extra(u, sc, b))' = 0
        BY <1>3, <1>12, <2>2, <2>3, <4>1
      <4>3. l' = l + d
        BY <1>8, <1>15, <3>1
      <4>. QED
        BY <1>6, <1>9, <2>10, <4>2, <4>3
    <3>2. CASE at \notin NonLast(sc, b)
      BY <1>8, <1>11, <3>2
    <3>. QED
      BY <3>1, <3>2
  <2>. QED
    BY <2>4, <2>8, <2>9, <2>10, <2>11
<1>. QED
  BY <1>14, <1>15

\* A reset starts another limit.
LEMMA ResetKeepsAccount ==
    ASSUME LimiterTypeOK, LimiterTypeOK', Accounted, NEW c \in Calls, Reset(c)
    PROVE  Accounted'
<1>1. SUFFICES ASSUME NEW u \in Callers, NEW sc \in Scopes, NEW b \in Times
               PROVE  Account(u, sc, b)' /\ Dated(u, sc, b)'
  BY DEF Accounted
<1>2. /\ \A T \in SUBSET Ticks(sc, b) : (PassedIn(u, sc, T))' = PassedIn(u, sc, T)
      /\ (PassedOf(u, sc, b))' = PassedOf(u, sc, b)
      /\ (Extra(u, sc, b))' = Extra(u, sc, b)
  BY DEF PassedOf, PassedIn, Extra, Reset
<1>3. Account(u, sc, b) /\ Dated(u, sc, b)
  BY DEF Accounted
<1> DEFINE k == <<call[c].user, "email", Bucket("email", call[c].at)>>
           r == <<call[c].user, Bucket("email", call[c].at)>>
<1>4. /\ counter' = [counter EXCEPT ![k] = 0]
      /\ resets' = [resets EXCEPT ![r] = @ + 1]
      /\ UNCHANGED <<now, touched, passed>>
  BY DEF Reset
<1>5. counter[<<u, sc, b>>] \in Nat /\ counter \in [Callers \X Scopes \X Times -> Nat]
      /\ resets \in [Callers \X Times -> 0..MaxResets] /\ resets[<<u, b>>] \in Nat
  BY ResetsAre DEF LimiterTypeOK
<1>6. /\ Earlier(u, sc, b) \in Nat /\ Limit[sc] \in Nat
      /\ Extra(u, sc, b) \in Nat
      /\ PassedOf(u, sc, b) \in Nat
      /\ PassedIn(u, sc, NonFirst(sc, b)) \in Nat
      /\ PassedIn(u, sc, NonLast(sc, b)) \in Nat
  <2>1. Earlier(u, sc, b) \in Nat /\ Limit[sc] \in Nat
    BY EarlierIs
  <2>. QED
    BY <2>1, PartsAre, PassedIs DEF PassedOf, Extra
<1>7. CASE k = <<u, sc, b>>
  <2>1. sc = "email" /\ r = <<u, b>>
    BY <1>7
  <2>2. counter'[<<u, sc, b>>] = 0 /\ resets'[<<u, b>>] = resets[<<u, b>>] + 1
    BY <1>4, <1>5, <1>7, <2>1
  <2>3. (Limits(u, sc, b))' - 1 = (Limits(u, sc, b) - 1) + 1 /\ Limits(u, sc, b) - 1 \in Nat
    BY <1>5, <2>1, <2>2 DEF Limits
  <2>4. (Earlier(u, sc, b))' = Earlier(u, sc, b) + Limit[sc]
    BY <1>6, <2>3, OneMoreLimit DEF Earlier
  <2>5. Account(u, sc, b)'
    BY <1>2, <1>3, <1>6, <2>2, <2>4, PartsAre DEF Account
  <2>6. Dated(u, sc, b)'
    BY <1>3, <1>4, <2>2 DEF Dated
  <2>. QED
    BY <2>5, <2>6
<1>8. CASE k # <<u, sc, b>>
  <2>1. counter'[<<u, sc, b>>] = counter[<<u, sc, b>>]
    BY <1>4, <1>5, <1>8
  <2>2. sc = "email" => resets'[<<u, b>>] = resets[<<u, b>>]
    BY <1>4, <1>5, <1>8
  <2>3. (Earlier(u, sc, b))' = Earlier(u, sc, b)
    BY <2>2 DEF Earlier, Limits
  <2>4. Account(u, sc, b)'
    BY <1>2, <1>3, <2>1, <2>3, PartsAre DEF Account
  <2>5. Dated(u, sc, b)'
    BY <1>3, <1>4, <2>1 DEF Dated
  <2>. QED
    BY <2>4, <2>5
<1>. QED
  BY <1>7, <1>8

----------------------------------------------------------------------------
\* The invariant is inductive.

\* Nothing has happened yet.
LEMMA LimiterInitHolds == LimiterInit => LimiterInv
<1> SUFFICES ASSUME LimiterInit PROVE LimiterInv
  OBVIOUS
<1>1. Handlers # {} /\ handler \in Handlers
  BY DEF LimiterInit
<1>2. 0 \in Times /\ MaxResets \in Nat /\ Limit \in [Scopes -> Nat]
  BY <1>1, TimesAre, WindowsAssumption
<1>3. LimiterTypeOK
  BY <1>2 DEF LimiterInit, LimiterTypeOK
<1>4. ASSUME NEW u \in Callers
      PROVE  ResetsOf(u) + Cardinality(ResettingOf(u)) <= MaxResets
  <2> DEFINE f == [t \in Times |-> resets[<<u, t>>]]
             zero == [t \in Times |-> 0]
  <2>1. ResettingOf(u) = {}
    BY DEF LimiterInit, ResettingOf, Resetting
  <2>2. f = zero
    BY DEF LimiterInit
  <2>3. ResetsOf(u) = 0
    BY <1>1, <2>2, TimesAre, SumOfZeros DEF ResetsOf
  <2>. QED
    BY <1>2, <2>1, <2>3, FS_EmptySet
<1>5. ASSUME NEW u \in Callers, NEW sc \in Scopes, NEW b \in Times
      PROVE  Account(u, sc, b) /\ Dated(u, sc, b)
  <2> DEFINE f == [t \in Times |-> passed[<<u, sc, t>>]]
             zero == [t \in Times |-> 0]
  <2>1. f = zero
    BY DEF LimiterInit
  <2>2. \A T \in SUBSET Ticks(sc, b) : PassedIn(u, sc, T) = 0
    BY <1>1, <2>1, TicksAre, SumOfZeros DEF PassedIn
  <2>3. /\ Earlier(u, sc, b) \in Nat /\ Limit[sc] \in Nat /\ Extra(u, sc, b) \in Nat
        /\ counter[<<u, sc, b>>] = 0 /\ touched[<<u, sc, b>>] = 0 /\ now = 0
    BY <1>3, EarlierIs DEF LimiterInit, Extra
  <2>4. Account(u, sc, b)
    BY <2>2, <2>3, PartsAre DEF Account, PassedOf
  <2>5. Dated(u, sc, b)
    BY <2>3 DEF Dated, LimiterInit, Ticks
  <2>. QED
    BY <2>4, <2>5
<1>6. Prompt
  BY DEF LimiterInit, Prompt
<1>. QED
  BY <1>3, <1>4, <1>5, <1>6 DEF LimiterInv, ResetsBounded, Accounted

\* What a call counts leaves the counters clipped at the limit.
LEMMA CountingKeepsTypes ==
    ASSUME LimiterTypeOK, NEW c \in Calls, Asking(c), NEW n \in FoundCount(c), Count(c, n)
    PROVE  /\ counter' \in [Callers \X Scopes \X Times -> Nat]
           /\ touched' \in [Callers \X Scopes \X Times -> Times]
           /\ \A u \in Callers, sc \in Scopes, t \in Times :
                  counter'[<<u, sc, t>>] <= Limit[sc] + 1
<1> DEFINE q == IF n <= Limit[call[c].scope] THEN n + 1 ELSE n
<1>1. /\ counter \in [Callers \X Scopes \X Times -> Nat]
      /\ touched \in [Callers \X Scopes \X Times -> Times] /\ now \in Times
      /\ Counter(c) \in Callers \X Scopes \X Times
      /\ n \in Nat /\ n <= Limit[call[c].scope] + 1 /\ Limit[call[c].scope] \in Nat
  BY Counting DEF LimiterTypeOK
<1>2. q \in Nat /\ q <= Limit[call[c].scope] + 1
  BY <1>1
<1>3. counter' = [counter EXCEPT ![Counter(c)] = q] /\ touched' = [touched EXCEPT ![Counter(c)] = now]
  BY DEF Count
<1>. HIDE DEF q
<1>4. ASSUME NEW u \in Callers, NEW sc \in Scopes, NEW t \in Times
      PROVE  counter'[<<u, sc, t>>] <= Limit[sc] + 1
  <2>1. CASE Counter(c) = <<u, sc, t>>
    <3>1. sc = call[c].scope
      BY <2>1 DEF Counter
    <3>. QED
      BY <1>1, <1>2, <1>3, <2>1, <3>1
  <2>2. CASE Counter(c) # <<u, sc, t>>
    <3>1. counter'[<<u, sc, t>>] = counter[<<u, sc, t>>]
      BY <1>1, <1>3, <2>2
    <3>. QED
      BY <3>1 DEF LimiterTypeOK
  <2>. QED
    BY <2>1, <2>2
<1>. QED
  BY <1>1, <1>2, <1>3, <1>4

\* A call that ends is no longer late, one that goes on draws its key now.
LEMMA PromptStays ==
    ASSUME LimiterTypeOK, Prompt, UNCHANGED now,
           \A d \in Calls : \/ call'[d] = NoCall
                            \/ call'[d] = call[d]
                            \/ call'[d].at = now
    PROVE  Prompt'
<1>1. now \in Nat
  BY TimesAre DEF LimiterTypeOK
<1>. QED
  BY <1>1 DEF Prompt

\* A call is asked.
LEMMA AskKeepsInv ==
    ASSUME LimiterInv, NEW c \in Calls, NEW u \in Callers, Ask(c, u)
    PROVE  LimiterInv'
<1>1. LimiterTypeOK'
  BY DEF LimiterInv, LimiterTypeOK, Ask, Keys, CallSteps, Scopes
<1>2. ResetsBounded'
  BY NoMoreResets DEF LimiterInv, Ask, Resetting, LimiterTypeOK
<1>3. Prompt'
  BY PromptStays DEF LimiterInv, LimiterTypeOK, Ask
<1>4. now' >= now
  BY <1>1, TimesAre DEF Ask, LimiterInv, LimiterTypeOK
<1>5. Accounted'
  BY <1>1, <1>4, AccountStays DEF LimiterInv, Ask
<1>. QED
  BY <1>1, <1>2, <1>3, <1>5 DEF LimiterInv

\* A call passes, by Redis or without it, and goes on.
LEMMA AdvancingKeepsBound ==
    ASSUME LimiterTypeOK, ResetsBounded, Prompt, NEW c \in Calls, Asking(c),
           call' = Advanced(c), UNCHANGED <<now, resets>>
    PROVE  ResetsBounded' /\ Prompt'
<1>1. \A d \in Calls : (Resetting(d))' => Resetting(d) /\ call'[d].user = call[d].user
  BY AdvancedIs DEF Resetting
<1>2. \A d \in Calls : \/ call'[d] = NoCall
                       \/ call'[d] = call[d]
                       \/ call'[d].at = now
  BY AdvancedIs
<1>. QED
  BY <1>1, <1>2, NoMoreResets, PromptStays

\* Redis lets a call pass.
LEMMA PassKeepsInv ==
    ASSUME LimiterInv, NEW c \in Calls, Pass(c)
    PROVE  LimiterInv'
<1>1. LimiterTypeOK /\ Asking(c) /\ UNCHANGED <<handler, now, resets>> /\ call' = Advanced(c)
  BY DEF LimiterInv, Pass
<1>2. PICK n \in FoundCount(c) : n < Limit[call[c].scope] /\ Count(c, n)
  BY DEF Pass
<1>3. passed' \in [Callers \X Scopes \X Times -> Nat]
  BY <1>1, Counting DEF Pass, LimiterTypeOK
<1>4. LimiterTypeOK'
  BY <1>1, <1>2, <1>3, CountingKeepsTypes, AdvancedIs DEF LimiterTypeOK
<1>5. Accounted'
  BY <1>1, <1>2, CountKeepsAccount DEF LimiterInv
<1>. QED
  BY <1>1, <1>4, <1>5, AdvancingKeepsBound DEF LimiterInv

\* A call that is counted without being let pass, or not counted.
LEMMA CountedOrNot ==
    ASSUME LimiterInv, NEW c \in Calls, Asking(c), UNCHANGED <<handler, now, passed, resets>>,
           call' \in [Calls -> Keys \cup {NoCall}],
           \/ UNCHANGED <<counter, touched>>
           \/ \E n \in FoundCount(c) : Count(c, n)
    PROVE  LimiterTypeOK' /\ Accounted'
<1>1. CASE UNCHANGED <<counter, touched>>
  <2>1. LimiterTypeOK'
    BY <1>1 DEF LimiterInv, LimiterTypeOK
  <2>2. now' >= now
    BY TimesAre DEF LimiterInv, LimiterTypeOK
  <2>. QED
    BY <1>1, <2>1, <2>2, AccountStays DEF LimiterInv
<1>2. CASE \E n \in FoundCount(c) : Count(c, n)
  <2>1. PICK n \in FoundCount(c) : Count(c, n)
    BY <1>2
  <2>2. LimiterTypeOK'
    BY <2>1, CountingKeepsTypes DEF LimiterInv, LimiterTypeOK
  <2>3. Accounted'
    BY <2>1, CountKeepsAccount DEF LimiterInv
  <2>. QED
    BY <2>2, <2>3
<1>. QED
  BY <1>1, <1>2

\* Redis refuses a call.
LEMMA RefuseKeepsInv ==
    ASSUME LimiterInv, NEW c \in Calls, Refuse(c)
    PROVE  LimiterInv'
<1>1. LimiterTypeOK /\ Asking(c) /\ UNCHANGED <<handler, now, passed, resets>>
      /\ call' = [call EXCEPT ![c] = NoCall]
  BY DEF LimiterInv, Refuse
<1>2. call' \in [Calls -> Keys \cup {NoCall}]
  BY <1>1 DEF LimiterTypeOK
<1>3. UNCHANGED <<counter, touched>> \/ \E n \in FoundCount(c) : Count(c, n)
  BY DEF Refuse
<1>4. LimiterTypeOK' /\ Accounted'
  BY <1>1, <1>2, <1>3, CountedOrNot
<1>5. ResetsBounded'
  BY <1>1, NoMoreResets DEF LimiterInv, LimiterTypeOK, Resetting
<1>6. Prompt'
  BY <1>1, PromptStays DEF LimiterInv, LimiterTypeOK
<1>. QED
  BY <1>4, <1>5, <1>6 DEF LimiterInv

\* Redis does not answer.
LEMMA FailOpenKeepsInv ==
    ASSUME LimiterInv, NEW c \in Calls, FailOpen(c)
    PROVE  LimiterInv'
<1>1. LimiterTypeOK /\ Asking(c) /\ UNCHANGED <<handler, now, passed, resets>>
      /\ call' = Advanced(c)
  BY DEF LimiterInv, FailOpen
<1>2. UNCHANGED <<counter, touched>> \/ \E n \in FoundCount(c) : Count(c, n)
  BY DEF FailOpen
<1>3. LimiterTypeOK' /\ Accounted'
  BY <1>1, <1>2, AdvancedIs, CountedOrNot
<1>. QED
  BY <1>1, <1>3, AdvancingKeepsBound DEF LimiterInv

\* The password is verified.
LEMMA VerifiedKeepsInv ==
    ASSUME LimiterInv, NEW c \in Calls, Verified(c)
    PROVE  LimiterInv'
<1>1. call[c] \in Keys /\ now \in Times
      /\ call' = [call EXCEPT ![c] = [call[c] EXCEPT !.scope = "reset", !.at = now]]
  BY DEF LimiterInv, LimiterTypeOK, Verified
<1>2. [call[c] EXCEPT !.scope = "reset", !.at = now] \in Keys
      /\ [call[c] EXCEPT !.scope = "reset", !.at = now].at = now
  BY <1>1 DEF Keys, CallSteps
<1>3. LimiterTypeOK'
  BY <1>1, <1>2 DEF LimiterInv, LimiterTypeOK, Verified
<1>4. Prompt'
  <2>1. \A d \in Calls : call'[d] = call[d] \/ call'[d].at = now
    BY <1>1, <1>2 DEF LimiterInv, LimiterTypeOK
  <2>. QED
    BY <2>1, PromptStays DEF LimiterInv, Verified
<1>5. now' >= now
  BY <1>1, TimesAre DEF Verified, LimiterInv, LimiterTypeOK
<1>6. Accounted'
  BY <1>3, <1>5, AccountStays DEF LimiterInv, Verified
<1>. QED
  BY <1>3, <1>4, <1>6, VerifiedKeepsBound DEF LimiterInv

\* A login ends.
LEMMA LoginEndsKeepsInv ==
    ASSUME LimiterInv, NEW c \in Calls, LoginEnds(c)
    PROVE  LimiterInv'
<1>1. LimiterTypeOK'
  BY DEF LimiterInv, LimiterTypeOK, LoginEnds
<1>2. ResetsBounded'
  BY NoMoreResets DEF LimiterInv, LoginEnds, Resetting, LimiterTypeOK
<1>3. Prompt'
  BY PromptStays DEF LimiterInv, LimiterTypeOK, LoginEnds
<1>4. now' >= now
  BY <1>1, TimesAre DEF LoginEnds, LimiterInv, LimiterTypeOK
<1>5. Accounted'
  BY <1>1, <1>4, AccountStays DEF LimiterInv, LoginEnds
<1>. QED
  BY <1>1, <1>2, <1>3, <1>5 DEF LimiterInv

\* A counter is reset.
LEMMA ResetKeepsInv ==
    ASSUME LimiterInv, NEW c \in Calls, Reset(c)
    PROVE  LimiterInv'
<1>1. LimiterTypeOK /\ UNCHANGED <<handler, now, touched, passed>>
      /\ call' = [call EXCEPT ![c] = NoCall]
  BY DEF LimiterInv, Reset
<1>2. /\ counter' \in [Callers \X Scopes \X Times -> Nat]
      /\ \A u \in Callers, sc \in Scopes, t \in Times :
             counter'[<<u, sc, t>>] <= Limit[sc] + 1
  <2> DEFINE k == <<call[c].user, "email", Bucket("email", call[c].at)>>
  <2>1. counter' = [counter EXCEPT ![k] = 0]
    BY DEF Reset
  <2>2. \A u \in Callers, sc \in Scopes, t \in Times :
           /\ Limit[sc] \in Nat /\ counter[<<u, sc, t>>] \in Nat
           /\ counter'[<<u, sc, t>>] \in {0, counter[<<u, sc, t>>]}
           /\ counter[<<u, sc, t>>] <= Limit[sc] + 1
    BY <1>1, <2>1, WindowsAssumption DEF LimiterTypeOK
  <2>3. ASSUME NEW u \in Callers, NEW sc \in Scopes, NEW t \in Times
        PROVE  counter'[<<u, sc, t>>] <= Limit[sc] + 1
    <3>1. /\ Limit[sc] \in Nat /\ counter[<<u, sc, t>>] \in Nat
          /\ counter[<<u, sc, t>>] <= Limit[sc] + 1
          /\ counter'[<<u, sc, t>>] = 0 \/ counter'[<<u, sc, t>>] = counter[<<u, sc, t>>]
      BY <2>2
    <3>. QED
      BY <3>1
  <2>4. counter' \in [Callers \X Scopes \X Times -> Nat]
    BY <1>1, <2>1 DEF LimiterTypeOK
  <2>. QED
    BY <2>3, <2>4
<1>3. ResetsBounded' /\ resets' \in [Callers \X Times -> 0..MaxResets]
  BY ResetKeepsBound DEF LimiterInv
<1>4. LimiterTypeOK'
  BY <1>1, <1>2, <1>3 DEF LimiterTypeOK
<1>5. Prompt'
  BY <1>1, PromptStays DEF LimiterInv, LimiterTypeOK
<1>. QED
  BY <1>3, <1>4, <1>5, ResetKeepsAccount DEF LimiterInv

\* Time passes.
LEMMA TickKeepsInv ==
    ASSUME LimiterInv, Tick
    PROVE  LimiterInv'
<1>1. now + 1 \in Times /\ now \in Nat /\ now' = now + 1
  <2>1. handler \in Handlers /\ now \in Nat /\ MaxTime[handler] \in Nat
        /\ 0..MaxTime[handler] \subseteq Times
    BY TimesAre DEF LimiterInv, LimiterTypeOK
  <2>. QED
    BY <2>1 DEF Tick
<1>2. LimiterTypeOK'
  BY <1>1 DEF LimiterInv, LimiterTypeOK, Tick
<1>3. ResetsBounded'
  BY NoMoreResets DEF LimiterInv, Tick, Resetting
<1>4. Prompt'
  BY <1>1 DEF Prompt, Tick
<1>5. Accounted'
  BY <1>1, <1>2, AccountStays DEF LimiterInv, Tick
<1>. QED
  BY <1>2, <1>3, <1>4, <1>5 DEF LimiterInv

\* So every step keeps it.
LEMMA LimiterStepKeepsInv == LimiterInv /\ [LimiterNext]_limiterVars => LimiterInv'
<1> SUFFICES ASSUME LimiterInv, [LimiterNext]_limiterVars PROVE LimiterInv'
  OBVIOUS
<1>1. CASE UNCHANGED limiterVars
  <2>1. LimiterTypeOK' /\ ResetsBounded' /\ Prompt'
    BY <1>1 DEF limiterVars, LimiterInv, LimiterTypeOK, ResetsBounded, ResetsOf, ResettingOf,
                Resetting, Prompt
  <2>2. now' >= now
    BY <1>1, TimesAre DEF limiterVars, LimiterInv, LimiterTypeOK
  <2>3. Accounted'
    BY <1>1, <2>1, <2>2, AccountStays DEF limiterVars, LimiterInv
  <2>. QED
    BY <2>1, <2>3 DEF LimiterInv
<1>2. CASE Tick
  BY <1>2, TickKeepsInv
<1>3. ASSUME NEW c \in Calls,
             \/ \E u \in Callers : Ask(c, u)
             \/ Pass(c) \/ Refuse(c) \/ FailOpen(c)
             \/ Verified(c) \/ LoginEnds(c) \/ Reset(c)
      PROVE  LimiterInv'
  BY <1>3, AskKeepsInv, PassKeepsInv, RefuseKeepsInv, FailOpenKeepsInv, VerifiedKeepsInv,
     LoginEndsKeepsInv, ResetKeepsInv
<1>. QED
  BY <1>1, <1>2, <1>3 DEF LimiterNext

\* The inductive invariant of the limiter: what passed in a bucket is at most what the
\* limits used up before account for and the counter, and one limit more only if a key that
\* had expired was touched again after the bucket; such a key was touched before at the
\* bucket's first tick only, so that of the calls of its other ticks no more passed than
\* without expiry; and the resets done and the logins about to reset are bounded together.
THEOREM LimiterInvariant == LimiterSpec => []LimiterInv
BY LimiterInitHolds, LimiterStepKeepsInv, PTL DEF LimiterSpec

\* Every variable keeps its type; a counter is at most one above its limit, for a refused
\* call counts once.
THEOREM LimiterTypeCorrect == LimiterSpec => []LimiterTypeOK
<1>1. LimiterInv => LimiterTypeOK
  BY DEF LimiterInv
<1>. QED
  BY <1>1, LimiterInvariant, PTL

\* No more calls pass per bucket, as long as it lasts, than the limit, and one more limit
\* for each login of that email and bucket that succeeded, however the calls of all
\* replicas interleave; and however many calls that drew its key are counted after it, when
\* the key may have expired, they have one limit more, not one each.
THEOREM LimitPerBucketHolds == LimiterSpec => []LimitPerBucket
<1>1. ASSUME LimiterInv, NEW u \in Callers, NEW sc \in Scopes, NEW b \in Times
      PROVE  PassedIn(u, sc, {t \in Times : Bucket(sc, t) = b})
                 <= Limit[sc] * (Limits(u, sc, b) + (IF Bucket(sc, now) > b THEN 1 ELSE 0))
  <2>1. LimiterTypeOK /\ Account(u, sc, b) /\ Dated(u, sc, b)
    BY <1>1 DEF LimiterInv, Accounted
  <2>2. /\ Earlier(u, sc, b) \in Nat /\ Limit[sc] \in Nat
        /\ Limit[sc] * Limits(u, sc, b) = Earlier(u, sc, b) + Limit[sc]
        /\ PassedOf(u, sc, b) \in Nat
    BY <2>1, EarlierIs, PassedIs DEF PassedOf
  <2>3. PassedOf(u, sc, b) <= Earlier(u, sc, b) + Extra(u, sc, b) + Limit[sc]
    BY <2>1 DEF Account
  <2>4. Limits(u, sc, b) \in Nat
    BY <2>1, ResetsAre DEF Limits
  <2>5. CASE Bucket(sc, now) > b
    <3>1. Limit[sc] * (Limits(u, sc, b) + 1) = Limit[sc] * Limits(u, sc, b) + Limit[sc]
      BY <2>2, <2>4, OneMoreLimit
    <3>2. Extra(u, sc, b) \in Nat /\ Extra(u, sc, b) <= Limit[sc]
      BY <2>2 DEF Extra
    <3>3. PassedOf(u, sc, b) <= Limit[sc] * (Limits(u, sc, b) + 1)
      BY <2>2, <2>3, <3>1, <3>2
    <3>. QED
      BY <2>5, <3>3 DEF PassedOf, Ticks
  <2>6. CASE ~(Bucket(sc, now) > b)
    <3>1. Bucket(sc, touched[<<u, sc, b>>]) <= Bucket(sc, now)
          /\ Bucket(sc, touched[<<u, sc, b>>]) \in Nat /\ Bucket(sc, now) \in Nat /\ b \in Nat
      <4>1. touched[<<u, sc, b>>] \in Nat /\ now \in Nat /\ b \in Nat
        BY <2>1, TimesAre DEF LimiterTypeOK
      <4>. QED
        BY <2>1, <4>1, BucketOrder DEF Dated
    <3>2. Extra(u, sc, b) = 0
      BY <2>6, <3>1 DEF Extra
    <3>3. PassedOf(u, sc, b) <= Limit[sc] * Limits(u, sc, b)
      BY <2>2, <2>3, <3>2
    <3>4. Limits(u, sc, b) + 0 = Limits(u, sc, b)
      BY <2>4
    <3>. QED
      BY <2>6, <3>3, <3>4 DEF PassedOf, Ticks
  <2>. QED
    BY <2>5, <2>6
<1>2. LimiterInv => LimitPerBucket
  BY <1>1 DEF LimitPerBucket
<1>. QED
  BY <1>2, LimiterInvariant, PTL

\* The window of a scope that ends at t, in the bucket of t and the one before it: its ticks
\* in the one before are not the first there, and those in its own are not the last, or else
\* all of it lies in its own.
LEMMA WindowParts ==
    ASSUME Handlers # {}, NEW sc \in Scopes, NEW t \in Times
    PROVE  LET b == Bucket(sc, t) IN
           /\ b \in Times
           /\ \/ WindowTo(sc, t) \subseteq Ticks(sc, b)
              \/ /\ b - 1 \in Times
                 /\ WindowTo(sc, t) \subseteq NonFirst(sc, b - 1) \cup NonLast(sc, b)
<1> DEFINE b == Bucket(sc, t)
           w == Width[sc]
<1>1. /\ Times \subseteq Nat /\ t \in Nat /\ 0..t \subseteq Times /\ w \in Nat \ {0}
      /\ b \in Nat /\ b \in Times
  BY TimesAre, BucketIn, BucketOrder
<1>2. b <= t
  BY <1>1, DivBounds DEF Bucket
<1>3. ASSUME NEW m \in WindowTo(sc, t)
      PROVE  /\ m \in Times /\ m \in Nat /\ m <= t /\ t < m + w
             /\ Bucket(sc, m) \in Nat /\ Bucket(sc, m) <= b /\ b <= Bucket(sc, m) + 1
  <2>1. m \in Times /\ m \in Nat /\ m <= t /\ t < m + w
    BY <1>1 DEF WindowTo
  <2>. QED
    BY <1>1, <2>1, BucketOrder
<1>4. CASE Bucket(sc, t + 1) # b
  <2>1. ASSUME NEW m \in WindowTo(sc, t) PROVE m \in Ticks(sc, b)
    <3>1. /\ m \in Times /\ m \in Nat /\ t < m + w
          /\ Bucket(sc, m) \in Nat /\ Bucket(sc, m) <= b
      BY <1>3
    <3>2. t + 1 \in Nat /\ t <= t + 1 /\ t + 1 <= m + w
      BY <1>1, <3>1
    <3>3. Bucket(sc, t + 1) \in Nat /\ b + 1 <= Bucket(sc, t + 1)
      <4>1. Bucket(sc, t + 1) \in Nat /\ b <= Bucket(sc, t + 1)
        BY <1>1, <3>2, BucketOrder
      <4>. QED
        BY <1>1, <1>4, <4>1
    <3>4. Bucket(sc, t + 1) <= Bucket(sc, m) + 1
      BY <3>1, <3>2, BucketOrder
    <3>. QED
      BY <1>1, <3>1, <3>3, <3>4 DEF Ticks
  <2>. QED
    BY <1>1, <2>1
<1>5. CASE Bucket(sc, t + 1) = b
  <2>1. ASSUME NEW m \in WindowTo(sc, t), Bucket(sc, m) = b PROVE m \in NonLast(sc, b)
    <3>1. m \in Times /\ m \in Nat /\ m + 1 \in Nat /\ t + 1 \in Nat /\ m <= m + 1 /\ m + 1 <= t + 1
      BY <1>1, <1>3
    <3>2. Bucket(sc, m) <= Bucket(sc, m + 1) /\ Bucket(sc, m + 1) <= Bucket(sc, t + 1)
          /\ Bucket(sc, m + 1) \in Nat
      BY <3>1, BucketOrder
    <3>. QED
      BY <1>1, <1>5, <2>1, <3>1, <3>2 DEF NonLast, Ticks
  <2>2. ASSUME NEW m \in WindowTo(sc, t), Bucket(sc, m) # b
        PROVE  b > 0 /\ m \in NonFirst(sc, b - 1)
    <3>1. /\ m \in Times /\ m \in Nat /\ t < m + w
          /\ Bucket(sc, m) \in Nat /\ Bucket(sc, m) + 1 = b
      <4>. HIDE DEF b
      <4>. QED
        BY <1>1, <1>3, <2>2
    <3>2. m # 0
      <4>1. SUFFICES ASSUME m = 0 PROVE FALSE
        OBVIOUS
      <4>2. t < w
        BY <1>1, <3>1, <4>1
      <4>3. t \div w = 0
        <5>1. PICK n \in Nat \ {0} : n = w
          BY <1>1
        <5>2. \A x \in Nat : x < n => x \div n = 0
          OBVIOUS
        <5>. QED
          BY <1>1, <4>2, <5>1, <5>2
      <4>. QED
        BY <3>1, <4>3 DEF Bucket
    <3>3. m - 1 \in Nat /\ m - 1 <= m /\ t <= (m - 1) + w
      BY <1>1, <3>1, <3>2
    <3>4. Bucket(sc, m - 1) \in Nat /\ Bucket(sc, m - 1) <= Bucket(sc, m)
          /\ b <= Bucket(sc, m - 1) + 1
      BY <1>1, <3>1, <3>3, BucketOrder
    <3>5. Bucket(sc, m) = b - 1 /\ Bucket(sc, m - 1) = b - 1 /\ b > 0 /\ m > 0
      <4>. HIDE DEF b
      <4>. QED
        BY <1>1, <3>1, <3>2, <3>4
    <3>. QED
      BY <3>1, <3>5 DEF NonFirst, Ticks
  <2>3. CASE \E m \in WindowTo(sc, t) : Bucket(sc, m) # b
    <3>1. b > 0
      BY <2>2, <2>3
    <3>2. b - 1 \in Times
      <4>1. b - 1 \in 0..t
        <5>. HIDE DEF b
        <5>. QED
          BY <1>1, <1>2, <3>1
      <4>. QED
        BY <1>1, <4>1
    <3>. QED
      BY <1>1, <2>1, <2>2, <3>2
  <2>4. CASE \A m \in WindowTo(sc, t) : Bucket(sc, m) = b
    BY <1>1, <1>3, <2>4 DEF Ticks
  <2>. QED
    BY <2>3, <2>4
<1>. QED
  BY <1>4, <1>5

\* The window that slides sees at most twice the limit, also where a key expires before the
\* last call of its bucket is counted: a window in two buckets holds no call of the first
\* tick of the one nor of the last tick of the other, and one that lies in one bucket has at
\* most what the bucket has.  What README.md:547 says of it, that it sees no more than the
\* limit, is refuted; this is the bound that the counters do give, for every width.
THEOREM WindowWithinTwice ==
    LimiterSpec => [](\A u \in Callers, sc \in Scopes \ {"email"}, t \in Times :
                          PassedIn(u, sc, WindowTo(sc, t)) <= 2 * Limit[sc])
<1>1. ASSUME LimiterInv, NEW u \in Callers, NEW sc \in Scopes \ {"email"}, NEW t \in Times
      PROVE  PassedIn(u, sc, WindowTo(sc, t)) <= 2 * Limit[sc]
  <2> DEFINE b == Bucket(sc, t)
             f == [m \in Times |-> passed[<<u, sc, m>>]]
             win == WindowTo(sc, t)
  <2>1. LimiterTypeOK /\ Handlers # {} /\ Limit[sc] \in Nat /\ Times \subseteq Nat
    <3>1. LimiterTypeOK /\ Handlers # {}
      BY <1>1 DEF LimiterInv, LimiterTypeOK
    <3>. QED
      BY <3>1, TimesAre, WindowsAssumption
  <2>2. b \in Times
    BY <2>1, WindowParts
  <2>3. ASSUME NEW k \in Times
        PROVE  /\ PassedOf(u, sc, k) <= 2 * Limit[sc]
               /\ PassedIn(u, sc, NonFirst(sc, k)) <= Limit[sc]
               /\ PassedIn(u, sc, NonLast(sc, k)) <= Limit[sc]
               /\ \A T \in SUBSET Ticks(sc, k) :
                    /\ PassedIn(u, sc, T) \in Nat /\ PassedIn(u, sc, T) <= PassedOf(u, sc, k)
                    /\ IsFiniteSet(T) /\ T \subseteq Times
    <3>1. Account(u, sc, k)
      BY <1>1 DEF LimiterInv, Accounted
    <3>2. Earlier(u, sc, k) = 0
      BY <2>1 DEF Earlier, Limits
    <3>3. Extra(u, sc, k) \in Nat /\ Extra(u, sc, k) <= Limit[sc]
      BY <2>1 DEF Extra
    <3>4. \A T \in SUBSET Ticks(sc, k) :
             /\ PassedIn(u, sc, T) \in Nat /\ PassedIn(u, sc, T) <= PassedOf(u, sc, k)
             /\ IsFiniteSet(T) /\ T \subseteq Times
      BY <2>1, PassedIs, TicksAre
    <3>5. PassedOf(u, sc, k) \in Nat
      BY <3>4 DEF PassedOf
    <3>6. PassedIn(u, sc, NonFirst(sc, k)) \in Nat /\ PassedIn(u, sc, NonLast(sc, k)) \in Nat
      BY <3>4, PartsAre
    <3>. QED
      BY <2>1, <3>1, <3>2, <3>3, <3>4, <3>5, <3>6 DEF Account
  <2>4. CASE win \subseteq Ticks(sc, b)
    <3>1. /\ PassedIn(u, sc, win) \in Nat /\ PassedIn(u, sc, win) <= PassedOf(u, sc, b)
          /\ PassedOf(u, sc, b) <= 2 * Limit[sc]
          /\ PassedOf(u, sc, b) \in Nat
      BY <2>2, <2>3, <2>4 DEF PassedOf
    <3>. QED
      BY <2>1, <3>1
  <2>5. CASE b - 1 \in Times /\ win \subseteq NonFirst(sc, b - 1) \cup NonLast(sc, b)
    <3> DEFINE S == NonFirst(sc, b - 1)
               T == NonLast(sc, b)
    <3>1. S \in SUBSET Ticks(sc, b - 1) /\ T \in SUBSET Ticks(sc, b)
      BY PartsAre
    <3>2. /\ IsFiniteSet(S) /\ S \subseteq Times /\ IsFiniteSet(T) /\ T \subseteq Times
          /\ PassedIn(u, sc, S) <= Limit[sc] /\ PassedIn(u, sc, T) <= Limit[sc]
          /\ PassedIn(u, sc, S) \in Nat /\ PassedIn(u, sc, T) \in Nat
      BY <2>2, <2>3, <2>5, <3>1
    <3>3. \A m \in S \cup T : f[m] \in Nat
      BY <2>1, <3>2 DEF LimiterTypeOK
    <3>4. /\ PassedIn(u, sc, win) = SumFunctionOnSet(f, win)
          /\ PassedIn(u, sc, S) = SumFunctionOnSet(f, S)
          /\ PassedIn(u, sc, T) = SumFunctionOnSet(f, T)
      BY DEF PassedIn
    <3>5. win \in SUBSET (S \cup T)
      BY <2>5
    <3>. HIDE DEF f, win, S, T
    <3>6. SumFunctionOnSet(f, win) <= SumFunctionOnSet(f, S) + SumFunctionOnSet(f, T)
      BY <3>2, <3>3, <3>5, SumCovered
    <3>7. SumFunctionOnSet(f, win) \in Nat
      <4>1. IsFiniteSet(S \cup T)
        BY <3>2, FS_Union
      <4>2. IsFiniteSet(win) /\ \A m \in win : f[m] \in Nat
        BY <3>3, <3>5, <4>1, FS_Subset
      <4>. QED
        BY <4>2, SumOfNaturals
    <3>8. PassedIn(u, sc, win) <= 2 * Limit[sc]
      BY <2>1, <3>2, <3>4, <3>6, <3>7
    <3>. QED
      BY <3>8 DEF win
  <2>. QED
    BY <2>1, <2>4, <2>5, WindowParts
<1>2. LimiterInv => \A u \in Callers, sc \in Scopes \ {"email"}, t \in Times :
                        PassedIn(u, sc, WindowTo(sc, t)) <= 2 * Limit[sc]
  BY <1>1
<1>. QED
  BY <1>2, LimiterInvariant, PTL

----------------------------------------------------------------------------
(* OfferSelection.                                                         *)

SelectionAssumptions == WeightsAssumption /\ LimitsAssumption /\ InputsAssumption

\* What the module assumes of its constants, under one name for the lemmas.
LEMMA SelectionConstants == SelectionAssumptions
BY WeightsAssumption, LimitsAssumption, InputsAssumption DEF SelectionAssumptions

\* An element of an answer.
OfferType == [price: Int, minutes: Int, mode: STRING, bookable: BOOLEAN]

\* What the request of a selection is.
RequestSuits ==
    /\ recommendation.budget \in Nat
    /\ recommendation.maxMinutes \in Nat

\* A relation by the values of a sequence orders it.
LEMMA OrderedByValue ==
    ASSUME NEW s, NEW n \in Nat, DOMAIN s = 1..n, NEW value, \A k \in 1..n : value[k] \in Int
    PROVE  IsOrdering({k \in Places(s) : value[k[1]] < value[k[2]]}, 1..n)
<1> DEFINE R == {k \in Places(s) : value[k[1]] < value[k[2]]}
<1>1. \A a, b \in 1..n : <<a, b>> \in R <=> value[a] < value[b]
  BY DEF Places
<1>. HIDE DEF R
<1>2. \A a, b \in 1..n : <<a, b>> \in R => <<b, a>> \notin R
  BY <1>1
<1>3. \A a, b, c \in 1..n : <<a, b>> \in R => <<a, c>> \in R \/ <<c, b>> \in R
  BY <1>1
<1>4. IsOrdering(R, 1..n)
  BY <1>2, <1>3 DEF IsOrdering
<1>. QED
  BY <1>4 DEF R

\* Sorted by price: cheaper first, and of equals the one that was first.
LEMMA ByPriceIsOrder ==
    ASSUME NEW s, NEW n \in Nat, DOMAIN s = 1..n, \A k \in 1..n : s[k].price \in Int
    PROVE  \E f :
               /\ Enumerates(f, n, 1..n)
               /\ ByPrice(s) = [p \in 1..n |-> s[f[p]]]
               /\ \A p, q \in 1..n : p < q =>
                      \/ s[f[p]].price < s[f[q]].price
                      \/ s[f[p]].price = s[f[q]].price /\ f[p] < f[q]
<1> DEFINE value == [k \in 1..n |-> s[k].price]
           R == {k \in Places(s) : s[k[1]].price < s[k[2]].price}
<1>1. \A a, b \in 1..n : <<a, b>> \in R <=> s[a].price < s[b].price
  BY DEF Places
<1>2. IsOrdering(R, 1..n)
  <2>1. R = {k \in Places(s) : value[k[1]] < value[k[2]]}
    BY DEF Places
  <2>2. \A k \in 1..n : value[k] \in Int
    OBVIOUS
  <2>. HIDE DEF value, R
  <2>3. IsOrdering({k \in Places(s) : value[k[1]] < value[k[2]]}, 1..n)
    BY <2>2, OrderedByValue
  <2>. QED
    BY <2>1, <2>3
<1>3. ByPrice(s) = Sorted(s, R)
  BY DEF ByPrice
<1>. HIDE DEF R
<1>4. PICK f :
          /\ Enumerates(f, n, 1..n)
          /\ \A p, q \in 1..n : p < q => Precedes(R, f[p], f[q])
          /\ Sorted(s, R) = [p \in 1..n |-> s[f[p]]]
  BY <1>2, SortedIsOrder
<1>5. ASSUME NEW p \in 1..n, NEW q \in 1..n, p < q
      PROVE  \/ s[f[p]].price < s[f[q]].price
             \/ s[f[p]].price = s[f[q]].price /\ f[p] < f[q]
  <2>1. f[p] \in 1..n /\ f[q] \in 1..n
    BY <1>4 DEF Enumerates
  <2>2. Precedes(R, f[p], f[q])
    BY <1>4, <1>5
  <2>3. s[f[p]].price < s[f[q]].price \/ (f[p] < f[q] /\ ~(s[f[q]].price < s[f[p]].price))
    BY <1>1, <2>1, <2>2 DEF Precedes
  <2>. QED
    BY <2>1, <2>3
<1>. QED
  BY <1>3, <1>4, <1>5

\* Sorted by minutes: faster first, and of equals the one that was first.
LEMMA ByMinutesIsOrder ==
    ASSUME NEW s, NEW n \in Nat, DOMAIN s = 1..n, \A k \in 1..n : s[k].minutes \in Int
    PROVE  \E f :
               /\ Enumerates(f, n, 1..n)
               /\ ByMinutes(s) = [p \in 1..n |-> s[f[p]]]
               /\ \A p, q \in 1..n : p < q =>
                      \/ s[f[p]].minutes < s[f[q]].minutes
                      \/ s[f[p]].minutes = s[f[q]].minutes /\ f[p] < f[q]
<1> DEFINE value == [k \in 1..n |-> s[k].minutes]
           R == {k \in Places(s) : s[k[1]].minutes < s[k[2]].minutes}
<1>1. \A a, b \in 1..n : <<a, b>> \in R <=> s[a].minutes < s[b].minutes
  BY DEF Places
<1>2. IsOrdering(R, 1..n)
  <2>1. R = {k \in Places(s) : value[k[1]] < value[k[2]]}
    BY DEF Places
  <2>2. \A k \in 1..n : value[k] \in Int
    OBVIOUS
  <2>. HIDE DEF value, R
  <2>3. IsOrdering({k \in Places(s) : value[k[1]] < value[k[2]]}, 1..n)
    BY <2>2, OrderedByValue
  <2>. QED
    BY <2>1, <2>3
<1>3. ByMinutes(s) = Sorted(s, R)
  BY DEF ByMinutes
<1>. HIDE DEF R
<1>4. PICK f :
          /\ Enumerates(f, n, 1..n)
          /\ \A p, q \in 1..n : p < q => Precedes(R, f[p], f[q])
          /\ Sorted(s, R) = [p \in 1..n |-> s[f[p]]]
  BY <1>2, SortedIsOrder
<1>5. ASSUME NEW p \in 1..n, NEW q \in 1..n, p < q
      PROVE  \/ s[f[p]].minutes < s[f[q]].minutes
             \/ s[f[p]].minutes = s[f[q]].minutes /\ f[p] < f[q]
  <2>1. f[p] \in 1..n /\ f[q] \in 1..n
    BY <1>4 DEF Enumerates
  <2>2. Precedes(R, f[p], f[q])
    BY <1>4, <1>5
  <2>3. s[f[p]].minutes < s[f[q]].minutes
        \/ (f[p] < f[q] /\ ~(s[f[q]].minutes < s[f[p]].minutes))
    BY <1>1, <2>1, <2>2 DEF Precedes
  <2>. QED
    BY <2>1, <2>3
<1>. QED
  BY <1>3, <1>4, <1>5

\* The suitable offers of an answer, as cheapestValidOffer sorts them.
LEMMA SuitableIsOrder ==
    ASSUME NEW answer \in Seq(OfferType)
    PROVE  LET B == BookablePlaces(answer)
               m == Cardinality(B)
           IN  /\ m \in Nat
               /\ \E h :
                     /\ Enumerates(h, m, B)
                     /\ ByPrice(Kept(answer, B)) = [p \in 1..m |-> answer[h[p]]]
                     /\ \A p, q \in 1..m : p < q =>
                            \/ answer[h[p]].price < answer[h[q]].price
                            \/ answer[h[p]].price = answer[h[q]].price /\ h[p] < h[q]
<1> DEFINE B == BookablePlaces(answer)
           m == Cardinality(B)
           s == Kept(answer, B)
<1>1. /\ B \in SUBSET Int /\ IsFiniteSet(B) /\ B \subseteq DOMAIN answer
      /\ \A k \in DOMAIN answer : answer[k] \in OfferType /\ k \in Int
  <2>1. B \subseteq 1..Len(answer)
    BY DEF BookablePlaces
  <2>2. IsFiniteSet(1..Len(answer))
    BY FS_Interval
  <2>. QED
    BY <2>1, <2>2, FS_Subset DEF BookablePlaces
<1>2. m \in Nat
  BY <1>1, FS_CardinalityType
<1>. HIDE DEF B, m
<1>3. PICK f :
          /\ Enumerates(f, m, B)
          /\ \A p, q \in 1..m : p < q => f[p] < f[q]
          /\ s = [p \in 1..m |-> answer[f[p]]]
  BY <1>1, KeptIsOrder DEF m
<1>4. f \in [1..m -> B]
  BY <1>3 DEF Enumerates
<1>5. DOMAIN s = 1..m /\ \A k \in 1..m : s[k].price \in Int
  BY <1>1, <1>3, <1>4 DEF OfferType
<1>. HIDE DEF s
<1>6. PICK g :
          /\ Enumerates(g, m, 1..m)
          /\ ByPrice(s) = [p \in 1..m |-> s[g[p]]]
          /\ \A p, q \in 1..m : p < q =>
                 \/ s[g[p]].price < s[g[q]].price
                 \/ s[g[p]].price = s[g[q]].price /\ g[p] < g[q]
  BY <1>2, <1>5, ByPriceIsOrder
<1>7. g \in [1..m -> 1..m]
  BY <1>6 DEF Enumerates
<1> DEFINE h == [p \in 1..m |-> f[g[p]]]
<1>8. Enumerates(h, m, B)
  BY <1>3, <1>6, EnumeratesTwice
<1>9. ByPrice(s) = [p \in 1..m |-> answer[h[p]]]
  BY <1>3, <1>6, <1>7
<1>10. ASSUME NEW p \in 1..m, NEW q \in 1..m, p < q
       PROVE  \/ answer[h[p]].price < answer[h[q]].price
              \/ answer[h[p]].price = answer[h[q]].price /\ h[p] < h[q]
  <2>1. g[p] \in 1..m /\ g[q] \in 1..m
    BY <1>7
  <2>2. s[g[p]] = answer[h[p]] /\ s[g[q]] = answer[h[q]]
    BY <1>3, <2>1
  <2>3. g[p] < g[q] => h[p] < h[q]
    BY <1>3, <2>1
  <2>. QED
    BY <1>6, <1>10, <2>2, <2>3
<1>. HIDE DEF h
<1>. QED
  BY <1>2, <1>8, <1>9, <1>10 DEF B, m, s

\* What tells the preferred of two offers of a city, over the places of an answer.
Chosen(answer, k) ==
    /\ k \in BookablePlaces(answer)
    /\ \A l \in BookablePlaces(answer) :
           l # k => /\ ~Preferred(answer[l], answer[k])
                    /\ l < k => Preferred(answer[k], answer[l])

\* The offer cheapestValidOffer returns is the one the user would choose.
LEMMA CheapestIsChosen ==
    ASSUME RequestSuits, NEW answer \in Seq(OfferType), BookablePlaces(answer) # {}
    PROVE  \E k \in DOMAIN answer :
               Chosen(answer, k) /\ CheapestValidOffer(answer) = answer[k]
<1> DEFINE B == BookablePlaces(answer)
           m == Cardinality(B)
           suitable == ByPrice(Kept(answer, B))
           max == recommendation.maxMinutes
           inTime == {k \in DOMAIN suitable : suitable[k].minutes <= max}
<1>1. m \in Nat
  BY SuitableIsOrder
<1>2. PICK h :
          /\ Enumerates(h, m, B)
          /\ suitable = [p \in 1..m |-> answer[h[p]]]
          /\ \A p, q \in 1..m : p < q =>
                 \/ answer[h[p]].price < answer[h[q]].price
                 \/ answer[h[p]].price = answer[h[q]].price /\ h[p] < h[q]
  BY SuitableIsOrder
<1>3. /\ B \subseteq DOMAIN answer
      /\ \A k \in B : k \in Int /\ answer[k].price \in Int /\ answer[k].minutes \in Int
  <2>1. DOMAIN answer = 1..Len(answer) /\ \A k \in 1..Len(answer) : answer[k] \in OfferType
    OBVIOUS
  <2>2. B \subseteq 1..Len(answer)
    BY <2>1 DEF BookablePlaces
  <2>. QED
    BY <2>1, <2>2 DEF OfferType
<1>4. /\ h \in [1..m -> B]
      /\ \A k \in B : \E p \in 1..m : h[p] = k
      /\ \A p, q \in 1..m : h[p] = h[q] => p = q
  BY <1>2 DEF Enumerates
<1>5. max \in Nat
  BY DEF RequestSuits
<1>6. m > 0
  BY <1>1, <1>4
<1>. HIDE DEF B, m, suitable, max
<1> DEFINE Wins(p) == \A q \in 1..m :
               q # p => /\ ~Preferred(answer[h[q]], answer[h[p]])
                        /\ h[q] < h[p] => Preferred(answer[h[p]], answer[h[q]])
<1>7. SUFFICES \E p \in 1..m : Wins(p) /\ CheapestValidOffer(answer) = suitable[p]
  <2>1. PICK p \in 1..m : Wins(p) /\ CheapestValidOffer(answer) = suitable[p]
    BY <1>7
  <2>2. Chosen(answer, h[p]) /\ h[p] \in DOMAIN answer
    BY <1>3, <1>4, <2>1 DEF Chosen, B
  <2>. QED
    BY <1>2, <2>1, <2>2
<1>8. \A p \in 1..m : suitable[p] = answer[h[p]] /\ h[p] \in B
  BY <1>2, <1>4
<1>9. CheapestValidOffer(answer) =
          IF max <= 0 THEN suitable[1]
          ELSE IF inTime # {} THEN Kept(suitable, inTime)[1]
          ELSE ByMinutes(suitable)[1]
  BY DEF CheapestValidOffer, suitable, B, max
<1>10. CASE max = 0
  <2>1. Wins(1)
    <3>1. TAKE q \in 1..m
    <3>2. HAVE q # 1
    <3>3. 1 < q /\ 1 \in 1..m
      BY <1>1, <1>6, <3>2
    <3>4. \/ answer[h[1]].price < answer[h[q]].price
          \/ answer[h[1]].price = answer[h[q]].price /\ h[1] < h[q]
      BY <1>2, <3>3
    <3>. QED
      BY <1>3, <1>8, <1>10, <3>3, <3>4 DEF Preferred, max
  <2>2. CheapestValidOffer(answer) = suitable[1] /\ 1 \in 1..m
    BY <1>1, <1>6, <1>9, <1>10
  <2>. HIDE DEF Wins
  <2>. QED
    BY <2>1, <2>2
<1>11. CASE max # 0 /\ inTime # {}
  <2>1. PICK p \in inTime : \A q \in inTime : p <= q
    <3>1. inTime \subseteq Nat
      BY <1>2
    <3>. QED
      BY <1>11, <3>1, LeastNumber
  <2>2. p \in 1..m /\ DOMAIN suitable = 1..m
    BY <1>2
  <2>3. Kept(suitable, inTime)[1] = suitable[p]
    <3> DEFINE T == inTime
               n == Cardinality(T)
    <3>1. T \in SUBSET Int /\ IsFiniteSet(T)
      <4>1. T \subseteq 1..m
        BY <2>2
      <4>2. IsFiniteSet(1..m)
        BY <1>1, FS_Interval
      <4>3. IsFiniteSet(T)
        BY <4>1, <4>2, FS_Subset
      <4>. QED
        BY <4>1, <4>3
    <3>. HIDE DEF T
    <3>2. n \in Nat
      BY <3>1, FS_CardinalityType
    <3>3. PICK f :
              /\ Enumerates(f, n, T)
              /\ \A a, b \in 1..n : a < b => f[a] < f[b]
              /\ Kept(suitable, T) = [a \in 1..n |-> suitable[f[a]]]
      BY <3>1, KeptIsOrder
    <3>. HIDE DEF n, Wins
    <3>4. f \in [1..n -> T]
      BY <3>3 DEF Enumerates
    <3>5. PICK a \in 1..n : f[a] = p
      <4>1. \A k \in T : \E a \in 1..n : f[a] = k
        BY <3>3 DEF Enumerates
      <4>. QED
        BY <2>1, <4>1 DEF T
    <3>6. 1 \in 1..n /\ f[1] \in T
      BY <3>2, <3>4, <3>5
    <3>7. a = 1
      <4>1. SUFFICES ASSUME 1 < a PROVE FALSE
        BY <3>2
      <4>2. f[1] < f[a]
        BY <3>3, <3>6, <4>1
      <4>3. f[a] <= f[1]
        BY <2>1, <3>5, <3>6 DEF T
      <4>4. f[1] \in Int /\ f[a] \in Int
        BY <3>1, <3>4, <3>6
      <4>. QED
        BY <4>2, <4>3, <4>4
    <3>. QED
      BY <3>3, <3>5, <3>6, <3>7 DEF T
  <2>4. Wins(p)
    <3>1. TAKE q \in 1..m
    <3>2. HAVE q # p
    <3>3. h[p] \in B /\ h[q] \in B /\ answer[h[p]].minutes <= max
      BY <1>8, <2>1, <2>2
    <3>4. CASE answer[h[q]].minutes <= max
      <4>1. q \in inTime
        BY <1>8, <2>2, <3>4
      <4>2. p < q
        BY <2>1, <2>2, <3>2, <4>1
      <4>3. \/ answer[h[p]].price < answer[h[q]].price
            \/ answer[h[p]].price = answer[h[q]].price /\ h[p] < h[q]
        BY <1>2, <2>2, <4>2
      <4>. QED
        BY <1>3, <1>11, <3>3, <3>4, <4>3 DEF Preferred, max
    <3>5. CASE ~(answer[h[q]].minutes <= max)
      <4>1. answer[h[p]].minutes < answer[h[q]].minutes
        BY <1>3, <1>5, <3>3, <3>5
      <4>. QED
        BY <1>3, <1>11, <3>3, <3>5, <4>1 DEF Preferred, max
    <3>. QED
      BY <3>4, <3>5
  <2>5. CheapestValidOffer(answer) = suitable[p]
    BY <1>5, <1>9, <1>11, <2>3
  <2>. HIDE DEF Wins
  <2>. QED
    BY <2>2, <2>4, <2>5
<1>12. CASE max # 0 /\ inTime = {}
  <2>1. DOMAIN suitable = 1..m /\ \A k \in 1..m : suitable[k].minutes \in Int
    BY <1>2, <1>3, <1>8
  <2>2. PICK g :
            /\ Enumerates(g, m, 1..m)
            /\ ByMinutes(suitable) = [p \in 1..m |-> suitable[g[p]]]
            /\ \A p, q \in 1..m : p < q =>
                   \/ suitable[g[p]].minutes < suitable[g[q]].minutes
                   \/ suitable[g[p]].minutes = suitable[g[q]].minutes /\ g[p] < g[q]
    BY <1>1, <2>1, ByMinutesIsOrder
  <2>3. g \in [1..m -> 1..m] /\ \A k \in 1..m : \E a \in 1..m : g[a] = k
    BY <2>2 DEF Enumerates
  <2> DEFINE p == g[1]
  <2>4. p \in 1..m /\ 1 \in 1..m /\ ByMinutes(suitable)[1] = suitable[p]
    BY <1>1, <1>6, <2>2, <2>3
  <2>5. Wins(p)
    <3>1. TAKE q \in 1..m
    <3>2. HAVE q # p
    <3>3. PICK a \in 1..m : g[a] = q
      BY <2>3
    <3>4. 1 < a
      BY <3>2, <3>3
    <3>5. \/ suitable[p].minutes < suitable[q].minutes
          \/ suitable[p].minutes = suitable[q].minutes /\ p < q
      BY <2>2, <2>4, <3>3, <3>4
    <3>. HIDE DEF p
    <3>6. h[p] \in B /\ h[q] \in B
          /\ suitable[p] = answer[h[p]] /\ suitable[q] = answer[h[q]]
      BY <1>8, <2>4
    <3>7. ~(answer[h[p]].minutes <= max) /\ ~(answer[h[q]].minutes <= max)
      BY <1>12, <2>1, <2>4, <3>6
    <3>8. p < q => \/ answer[h[p]].price < answer[h[q]].price
                   \/ answer[h[p]].price = answer[h[q]].price /\ h[p] < h[q]
      BY <1>2, <2>4
    <3>. QED
      BY <1>3, <1>12, <3>5, <3>6, <3>7, <3>8 DEF Preferred, max
  <2>. QED
    BY <1>5, <1>9, <1>12, <2>4, <2>5
<1>. QED
  BY <1>10, <1>11, <1>12

\* Only one offer of an answer is.
LEMMA ChosenIsOne ==
    ASSUME NEW answer \in Seq(OfferType), NEW k, NEW l, Chosen(answer, k), Chosen(answer, l)
    PROVE  k = l
<1>1. k \in Int /\ l \in Int /\ k \in BookablePlaces(answer) /\ l \in BookablePlaces(answer)
  <2>1. DOMAIN answer = 1..Len(answer)
    OBVIOUS
  <2>2. BookablePlaces(answer) \subseteq DOMAIN answer
    BY DEF BookablePlaces
  <2>. QED
    BY <2>1, <2>2 DEF Chosen
<1>2. ~(k < l)
  BY <1>1 DEF Chosen
<1>3. ~(l < k)
  BY <1>1 DEF Chosen
<1>. QED
  BY <1>1, <1>2, <1>3

\* The offer of a city is that of its representative, suits the request, and is
\* the one whose score is asked for.
LEMMA TransportOfferSuits ==
    ASSUME RequestSuits, NEW i, answers[i].offers \in Seq(OfferType), HasOffer(i)
    PROVE  /\ Represented(i) = WithScore(TransportOffer(i))
           /\ TransportOffer(i).city = selected[i]
           /\ TransportOffer(i).price \in 0..recommendation.budget
           /\ TransportOffer(i).minutes \in Nat \ {0}
           /\ TransportOffer(i).mode \in modes
<1> DEFINE answer == answers[i].offers
<1>1. PICK k \in DOMAIN answer : Chosen(answer, k) /\ CheapestValidOffer(answer) = answer[k]
  BY CheapestIsChosen DEF HasOffer
<1>2. Representative(i) = CHOOSE l \in DOMAIN answer : Chosen(answer, l)
  BY DEF Representative, Chosen, BookablePlaces
<1>3. Chosen(answer, Representative(i))
  BY <1>1, <1>2
<1>4. Representative(i) = k
  BY <1>1, <1>3, ChosenIsOne
<1> DEFINE o == answer[k]
<1>5. BookableOffer(o) /\ o \in OfferType
  BY <1>1 DEF Chosen, BookablePlaces
<1>6. TransportOffer(i) = [city |-> selected[i], price |-> Rounded(o.price),
                           minutes |-> o.minutes, mode |-> o.mode]
  BY <1>1 DEF TransportOffer
<1>7. Represented(i) = WithScore(TransportOffer(i))
  BY <1>4, <1>6 DEF Represented
<1>. HIDE DEF o
<1>8. o.price \in Int /\ o.minutes \in Int /\ recommendation.budget \in Nat
  BY <1>5 DEF OfferType, RequestSuits
<1>9. Rounded(o.price) \in 0..recommendation.budget
  BY <1>5, <1>8 DEF BookableOffer, Rounded
<1>. QED
  BY <1>5, <1>6, <1>7, <1>8, <1>9 DEF BookableOffer

\* A score is a whole percentage.
LEMMA ScoreInRange ==
    ASSUME WeightsAssumption, RequestSuits, NEW o, o.city \in SearchCities,
           o.price \in 0..recommendation.budget, o.minutes \in Nat
    PROVE  CalculateScore(o) \in 0..100
<1> DEFINE ceiling == IF recommendation.maxMinutes > 0
                      THEN recommendation.maxMinutes ELSE PreferredMinutes
           c == IF ceiling > 0 THEN ceiling ELSE 1
           b == IF recommendation.budget > 0 THEN recommendation.budget ELSE 1
           value == IF recommendation.budget > 0
                    THEN recommendation.budget - o.price ELSE 0
           merit == Merit[o.city]
           whole == (MeritWeight + PriceWeight) * b * c
           raw == (merit * b + PriceWeight * value) * c
                      - FrictionWeight * Least(o.minutes, c) * b
<1>1. CalculateScore(o) = IF raw <= 0 THEN 0
                          ELSE (200 * Least(raw, whole) + whole) \div (2 * whole)
  BY DEF CalculateScore
<1>2. /\ c \in Nat /\ c >= 1 /\ b \in Nat /\ b >= 1
      /\ value \in Nat /\ value <= b
      /\ merit \in Nat /\ merit <= MeritWeight
      /\ MeritWeight \in Nat /\ PriceWeight \in Nat /\ FrictionWeight \in Nat
      /\ Least(o.minutes, c) \in Nat
  BY DEF WeightsAssumption, RequestSuits, Least
<1> DEFINE gain == merit * b + PriceWeight * value
           most == (MeritWeight + PriceWeight) * b
           loss == FrictionWeight * Least(o.minutes, c) * b
<1>. HIDE DEF ceiling, c, b, value, merit
<1>3. merit * b \in Nat /\ merit * b <= MeritWeight * b
      /\ MeritWeight * b \in Nat
  BY <1>2
<1>4. PriceWeight * value \in Nat /\ PriceWeight * value <= PriceWeight * b
      /\ PriceWeight * b \in Nat
  BY <1>2
<1>5. most = MeritWeight * b + PriceWeight * b
  BY <1>2
<1>6. gain \in Nat /\ most \in Nat /\ gain <= most
  BY <1>3, <1>4, <1>5
<1>7. loss \in Nat
  <2>1. FrictionWeight * Least(o.minutes, c) \in Nat
    BY <1>2
  <2>. QED
    BY <1>2, <2>1
<1>8. whole = most * c /\ raw = gain * c - loss
  OBVIOUS
<1>. HIDE DEF gain, most, loss, whole, raw
<1>9. gain * c \in Nat /\ most * c \in Nat /\ gain * c <= most * c
  BY <1>2, <1>6
<1>10. raw \in Int /\ whole \in Nat /\ raw <= whole
  BY <1>7, <1>8, <1>9
<1>11. CASE raw <= 0
  BY <1>1, <1>11
<1>12. CASE raw > 0
  <2>1. Least(raw, whole) = raw \/ Least(raw, whole) = whole
    BY DEF Least
  <2>2. (200 * Least(raw, whole) + whole) \div (2 * whole) \in 0..100
    <3> DEFINE x == Least(raw, whole)
               d == 200 * x + whole
               e == 2 * whole
               q == d \div e
    <3>1. x \in Nat /\ x <= whole /\ whole \in Nat /\ whole > 0
      BY <1>10, <1>12, <2>1
    <3>. HIDE DEF x
    <3>2. d \in Nat /\ e \in Nat /\ e > 0 /\ d < 101 * e
      BY <3>1
    <3>. HIDE DEF d, e
    <3>3. q \in Int /\ e * q <= d /\ d < e * q + e
      BY <3>2
    <3>. HIDE DEF q
    <3>4. q >= 0
      <4>1. SUFFICES ASSUME q <= -1 PROVE FALSE
        BY <3>3
      <4>2. e * q <= -e
        BY <3>2, <3>3, <4>1
      <4>. QED
        BY <3>2, <3>3, <4>2
    <3>5. q <= 100
      <4>1. SUFFICES ASSUME q >= 101 PROVE FALSE
        BY <3>3
      <4>2. e * q >= e * 101
        BY <3>2, <3>3, <4>1
      <4>. QED
        BY <3>2, <3>3, <4>2
    <3>6. q \in 0..100
      BY <3>3, <3>4, <3>5
    <3>. QED
      BY <3>6 DEF q, d, e, x
  <2>. QED
    BY <1>1, <1>10, <1>12, <2>2
<1>. QED
  BY <1>10, <1>11, <1>12

\* The cities whose search found an offer, by their places.
FoundPlaces == {i \in Searched : HasOffer(i)}

\* What is known of the cities and the answers when a search has ended.
SearchSuits ==
    /\ selected \in Seq(SearchCities)
    /\ Len(selected) <= CandidateSearchLimit
    /\ IsInjective(selected)
    /\ answers \in [Searched -> Answers \cup {NotYet}]

\* The places of a search are those of the selected cities.
LEMMA SearchedAll ==
    ASSUME LimitsAssumption, SearchSuits
    PROVE  /\ Searched = 1..Len(selected) /\ Len(selected) \in Nat
           /\ \A i \in Searched : selected[i] \in SearchCities
           /\ \A i, j \in Searched : selected[i] = selected[j] => i = j
           /\ IsFiniteSet(FoundPlaces) /\ Cardinality(FoundPlaces) \in Nat
           /\ FoundPlaces \subseteq Searched
<1>1. Len(selected) \in Nat /\ DOMAIN selected = 1..Len(selected)
      /\ \A i \in 1..Len(selected) : selected[i] \in SearchCities
  BY DEF SearchSuits
<1>2. Searched = 1..Len(selected)
  <2>0. CandidateSearchLimit \in Nat
    BY DEF LimitsAssumption
  <2>1. Len(selected) <= CandidateSearchLimit
    BY DEF SearchSuits
  <2> DEFINE n == Len(selected)
  <2>2. n \in Nat /\ n <= CandidateSearchLimit
    BY <1>1, <2>1
  <2>. HIDE DEF n
  <2>3. Least(CandidateSearchLimit, n) = n
    BY <2>0, <2>2 DEF Least
  <2>. QED
    BY <2>3 DEF Searched, n
<1>3. \A i, j \in Searched : selected[i] = selected[j] => i = j
  BY <1>1, <1>2 DEF SearchSuits, IsInjective
<1>4. FoundPlaces \subseteq Searched
  BY DEF FoundPlaces
<1>5. IsFiniteSet(Searched)
  BY <1>1, <1>2, FS_Interval
<1>6. IsFiniteSet(FoundPlaces)
  BY <1>4, <1>5, FS_Subset
<1>7. Cardinality(FoundPlaces) \in Nat
  BY <1>6, FS_CardinalityType
<1>. QED
  BY <1>1, <1>2, <1>3, <1>4, <1>6, <1>7

\* What the provider answers is a sequence of offers.
LEMMA AnswersAreOffers ==
    ASSUME InputsAssumption, SearchSuits, NEW i \in Searched
    PROVE  answers[i].offers \in Seq(OfferType)
<1>1. answers[i] \in Answers \cup {NotYet}
  BY DEF SearchSuits
<1>2. CASE answers[i] \in [said: {"offers"}, offers: Pages]
  <2>1. answers[i].offers \in Pages
    BY <1>2
  <2>. QED
    BY <2>1 DEF InputsAssumption, OfferType
<1>3. CASE answers[i].offers = <<>>
  BY <1>3
<1>. QED
  BY <1>1, <1>2, <1>3 DEF Answers, NotYet

\* The offers a search ends with are one of every city that has one.
LEMMA FoundOffersAre ==
    ASSUME LimitsAssumption, InputsAssumption, RequestSuits, SearchSuits
    PROVE  \E f : /\ Enumerates(f, Cardinality(FoundPlaces), FoundPlaces)
                  /\ FoundOffers =
                         [p \in 1..Cardinality(FoundPlaces) |-> TransportOffer(f[p])]
<1> DEFINE F == FoundPlaces
           n == Cardinality(F)
           id == [i \in Searched |-> i]
           places == Kept(id, F)
           s == [k \in DOMAIN places |-> TransportOffer(places[k])]
<1>1. n \in Nat /\ IsFiniteSet(F) /\ F \subseteq Searched /\ F \in SUBSET Int
  BY SearchedAll
<1>2. FoundOffers = ByPrice(s)
  BY DEF FoundOffers, FoundPlaces
<1>. HIDE DEF F, id
<1>3. PICK f : /\ Enumerates(f, n, F)
               /\ \A p, q \in 1..n : p < q => f[p] < f[q]
               /\ places = [p \in 1..n |-> id[f[p]]]
  BY <1>1, KeptIsOrder
<1>4. f \in [1..n -> F]
  BY <1>3 DEF Enumerates
<1>5. DOMAIN places = 1..n /\ \A p \in 1..n : places[p] = f[p]
  BY <1>1, <1>3, <1>4 DEF id
<1>. HIDE DEF places, n
<1>6. s = [p \in 1..n |-> TransportOffer(f[p])]
  BY <1>5
<1>7. \A p \in 1..n : s[p].price \in Int
  <2>1. TAKE p \in 1..n
  <2>2. f[p] \in Searched /\ HasOffer(f[p])
    BY <1>4 DEF F, FoundPlaces
  <2>3. answers[f[p]].offers \in Seq(OfferType)
    BY <2>2, AnswersAreOffers
  <2>4. TransportOffer(f[p]).price \in 0..recommendation.budget
    BY <2>2, <2>3, TransportOfferSuits
  <2>. QED
    BY <1>6, <2>4 DEF RequestSuits
<1>8. DOMAIN s = 1..n
  BY <1>6
<1>. HIDE DEF s
<1>9. PICK g : /\ Enumerates(g, n, 1..n)
               /\ ByPrice(s) = [p \in 1..n |-> s[g[p]]]
               /\ \A p, q \in 1..n : p < q =>
                      \/ s[g[p]].price < s[g[q]].price
                      \/ s[g[p]].price = s[g[q]].price /\ g[p] < g[q]
  BY <1>1, <1>7, <1>8, ByPriceIsOrder
<1> DEFINE h == [p \in 1..n |-> f[g[p]]]
<1>10. Enumerates(h, n, F)
  BY <1>3, <1>9, EnumeratesTwice
<1>11. FoundOffers = [p \in 1..n |-> TransportOffer(h[p])]
  <2>1. g \in [1..n -> 1..n]
    BY <1>9 DEF Enumerates
  <2>2. \A p \in 1..n : s[g[p]] = TransportOffer(h[p])
    BY <1>6, <2>1
  <2>. QED
    BY <1>2, <1>9, <2>2
<1>. HIDE DEF h
<1>. QED
  BY <1>10, <1>11 DEF n, F

\* Better is an order for a sort.
LEMMA OrderedByScore ==
    ASSUME NEW s, NEW n \in Nat, DOMAIN s = 1..n,
           \A k \in 1..n : s[k].score \in Int /\ s[k].price \in Int
    PROVE  /\ IsOrdering({k \in Places(s) : Better(s[k[1]], s[k[2]])}, 1..n)
           /\ \A a, b \in 1..n :
                  <<a, b>> \in {k \in Places(s) : Better(s[k[1]], s[k[2]])}
                      <=> Better(s[a], s[b])
<1> DEFINE R == {k \in Places(s) : Better(s[k[1]], s[k[2]])}
<1>1. \A a, b \in 1..n : <<a, b>> \in R <=> Better(s[a], s[b])
  BY DEF Places
<1>. HIDE DEF R
<1>2. ASSUME NEW a \in 1..n, NEW b \in 1..n, <<a, b>> \in R PROVE <<b, a>> \notin R
  BY <1>1, <1>2 DEF Better
<1>3. ASSUME NEW a \in 1..n, NEW b \in 1..n, NEW c \in 1..n, <<a, b>> \in R
      PROVE  <<a, c>> \in R \/ <<c, b>> \in R
  <2>1. Better(s[a], s[b])
    BY <1>1, <1>3
  <2>2. Better(s[a], s[c]) \/ Better(s[c], s[b])
    BY <2>1 DEF Better
  <2>. QED
    BY <1>1, <2>2
<1>4. IsOrdering(R, 1..n)
  BY <1>2, <1>3 DEF IsOrdering
<1>. QED
  BY <1>1, <1>4 DEF R

\* A filter that everything passes.
LEMMA KeptAll ==
    ASSUME NEW s, NEW n \in Nat
    PROVE  \E f : Enumerates(f, n, 1..n) /\ Kept(s, 1..n) = [p \in 1..n |-> s[f[p]]]
<1> DEFINE E == 1..n
<1>1. E \in SUBSET Int /\ IsFiniteSet(E) /\ Cardinality(E) = n
  BY FS_Interval
<1>. HIDE DEF E
<1>2. PICK f : /\ Enumerates(f, Cardinality(E), E)
               /\ \A p, q \in 1..Cardinality(E) : p < q => f[p] < f[q]
               /\ Kept(s, E) = [p \in 1..Cardinality(E) |-> s[f[p]]]
  BY <1>1, KeptIsOrder
<1>. QED
  BY <1>1, <1>2 DEF E

\* What a city is represented by: an offer of it that suits the request.
LEMMA RepresentedSuits ==
    ASSUME SelectionAssumptions, RequestSuits, SearchSuits, NEW i \in FoundPlaces
    PROVE  /\ Represented(i) = WithScore(TransportOffer(i))
           /\ ValidOffer(TransportOffer(i))
           /\ Represented(i).city = selected[i]
           /\ Represented(i).mode \in modes
           /\ Represented(i).price \in 0..recommendation.budget
           /\ Represented(i).score \in 0..100
<1>1. i \in Searched /\ HasOffer(i)
  BY DEF FoundPlaces
<1>2. answers[i].offers \in Seq(OfferType) /\ selected[i] \in SearchCities
  BY <1>1, AnswersAreOffers, SearchedAll DEF SelectionAssumptions
<1> DEFINE o == TransportOffer(i)
<1>3. /\ Represented(i) = WithScore(o)
      /\ o.city = selected[i] /\ o.mode \in modes
      /\ o.price \in 0..recommendation.budget /\ o.minutes \in Nat \ {0}
  BY <1>1, <1>2, TransportOfferSuits
<1>. HIDE DEF o
<1>4. CalculateScore(o) \in 0..100
  BY <1>2, <1>3, ScoreInRange DEF SelectionAssumptions
<1>5. ValidOffer(o)
  BY <1>3 DEF ValidOffer, RequestSuits
<1>. QED
  BY <1>3, <1>4, <1>5 DEF WithScore, o

\* The options are the best of the cities', best first.
LEMMA RankedAre ==
    ASSUME SelectionAssumptions, RequestSuits, SearchSuits, offers = FoundOffers
    PROVE  LET n == Cardinality(FoundPlaces)
               m == Least(MaximumRankedOptions, n)
           IN  \E g : /\ Enumerates(g, n, FoundPlaces)
                      /\ RankedOptions = [p \in 1..m |-> Represented(g[p])]
                      /\ \A p, q \in 1..n : p < q =>
                             ~Better(Represented(g[q]), Represented(g[p]))
<1> DEFINE F == FoundPlaces
           n == Cardinality(F)
           m == Least(MaximumRankedOptions, n)
<1>1. n \in Nat /\ F \subseteq Searched
  BY SearchedAll DEF SelectionAssumptions
<1>2. PICK f : Enumerates(f, n, F) /\ offers = [p \in 1..n |-> TransportOffer(f[p])]
  BY FoundOffersAre DEF SelectionAssumptions
<1>3. m \in Nat /\ m <= n /\ m <= MaximumRankedOptions
  BY <1>1 DEF Least, SelectionAssumptions, LimitsAssumption
<1>4. \A i \in F : /\ Represented(i) = WithScore(TransportOffer(i))
                   /\ ValidOffer(TransportOffer(i))
                   /\ Represented(i).score \in Int /\ Represented(i).price \in Int
  <2>1. \A i \in F : Represented(i).score \in 0..100
                     /\ Represented(i).price \in 0..recommendation.budget
    BY RepresentedSuits
  <2>2. \A i \in F : Represented(i).score \in Int /\ Represented(i).price \in Int
    BY <2>1 DEF RequestSuits
  <2>. QED
    BY <2>2, RepresentedSuits
<1>. HIDE DEF F, n, m
<1>5. f \in [1..n -> F]
  BY <1>2 DEF Enumerates
<1>6. {k \in DOMAIN offers : ValidOffer(offers[k])} = 1..n
  BY <1>2, <1>4, <1>5
<1>8. PICK e : Enumerates(e, n, 1..n) /\ Kept(offers, 1..n) = [p \in 1..n |-> offers[e[p]]]
  <2>1. PICK s : s = offers
    OBVIOUS
  <2>2. n \in Nat
    BY <1>1
  <2>3. \E e : Enumerates(e, n, 1..n) /\ Kept(s, 1..n) = [p \in 1..n |-> s[e[p]]]
    BY <2>2, KeptAll
  <2>. QED
    BY <2>1, <2>3
<1> DEFINE eligible == Kept(offers, 1..n)
           every == [k \in DOMAIN eligible |-> WithScore(eligible[k])]
           R == {k \in Places(every) : Better(every[k[1]], every[k[2]])}
           all == Sorted(every, R)
<1>7. RankedOptions = SubSeq(all, 1, Least(MaximumRankedOptions, Len(all)))
  BY <1>6 DEF RankedOptions
<1> DEFINE h == [p \in 1..n |-> f[e[p]]]
<1>9. Enumerates(h, n, F)
  BY <1>2, <1>8, EnumeratesTwice
<1>10. h \in [1..n -> F]
  BY <1>9 DEF Enumerates
<1>11. e \in [1..n -> 1..n]
  BY <1>8 DEF Enumerates
<1>12. \A p \in 1..n : eligible[p] = TransportOffer(h[p])
  BY <1>2, <1>8, <1>11
<1>13. DOMAIN eligible = 1..n
  BY <1>8
<1>. HIDE DEF eligible, h
<1>14. every = [p \in 1..n |-> Represented(h[p])]
  BY <1>4, <1>10, <1>12, <1>13
<1>15. DOMAIN every = 1..n
       /\ \A k \in 1..n : every[k].score \in Int /\ every[k].price \in Int
  BY <1>4, <1>10, <1>14
<1>. HIDE DEF every
<1>16. /\ IsOrdering(R, 1..n)
       /\ \A a, b \in 1..n : <<a, b>> \in R <=> Better(every[a], every[b])
  BY <1>1, <1>15, OrderedByScore
<1>. HIDE DEF R
<1>17. PICK d : /\ Enumerates(d, n, 1..n)
                /\ \A p, q \in 1..n : p < q => Precedes(R, d[p], d[q])
                /\ all = [p \in 1..n |-> every[d[p]]]
  BY <1>1, <1>15, <1>16, SortedIsOrder
<1>18. d \in [1..n -> 1..n]
  BY <1>17 DEF Enumerates
<1> DEFINE g == [p \in 1..n |-> h[d[p]]]
<1>19. Enumerates(g, n, F)
  BY <1>9, <1>17, EnumeratesTwice
<1>20. \A p \in 1..n : g[p] \in F /\ all[p] = Represented(g[p])
  BY <1>10, <1>14, <1>17, <1>18
<1>21. ASSUME NEW p \in 1..n, NEW q \in 1..n, p < q
       PROVE  ~Better(Represented(g[q]), Represented(g[p]))
  <2>1. SUFFICES ASSUME Better(Represented(g[q]), Represented(g[p])) PROVE FALSE
    OBVIOUS
  <2>2. Better(every[d[q]], every[d[p]]) /\ d[p] \in 1..n /\ d[q] \in 1..n
    BY <1>17, <1>18, <1>20, <2>1
  <2>3. <<d[q], d[p]>> \in R /\ <<d[p], d[q]>> \notin R
    BY <1>16, <2>2 DEF IsOrdering
  <2>. QED
    BY <1>17, <1>21, <2>3 DEF Precedes
<1>22. RankedOptions = [p \in 1..m |-> Represented(g[p])]
  <2>1. Len(all) = n /\ DOMAIN all = 1..n
    BY <1>1, <1>17
  <2>2. RankedOptions = SubSeq(all, 1, m)
    BY <1>7, <2>1 DEF m
  <2>. HIDE DEF all
  <2> DEFINE T == {all[i] : i \in 1..m}
  <2>3. /\ SubSeq(all, 1, m) \in Seq(T)
        /\ Len(SubSeq(all, 1, m)) = IF 1 <= m THEN m - 1 + 1 ELSE 0
        /\ \A i \in 1..(m - 1 + 1) : SubSeq(all, 1, m)[i] = all[1 + i - 1]
    <3>1. \A i \in 1..m : all[i] \in T
      OBVIOUS
    <3>. HIDE DEF T
    <3>. QED
      BY <1>3, <3>1, SubSeqProperties
  <2>4. DOMAIN SubSeq(all, 1, m) = 1..m /\ SubSeq(all, 1, m) = [i \in 1..m |-> all[i]]
    BY <1>3, <2>3
  <2>. QED
    BY <1>1, <1>3, <1>20, <2>2, <2>4
<1>. HIDE DEF g
<1>. QED
  BY <1>19, <1>21, <1>22 DEF F, n, m

\* What a search ends with depends on the request, the plan and the answers only.
LEMMA SearchIsSame ==
    ASSUME UNCHANGED <<recommendation, modes, selected, answers>>
    PROVE  FoundOffers' = FoundOffers /\ SearchIssues' = SearchIssues
<1>1. \A answer : BookablePlaces(answer)' = BookablePlaces(answer)
  BY DEF BookablePlaces, BookableOffer
<1>2. \A answer : CheapestValidOffer(answer)' = CheapestValidOffer(answer)
  BY <1>1 DEF CheapestValidOffer
<1>3. Searched' = Searched
  BY DEF Searched
<1>4. \A i : HasOffer(i)' = HasOffer(i)
  BY <1>1 DEF HasOffer
<1>5. \A i : TransportOffer(i)' = TransportOffer(i)
  BY <1>2 DEF TransportOffer
<1>6. SearchIssues' = SearchIssues
  BY <1>3, <1>4 DEF SearchIssues
<1>7. FoundOffers' = FoundOffers
  BY <1>3, <1>4, <1>5 DEF FoundOffers
<1>. QED
  BY <1>6, <1>7

\* What a scoring ends with, on the request and the offers.
LEMMA SameRanking ==
    ASSUME UNCHANGED <<recommendation, modes, offers>>
    PROVE  RankedOptions' = RankedOptions
BY DEF RankedOptions, ValidOffer, WithScore, CalculateScore

\* The inductive invariant: the cities are distinct candidates, and as long as a
\* stage goes on, what the stages before it have computed is what their inputs give.
SelectionInv ==
    /\ recommendation \in Recommendations /\ candidates \in Candidates
    /\ recommendation.destination => Len(candidates) = 1
    /\ stage \in Working \cup Done \cup {"blocked", "failed"}
    /\ modes \subseteq recommendation.modes
    /\ SearchSuits
    /\ ToSet(selected) \subseteq ToSet(candidates)
    /\ issues \subseteq ToSet(selected)
    /\ stage \in {"analysis", "plan", "search"} => issues = {}
    /\ stage \in {"scoring", "explanation"} \cup Done =>
           offers = FoundOffers /\ issues = SearchIssues
    /\ stage \in {"explanation"} \cup Done => scored = RankedOptions /\ scored # <<>>
    /\ stage \in Done => options = scored /\ (stage = "completed" <=> issues = {})
    /\ stage \notin Done => options = <<>>

\* It holds at the beginning.
LEMMA SelectionInvInit ==
    ASSUME SelectionAssumptions, SelectionInit
    PROVE  SelectionInv
<1>1. selected = <<>> /\ answers = <<>> /\ issues = {} /\ options = <<>>
      /\ stage = "analysis"
  BY DEF SelectionInit
<1>2. selected \in Seq(SearchCities) /\ Len(selected) = 0 /\ DOMAIN selected = {}
      /\ DOMAIN answers = {}
  BY <1>1
<1>3. Searched = {}
  BY <1>2 DEF Searched, Least, LimitsAssumption, SelectionAssumptions
<1>4. answers \in [Searched -> Answers \cup {NotYet}]
  <2>1. answers = [i \in {} |-> NotYet]
    BY <1>1
  <2>. QED
    BY <1>3, <2>1
<1>5. SearchSuits
  BY <1>2, <1>4 DEF SearchSuits, IsInjective, LimitsAssumption, SelectionAssumptions
<1>6. ToSet(selected) = {}
  BY <1>2 DEF ToSet
<1>. QED
  BY <1>1, <1>5, <1>6 DEF SelectionInv, SelectionInit, Working, Done

\* A search is planned over distinct candidates, and nothing is answered yet.
LEMMA PlanSuits ==
    ASSUME SelectionAssumptions, SelectionInv, NEW cities,
           cities \in BoundedSeq(SearchCities, CandidateSearchLimit + 1), Plan(cities)
    PROVE  SearchSuits' /\ ToSet(selected)' \subseteq ToSet(candidates)
<1>1. cities \in Seq(SearchCities)
  BY DEF BoundedSeq, SeqOf
<1>2. /\ Len(cities) <= CandidateSearchLimit
      /\ IsInjective(cities)
      /\ ToSet(cities) \subseteq ToSet(candidates)
  <2>1. CASE recommendation.destination
    <3>1. cities = candidates /\ Len(cities) = 1
      BY <2>1 DEF Plan, SelectionInv
    <3>2. DOMAIN cities = 1..1
      BY <1>1, <3>1
    <3>3. IsInjective(cities)
      BY <3>2 DEF IsInjective
    <3>4. 1 <= CandidateSearchLimit
      BY DEF SelectionAssumptions, LimitsAssumption
    <3>. QED
      BY <3>1, <3>3, <3>4
  <2>2. CASE ~recommendation.destination
    BY <2>2 DEF Plan, ValidPlan
  <2>. QED
    BY <2>1, <2>2
<1>3. selected' = cities
      /\ answers' = [i \in 1..Least(CandidateSearchLimit, Len(cities)) |-> NotYet]
  BY DEF Plan
<1>4. answers' \in [1..Least(CandidateSearchLimit, Len(cities)) -> Answers \cup {NotYet}]
  BY <1>3
<1>. QED
  BY <1>1, <1>2, <1>3, <1>4 DEF SearchSuits, Searched, ToSet

\* Every step keeps it.
LEMMA SelectionInvNext ==
    ASSUME SelectionAssumptions, SelectionInv, [SelectionNext]_selectionVars
    PROVE  SelectionInv'
<1>1. ASSUME NEW chosen \in SUBSET modes, Analyze(chosen) PROVE SelectionInv'
  <2>1. modes' \subseteq modes /\ stage = "analysis" /\ stage' = "plan"
    BY <1>1 DEF Analyze
  <2>2. UNCHANGED <<inputs, selected, answers, offers, issues, scored, options>>
    BY <1>1 DEF Analyze
  <2>3. SearchSuits'
    BY <2>2 DEF SearchSuits, Searched, SelectionInv
  <2>. QED
    BY <2>1, <2>2, <2>3 DEF SelectionInv, inputs, Working, Done, ToSet
<1>2. CASE Block
  <2>1. SearchSuits'
    BY <1>2 DEF SearchSuits, Searched, SelectionInv, Block
  <2>. QED
    BY <1>2, <2>1 DEF SelectionInv, Block, inputs, Working, Done, ToSet
<1>3. ASSUME NEW cities \in BoundedSeq(SearchCities, CandidateSearchLimit + 1), Plan(cities)
      PROVE  SelectionInv'
  <2>1. SearchSuits' /\ ToSet(selected)' \subseteq ToSet(candidates)
    BY <1>3, PlanSuits
  <2>2. stage = "plan" /\ stage' = "search" /\ UNCHANGED <<inputs, modes, issues, options>>
    BY <1>3 DEF Plan
  <2>. QED
    BY <2>1, <2>2 DEF SelectionInv, inputs, Working, Done, ToSet
<1>4. ASSUME NEW i \in Searched, NEW answer \in Answers, SearchAnswers(i, answer)
      PROVE  SelectionInv'
  <2>1. stage = "search" /\ answers' = [answers EXCEPT ![i] = answer]
    BY <1>4 DEF SearchAnswers
  <2>2. UNCHANGED <<inputs, stage, modes, selected, offers, issues, scored, options>>
    BY <1>4 DEF SearchAnswers
  <2>3. SearchSuits'
    BY <1>4, <2>1, <2>2 DEF SearchSuits, Searched, SelectionInv
  <2>. QED
    BY <2>1, <2>2, <2>3 DEF SelectionInv, inputs, Working, Done, ToSet
<1>5. CASE Search
  <2>1. /\ stage = "search" /\ offers' = FoundOffers /\ issues' = SearchIssues
        /\ stage' \in {"failed", "scoring"}
        /\ UNCHANGED <<inputs, modes, selected, answers, scored, options>>
    BY <1>5 DEF Search
  <2>2. offers' = FoundOffers' /\ issues' = SearchIssues'
    BY <2>1, SearchIsSame DEF inputs
  <2>3. SearchSuits'
    BY <2>1 DEF SearchSuits, Searched, SelectionInv
  <2>4. SearchIssues \subseteq ToSet(selected)
    <3>1. Searched = DOMAIN selected
      <4>1. SearchSuits
        BY DEF SelectionInv
      <4>2. Searched = 1..Len(selected)
        BY <4>1, SearchedAll DEF SelectionAssumptions
      <4>. QED
        BY <4>1, <4>2 DEF SearchSuits
    <3>. QED
      BY <3>1 DEF SearchIssues, ToSet
  <2>. QED
    BY <2>1, <2>2, <2>3, <2>4 DEF SelectionInv, inputs, Working, Done, ToSet
<1>6. CASE Score
  <2>1. /\ stage = "scoring" /\ scored' = RankedOptions
        /\ stage' = IF RankedOptions = <<>> THEN "failed" ELSE "explanation"
        /\ UNCHANGED <<inputs, modes, selected, answers, offers, issues, options>>
    BY <1>6 DEF Score
  <2>2. FoundOffers' = FoundOffers /\ SearchIssues' = SearchIssues
        /\ RankedOptions' = RankedOptions
    BY <2>1, SearchIsSame, SameRanking DEF inputs
  <2>3. SearchSuits'
    BY <2>1 DEF SearchSuits, Searched, SelectionInv
  <2>. QED
    BY <2>1, <2>2, <2>3 DEF SelectionInv, inputs, Working, Done, ToSet
<1>7. ASSUME NEW cities, Explain(cities) PROVE SelectionInv'
  <2>1. /\ stage = "explanation" /\ options' = scored
        /\ stage' = IF issues = {} THEN "completed" ELSE "partial"
        /\ UNCHANGED <<inputs, modes, selected, answers, offers, issues, scored>>
    BY <1>7 DEF Explain
  <2>2. FoundOffers' = FoundOffers /\ SearchIssues' = SearchIssues
        /\ RankedOptions' = RankedOptions
    BY <2>1, SearchIsSame, SameRanking DEF inputs
  <2>3. SearchSuits'
    BY <2>1 DEF SearchSuits, Searched, SelectionInv
  <2>. QED
    BY <2>1, <2>2, <2>3 DEF SelectionInv, inputs, Working, Done, ToSet
<1>8. CASE SelectionFails
  <2>1. /\ stage \in Working /\ stage' = "failed"
        /\ UNCHANGED <<inputs, modes, selected, answers, offers, issues, scored, options>>
    BY <1>8 DEF SelectionFails
  <2>2. SearchSuits'
    BY <2>1 DEF SearchSuits, Searched, SelectionInv
  <2>. QED
    BY <2>1, <2>2 DEF SelectionInv, inputs, Working, Done, ToSet
<1>9. CASE UNCHANGED selectionVars
  <2>1. FoundOffers' = FoundOffers /\ SearchIssues' = SearchIssues
        /\ RankedOptions' = RankedOptions
    BY <1>9, SearchIsSame, SameRanking DEF selectionVars
  <2>2. SearchSuits'
    BY <1>9 DEF SearchSuits, Searched, SelectionInv, selectionVars
  <2>. QED
    BY <1>9, <2>1, <2>2 DEF SelectionInv, selectionVars, ToSet
<1>. QED
  BY <1>1, <1>2, <1>3, <1>4, <1>5, <1>6, <1>7, <1>8, <1>9 DEF SelectionNext

\* The request of the invariant is one that was validated.
LEMMA InvSuits ==
    ASSUME SelectionAssumptions, SelectionInv
    PROVE  RequestSuits /\ SearchSuits
BY DEF SelectionInv, SelectionAssumptions, InputsAssumption, RequestSuits

\* What is shown are the first of an enumeration of the cities that have an offer.
LEMMA OptionsAre ==
    ASSUME SelectionAssumptions, SelectionInv, stage \in Done
    PROVE  LET n == Cardinality(FoundPlaces)
               m == Least(MaximumRankedOptions, n)
           IN  \E g : /\ Enumerates(g, n, FoundPlaces)
                      /\ options = [p \in 1..m |-> Represented(g[p])]
                      /\ \A p, q \in 1..n : p < q =>
                             ~Better(Represented(g[q]), Represented(g[p]))
<1>1. offers = FoundOffers /\ options = RankedOptions
  BY DEF SelectionInv
<1>. QED
  BY <1>1, InvSuits, RankedAre

\* The invariant gives the properties.
LEMMA InvOptionsSuit ==
    ASSUME SelectionAssumptions, SelectionInv
    PROVE  /\ OptionsSuit
           /\ \A i \in DOMAIN options : options[i].score \in 0..100
<1>1. CASE stage \notin Done
  BY <1>1 DEF SelectionInv, OptionsSuit
<1>2. CASE stage \in Done
  <2> DEFINE n == Cardinality(FoundPlaces)
             m == Least(MaximumRankedOptions, n)
  <2>1. PICK g : /\ Enumerates(g, n, FoundPlaces)
                 /\ options = [p \in 1..m |-> Represented(g[p])]
    BY <1>2, OptionsAre
  <2>2. n \in Nat /\ \A p \in 1..m : p \in 1..n
    <3>1. n \in Nat
      BY InvSuits, SearchedAll DEF SelectionAssumptions
    <3>. HIDE DEF n
    <3>. QED
      BY <3>1 DEF Least, SelectionAssumptions, LimitsAssumption
  <2>. HIDE DEF n, m
  <2>3. ASSUME NEW i \in DOMAIN options
        PROVE  /\ options[i].price \in 0..recommendation.budget
               /\ options[i].mode \in modes
               /\ options[i].city \in ToSet(selected)
               /\ options[i].score \in 0..100
    <3>1. i \in 1..m /\ options[i] = Represented(g[i])
      BY <2>1
    <3>2. g[i] \in FoundPlaces
      BY <2>1, <2>2, <3>1 DEF Enumerates
    <3>3. g[i] \in DOMAIN selected
      BY <3>2, InvSuits, SearchedAll DEF SelectionAssumptions, SearchSuits
    <3>. QED
      BY <3>1, <3>2, <3>3, InvSuits, RepresentedSuits DEF ToSet
  <2>. QED
    BY <2>3, InvSuits DEF OptionsSuit, RequestSuits, SelectionInv
<1>. QED
  BY <1>1, <1>2

\* The best of the cities' offers are shown.
LEMMA InvBestAreShown ==
    ASSUME SelectionAssumptions, SelectionInv
    PROVE  BestAreShown
<1>1. SUFFICES ASSUME stage \in Done PROVE BestAreShown
  BY DEF BestAreShown
<1> DEFINE F == FoundPlaces
           n == Cardinality(F)
           m == Least(MaximumRankedOptions, n)
           atTop == {i \in F : Represented(i) \in ToSet(options)}
<1>2. PICK g : /\ Enumerates(g, n, F)
               /\ options = [p \in 1..m |-> Represented(g[p])]
               /\ \A p, q \in 1..n : p < q => ~Better(Represented(g[q]), Represented(g[p]))
  BY <1>1, OptionsAre
<1>3. n \in Nat /\ F \subseteq Searched
      /\ \A i, j \in Searched : selected[i] = selected[j] => i = j
  BY InvSuits, SearchedAll DEF SelectionAssumptions
<1>4. \A i \in F : Represented(i).city = selected[i]
  BY InvSuits, RepresentedSuits
<1>5. F = {i \in Searched : HasOffer(i)}
  BY DEF FoundPlaces
<1>. HIDE DEF F, n
<1>6. m \in Nat /\ m <= n /\ 1..m \subseteq 1..n
  BY <1>3 DEF Least, SelectionAssumptions, LimitsAssumption
<1>. HIDE DEF m
<1>7. /\ g \in [1..n -> F]
      /\ \A p, q \in 1..n : g[p] = g[q] => p = q
      /\ \A i \in F : \E p \in 1..n : g[p] = i
  BY <1>2 DEF Enumerates
<1>8. ToSet(options) = {Represented(g[p]) : p \in 1..m}
  BY <1>2 DEF ToSet
<1>9. \A p \in 1..m : g[p] \in atTop
  BY <1>6, <1>7, <1>8
<1>10. \A i \in atTop : \E p \in 1..m : g[p] = i
  <2>1. TAKE i \in atTop
  <2>2. PICK p \in 1..m : Represented(i) = Represented(g[p])
    BY <1>8
  <2>3. i \in F /\ g[p] \in F
    BY <1>6, <1>7
  <2>4. selected[i] = selected[g[p]]
    BY <1>4, <2>2, <2>3
  <2>. QED
    BY <1>3, <2>3, <2>4
<1>. HIDE DEF atTop
<1>11. Cardinality(atTop) = m
  <2> DEFINE f == [p \in 1..m |-> g[p]]
  <2>1. f \in [1..m -> atTop] /\ \A p, q \in 1..m : f[p] = f[q] => p = q
    BY <1>6, <1>7, <1>9
  <2>2. \A i \in atTop : \E p \in 1..m : f[p] = i
    BY <1>10
  <2>. HIDE DEF f
  <2>3. f \in Bijection(1..m, atTop)
    BY <2>1, <2>2, Fun_IsBij
  <2>4. ExistsBijection(1..m, atTop)
    BY <2>3 DEF ExistsBijection
  <2>. QED
    BY <1>6, <2>4, FS_CountingElements
<1>12. Len(options) = m /\ DOMAIN options = 1..m
  BY <1>2, <1>6
<1>13. ASSUME NEW i \in atTop, NEW j \in F \ atTop
       PROVE  ~Better(Represented(j), Represented(i))
  <2>1. PICK p \in 1..m : g[p] = i
    BY <1>10
  <2>2. PICK q \in 1..n : g[q] = j
    BY <1>7
  <2>3. q \notin 1..m
    BY <1>9, <2>2
  <2>4. p < q
    BY <1>3, <1>6, <2>3
  <2>. QED
    BY <1>2, <1>6, <2>1, <2>2, <2>4
<1>14. ASSUME NEW k \in DOMAIN options, NEW l \in DOMAIN options, k < l
       PROVE  ~Better(options[l], options[k])
  <2>1. options[k] = Represented(g[k]) /\ options[l] = Represented(g[l])
        /\ k \in 1..n /\ l \in 1..n
    BY <1>2, <1>6
  <2>. QED
    BY <1>2, <1>14, <2>1
<1>15. stage = "completed" <=> F = Searched
  <2>1. stage = "completed" <=> SearchIssues = {}
    BY <1>1 DEF SelectionInv
  <2>2. SearchIssues = {} <=> \A i \in Searched : HasOffer(i)
    BY DEF SearchIssues
  <2>. QED
    BY <1>5, <2>1, <2>2
<1>. QED
  BY <1>5, <1>11, <1>12, <1>13, <1>14, <1>15 DEF BestAreShown, atTop, m, n

\* The invariant gives the type.
LEMMA InvSelectionType ==
    ASSUME SelectionAssumptions, SelectionInv
    PROVE  SelectionTypeOK
<1>1. selected \in BoundedSeq(SearchCities, CandidateSearchLimit)
  <2>1. SearchSuits
    BY DEF SelectionInv
  <2>2. Len(selected) \in 0..CandidateSearchLimit
        /\ selected \in [1..Len(selected) -> SearchCities]
    BY <2>1 DEF SearchSuits, SelectionAssumptions, LimitsAssumption
  <2>. QED
    BY <2>2 DEF BoundedSeq, SeqOf
<1>2. stage \in Done <=> options # <<>>
  BY DEF SelectionInv
<1>. QED
  BY <1>1, <1>2, InvOptionsSuit DEF SelectionInv, SearchSuits, SelectionTypeOK

\* The inductive invariant of a selection: the plan is of candidates, what each search
\* found is what the answers of the provider give, and what is scored and saved is a
\* function of them, however the searches finish.
THEOREM SelectionInvariant == SelectionSpec => []SelectionInv
<1>. SelectionAssumptions
  BY SelectionConstants
<1>1. SelectionInit => SelectionInv
  BY SelectionInvInit
<1>2. SelectionInv /\ [SelectionNext]_selectionVars => SelectionInv'
  BY SelectionInvNext
<1>. QED
  BY <1>1, <1>2, PTL DEF SelectionSpec

\* Every variable keeps its type: the plan is a sequence of cities, an offer that was
\* found is the one of its search, and a saved option is one of the plan's.
THEOREM SelectionTypeCorrect == SelectionSpec => []SelectionTypeOK
<1>. SelectionAssumptions
  BY SelectionConstants
<1>1. SelectionInv => SelectionTypeOK
  BY InvSelectionType
<1>. QED
  BY <1>1, SelectionInvariant, PTL

\* Every option that is saved can be afforded with its return, is as fast and by a
\* transport as was asked for, and is the offer of its city: for all answers of the
\* provider, all budgets and all orders in which the searches finish.
THEOREM OptionsAlwaysSuit == SelectionSpec => []OptionsSuit
<1>. SelectionAssumptions
  BY SelectionConstants
<1>1. SelectionInv => OptionsSuit
  BY InvOptionsSuit
<1>. QED
  BY <1>1, SelectionInvariant, PTL

\* The cities that are atTop are the best of those that were searched and have an offer:
\* as many as are asked for, and none that is left out has a greater score.
THEOREM BestAreAlwaysShown == SelectionSpec => []BestAreShown
<1>. SelectionAssumptions
  BY SelectionConstants
<1>1. SelectionInv => BestAreShown
  BY InvBestAreShown
<1>. QED
  BY <1>1, SelectionInvariant, PTL

----------------------------------------------------------------------------
(* EventAnswers.                                                           *)

\* g holds what is taken of the payloads at every set of places, the last one last.
TakesOver(g, payloads, limit) ==
    g = [s \in SUBSET DOMAIN payloads |->
            IF s = {} THEN <<>>
            ELSE Take(g[s \ {Max(s)}], payloads[Max(s)], limit)]

\* The loop is computed through the sets of places.
LEMMA TakenUnfolds ==
    ASSUME NEW payloads, NEW limit
    PROVE  Taken(payloads, limit)
               = (CHOOSE g : TakesOver(g, payloads, limit))[DOMAIN payloads]
BY DEF Taken, FoldLeft, MapThenFoldSet, TakesOver

\* The greatest of some places.
LEMMA LastIn ==
    ASSUME NEW n \in Nat, NEW s \in SUBSET (1..n), s # {}
    PROVE  Max(s) \in s /\ \A x \in s : x <= Max(s)
<1> DEFINE T == {n - x : x \in s}
<1>1. T \subseteq Nat /\ T # {}
  <2>1. ASSUME NEW x \in s PROVE n - x \in Nat
    <3>1. x \in 1..n
      OBVIOUS
    <3>. QED
      BY <3>1
  <2>2. PICK x \in s : TRUE
    OBVIOUS
  <2>. QED
    BY <2>1, <2>2
<1>2. PICK t \in T : \A u \in T : t <= u
  BY <1>1, LeastNumber
<1>3. PICK x \in s : t = n - x
  BY <1>2
<1>4. \A y \in s : x >= y
  <2>1. TAKE y \in s
  <2>2. n - y \in T /\ x \in Int /\ y \in Int
    OBVIOUS
  <2>3. n - x <= n - y
    BY <1>2, <1>3, <2>2
  <2>. QED
    BY <2>2, <2>3
<1>5. Max(s) \in s /\ \A y \in s : Max(s) >= y
  BY <1>4 DEF Max
<1>6. \A y \in s : y \in Int
  OBVIOUS
<1>. QED
  BY <1>5, <1>6

\* What is taken at the sets of places exists.
LEMMA TakesExist ==
    ASSUME NEW payloads, NEW limit, NEW n \in Nat, DOMAIN payloads = 1..n
    PROVE  \E g : TakesOver(g, payloads, limit)
<1> DEFINE S == DOMAIN payloads
           Turn(g, s) == IF s = {} THEN <<>>
                         ELSE Take(g[s \ {Max(s)}], payloads[Max(s)], limit)
           Upto(k) == \E g : \A s \in SUBSET S : Cardinality(s) <= k => g[s] = Turn(g, s)
           Remaining == {k \in Nat : ~Upto(k)}
<1>0. IsFiniteSet(S)
  BY FS_Interval
<1>1. \A s \in SUBSET S :
        /\ Cardinality(s) \in Nat
        /\ Cardinality(s) <= Cardinality(S)
        /\ s # {} => Cardinality(s \ {Max(s)}) = Cardinality(s) - 1
  BY <1>0, FS_Subset, FS_CardinalityType, FS_RemoveElement, LastIn
<1>2. Upto(0)
  <2> DEFINE g == [s \in SUBSET S |-> <<>>]
  <2>1. ASSUME NEW s \in SUBSET S, Cardinality(s) <= 0 PROVE s = {}
    <3>1. IsFiniteSet(s)
      BY <1>0, FS_Subset
    <3>2. Cardinality(s) \in Nat
      BY <1>1
    <3>. QED
      BY <2>1, <3>1, <3>2, FS_EmptySet
  <2>2. \A s \in SUBSET S : Cardinality(s) <= 0 => g[s] = Turn(g, s)
    BY <2>1
  <2>. QED
    BY <2>2
<1>3. ASSUME NEW k \in Nat, Upto(k) PROVE Upto(k + 1)
  <2>1. PICK g : \A s \in SUBSET S : Cardinality(s) <= k => g[s] = Turn(g, s)
    BY <1>3
  <2> DEFINE h == [s \in SUBSET S |-> IF Cardinality(s) <= k THEN g[s] ELSE Turn(g, s)]
  <2>2. ASSUME NEW s \in SUBSET S, Cardinality(s) <= k + 1 PROVE h[s] = Turn(h, s)
    <3>1. h[s] = Turn(g, s)
      BY <2>1
    <3>2. s # {} => h[s \ {Max(s)}] = g[s \ {Max(s)}]
      BY <1>1, <2>2
    <3>. QED
      BY <3>1, <3>2
  <2>3. \A s \in SUBSET S : Cardinality(s) <= k + 1 => h[s] = Turn(h, s)
    BY <2>2
  <2>. HIDE DEF h
  <2>. QED
    BY <2>3
<1>4. Remaining = {}
  <2>. HIDE DEF Upto
  <2>1. SUFFICES ASSUME Remaining # {} PROVE FALSE
    OBVIOUS
  <2>2. PICK k \in Remaining : \A m \in Remaining : k <= m
    BY <2>1, LeastNumber
  <2>3. k # 0 /\ k - 1 \in Nat /\ Upto(k - 1)
    BY <1>2, <2>2
  <2>. QED
    BY <1>3, <2>2, <2>3
<1>5. Upto(Cardinality(S))
  BY <1>0, <1>4, FS_CardinalityType
<1>6. PICK g : \A s \in SUBSET S : Cardinality(s) <= Cardinality(S) => g[s] = Turn(g, s)
  BY <1>5
<1> DEFINE whole == [s \in SUBSET S |-> g[s]]
<1>7. \A s \in SUBSET S : whole[s] = Turn(whole, s)
  BY <1>1, <1>6
<1>8. TakesOver(whole, payloads, limit)
  BY <1>7 DEF TakesOver
<1>. QED
  BY <1>8

\* The loop takes one payload after the other.
LEMMA TakenStepwise ==
    ASSUME NEW payloads, NEW limit, NEW n \in Nat, DOMAIN payloads = 1..n
    PROVE  \E g : /\ g[0] = <<>>
                  /\ \A k \in 0..(n - 1) : g[k + 1] = Take(g[k], payloads[k + 1], limit)
                  /\ Taken(payloads, limit) = g[n]
<1>1. PICK h : TakesOver(h, payloads, limit) /\ Taken(payloads, limit) = h[1..n]
  BY TakenUnfolds, TakesExist
<1> DEFINE g == [k \in 0..n |-> h[1..k]]
<1>2. g[0] = <<>>
  <2>1. h[{}] = <<>>
    BY <1>1 DEF TakesOver
  <2>2. 1..0 = {}
    OBVIOUS
  <2>. QED
    BY <2>1, <2>2
<1>3. ASSUME NEW k \in 0..(n - 1) PROVE g[k + 1] = Take(g[k], payloads[k + 1], limit)
  <2> DEFINE s == 1..(k + 1)
  <2>1. s \in SUBSET (1..n) /\ k + 1 \in s
    OBVIOUS
  <2>2. Max(s) \in s /\ \A x \in s : x <= Max(s)
    BY <2>1, LastIn
  <2>3. Max(s) = k + 1
    BY <2>1, <2>2
  <2>4. s \ {k + 1} = 1..k /\ s # {}
    BY <2>1
  <2>. HIDE DEF s
  <2>5. h[s] = Take(h[s \ {Max(s)}], payloads[Max(s)], limit)
    BY <1>1, <2>1, <2>4 DEF TakesOver
  <2>6. h[s] = Take(h[1..k], payloads[k + 1], limit)
    BY <2>3, <2>4, <2>5
  <2>7. g[k + 1] = h[s] /\ g[k] = h[1..k]
    BY DEF s
  <2>. QED
    BY <2>6, <2>7
<1>4. Taken(payloads, limit) = g[n]
  BY <1>1
<1>. HIDE DEF g
<1>. QED
  BY <1>2, <1>3, <1>4

----------------------------------------------------------------------------

\* The places of a finite set of numbers are counted from 1, in the order.
LEMMA PlaceFacts ==
    ASSUME NEW S \in SUBSET Int, IsFiniteSet(S)
    PROVE  /\ \A i \in S : Place(i, S) \in 1..Cardinality(S)
           /\ \A i, j \in S : i < j => Place(i, S) < Place(j, S)
           /\ \A p \in 1..Cardinality(S) : \E i \in S : Place(i, S) = p
<1> DEFINE n == Cardinality(S)
<1>1. IsOrdering({}, S) /\ n \in Nat
  BY FS_CardinalityType DEF IsOrdering
<1>2. /\ \A i \in S : Preceding(S, {}, i) \in 0..(n - 1)
      /\ \A i, j \in S : Precedes({}, i, j) => Preceding(S, {}, i) < Preceding(S, {}, j)
  BY <1>1, PrecedingGrows
<1>3. ASSUME NEW i \in S PROVE Place(i, S) = Preceding(S, {}, i) + 1
  <2> DEFINE before == {j \in S : Precedes({}, j, i)}
  <2>1. IsFiniteSet(before) /\ i \notin before
    <3>1. IsFiniteSet(before)
      BY FS_Subset
    <3>. QED
      BY <3>1 DEF Precedes
  <2>2. {j \in S : j <= i} = before \cup {i}
    <3>1. \A j \in S : j <= i <=> j < i \/ j = i
      OBVIOUS
    <3>. QED
      BY <3>1 DEF Precedes
  <2>3. Preceding(S, {}, i) = Cardinality(before) /\ Place(i, S) = Cardinality(before \cup {i})
    BY <2>2 DEF Preceding, Place
  <2>. HIDE DEF before
  <2>4. Cardinality(before \cup {i}) = Cardinality(before) + 1
    BY <2>1, FS_AddElement
  <2>. QED
    BY <2>3, <2>4
<1>4. \A i \in S : Place(i, S) \in 1..n
  <2>1. TAKE i \in S
  <2>2. Preceding(S, {}, i) \in 0..(n - 1) /\ Place(i, S) = Preceding(S, {}, i) + 1
    BY <1>2, <1>3
  <2>. HIDE DEF n
  <2>. QED
    BY <1>1, <2>2
<1>5. ASSUME NEW i \in S, NEW j \in S, i < j PROVE Place(i, S) < Place(j, S)
  <2>1. Precedes({}, i, j)
    BY <1>5 DEF Precedes
  <2>2. Preceding(S, {}, i) < Preceding(S, {}, j)
    BY <1>2, <2>1
  <2>3. Preceding(S, {}, i) \in 0..(n - 1) /\ Preceding(S, {}, j) \in 0..(n - 1)
    BY <1>2
  <2>4. Place(i, S) = Preceding(S, {}, i) + 1 /\ Place(j, S) = Preceding(S, {}, j) + 1
    BY <1>3
  <2>. HIDE DEF n
  <2>. QED
    BY <1>1, <2>2, <2>3, <2>4
<1>6. ASSUME NEW p \in 1..n PROVE \E i \in S : Place(i, S) = p
  <2> DEFINE f == [i \in S |-> Place(i, S)]
  <2>1. f \in [S -> 1..n]
    BY <1>4
  <2>2. \A i, j \in S : f[i] = f[j] => i = j
    <3>1. SUFFICES ASSUME NEW i \in S, NEW j \in S, Place(i, S) = Place(j, S), i # j
                   PROVE  FALSE
      OBVIOUS
    <3>2. Place(i, S) < Place(j, S) \/ Place(j, S) < Place(i, S)
      BY <1>5, <3>1
    <3>3. Place(i, S) \in Int /\ Place(j, S) \in Int
      BY <1>1, <1>4
    <3>. QED
      BY <3>1, <3>2, <3>3
  <2>3. f \in Injection(S, 1..n)
    BY <2>1, <2>2, Fun_IsInj
  <2>4. IsFiniteSet(1..n) /\ Cardinality(1..n) = n
    BY <1>1, FS_Interval
  <2>5. f \in Surjection(S, 1..n)
    BY <2>3, <2>4, FS_Injection
  <2>6. \A q \in 1..n : \E i \in S : f[i] = q
    <3>. HIDE DEF f, n
    <3>. QED
      BY <2>5 DEF Surjection
  <2>. QED
    BY <2>6
<1>. QED
  BY <1>4, <1>5, <1>6

\* A map of one set onto another that keeps the order keeps the places.
LEMMA PlaceMapped ==
    ASSUME NEW S \in SUBSET Int, IsFiniteSet(S), NEW T \in SUBSET Int, NEW h \in [S -> T],
           \A i, j \in S : i < j => h[i] < h[j],
           \A t \in T : \E i \in S : h[i] = t
    PROVE  /\ IsFiniteSet(T) /\ Cardinality(T) = Cardinality(S)
           /\ \A i \in S : Place(h[i], T) = Place(i, S)
<1>1. \A i, j \in S : h[i] <= h[j] <=> i <= j
  <2>1. TAKE i, j \in S
  <2>2. i \in Int /\ j \in Int /\ h[i] \in Int /\ h[j] \in Int
    OBVIOUS
  <2>3. i < j => h[i] < h[j]
    OBVIOUS
  <2>4. j < i => h[j] < h[i]
    OBVIOUS
  <2>. QED
    BY <2>2, <2>3, <2>4
<1>2. ASSUME NEW U \in SUBSET S, NEW V \in SUBSET T,
             \A i \in S : i \in U <=> h[i] \in V
      PROVE  IsFiniteSet(V) /\ Cardinality(V) = Cardinality(U)
  <2> DEFINE k == [i \in U |-> h[i]]
  <2>1. k \in [U -> V]
    BY <1>2
  <2>2. \A i, j \in U : k[i] = k[j] => i = j
    <3>1. TAKE i, j \in U
    <3>2. i \in Int /\ j \in Int /\ h[i] \in Int /\ h[j] \in Int
      OBVIOUS
    <3>3. i <= j <=> h[i] <= h[j]
      BY <1>1
    <3>4. j <= i <=> h[j] <= h[i]
      BY <1>1
    <3>. QED
      BY <3>2, <3>3, <3>4
  <2>3. \A v \in V : \E i \in U : k[i] = v
    BY <1>2
  <2>. HIDE DEF k
  <2>4. k \in Bijection(U, V)
    BY <2>1, <2>2, <2>3, Fun_IsBij
  <2>5. IsFiniteSet(U) /\ ExistsBijection(U, V)
    BY <2>4, FS_Subset DEF ExistsBijection
  <2>. QED
    BY <2>5, FS_Bijection
<1>3. IsFiniteSet(T) /\ Cardinality(T) = Cardinality(S)
  BY <1>2
<1>4. ASSUME NEW i \in S PROVE Place(h[i], T) = Place(i, S)
  <2> DEFINE U == {j \in S : j <= i}
             V == {t \in T : t <= h[i]}
  <2>1. \A j \in S : j \in U <=> h[j] \in V
    BY <1>1
  <2>2. U \in SUBSET S /\ V \in SUBSET T /\ Place(h[i], T) = Cardinality(V)
        /\ Place(i, S) = Cardinality(U)
    BY DEF Place
  <2>. HIDE DEF U, V
  <2>3. Cardinality(V) = Cardinality(U)
    BY <1>2, <2>1, <2>2
  <2>. QED
    BY <2>2, <2>3
<1>. QED
  BY <1>3, <1>4

\* A number is at its own place among the first ones.
LEMMA PlaceOfNumber ==
    ASSUME NEW n \in Nat, NEW p \in 1..n
    PROVE  Place(p, 1..n) = p
<1>1. {j \in 1..n : j <= p} = 1..p
  OBVIOUS
<1>2. Cardinality(1..p) = p
  BY FS_Interval
<1>. QED
  BY <1>1, <1>2 DEF Place

KeyOf(p) == Key(p.title, p.start)

\* The event of a payload that is taken at a place.
EventOf(p, place) ==
    [title |-> p.title, city |-> p.city, start |-> p.start, end |-> EndOf(p), rank |-> place]

\* The usable ones of the first k payloads.
UsableUpTo(payloads, k) ==
    {i \in 1..k : /\ ValidPayload(payloads[i])
                  /\ \A j \in 1..(i - 1) :
                         ValidPayload(payloads[j]) => KeyOf(payloads[j]) # KeyOf(payloads[i])}

Smaller(a, b) == IF a <= b THEN a ELSE b

\* What the first k turns of the loop take: the first usable payloads, in their order.
TakenSoFar(payloads, limit, k, s) ==
    /\ DOMAIN s = 1..Smaller(limit, Cardinality(UsableUpTo(payloads, k)))
    /\ Len(s) = Smaller(limit, Cardinality(UsableUpTo(payloads, k)))
    /\ s \in Seq({EventOf(payloads[i], place) : i \in 1..k, place \in 1..k})
    /\ \A i \in UsableUpTo(payloads, k) :
           LET place == Place(i, UsableUpTo(payloads, k))
           IN  place <= limit => s[place] = EventOf(payloads[i], place)

\* The usable places, as sets.
LEMMA UsableFinite ==
    ASSUME NEW payloads, NEW k \in Nat
    PROVE  /\ UsableUpTo(payloads, k) \in SUBSET (1..k)
           /\ UsableUpTo(payloads, k) \in SUBSET Int
           /\ IsFiniteSet(UsableUpTo(payloads, k))
           /\ Cardinality(UsableUpTo(payloads, k)) \in 0..k
<1>1. UsableUpTo(payloads, k) \in SUBSET (1..k)
  BY DEF UsableUpTo
<1>2. IsFiniteSet(1..k) /\ Cardinality(1..k) = k
  BY FS_Interval
<1>3. /\ IsFiniteSet(UsableUpTo(payloads, k))
      /\ Cardinality(UsableUpTo(payloads, k)) <= k
      /\ Cardinality(UsableUpTo(payloads, k)) \in Nat
  BY <1>1, <1>2, FS_Subset, FS_CardinalityType
<1>4. Cardinality(UsableUpTo(payloads, k)) \in 0..k
  BY <1>3
<1>. QED
  BY <1>1, <1>3, <1>4

\* Of every title and day that a valid payload has there is a usable one.
LEMMA FirstOfKey ==
    ASSUME NEW payloads, NEW k \in Nat, NEW j \in 1..k, ValidPayload(payloads[j])
    PROVE  \E i \in UsableUpTo(payloads, k) : KeyOf(payloads[i]) = KeyOf(payloads[j])
<1> DEFINE T == {i \in 1..k : ValidPayload(payloads[i])
                                  /\ KeyOf(payloads[i]) = KeyOf(payloads[j])}
<1>1. T \subseteq Nat /\ T # {}
  <2>1. T \subseteq 1..k /\ 1..k \subseteq Nat
    OBVIOUS
  <2>. QED
    BY <2>1
<1>2. PICK i \in T : \A m \in T : i <= m
  BY <1>1, LeastNumber
<1>3. i \in 1..k /\ ValidPayload(payloads[i]) /\ KeyOf(payloads[i]) = KeyOf(payloads[j])
  OBVIOUS
<1>4. ASSUME NEW m \in 1..(i - 1), ValidPayload(payloads[m])
      PROVE  KeyOf(payloads[m]) # KeyOf(payloads[i])
  <2>1. m \in 1..k /\ m < i /\ ~(i <= m)
    BY <1>3
  <2>. QED
    BY <1>2, <1>3, <1>4, <2>1
<1>5. i \in UsableUpTo(payloads, k)
  BY <1>3, <1>4 DEF UsableUpTo
<1>. QED
  BY <1>3, <1>5

\* One payload more is usable or is not.
LEMMA UsableNext ==
    ASSUME NEW payloads, NEW k \in Nat
    PROVE  UsableUpTo(payloads, k + 1) =
               UsableUpTo(payloads, k) \cup
                   (IF /\ ValidPayload(payloads[k + 1])
                       /\ \A i \in UsableUpTo(payloads, k) :
                              KeyOf(payloads[i]) # KeyOf(payloads[k + 1])
                    THEN {k + 1} ELSE {})
<1> DEFINE P(i) == /\ ValidPayload(payloads[i])
                   /\ \A j \in 1..(i - 1) :
                          ValidPayload(payloads[j]) => KeyOf(payloads[j]) # KeyOf(payloads[i])
<1>1. UsableUpTo(payloads, k) = {i \in 1..k : P(i)}
  BY DEF UsableUpTo
<1>2. UsableUpTo(payloads, k + 1) = {i \in 1..(k + 1) : P(i)}
  BY DEF UsableUpTo
<1>3. P(k + 1) <=> /\ ValidPayload(payloads[k + 1])
                   /\ \A i \in UsableUpTo(payloads, k) :
                          KeyOf(payloads[i]) # KeyOf(payloads[k + 1])
  <2>1. (k + 1) - 1 = k
    OBVIOUS
  <2>2. ASSUME P(k + 1), NEW i \in UsableUpTo(payloads, k)
        PROVE  KeyOf(payloads[i]) # KeyOf(payloads[k + 1])
    <3>1. i \in 1..k /\ ValidPayload(payloads[i])
      BY <1>1
    <3>. QED
      BY <2>1, <2>2, <3>1
  <2>3. ASSUME ValidPayload(payloads[k + 1]),
               \A i \in UsableUpTo(payloads, k) :
                   KeyOf(payloads[i]) # KeyOf(payloads[k + 1]),
               NEW j \in 1..k, ValidPayload(payloads[j])
        PROVE  KeyOf(payloads[j]) # KeyOf(payloads[k + 1])
    <3>1. PICK i \in UsableUpTo(payloads, k) : KeyOf(payloads[i]) = KeyOf(payloads[j])
      BY <2>3, FirstOfKey
    <3>. QED
      BY <2>3, <3>1
  <2>4. P(k + 1) => ValidPayload(payloads[k + 1])
    OBVIOUS
  <2>5. ASSUME ValidPayload(payloads[k + 1]),
               \A i \in UsableUpTo(payloads, k) :
                   KeyOf(payloads[i]) # KeyOf(payloads[k + 1])
        PROVE  P(k + 1)
    BY <2>1, <2>3, <2>5
  <2>. HIDE DEF P
  <2>. QED
    BY <2>2, <2>4, <2>5
<1>4. 1..(k + 1) = 1..k \cup {k + 1}
  OBVIOUS
<1>. HIDE DEF P
<1>. QED
  BY <1>1, <1>2, <1>3, <1>4

\* A place does not depend on what comes later.
LEMMA PlaceStays ==
    ASSUME NEW payloads, NEW k \in Nat, NEW i \in UsableUpTo(payloads, k)
    PROVE  Place(i, UsableUpTo(payloads, k + 1)) = Place(i, UsableUpTo(payloads, k))
<1>1. i \in 1..k
  BY UsableFinite
<1>2. {j \in UsableUpTo(payloads, k + 1) : j <= i} = {j \in UsableUpTo(payloads, k) : j <= i}
  BY <1>1, UsableNext
<1>. QED
  BY <1>2 DEF Place

\* Each element is the event of the usable payload in its place, and of every one as
\* long as there is room.
TakenInPlaces(payloads, limit, k, s) ==
    /\ \A p \in DOMAIN s : \E i \in UsableUpTo(payloads, k) :
           Place(i, UsableUpTo(payloads, k)) = p /\ s[p] = EventOf(payloads[i], p)
    /\ Len(s) < limit =>
           \A i \in UsableUpTo(payloads, k) : \E p \in DOMAIN s :
               s[p] = EventOf(payloads[i], p)

\* What is taken has the key of a usable payload, and as long as there is room every
\* usable one is taken.
LEMMA TakenKeys ==
    ASSUME NEW payloads, NEW limit \in Nat \ {0}, NEW k \in Nat, NEW s,
           TakenSoFar(payloads, limit, k, s)
    PROVE  TakenInPlaces(payloads, limit, k, s)
<1> DEFINE U == UsableUpTo(payloads, k)
<1>1. U \in SUBSET Int /\ IsFiniteSet(U) /\ Cardinality(U) \in Nat
  BY UsableFinite
<1>2. /\ \A i \in U : Place(i, U) \in 1..Cardinality(U)
      /\ \A p \in 1..Cardinality(U) : \E i \in U : Place(i, U) = p
  <2>. HIDE DEF U
  <2>. QED
    BY <1>1, PlaceFacts
<1>3. /\ DOMAIN s = 1..Smaller(limit, Cardinality(U))
      /\ Len(s) = Smaller(limit, Cardinality(U))
      /\ \A i \in U : Place(i, U) <= limit => s[Place(i, U)] = EventOf(payloads[i], Place(i, U))
  BY DEF TakenSoFar
<1>. HIDE DEF U
<1>4. ASSUME NEW p \in DOMAIN s
      PROVE  \E i \in U : Place(i, U) = p /\ s[p] = EventOf(payloads[i], p)
  <2>1. p \in 1..Cardinality(U) /\ p <= limit
    BY <1>1, <1>3 DEF Smaller
  <2>2. PICK i \in U : Place(i, U) = p
    BY <1>2, <2>1
  <2>. QED
    BY <1>3, <2>1, <2>2
<1>5. ASSUME Len(s) < limit, NEW i \in U
      PROVE  \E p \in DOMAIN s : s[p] = EventOf(payloads[i], p)
  <2>1. Smaller(limit, Cardinality(U)) = Cardinality(U) /\ Cardinality(U) < limit
    BY <1>1, <1>3, <1>5 DEF Smaller
  <2>2. Place(i, U) \in 1..Cardinality(U)
    BY <1>2
  <2>3. Place(i, U) \in DOMAIN s /\ Place(i, U) <= limit
    BY <1>1, <1>3, <2>1, <2>2
  <2>. QED
    BY <1>3, <2>3
<1>. QED
  BY <1>4, <1>5 DEF U, TakenInPlaces

\* A turn of the loop.
LEMMA TakeTurn ==
    ASSUME NEW payloads, NEW limit \in Nat \ {0}, NEW k \in Nat, NEW s,
           TakenSoFar(payloads, limit, k, s)
    PROVE  TakenSoFar(payloads, limit, k + 1, Take(s, payloads[k + 1], limit))
<1>0. TakenInPlaces(payloads, limit, k, s)
  BY TakenKeys
<1> DEFINE U == UsableUpTo(payloads, k)
           V == UsableUpTo(payloads, k + 1)
           p == payloads[k + 1]
           t == Take(s, p, limit)
           New == ValidPayload(p) /\ \A i \in U : KeyOf(payloads[i]) # KeyOf(p)
           E(m) == {EventOf(payloads[i], place) : i \in 1..m, place \in 1..m}
<1>1. /\ U \in SUBSET Int /\ U \in SUBSET (1..k) /\ IsFiniteSet(U) /\ Cardinality(U) \in 0..k
      /\ V \in SUBSET Int /\ IsFiniteSet(V) /\ Cardinality(V) \in Nat
  BY UsableFinite
<1>2. V = U \cup (IF New THEN {k + 1} ELSE {})
  BY UsableNext
<1>3. \A i \in U : Place(i, V) = Place(i, U) /\ Place(i, U) \in 1..Cardinality(U)
  <2>1. \A i \in U : Place(i, V) = Place(i, U)
    BY PlaceStays
  <2>2. \A i \in U : Place(i, U) \in 1..Cardinality(U)
    <3>. HIDE DEF U, V
    <3>. QED
      BY <1>1, PlaceFacts
  <2>. QED
    BY <2>1, <2>2
<1>4. /\ DOMAIN s = 1..Smaller(limit, Cardinality(U))
      /\ Len(s) = Smaller(limit, Cardinality(U))
      /\ s \in Seq(E(k))
      /\ \A i \in U : Place(i, U) <= limit => s[Place(i, U)] = EventOf(payloads[i], Place(i, U))
  BY DEF TakenSoFar
<1>5. E(k) \subseteq E(k + 1)
  <2>1. 1..k \subseteq 1..(k + 1)
    OBVIOUS
  <2>. QED
    BY <2>1
<1>6. s \in Seq(E(k + 1))
  <2>. HIDE DEF E
  <2>. QED
    BY <1>4, <1>5
<1>7. /\ \A q \in DOMAIN s : \E i \in U : Place(i, U) = q /\ s[q] = EventOf(payloads[i], q)
      /\ Len(s) < limit => \A i \in U : \E q \in DOMAIN s : s[q] = EventOf(payloads[i], q)
  BY <1>0 DEF TakenInPlaces
<1>8. ASSUME Len(s) < limit, ValidPayload(p)
      PROVE  (\A q \in DOMAIN s : Key(s[q].title, s[q].start) # Key(p.title, p.start)) <=> New
  <2>1. ASSUME \A q \in DOMAIN s : Key(s[q].title, s[q].start) # Key(p.title, p.start),
               NEW i \in U
        PROVE  KeyOf(payloads[i]) # KeyOf(p)
    <3>1. PICK q \in DOMAIN s : s[q] = EventOf(payloads[i], q)
      BY <1>7, <1>8
    <3>2. s[q].title = payloads[i].title /\ s[q].start = payloads[i].start
      BY <3>1 DEF EventOf
    <3>. QED
      BY <2>1, <3>2 DEF KeyOf
  <2>2. ASSUME New, NEW q \in DOMAIN s
        PROVE  Key(s[q].title, s[q].start) # Key(p.title, p.start)
    <3>1. PICK i \in U : s[q] = EventOf(payloads[i], q)
      BY <1>7
    <3>2. s[q].title = payloads[i].title /\ s[q].start = payloads[i].start
      BY <3>1 DEF EventOf
    <3>. QED
      BY <2>2, <3>2 DEF KeyOf
  <2>. QED
    BY <1>8, <2>1, <2>2
<1>9. t = IF Len(s) < limit /\ New
          THEN Append(s, EventOf(p, Len(s) + 1)) ELSE s
  <2>1. t = IF /\ Len(s) < limit
               /\ ValidPayload(p)
               /\ \A q \in DOMAIN s : Key(s[q].title, s[q].start) # Key(p.title, p.start)
            THEN Append(s, EventOf(p, Len(s) + 1)) ELSE s
    BY DEF Take, EventOf
  <2>2. New => ValidPayload(p)
    OBVIOUS
  <2>. HIDE DEF New, p, t
  <2>. QED
    BY <1>8, <2>1, <2>2
<1>10. CASE ~New
  <2>1. V = U /\ t = s
    BY <1>2, <1>9, <1>10
  <2>2. TakenSoFar(payloads, limit, k + 1, s)
    <3>1. UsableUpTo(payloads, k + 1) = U
      BY <2>1
    <3>. HIDE DEF U
    <3>. QED
      BY <1>4, <1>6, <3>1 DEF TakenSoFar, E
  <2>. QED
    BY <2>1, <2>2
<1>11. CASE New
  <2>1. k + 1 \notin U /\ V = U \cup {k + 1}
    <3>1. k + 1 \notin 1..k
      OBVIOUS
    <3>. QED
      BY <1>1, <1>2, <1>11, <3>1
  <2>2. Cardinality(V) = Cardinality(U) + 1
    <3>. HIDE DEF U, V
    <3>. QED
      BY <1>1, <2>1, FS_AddElement
  <2>3. Place(k + 1, V) = Cardinality(V)
    <3>1. \A i \in V : i <= k + 1
      BY <1>1, <2>1
    <3>2. {i \in V : i <= k + 1} = V
      BY <3>1
    <3>. HIDE DEF V
    <3>. QED
      BY <3>2 DEF Place
  <2>4. CASE Len(s) < limit
    <3>1. t = Append(s, EventOf(p, Len(s) + 1)) /\ Len(s) = Cardinality(U)
          /\ Cardinality(U) < limit
      BY <1>1, <1>4, <1>9, <1>11, <2>4 DEF Smaller
    <3>2. EventOf(p, Len(s) + 1) \in E(k + 1)
      <4>1. k + 1 \in 1..(k + 1) /\ Len(s) + 1 \in 1..(k + 1)
        BY <1>1, <3>1
      <4>. QED
        BY <4>1
    <3>3. /\ t \in Seq(E(k + 1)) /\ Len(t) = Len(s) + 1 /\ DOMAIN t = 1..(Len(s) + 1)
          /\ \A q \in 1..Len(s) : t[q] = s[q]
          /\ t[Len(s) + 1] = EventOf(p, Len(s) + 1)
      <4> DEFINE e == EventOf(p, Len(s) + 1)
      <4>. HIDE DEF E, e, t
      <4>1. t = Append(s, e) /\ e \in E(k + 1)
        BY <3>1, <3>2 DEF e
      <4>2. /\ t \in Seq(E(k + 1)) /\ Len(t) = Len(s) + 1
            /\ \A q \in 1..Len(s) : t[q] = s[q]
            /\ t[Len(s) + 1] = e
        BY <1>6, <4>1
      <4>. QED
        BY <4>2 DEF e
    <3>4. Smaller(limit, Cardinality(V)) = Len(s) + 1
      BY <1>1, <2>2, <3>1 DEF Smaller
    <3>5. ASSUME NEW i \in V, Place(i, V) <= limit
          PROVE  t[Place(i, V)] = EventOf(payloads[i], Place(i, V))
      <4>1. CASE i = k + 1
        BY <2>2, <2>3, <3>1, <3>3, <4>1
      <4>2. CASE i \in U
        <5>1. Place(i, V) = Place(i, U) /\ Place(i, U) \in 1..Len(s)
          BY <1>3, <3>1, <4>2
        <5>2. s[Place(i, U)] = EventOf(payloads[i], Place(i, U))
          BY <1>4, <3>5, <4>2, <5>1
        <5>3. t[Place(i, U)] = s[Place(i, U)]
          BY <3>3, <5>1
        <5>. QED
          BY <5>1, <5>2, <5>3
      <4>. QED
        BY <2>1, <4>1, <4>2
    <3>. QED
      <4>. HIDE DEF t
      <4>1. /\ DOMAIN t = 1..Smaller(limit, Cardinality(V))
            /\ Len(t) = Smaller(limit, Cardinality(V))
        BY <3>3, <3>4
      <4>. QED
        BY <3>3, <3>5, <4>1 DEF TakenSoFar, t
  <2>5. CASE ~(Len(s) < limit)
    <3>1. t = s /\ Smaller(limit, Cardinality(U)) = limit /\ limit <= Cardinality(U)
      BY <1>1, <1>4, <1>9, <2>5 DEF Smaller
    <3>2. Smaller(limit, Cardinality(V)) = limit
      BY <1>1, <2>2, <3>1 DEF Smaller
    <3>3. ASSUME NEW i \in V, Place(i, V) <= limit
          PROVE  s[Place(i, V)] = EventOf(payloads[i], Place(i, V))
      <4>1. i # k + 1
        BY <1>1, <2>2, <2>3, <3>1, <3>3
      <4>2. i \in U
        BY <2>1, <4>1
      <4>. QED
        BY <1>3, <1>4, <3>3, <4>2
    <3>4. /\ DOMAIN s = 1..Smaller(limit, Cardinality(V))
          /\ Len(s) = Smaller(limit, Cardinality(V))
      BY <1>4, <3>1, <3>2
    <3>5. TakenSoFar(payloads, limit, k + 1, s)
      BY <1>6, <3>3, <3>4 DEF TakenSoFar
    <3>. QED
      BY <3>1, <3>5
  <2>. QED
    BY <2>4, <2>5
<1>. QED
  BY <1>10, <1>11

\* The loop takes the first usable payloads.
LEMMA TakenIs ==
    ASSUME NEW payloads, NEW n \in Nat, DOMAIN payloads = 1..n, NEW limit \in Nat \ {0}
    PROVE  TakenSoFar(payloads, limit, n, Taken(payloads, limit))
<1>1. PICK g : /\ g[0] = <<>>
               /\ \A k \in 0..(n - 1) : g[k + 1] = Take(g[k], payloads[k + 1], limit)
               /\ Taken(payloads, limit) = g[n]
  BY TakenStepwise
<1> DEFINE Remaining == {k \in 0..n : ~TakenSoFar(payloads, limit, k, g[k])}
<1>2. TakenSoFar(payloads, limit, 0, g[0])
  <2>1. UsableUpTo(payloads, 0) = {} /\ Cardinality({}) = 0
    BY UsableFinite, FS_EmptySet
  <2>2. Smaller(limit, 0) = 0
    BY DEF Smaller
  <2>3. /\ DOMAIN <<>> = 1..0 /\ Len(<<>>) = 0
        /\ <<>> \in Seq({EventOf(payloads[i], place) : i \in 1..0, place \in 1..0})
    OBVIOUS
  <2> DEFINE U == UsableUpTo(payloads, 0)
             E == {EventOf(payloads[i], place) : i \in 1..0, place \in 1..0}
  <2>4. U = {} /\ Smaller(limit, Cardinality(U)) = 0
    BY <2>1, <2>2
  <2>5. g[0] \in Seq(E) /\ DOMAIN g[0] = 1..0 /\ Len(g[0]) = 0
    BY <1>1, <2>3
  <2>6. TakenSoFar(payloads, limit, 0, g[0]) <=>
            /\ DOMAIN g[0] = 1..Smaller(limit, Cardinality(U))
            /\ Len(g[0]) = Smaller(limit, Cardinality(U))
            /\ g[0] \in Seq(E)
            /\ \A i \in U :
                   LET place == Place(i, U)
                   IN  place <= limit => g[0][place] = EventOf(payloads[i], place)
    BY DEF TakenSoFar
  <2>. HIDE DEF U, E
  <2>. QED
    BY <2>4, <2>5, <2>6
<1>3. Remaining = {}
  <2>1. SUFFICES ASSUME Remaining # {} PROVE FALSE
    OBVIOUS
  <2>2. Remaining \subseteq Nat
    OBVIOUS
  <2>3. PICK k \in Remaining : \A m \in Remaining : k <= m
    BY <2>1, <2>2, LeastNumber
  <2>4. k \in 0..n /\ k # 0
    BY <1>2, <2>3
  <2>5. k - 1 \in 0..(n - 1) /\ k - 1 \in Nat /\ k - 1 \in 0..n /\ (k - 1) + 1 = k
    BY <2>4
  <2>6. TakenSoFar(payloads, limit, k - 1, g[k - 1])
    <3>1. k - 1 \notin Remaining
      BY <2>3, <2>5
    <3>. QED
      BY <2>5, <3>1
  <2>7. TakenSoFar(payloads, limit, k, Take(g[k - 1], payloads[k], limit))
    BY <2>5, <2>6, TakeTurn
  <2>8. g[k] = Take(g[k - 1], payloads[k], limit)
    BY <1>1, <2>5
  <2>. QED
    BY <2>3, <2>7, <2>8
<1>4. TakenSoFar(payloads, limit, n, g[n])
  BY <1>3
<1>. QED
  BY <1>1, <1>4

\* What an answer says is a sequence.
LEMMA AnswerIsSequence ==
    ASSUME NEW text \in Contents \cup {<<>>}
    PROVE  /\ Len(text) \in Nat /\ DOMAIN text = 1..Len(text)
           /\ text \in Seq({text[i] : i \in DOMAIN text})
           /\ \A i \in DOMAIN text :
                  text[i] # Broken => text[i].titled \in BOOLEAN
                      /\ text[i].start \in Int /\ text[i].end \in Int
<1>1. text \in Seq({text[i] : i \in DOMAIN text})
  <2>1. CASE text \in Contents
    BY <2>1, ContentsAssumption
  <2>2. CASE text = <<>>
    BY <2>2
  <2>. QED
    BY <2>1, <2>2
<1>2. \A i \in DOMAIN text :
          text[i] # Broken => text[i].titled \in BOOLEAN
              /\ text[i].start \in Int /\ text[i].end \in Int
  <2>1. CASE text \in Contents
    BY <2>1, ContentsAssumption
  <2>2. CASE text = <<>>
    BY <2>2
  <2>. QED
    BY <2>1, <2>2
<1> DEFINE T == {text[i] : i \in DOMAIN text}
<1>3. Len(text) \in Nat /\ DOMAIN text = 1..Len(text)
  <2>1. text \in Seq(T)
    BY <1>1
  <2>. HIDE DEF T
  <2>. QED
    BY <2>1
<1>. QED
  BY <1>1, <1>2, <1>3

\* What is decoded are the elements before the first broken one.
LEMMA DecodedIs ==
    ASSUME NEW text \in Contents \cup {<<>>}
    PROVE  \E n \in 0..Len(text) :
               /\ \A i \in 1..n : text[i] # Broken
               /\ \A i \in 1..Len(text) : (\A j \in 1..i : text[j] # Broken) => i <= n
               /\ DOMAIN Decoded(text) = 1..n
               /\ \A i \in 1..n : Decoded(text)[i] = text[i]
<1> DEFINE m == Len(text)
           intact == {n \in 0..m : \A i \in 1..n : text[i] # Broken}
           n == CHOOSE k \in intact : \A l \in intact : l <= k
           left == {m - k : k \in intact}
<1>1. m \in Nat /\ text \in Seq({text[i] : i \in DOMAIN text})
  BY AnswerIsSequence
<1>2. left \subseteq Nat /\ left # {}
  <2>1. 0 \in intact
    BY <1>1
  <2>2. ASSUME NEW k \in intact PROVE m - k \in Nat
    <3>1. k \in 0..m
      OBVIOUS
    <3>. QED
      BY <1>1, <3>1
  <2>. HIDE DEF intact
  <2>. QED
    BY <2>1, <2>2
<1>3. PICK l \in left : \A u \in left : l <= u
  BY <1>2, LeastNumber
<1>4. PICK k \in intact : l = m - k
  BY <1>3
<1>5. \A j \in intact : j <= k
  <2>1. TAKE j \in intact
  <2>2. m - j \in left /\ j \in Int /\ k \in Int
    OBVIOUS
  <2>3. m - k <= m - j
    BY <1>3, <1>4, <2>2
  <2>. QED
    BY <1>1, <2>2, <2>3
<1>6. n \in intact /\ \A j \in intact : j <= n
  <2>. HIDE DEF intact
  <2>. QED
    BY <1>4, <1>5
<1>7. Decoded(text) = SubSeq(text, 1, n)
  BY DEF Decoded
<1>8. n \in 0..m /\ \A i \in 1..n : text[i] # Broken
  <2>. HIDE DEF n
  <2>. QED
    BY <1>6
<1>9. ASSUME NEW i \in 1..m, \A j \in 1..i : text[j] # Broken PROVE i <= n
  <2>1. i \in intact
    BY <1>9
  <2>. HIDE DEF n, intact
  <2>. QED
    BY <1>6, <2>1
<1>10. DOMAIN Decoded(text) = 1..n /\ \A i \in 1..n : Decoded(text)[i] = text[i]
  <2>. HIDE DEF n
  <2> DEFINE T == {text[i] : i \in DOMAIN text}
             d == SubSeq(text, 1, n)
  <2>1. \A i \in 1..n : text[i] \in T
    <3>1. DOMAIN text = 1..m
      BY AnswerIsSequence
    <3>. QED
      BY <1>1, <1>8, <3>1
  <2>. HIDE DEF T
  <2>2. /\ d \in Seq(T)
        /\ Len(d) = IF 1 <= n THEN n - 1 + 1 ELSE 0
        /\ \A i \in 1..(n - 1 + 1) : d[i] = text[1 + i - 1]
    BY <1>1, <1>8, <2>1, SubSeqProperties
  <2>. HIDE DEF d
  <2>3. Len(d) = n /\ DOMAIN d = 1..n
    BY <1>1, <1>8, <2>2
  <2>4. ASSUME NEW i \in 1..n PROVE d[i] = text[i]
    <3>1. i \in 1..(n - 1 + 1) /\ 1 + i - 1 = i
      BY <1>1, <1>8
    <3>. QED
      BY <2>2, <3>1
  <2>. QED
    BY <1>7, <2>3, <2>4 DEF d
<1>. HIDE DEF n
<1>. QED
  BY <1>8, <1>9, <1>10

\* How many events are kept at most.
KeptLimit ==
    IF EventLimit <= 0 \/ EventLimit > MaximumDiscoveredEvents
    THEN MaximumDiscoveredEvents ELSE EventLimit

\* It is what the property says of a place.
LEMMA KeptLimitIs ==
    /\ KeptLimit \in Nat \ {0}
    /\ \A place \in Nat : place <= KeptLimit <=>
           /\ place <= MaximumDiscoveredEvents
           /\ EventLimit > 0 => place <= EventLimit
BY AttemptsAssumption DEF KeptLimit

\* The usable payloads of an answer are those of what is decoded.
LEMMA UsableIs ==
    ASSUME content \in Contents \cup {<<>>}
    PROVE  \E n \in 0..Len(content) :
               /\ Usable = UsableUpTo(Decoded(content), n)
               /\ DOMAIN Decoded(content) = 1..n
               /\ \A i \in Usable : i \in DOMAIN content /\ content[i] # Broken
                                    /\ Decoded(content)[i] = content[i]
<1>1. PICK c : c = content
  OBVIOUS
<1>2. c \in Contents \cup {<<>>}
  BY <1>1
<1>3. Len(c) \in Nat /\ DOMAIN c = 1..Len(c)
  BY <1>2, AnswerIsSequence
<1>4. PICK n \in 0..Len(c) :
          /\ \A i \in 1..n : c[i] # Broken
          /\ \A i \in 1..Len(c) : (\A j \in 1..i : c[j] # Broken) => i <= n
          /\ DOMAIN Decoded(c) = 1..n
          /\ \A i \in 1..n : Decoded(c)[i] = c[i]
  BY <1>2, DecodedIs
<1>5. \A p : Suitable(p) <=> ValidPayload(p)
  BY DEF Suitable, ValidPayload, WindowStart, WindowEnd
<1>6. ASSUME NEW i PROVE i \in Usable <=> i \in UsableUpTo(Decoded(c), n)
  <2>1. i \in 1..n <=> i \in DOMAIN c /\ \A j \in 1..i : c[j] # Broken
    BY <1>3, <1>4
  <2>2. ASSUME i \in 1..n
        PROVE  /\ Decoded(c)[i] = c[i]
               /\ \A j \in 1..(i - 1) : Decoded(c)[j] = c[j]
    <3>1. \A j \in 1..(i - 1) : j \in 1..n
      BY <1>3, <2>2
    <3>. QED
      BY <1>4, <2>2, <3>1
  <2>3. i \in Usable <=> /\ i \in 1..n
                         /\ ValidPayload(c[i])
                         /\ \A j \in 1..(i - 1) :
                                ValidPayload(c[j]) => KeyOf(c[j]) # KeyOf(c[i])
    BY <1>1, <1>5, <2>1 DEF Usable, KeyOf
  <2>4. i \in UsableUpTo(Decoded(c), n) <=>
            /\ i \in 1..n
            /\ ValidPayload(Decoded(c)[i])
            /\ \A j \in 1..(i - 1) : ValidPayload(Decoded(c)[j])
                   => KeyOf(Decoded(c)[j]) # KeyOf(Decoded(c)[i])
    BY DEF UsableUpTo
  <2>. QED
    BY <2>2, <2>3, <2>4
<1>7. Usable = UsableUpTo(Decoded(c), n)
  BY <1>6
<1>8. \A i \in Usable : i \in 1..n
  BY <1>7 DEF UsableUpTo
<1>9. \A i \in Usable : i \in DOMAIN c /\ c[i] # Broken /\ Decoded(c)[i] = c[i]
  <2>1. TAKE i \in Usable
  <2>2. i \in 1..n /\ i \in 1..Len(c)
    BY <1>3, <1>8
  <2>. QED
    BY <1>3, <1>4, <2>2
<1>. QED
  BY <1>1, <1>4, <1>7, <1>9

\* What a list of found events has to do with the usable payloads.
FirstFound(F) ==
    /\ Usable \in SUBSET Int /\ IsFiniteSet(Usable)
    /\ \A i \in Usable : i \in DOMAIN content /\ content[i] # Broken
    /\ DOMAIN F = 1..Smaller(KeptLimit, Cardinality(Usable))
    /\ Len(F) = Smaller(KeptLimit, Cardinality(Usable))
    /\ \A p \in DOMAIN F : \E i \in Usable :
           Place(i, Usable) = p /\ F[p] = EventOf(content[i], p)
    /\ \A i \in Usable : Place(i, Usable) <= KeptLimit =>
           F[Place(i, Usable)] = EventOf(content[i], Place(i, Usable))

\* What is normalized are the first usable payloads of the answer.
LEMMA NormalizedIs ==
    ASSUME content \in Contents \cup {<<>>}
    PROVE  FirstFound(Normalized(Decoded(content)))
<1> DEFINE F == Normalized(Decoded(content))
<1>1. PICK n \in 0..Len(content) :
          /\ Usable = UsableUpTo(Decoded(content), n)
          /\ DOMAIN Decoded(content) = 1..n
          /\ \A i \in Usable : i \in DOMAIN content /\ content[i] # Broken
                               /\ Decoded(content)[i] = content[i]
  BY UsableIs
<1>2. n \in Nat
  <2>1. Len(content) \in Nat
    <3>1. PICK c : c = content
      OBVIOUS
    <3>2. c \in Contents \cup {<<>>}
      BY <3>1
    <3>3. Len(c) \in Nat
      BY <3>2, AnswerIsSequence
    <3>. QED
      BY <3>1, <3>3
  <2>. QED
    BY <2>1
<1>3. PICK d : d = Decoded(content)
  OBVIOUS
<1>4. PICK s : s = F
  OBVIOUS
<1>5. PICK limit \in Nat \ {0} : limit = KeptLimit
  BY KeptLimitIs
<1>6. s = Taken(d, limit)
  BY <1>3, <1>4, <1>5 DEF Normalized, KeptLimit
<1>7. TakenSoFar(d, limit, n, s)
  BY <1>1, <1>2, <1>3, <1>6, TakenIs
<1>8. TakenInPlaces(d, limit, n, s)
  BY <1>2, <1>7, TakenKeys
<1>9. Usable \in SUBSET Int /\ IsFiniteSet(Usable)
  BY <1>1, <1>2, UsableFinite
<1>10. \A i \in Usable : \A p : EventOf(d[i], p) = EventOf(content[i], p)
  BY <1>1, <1>3
<1>11. /\ DOMAIN s = 1..Smaller(limit, Cardinality(Usable))
       /\ Len(s) = Smaller(limit, Cardinality(Usable))
       /\ \A i \in Usable : Place(i, Usable) <= limit =>
              s[Place(i, Usable)] = EventOf(d[i], Place(i, Usable))
  BY <1>1, <1>3, <1>7 DEF TakenSoFar
<1>12. \A p \in DOMAIN s : \E i \in Usable :
           Place(i, Usable) = p /\ s[p] = EventOf(d[i], p)
  BY <1>1, <1>3, <1>8 DEF TakenInPlaces
<1>13. /\ DOMAIN s = 1..Smaller(KeptLimit, Cardinality(Usable))
       /\ Len(s) = Smaller(KeptLimit, Cardinality(Usable))
  BY <1>5, <1>11
<1>14. \A i \in Usable : Place(i, Usable) <= KeptLimit =>
           s[Place(i, Usable)] = EventOf(content[i], Place(i, Usable))
  BY <1>5, <1>10, <1>11
<1>15. \A p \in DOMAIN s : \E i \in Usable :
           Place(i, Usable) = p /\ s[p] = EventOf(content[i], p)
  BY <1>10, <1>12
<1>16. \A i \in Usable : i \in DOMAIN content /\ content[i] # Broken
  BY <1>1
<1>17. FirstFound(s)
  BY <1>9, <1>13, <1>14, <1>15, <1>16 DEF FirstFound
<1>. QED
  BY <1>4, <1>17

\* The first places of a set are its places.
LEMMA FirstPlaces ==
    ASSUME NEW S \in SUBSET Int, IsFiniteSet(S), NEW limit \in Nat,
           NEW first, first = {i \in S : Place(i, S) <= limit}
    PROVE  /\ Cardinality(first) = Smaller(limit, Cardinality(S))
           /\ \A i \in first : Place(i, first) = Place(i, S)
<1> DEFINE n == Cardinality(S)
           m == Smaller(limit, n)
           h == [i \in first |-> Place(i, S)]
<1>1. n \in Nat /\ m \in Nat /\ m <= n /\ m <= limit
      /\ \A p \in 1..m : p \in 1..n /\ p <= limit
  BY FS_CardinalityType DEF Smaller
<1>2. /\ \A i \in S : Place(i, S) \in 1..n
      /\ \A i, j \in S : i < j => Place(i, S) < Place(j, S)
      /\ \A p \in 1..n : \E i \in S : Place(i, S) = p
  BY PlaceFacts
<1>3. first \in SUBSET Int /\ IsFiniteSet(first) /\ first \subseteq S
  BY FS_Subset
<1>4. h \in [first -> 1..m]
  <2>1. ASSUME NEW i \in first PROVE Place(i, S) \in 1..m
    <3>1. Place(i, S) \in 1..n /\ Place(i, S) <= limit
      BY <1>2
    <3>. HIDE DEF n
    <3>. QED
      BY <1>1, <3>1 DEF Smaller
  <2>. QED
    BY <2>1
<1>5. \A i, j \in first : i < j => h[i] < h[j]
  BY <1>2, <1>3
<1>6. \A p \in 1..m : \E i \in first : h[i] = p
  <2>1. TAKE p \in 1..m
  <2>2. PICK i \in S : Place(i, S) = p
    BY <1>1, <1>2
  <2>3. i \in first
    BY <1>1, <2>2
  <2>. QED
    BY <2>2, <2>3
<1>7. 1..m \in SUBSET Int /\ Cardinality(1..m) = m /\ \A p \in 1..m : Place(p, 1..m) = p
  <2>. HIDE DEF m
  <2>1. Cardinality(1..m) = m
    BY <1>1, FS_Interval
  <2>2. \A p \in 1..m : Place(p, 1..m) = p
    BY <1>1, PlaceOfNumber
  <2>. QED
    BY <2>1, <2>2
<1>8. /\ IsFiniteSet(1..m) /\ Cardinality(1..m) = Cardinality(first)
      /\ \A i \in first : Place(h[i], 1..m) = Place(i, first)
  <2> DEFINE T == 1..m
  <2>1. T \in SUBSET Int /\ h \in [first -> T] /\ \A p \in T : \E i \in first : h[i] = p
    BY <1>4, <1>6, <1>7
  <2>. HIDE DEF h, m, T
  <2>2. /\ IsFiniteSet(T) /\ Cardinality(T) = Cardinality(first)
        /\ \A i \in first : Place(h[i], T) = Place(i, first)
    BY <1>3, <1>5, <2>1, PlaceMapped
  <2>. QED
    BY <2>2 DEF T
<1>9. ASSUME NEW i \in first PROVE Place(i, first) = Place(i, S)
  <2>1. h[i] \in 1..m /\ h[i] = Place(i, S)
    BY <1>4
  <2>. HIDE DEF h, m
  <2>. QED
    BY <1>7, <1>8, <2>1
<1>10. Cardinality(first) = m
  <2>. HIDE DEF m
  <2>. QED
    BY <1>7, <1>8
<1>. QED
  BY <1>9, <1>10

\* Of a filtered list: it has as many elements as a set that is mapped onto the places
\* that are kept, in order; and an element of the set leads to its own.
LEMMA KeptPlaces ==
    ASSUME NEW F, NEW K \in SUBSET Int, NEW S \in SUBSET Int, IsFiniteSet(S),
           NEW h \in [S -> K], \A i, j \in S : i < j => h[i] < h[j],
           \A k \in K : \E i \in S : h[i] = k
    PROVE  /\ DOMAIN Kept(F, K) = 1..Cardinality(S)
           /\ \A i \in S : Place(i, S) \in 1..Cardinality(S)
                           /\ Kept(F, K)[Place(i, S)] = F[h[i]]
<1>1. /\ IsFiniteSet(K) /\ Cardinality(K) = Cardinality(S)
      /\ \A i \in S : Place(h[i], K) = Place(i, S)
  BY PlaceMapped
<1> DEFINE n == Cardinality(K)
<1>2. n \in Nat
  BY <1>1, FS_CardinalityType
<1>3. PICK f : /\ Enumerates(f, Cardinality(K), K)
               /\ \A p, q \in 1..Cardinality(K) : p < q => f[p] < f[q]
               /\ Kept(F, K) = [p \in 1..Cardinality(K) |-> F[f[p]]]
  BY <1>1, KeptIsOrder
<1>4. f \in [1..n -> K] /\ \A k \in K : \E p \in 1..n : f[p] = k
  BY <1>3 DEF Enumerates
<1>5. \A p \in 1..n : Place(f[p], K) = p
  <2>1. IsFiniteSet(1..n) /\ 1..n \in SUBSET Int /\ \A p \in 1..n : Place(p, 1..n) = p
    <3>. HIDE DEF n
    <3>. QED
      BY <1>2, FS_Interval, PlaceOfNumber
  <2>2. \A p, q \in 1..n : p < q => f[p] < f[q]
    BY <1>3
  <2>. HIDE DEF n
  <2>3. \A p \in 1..n : Place(f[p], K) = Place(p, 1..n)
    BY <1>4, <2>1, <2>2, PlaceMapped
  <2>. QED
    BY <2>1, <2>3
<1>6. ASSUME NEW i \in S
      PROVE  Place(i, S) \in 1..n /\ Kept(F, K)[Place(i, S)] = F[h[i]]
  <2>1. PICK p \in 1..n : f[p] = h[i]
    BY <1>4
  <2>2. Place(i, S) = p
    BY <1>1, <1>5, <2>1
  <2>. QED
    BY <1>3, <2>1, <2>2
<1>7. DOMAIN Kept(F, K) = 1..n
  BY <1>3
<1>. QED
  BY <1>1, <1>6, <1>7

\* The length of a list given by its places.
LEMMA LengthIs ==
    ASSUME NEW n \in Nat, NEW f, f = [i \in 1..n |-> f[i]]
    PROVE  Len(f) = n /\ DOMAIN f = 1..n
<1> DEFINE T == {f[i] : i \in 1..n}
<1>1. f \in [1..n -> T] /\ DOMAIN f = 1..n
  OBVIOUS
<1>. HIDE DEF T
<1>2. f \in Seq(T)
  BY <1>1
<1>3. Len(f) \in Nat /\ DOMAIN f = 1..Len(f)
  BY <1>2
<1>. QED
  BY <1>1, <1>3

\* The places of a list that have an event of a known city.
KnownAmong(F) == {k \in DOMAIN F : F[k].city \in KnownCities}

\* The events of the country: those of known cities, with their ranks anew.
LEMMA MatchedIs ==
    ASSUME NEW F, NEW S \in SUBSET Int, IsFiniteSet(S),
           NEW K, K = KnownAmong(F), K \in SUBSET Int,
           NEW h \in [S -> K], \A i, j \in S : i < j => h[i] < h[j],
           \A k \in K : \E i \in S : h[i] = k
    PROVE  /\ Len(Matched(F)) = Cardinality(S) /\ DOMAIN Matched(F) = 1..Cardinality(S)
           /\ \A i \in S : /\ Place(i, S) \in 1..Cardinality(S)
                           /\ Matched(F)[Place(i, S)] = [F[h[i]] EXCEPT !.rank = Place(i, S)]
<1> DEFINE n == Cardinality(S)
           known == Kept(F, K)
           list == [i \in DOMAIN known |-> [known[i] EXCEPT !.rank = i]]
<1>1. /\ DOMAIN known = 1..n
      /\ \A i \in S : Place(i, S) \in 1..n /\ known[Place(i, S)] = F[h[i]]
  BY KeptPlaces
<1>2. n \in Nat
  BY FS_CardinalityType
<1>3. Matched(F) = list
  BY DEF Matched, KnownAmong
<1>4. Len(list) = n /\ DOMAIN list = 1..n
  <2>1. list = [i \in 1..n |-> list[i]]
    BY <1>1
  <2>. HIDE DEF list, n
  <2>. QED
    BY <1>2, <2>1, LengthIs
<1>5. \A i \in S : list[Place(i, S)] = [F[h[i]] EXCEPT !.rank = Place(i, S)]
  BY <1>1
<1>. QED
  BY <1>1, <1>3, <1>4, <1>5

\* The usable payloads whose places are within the limit, and those of known cities.
FirstOnes == {i \in Usable : Place(i, Usable) <= KeptLimit}
FirstKnown == {i \in FirstOnes : content[i].city \in KnownCities}

\* The places of the first payloads lead to their events.
LEMMA FirstOnesAre ==
    ASSUME NEW F, FirstFound(F)
    PROVE  /\ FirstOnes \in SUBSET Int /\ IsFiniteSet(FirstOnes)
           /\ Len(F) = Cardinality(FirstOnes) /\ DOMAIN F = 1..Cardinality(FirstOnes)
           /\ \A i \in FirstOnes :
                  /\ Place(i, FirstOnes) \in DOMAIN F
                  /\ F[Place(i, FirstOnes)] = EventOf(content[i], Place(i, FirstOnes))
           /\ \A p \in DOMAIN F : \E i \in FirstOnes :
                  Place(i, FirstOnes) = p /\ F[p] = EventOf(content[i], p)
<1>1. PICK S : S = Usable
  OBVIOUS
<1>2. PICK first : first = FirstOnes
  OBVIOUS
<1>3. S \in SUBSET Int /\ IsFiniteSet(S) /\ first = {i \in S : Place(i, S) <= KeptLimit}
  BY <1>1, <1>2 DEF FirstFound, FirstOnes
<1>4. KeptLimit \in Nat
  BY KeptLimitIs
<1>5. /\ Cardinality(first) = Smaller(KeptLimit, Cardinality(S))
      /\ \A i \in first : Place(i, first) = Place(i, S)
  BY <1>3, <1>4, FirstPlaces
<1>6. first \in SUBSET Int /\ IsFiniteSet(first) /\ Cardinality(first) \in Nat
  BY <1>3, FS_Subset, FS_CardinalityType
<1>7. \A i \in first : Place(i, first) \in 1..Cardinality(first)
  BY <1>6, PlaceFacts
<1>8. /\ Len(F) = Cardinality(first) /\ DOMAIN F = 1..Cardinality(first)
      /\ \A i \in S : Place(i, S) <= KeptLimit =>
             F[Place(i, S)] = EventOf(content[i], Place(i, S))
      /\ \A p \in DOMAIN F : \E i \in S :
             Place(i, S) = p /\ F[p] = EventOf(content[i], p)
  BY <1>1, <1>5 DEF FirstFound
<1>9. \A i \in first : /\ Place(i, first) \in DOMAIN F
                       /\ F[Place(i, first)] = EventOf(content[i], Place(i, first))
  BY <1>3, <1>5, <1>7, <1>8
<1>10. ASSUME NEW p \in DOMAIN F
       PROVE  \E i \in first : Place(i, first) = p /\ F[p] = EventOf(content[i], p)
  <2>1. PICK i \in S : Place(i, S) = p /\ F[p] = EventOf(content[i], p)
    BY <1>8
  <2>2. p <= KeptLimit
    <3>1. p \in 1..Cardinality(first) /\ Cardinality(S) \in Nat
      BY <1>3, <1>8, FS_CardinalityType
    <3>. QED
      BY <1>4, <1>5, <3>1 DEF Smaller
  <2>3. i \in first
    BY <1>3, <2>1, <2>2
  <2>. QED
    BY <1>5, <2>1, <2>3
<1>. QED
  BY <1>2, <1>6, <1>8, <1>9, <1>10

\* The places of the first payloads of known cities lead to their events.
LEMMA FirstKnownAre ==
    ASSUME NEW F, FirstFound(F)
    PROVE  /\ Len(Matched(F)) = Cardinality(FirstKnown)
           /\ DOMAIN Matched(F) = 1..Cardinality(FirstKnown)
           /\ \A i \in FirstKnown :
                  /\ Place(i, FirstKnown) \in DOMAIN Matched(F)
                  /\ Matched(F)[Place(i, FirstKnown)]
                         = EventOf(content[i], Place(i, FirstKnown))
           /\ \A p \in DOMAIN Matched(F) : Matched(F)[p].rank = p
<1>1. PICK first : first = FirstOnes
  OBVIOUS
<1>2. PICK S : S = FirstKnown
  OBVIOUS
<1>3. PICK c : c = content
  OBVIOUS
<1>4. /\ first \in SUBSET Int /\ IsFiniteSet(first) /\ DOMAIN F = 1..Cardinality(first)
      /\ \A i \in first : /\ Place(i, first) \in DOMAIN F
                          /\ F[Place(i, first)] = EventOf(c[i], Place(i, first))
      /\ \A p \in DOMAIN F : \E i \in first :
             Place(i, first) = p /\ F[p] = EventOf(c[i], p)
  BY <1>1, <1>3, FirstOnesAre
<1>5. S = {i \in first : c[i].city \in KnownCities}
  BY <1>1, <1>2, <1>3 DEF FirstKnown
<1>6. S \in SUBSET Int /\ IsFiniteSet(S)
  BY <1>4, <1>5, FS_Subset
<1>7. \A i, j \in first : i < j => Place(i, first) < Place(j, first)
  BY <1>4, PlaceFacts
<1> DEFINE K == {k \in DOMAIN F : F[k].city \in KnownCities}
           h == [i \in S |-> Place(i, first)]
<1>8. \A i, p : EventOf(c[i], p).city = c[i].city
  BY DEF EventOf
<1>9. K \in SUBSET Int
  BY <1>4
<1>10. h \in [S -> K]
  <2>1. ASSUME NEW i \in S PROVE Place(i, first) \in K
    <3>1. i \in first /\ c[i].city \in KnownCities
      BY <1>5
    <3>2. Place(i, first) \in DOMAIN F
          /\ F[Place(i, first)] = EventOf(c[i], Place(i, first))
      BY <1>4, <3>1
    <3>3. F[Place(i, first)].city = c[i].city
      BY <1>8, <3>2
    <3>. QED
      BY <3>1, <3>2, <3>3
  <2>. HIDE DEF K
  <2>. QED
    BY <2>1
<1>15. \A i, j \in S : i < j => h[i] < h[j]
  BY <1>5, <1>7
<1>11. \A k \in K : \E i \in S : h[i] = k
  <2>1. TAKE k \in K
  <2>2. PICK i \in first : Place(i, first) = k /\ F[k] = EventOf(c[i], k)
    BY <1>4
  <2>3. i \in S
    BY <1>5, <1>8, <2>2
  <2>. QED
    BY <2>2, <2>3
<1>12. /\ Len(Matched(F)) = Cardinality(S) /\ DOMAIN Matched(F) = 1..Cardinality(S)
       /\ \A i \in S :
              /\ Place(i, S) \in 1..Cardinality(S)
              /\ Matched(F)[Place(i, S)] = [F[h[i]] EXCEPT !.rank = Place(i, S)]
  <2>1. PICK L : L = K
    OBVIOUS
  <2>2. /\ L = KnownAmong(F) /\ L \in SUBSET Int
        /\ h \in [S -> L] /\ \A k \in L : \E i \in S : h[i] = k
    BY <1>9, <1>10, <1>11, <2>1 DEF KnownAmong
  <2>. HIDE DEF h, K
  <2>. QED
    BY <1>6, <1>15, <2>2, MatchedIs
<1>13. ASSUME NEW i \in S
       PROVE  Matched(F)[Place(i, S)] = EventOf(c[i], Place(i, S))
  <2>1. F[h[i]] = EventOf(c[i], h[i])
    BY <1>4, <1>5
  <2>2. [EventOf(c[i], h[i]) EXCEPT !.rank = Place(i, S)] = EventOf(c[i], Place(i, S))
    BY DEF EventOf
  <2>3. Matched(F)[Place(i, S)] = [F[h[i]] EXCEPT !.rank = Place(i, S)]
    BY <1>12
  <2>. QED
    BY <2>1, <2>2, <2>3
<1>14. ASSUME NEW p \in DOMAIN Matched(F) PROVE Matched(F)[p].rank = p
  <2>1. PICK i \in S : Place(i, S) = p
    BY <1>6, <1>12, PlaceFacts
  <2>2. Matched(F)[p] = EventOf(c[i], p)
    BY <1>13, <2>1
  <2>. QED
    BY <2>2 DEF EventOf
<1>. QED
  BY <1>2, <1>3, <1>12, <1>13, <1>14

----------------------------------------------------------------------------

\* What is returned is what the answer that was read says.
AnswersInv ==
    /\ scope \in {"city", "popular"}
    /\ attempt \in 1..SearchAttempts
    /\ content \in Contents \cup {<<>>}
    /\ phase \in Phases
    /\ phase = "returned" <=> discovered # <<>>
    /\ phase \in {"returned", "empty"} =>
           discovered = IF scope = "popular" THEN Matched(Normalized(Decoded(content)))
                        ELSE Normalized(Decoded(content))

\* At first nothing is returned.
LEMMA AnswersInvInit == AnswersInit => AnswersInv
  BY AttemptsAssumption DEF AnswersInit, AnswersInv, Phases

\* No step of a search returns anything else.
LEMMA AnswersInvNext == AnswersInv /\ [AnswersNext]_answersVars => AnswersInv'
<1>. SUFFICES ASSUME AnswersInv, [AnswersNext]_answersVars PROVE AnswersInv'
  OBVIOUS
<1>1. ASSUME NEW text \in Contents, Answer(text) PROVE AnswersInv'
  BY <1>1 DEF AnswersInv, Answer, Phases
<1>2. CASE TemporaryFailure
  <2>1. attempt' \in 1..SearchAttempts
    <3>1. attempt \in 1..SearchAttempts /\ SearchAttempts \in Nat
      BY AttemptsAssumption DEF AnswersInv
    <3>2. (attempt < SearchAttempts /\ attempt' = attempt + 1) \/ attempt' = attempt
      BY <1>2 DEF TemporaryFailure
    <3>. QED
      BY <3>1, <3>2
  <2>2. phase' \in Phases /\ phase' \notin {"returned", "empty"} /\ discovered = <<>>
    BY <1>2 DEF AnswersInv, TemporaryFailure, Phases
  <2>3. UNCHANGED <<scope, content, discovered>>
    BY <1>2 DEF TemporaryFailure
  <2>. QED
    BY <2>1, <2>2, <2>3 DEF AnswersInv
<1>3. CASE FinalFailure
  BY <1>3 DEF AnswersInv, FinalFailure, Phases
<1>4. CASE Return
  BY <1>4 DEF AnswersInv, Return, Phases
<1>5. CASE UNCHANGED answersVars
  BY <1>5 DEF AnswersInv, answersVars
<1>. QED
  BY <1>1, <1>2, <1>3, <1>4, <1>5 DEF AnswersNext

\* Of a list that is returned the ranks are the places.
LEMMA InvAnswersType == AnswersInv => AnswersTypeOK
<1>. SUFFICES ASSUME AnswersInv PROVE AnswersTypeOK
  OBVIOUS
<1>1. PICK F : F = Normalized(Decoded(content))
  OBVIOUS
<1>2. FirstFound(F)
  BY <1>1, NormalizedIs DEF AnswersInv
<1>3. \A p \in DOMAIN F : F[p].rank = p
  <2>1. TAKE p \in DOMAIN F
  <2>2. PICK i \in FirstOnes : F[p] = EventOf(content[i], p)
    BY <1>2, FirstOnesAre
  <2>. QED
    BY <2>2 DEF EventOf
<1>4. \A p \in DOMAIN Matched(F) : Matched(F)[p].rank = p
  BY <1>2, FirstKnownAre
<1>5. \A p \in DOMAIN discovered : discovered[p].rank = p
  <2>1. CASE phase \in {"returned", "empty"}
    BY <1>1, <1>3, <1>4, <2>1 DEF AnswersInv
  <2>2. CASE phase \notin {"returned", "empty"}
    BY <2>2 DEF AnswersInv
  <2>. QED
    BY <2>1, <2>2
<1>. QED
  BY <1>5 DEF AnswersInv, AnswersTypeOK

\* An event ends not before its start, nor a week after the last that may be found.
LEMMA EndsInTime ==
    ASSUME NEW p, p.start \in Int, p.end \in Int, ValidPayload(p)
    PROVE  p.start <= EndOf(p) /\ EndOf(p) <= DateTo + 2 * TrailingDays * Day
<1>1. p.start <= DateTo + 168
  BY AttemptsAssumption DEF ValidPayload, WindowEnd, TrailingDays, Day
<1>2. WindowEnd + TrailingDays * Day = DateTo + 336 /\ 2 * TrailingDays * Day = 336
  BY AttemptsAssumption DEF WindowEnd, TrailingDays, Day
<1>3. EndOf(p) = IF p.end = NoTime \/ p.end < p.start \/ p.end > DateTo + 336
                 THEN p.start + 3 ELSE p.end
  BY <1>2 DEF EndOf, DefaultHours
<1>. QED
  BY <1>1, <1>2, <1>3, AttemptsAssumption

\* What is returned are the first usable payloads of the answer.
LEMMA InvFirstUsable == AnswersInv => FirstUsableReturned
<1>. SUFFICES ASSUME AnswersInv, phase \in {"returned", "empty"}
              PROVE  FirstUsableReturned
  BY DEF FirstUsableReturned
<1>1. PICK F : F = Normalized(Decoded(content))
  OBVIOUS
<1>2. FirstFound(F)
  BY <1>1, NormalizedIs DEF AnswersInv
<1> DEFINE first == {i \in Usable :
                        /\ Place(i, Usable) <= MaximumDiscoveredEvents
                        /\ EventLimit > 0 => Place(i, Usable) <= EventLimit}
           chosen == {i \in first : scope = "popular" => content[i].city \in KnownCities}
<1>3. first = FirstOnes
  <2>1. \A i \in Usable : Place(i, Usable) \in Nat
    <3>1. PICK S : S = Usable
      OBVIOUS
    <3>2. S \in SUBSET Int /\ IsFiniteSet(S)
      BY <1>2, <3>1 DEF FirstFound
    <3>3. \A i \in S : Place(i, S) \in 1..Cardinality(S)
      BY <3>2, PlaceFacts
    <3>4. Cardinality(S) \in Nat
      BY <3>2, FS_CardinalityType
    <3>. QED
      BY <3>1, <3>3, <3>4
  <2>. QED
    BY <2>1, KeptLimitIs DEF FirstOnes
<1>4. /\ Len(discovered) = Cardinality(chosen)
      /\ \A i \in chosen : discovered[Place(i, chosen)] = EventOf(content[i], Place(i, chosen))
  <2>1. CASE scope = "popular"
    <3>1. chosen = FirstKnown
      BY <1>3, <2>1 DEF FirstKnown
    <3>2. discovered = Matched(F)
      BY <1>1, <2>1 DEF AnswersInv
    <3>. HIDE DEF chosen
    <3>. QED
      BY <1>2, <3>1, <3>2, FirstKnownAre
  <2>2. CASE scope # "popular"
    <3>1. chosen = FirstOnes
      BY <1>3, <2>2
    <3>2. discovered = F
      BY <1>1, <2>2 DEF AnswersInv
    <3>. HIDE DEF chosen
    <3>. QED
      BY <1>2, <3>1, <3>2, FirstOnesAre
  <2>. QED
    BY <2>1, <2>2
<1>5. ASSUME NEW i \in chosen
      PROVE  content[i].start <= EndOf(content[i])
             /\ EndOf(content[i]) <= DateTo + 2 * TrailingDays * Day
  <2>1. i \in Usable /\ i \in DOMAIN content /\ content[i] # Broken
    BY <1>2 DEF FirstFound
  <2>2. content[i].start \in Int /\ content[i].end \in Int
    <3>1. PICK c : c = content
      OBVIOUS
    <3>2. c \in Contents \cup {<<>>}
      BY <3>1 DEF AnswersInv
    <3>3. c[i].start \in Int /\ c[i].end \in Int
      BY <2>1, <3>1, <3>2, AnswerIsSequence
    <3>. QED
      BY <3>1, <3>3
  <2>3. ValidPayload(content[i])
    BY <2>1 DEF Usable, Suitable, ValidPayload, WindowStart, WindowEnd
  <2>4. PICK p : p = content[i]
    OBVIOUS
  <2>. QED
    BY <2>2, <2>3, <2>4, EndsInTime
<1>6. ASSUME NEW i \in chosen
      PROVE  LET e == discovered[Place(i, chosen)] IN
                 /\ e.title = content[i].title /\ e.start = content[i].start
                 /\ e.start <= e.end /\ e.end <= DateTo + 2 * TrailingDays * Day
  <2> DEFINE place == Place(i, chosen)
             e == discovered[place]
  <2>1. e = EventOf(content[i], place)
    BY <1>4
  <2>2. /\ e.title = content[i].title /\ e.start = content[i].start
        /\ e.end = EndOf(content[i])
    <3>. HIDE DEF e, place
    <3>. QED
      BY <2>1 DEF EventOf
  <2>. HIDE DEF chosen
  <2>. QED
    BY <1>5, <2>2
<1>7. /\ Len(discovered) = Cardinality(chosen)
      /\ \A i \in chosen : LET e == discovered[Place(i, chosen)] IN
             /\ e.title = content[i].title /\ e.start = content[i].start
             /\ e.start <= e.end /\ e.end <= DateTo + 2 * TrailingDays * Day
  <2>. HIDE DEF chosen
  <2>. QED
    BY <1>4, <1>6
<1>. QED
  BY <1>7 DEF FirstUsableReturned

\* The inductive invariant of a search: what is returned is computed from the answer that
\* was read, whichever attempts preceded it, and a search that failed returns nothing.
THEOREM AnswersInvariant == AnswersSpec => []AnswersInv
  BY AnswersInvInit, AnswersInvNext, PTL DEF AnswersSpec

\* Every variable keeps its type, and what is returned is not empty and ranked from 1:
\* dropping the events of unknown cities leaves no gap in the ranks.
THEOREM AnswersTypeCorrect == AnswersSpec => []AnswersTypeOK
  BY AnswersInvariant, InvAnswersType, PTL

\* The events returned are the first usable ones of the answer, up to the limit, for every
\* answer: nothing unusable, repeated or foreign takes a place, and a cut loses nothing
\* that precedes it.
THEOREM FirstUsableAlwaysReturned == AnswersSpec => []FirstUsableReturned
  BY AnswersInvariant, InvFirstUsable, PTL

----------------------------------------------------------------------------
(* The six components together.                                            *)

\* What is checked of the six together holds of each: a step of another component
\* leaves its variables as they are.
LEMMA EachComponent ==
    MCSpec => /\ Spec /\ LimiterSpec /\ SelectionSpec
              /\ AnswersSpec /\ SimulationSpec
              /\ CatalogInit /\ [][CatalogNext]_catalogVars
<1>1. MCInit => /\ Init /\ LimiterInit /\ SelectionInit
                /\ AnswersInit /\ SimulationInit /\ CatalogInit
  BY DEF MCInit
<1>2. [MCNext]_<<component, vars, simulationVars, catalogVars, limiterVars,
                 selectionVars, answersVars>>
      => /\ [Next]_vars /\ [LimiterNext]_limiterVars /\ [SelectionNext]_selectionVars
         /\ [AnswersNext]_answersVars /\ [SimulationNext]_simulationVars
         /\ [CatalogNext]_catalogVars
  BY DEF MCNext
<1>3. MCSpec => Spec
  BY <1>1, <1>2, PTL DEF MCSpec, Spec
<1>4. MCSpec => LimiterSpec
  BY <1>1, <1>2, PTL DEF MCSpec, LimiterSpec
<1>5. MCSpec => SelectionSpec
  BY <1>1, <1>2, PTL DEF MCSpec, SelectionSpec
<1>6. MCSpec => AnswersSpec
  BY <1>1, <1>2, PTL DEF MCSpec, AnswersSpec
<1>7. MCSpec => SimulationSpec
  BY <1>1, <1>2, PTL DEF MCSpec, SimulationSpec
<1>8. MCSpec => CatalogInit /\ [][CatalogNext]_catalogVars
  BY <1>1, <1>2, PTL DEF MCSpec
<1>. QED
  BY <1>3, <1>4, <1>5, <1>6, <1>7, <1>8, PTL

\* Every variable of the six components keeps its type, also when they are checked
\* together: this is the conjunction of their type invariants.
THEOREM ComponentsTypeCorrect == MCSpec => []TypesOK
<1>1. CatalogInv => CatalogTypeOK
  BY DEF CatalogInv
<1>2. TypeOK /\ LimiterTypeOK /\ SelectionTypeOK /\ AnswersTypeOK
          /\ SimulationTypeOK /\ CatalogTypeOK => TypesOK
  BY DEF TypesOK
<1>3. MCSpec => []TypeOK
  BY EachComponent, AccountsTypeCorrect, PTL
<1>4. MCSpec => []LimiterTypeOK
  BY EachComponent, LimiterTypeCorrect, PTL
<1>5. MCSpec => []SelectionTypeOK
  BY EachComponent, SelectionTypeCorrect, PTL
<1>6. MCSpec => []AnswersTypeOK
  BY EachComponent, AnswersTypeCorrect, PTL
<1>7. MCSpec => []SimulationTypeOK
  BY EachComponent, SimulationTypeCorrect, PTL
<1>8. MCSpec => []CatalogTypeOK
  BY <1>1, EachComponent, CatalogInvKept, PTL
<1>. QED
  BY <1>2, <1>3, <1>4, <1>5, <1>6, <1>7, <1>8, PTL

============================================================================
