------------------------ MODULE EventDiscoveryProofs ------------------------
(***************************************************************************)
(* What holds of the discovery of events for every number of keys, runs,   *)
(* replicas and slots, and for all timeouts, however the runs overlap.     *)
(***************************************************************************)
EXTENDS EventDiscovery, FiniteSetTheorems, TLAPS

----------------------------------------------------------------------------
(* The invariant.                                                          *)

\* The goroutines of a replica that hold an element of its channel.
Holders(p) == {r \in holding : ReplicaOf[r] = p}

SlotsInv ==
    /\ slots \in [Replicas -> 0..Concurrency]
    /\ holding \subseteq Runs
    /\ IsFiniteSet(holding)
    /\ \A p \in Replicas : slots[p] = Cardinality(Holders(p))

\* The age of a claim or what is left of an outcome makes up for the time the key
\* must still wait.
RowSound(k) ==
    /\ row[k].status = "ready" => k \in saved
    /\ row[k].status = "running" => since[k] >= Smaller(row[k].age, MinGap(k))
    /\ row[k].status # "running" => row[k].ttl + since[k] >= MinGap(k)

RowsInv ==
    /\ row \in [Keys -> Rows]
    /\ since \in [Keys -> Nat]
    /\ saved \subseteq Keys
    /\ \A k \in Keys : RowSound(k)

\* The time a write still has, so that its outcome may age as long before it lands.
TimeToWrite(r) == IF pc[r] = "saved" THEN run[r].life ELSE run[r].timer

\* A run reports success after it saved.  An outcome that can still land holds long
\* enough: what it loses on its way, the time for its write loses as well.  Only a
\* run that has come past its slot holds one.
RunSound(r) ==
    /\ pc[r] # "off" => run[r] \in RunRecords
    /\ pc[r] = "saved" => run[r].key \in saved
    /\ pc[r] \in {"saved", "failing"} /\ TimeToWrite(r) > 0 /\ MinGap(run[r].key) > 0 =>
           run[r].ttl >= TimeToWrite(r) + MinGap(run[r].key)
    /\ r \in holding => pc[r] \in {"searching", "saved", "failing"}

RunsInv ==
    /\ pc \in [Runs -> Steps]
    /\ run \in [Runs -> RunRecords \cup {NoRun}]
    /\ \A r \in Runs : RunSound(r)

DiscoveryInv ==
    /\ SlotsInv
    /\ RowsInv
    /\ RunsInv
    /\ crashes \in 0..MaxCrashes

----------------------------------------------------------------------------
(* Lemmas.                                                                 *)

\* The gap is a time, and leaves room for the write in all the times it is taken from.
LEMMA GapType ==
    ASSUME NEW k \in Keys
    PROVE  /\ MinGap(k) \in Nat
           /\ MinGap(k) <= RunTimeout
           /\ MinGap(k) > 0 =>
                /\ MinGap(k) + RunTimeout <= CacheTTL
                /\ MinGap(k) + WriteTimeout <= BusyBackoff
                /\ MinGap(k) + WriteTimeout <= FailureBackoff[k]
BY TimesAssumption DEF MinGap, Smaller, Left

\* A goroutine that takes an element is one more holder of its replica's channel.
LEMMA SlotTaken ==
    ASSUME SlotsInv, NEW r \in Runs, r \notin holding,
           slots[ReplicaOf[r]] < Concurrency,
           slots' = [slots EXCEPT ![ReplicaOf[r]] = @ + 1],
           holding' = holding \cup {r}
    PROVE  SlotsInv'
<1>. DEFINE p == ReplicaOf[r]
<1>. p \in Replicas /\ Concurrency \in Nat
  BY ReplicasAssumption
<1>1. IsFiniteSet(holding') /\ holding' \subseteq Runs
  BY FS_AddElement DEF SlotsInv
<1>2. Holders(p)' = Holders(p) \cup {r}
  BY DEF Holders
<1>3. \A q \in Replicas : q # p => Holders(q)' = Holders(q)
  BY DEF Holders
<1>4. IsFiniteSet(Holders(p))
  BY FS_Subset DEF SlotsInv, Holders
<1>5. r \notin Holders(p)
  BY DEF Holders
<1>6. Cardinality(Holders(p) \cup {r}) = Cardinality(Holders(p)) + 1
  BY <1>4, <1>5, FS_AddElement
<1>7. slots' \in [Replicas -> 0..Concurrency]
  BY DEF SlotsInv
<1>8. \A q \in Replicas : slots'[q] = Cardinality(Holders(q)')
  BY <1>2, <1>3, <1>6 DEF SlotsInv
<1>. QED  BY <1>1, <1>7, <1>8 DEF SlotsInv, Holders

\* A release takes the element of the goroutine, and of no other one.
LEMMA SlotReleased ==
    ASSUME SlotsInv, NEW r \in Runs, Release(r)
    PROVE  SlotsInv'
<1>. DEFINE p == ReplicaOf[r]
<1>. p \in Replicas /\ Concurrency \in Nat
  BY ReplicasAssumption
<1>1. holding' = holding \ {r}
  BY DEF Release
<1>2. CASE r \notin holding
  BY <1>1, <1>2 DEF Release, SlotsInv, Holders
<1>3. CASE r \in holding
  <2>1. IsFiniteSet(holding') /\ holding' \subseteq Runs
    BY <1>1, FS_RemoveElement DEF SlotsInv
  <2>2. Holders(p)' = Holders(p) \ {r}
    BY <1>1 DEF Holders
  <2>3. \A q \in Replicas : q # p => Holders(q)' = Holders(q)
    BY <1>1 DEF Holders
  <2>4. IsFiniteSet(Holders(p)) /\ r \in Holders(p)
    BY <1>3, FS_Subset DEF SlotsInv, Holders
  <2>5. Cardinality(Holders(p) \ {r}) = Cardinality(Holders(p)) - 1
    BY <2>4, FS_RemoveElement
  <2>6. Cardinality(Holders(p) \ {r}) \in Nat
    BY <2>4, FS_RemoveElement, FS_CardinalityType
  <2>7. slots[p] = Cardinality(Holders(p)) /\ slots[p] > 0
    BY <2>5, <2>6 DEF SlotsInv
  <2>8. slots' = [slots EXCEPT ![p] = @ - 1]
    BY <1>3, <2>7 DEF Release
  <2>9. slots' \in [Replicas -> 0..Concurrency]
    BY <2>7, <2>8 DEF SlotsInv
  <2>10. \A q \in Replicas : slots'[q] = Cardinality(Holders(q)')
    BY <2>2, <2>3, <2>5, <2>8 DEF SlotsInv
  <2>. QED  BY <2>1, <2>9, <2>10 DEF SlotsInv, Holders
<1>. QED  BY <1>2, <1>3

\* A replica that dies takes its channel and all its holders with it.
LEMMA SlotsLost ==
    ASSUME SlotsInv, NEW p \in Replicas, slots' = [slots EXCEPT ![p] = 0],
           holding' = holding \ {r \in Runs : ReplicaOf[r] = p}
    PROVE  SlotsInv'
<1>. Concurrency \in Nat
  BY ReplicasAssumption
<1>1. holding' \subseteq holding /\ holding' \subseteq Runs
  BY DEF SlotsInv
<1>2. IsFiniteSet(holding')
  BY <1>1, FS_Subset DEF SlotsInv
<1>3. Holders(p)' = {}
  BY DEF Holders, SlotsInv
<1>4. \A q \in Replicas : q # p => Holders(q)' = Holders(q)
  BY DEF Holders, SlotsInv
<1>5. slots' \in [Replicas -> 0..Concurrency]
  BY DEF SlotsInv
<1>6. \A q \in Replicas : slots'[q] = Cardinality(Holders(q)')
  BY <1>3, <1>4, FS_EmptySet DEF SlotsInv
<1>. QED  BY <1>1, <1>2, <1>5, <1>6 DEF SlotsInv, Holders

\* A row that gets an outcome is sound if the outcome holds long enough.
LEMMA OutcomeSound ==
    ASSUME RowsInv, NEW k \in Keys, NEW status \in {"ready", "failed"}, NEW ttl \in Nat,
           status = "ready" => k \in saved, ttl >= MinGap(k),
           row' = [row EXCEPT ![k] = Outcome(status, ttl)], UNCHANGED <<saved, since>>
    PROVE  RowsInv'
<1>1. Outcome(status, ttl) \in Rows
  BY TimesAssumption DEF Outcome, Rows
<1>2. row' \in [Keys -> Rows]
  BY <1>1 DEF RowsInv
<1>3. ASSUME NEW j \in Keys PROVE RowSound(j)'
  <2>1. CASE j = k
    <3>1. row'[k].status = status /\ row'[k].ttl = ttl
      BY DEF RowsInv, Outcome
    <3>2. since'[k] \in Nat /\ MinGap(k) \in Nat
      BY GapType DEF RowsInv
    <3>3. MinGap(k)' = MinGap(k)
      BY DEF MinGap, Smaller
    <3>. QED  BY <2>1, <3>1, <3>2, <3>3 DEF RowSound
  <2>2. CASE j # k
    BY <2>2 DEF RowsInv, RowSound, MinGap, Smaller
  <2>. QED  BY <2>1, <2>2
<1>. QED  BY <1>2, <1>3 DEF RowsInv

\* A key that saves its events keeps the rows sound.
LEMMA RowsKept ==
    ASSUME RowsInv, UNCHANGED <<row, since>>, saved \subseteq saved', saved' \subseteq Keys
    PROVE  RowsInv'
BY DEF RowsInv, RowSound, MinGap, Smaller

\* A run that goes to another step keeps the runs sound if it is sound there.
LEMMA RunMoves ==
    ASSUME RunsInv, NEW r \in Runs, NEW step \in Steps, NEW x \in RunRecords \cup {NoRun},
           pc' = [pc EXCEPT ![r] = step], run' = [run EXCEPT ![r] = x],
           saved \subseteq saved', \A q \in Runs : q # r /\ q \in holding' => q \in holding,
           step # "off" => x \in RunRecords,
           step = "saved" => x.key \in saved',
           step = "saved" /\ x.life > 0 /\ MinGap(x.key) > 0 => x.ttl >= x.life + MinGap(x.key),
           step = "failing" /\ x.timer > 0 /\ MinGap(x.key) > 0 =>
               x.ttl >= x.timer + MinGap(x.key),
           r \in holding' => step \in {"searching", "saved", "failing"}
    PROVE  RunsInv'
<1>1. pc' \in [Runs -> Steps] /\ run' \in [Runs -> RunRecords \cup {NoRun}]
  BY DEF RunsInv
<1>2. pc'[r] = step /\ run'[r] = x
  BY DEF RunsInv
<1>3. RunSound(r)'
  BY <1>2 DEF RunSound, TimeToWrite, MinGap
<1>4. ASSUME NEW q \in Runs, q # r PROVE RunSound(q)'
  <2>1. pc'[q] = pc[q] /\ run'[q] = run[q] /\ RunSound(q)
    BY <1>4 DEF RunsInv
  <2>. QED  BY <1>4, <2>1 DEF RunSound, TimeToWrite, MinGap
<1>. QED  BY <1>1, <1>3, <1>4 DEF RunsInv

\* A run that is not off has all the fields of one.
LEMMA RunType ==
    ASSUME RunsInv, NEW r \in Runs, pc[r] # "off"
    PROVE  run[r] \in RunRecords
BY DEF RunsInv, RunSound

\* The two backoffs are longer than the gap by the timeout of the write, so a run that
\* fails waits long enough.
LEMMA FailingSound ==
    ASSUME RunsInv, NEW r \in Runs, pc[r] # "off", NEW backoff \in Nat,
           MinGap(run[r].key) > 0 => backoff >= WriteTimeout + MinGap(run[r].key),
           Failing(r, backoff), UNCHANGED saved,
           holding' \subseteq holding
    PROVE  RunsInv'
<1>. DEFINE x == [run[r] EXCEPT !.life = 0, !.timer = WriteTimeout, !.ttl = backoff]
<1>1. run[r] \in RunRecords
  BY RunType
<1>2. x \in RunRecords /\ x.key = run[r].key /\ x.ttl = backoff /\ x.timer = WriteTimeout
  <2>1. 0 \in 0..RunTimeout /\ WriteTimeout \in Nat
    BY TimesAssumption
  <2>. QED  BY <1>1, <2>1 DEF RunRecords
<1>3. run' = [run EXCEPT ![r] = x] /\ pc' = [pc EXCEPT ![r] = "failing"]
  BY DEF Failing, RunsInv
<1>. HIDE DEF x
<1>. QED  BY <1>2, <1>3, RunMoves DEF Steps

\* A run that returns leaves its slot.
LEMMA ReturnSound ==
    ASSUME SlotsInv, RunsInv, NEW r \in Runs, Return(r), UNCHANGED saved
    PROVE  SlotsInv' /\ RunsInv'
<1>1. SlotsInv' /\ holding' = holding \ {r}
  BY SlotReleased DEF Return, Release
<1>2. RunsInv'
  BY <1>1, RunMoves DEF Return, Steps
<1>. QED  BY <1>1, <1>2

----------------------------------------------------------------------------
(* The actions.                                                            *)

\* A claim starts the waiting of its key anew.
LEMMA ClaimStep ==
    ASSUME DiscoveryInv, NEW r \in Runs, NEW k \in Keys, Claim(r, k)
    PROVE  DiscoveryInv'
<1>. SlotsInv /\ RowsInv /\ RunsInv
  BY DEF DiscoveryInv
<1>1. SlotsInv' /\ crashes' \in 0..MaxCrashes
  BY DEF DiscoveryInv, Claim, SlotsInv, Holders
<1>2. RowsInv'
  <2>1. row[k] \in Rows
    BY DEF RowsInv
  <2>2. row' = [row EXCEPT ![k] = [row[k] EXCEPT !.status = "running", !.age = 0]]
    BY DEF Claim, RowsInv
  <2>3. [row[k] EXCEPT !.status = "running", !.age = 0] \in Rows
    <3>1. 0 \in 0..RunTimeout
      BY TimesAssumption
    <3>. QED  BY <2>1, <3>1 DEF Rows
  <2>4. row' \in [Keys -> Rows] /\ since' \in [Keys -> Nat] /\ saved' \subseteq Keys
    BY <2>2, <2>3 DEF RowsInv, Claim
  <2>5. ASSUME NEW j \in Keys PROVE RowSound(j)'
    <3>1. CASE j = k
      <4>1. row'[k].status = "running" /\ row'[k].age = 0 /\ since'[k] = 0
        BY <2>1, <2>2 DEF RowsInv, Claim, Rows
      <4>2. Smaller(0, MinGap(k)) <= 0
        BY GapType DEF Smaller
      <4>. QED  BY <3>1, <4>1, <4>2 DEF RowSound, MinGap
    <3>2. CASE j # k
      BY <3>2 DEF RowsInv, RowSound, Claim, MinGap
    <3>. QED  BY <3>1, <3>2
  <2>. QED  BY <2>4, <2>5 DEF RowsInv
<1>3. RunsInv'
  <2>1. [key |-> k, life |-> RunTimeout, timer |-> SlotWait, ttl |-> 0] \in RunRecords
    BY TimesAssumption DEF RunRecords
  <2>2. r \notin holding /\ holding' = holding /\ saved' = saved
    BY DEF Claim, RunsInv, RunSound
  <2>. QED  BY <2>1, <2>2, RunMoves DEF Claim, Steps
<1>. QED  BY <1>1, <1>2, <1>3 DEF DiscoveryInv

\* The steps of a run before it reports keep the invariant.
LEMMA RunSteps ==
    ASSUME DiscoveryInv, NEW r \in Runs,
           AcquireSlot(r) \/ SlotBusy(r) \/ SearchAndSave(r) \/ SearchFails(r) \/ Panic(r)
    PROVE  DiscoveryInv'
<1>. SlotsInv /\ RowsInv /\ RunsInv
  BY DEF DiscoveryInv
<1>0. pc[r] # "off" /\ run[r] \in RunRecords /\ run[r].key \in Keys /\ crashes' \in 0..MaxCrashes
  <2>1. pc[r] # "off" /\ crashes' \in 0..MaxCrashes
    BY DEF AcquireSlot, SlotBusy, SearchAndSave, SearchFails, Panic, DiscoveryInv
  <2>. QED  BY <2>1, RunType DEF RunRecords
<1>. DEFINE gap == MinGap(run[r].key)
<1>g. gap \in Nat /\ WriteTimeout \in Nat
  BY <1>0, GapType, TimesAssumption
<1>b. BusyBackoff \in Nat /\ (gap > 0 => BusyBackoff >= WriteTimeout + gap)
  <2>1. gap > 0 => gap + WriteTimeout <= BusyBackoff
    BY <1>0, GapType
  <2>. QED  BY <1>g, <2>1, TimesAssumption
<1>f. /\ FailureBackoff[run[r].key] \in Nat
      /\ gap > 0 => FailureBackoff[run[r].key] >= WriteTimeout + gap
  <2>1. gap > 0 => gap + WriteTimeout <= FailureBackoff[run[r].key]
    BY <1>0, GapType
  <2>2. FailureBackoff[run[r].key] \in Nat
    BY <1>0, TimesAssumption
  <2>. QED  BY <1>g, <2>1, <2>2
<1>1. CASE AcquireSlot(r)
  <2>1. pc[r] = "waiting" /\ r \notin holding
    BY <1>1 DEF AcquireSlot, RunsInv, RunSound
  <2>2. SlotsInv'
    BY <1>1, <2>1, SlotTaken DEF AcquireSlot
  <2>3. RowsInv'
    BY <1>1, RowsKept DEF AcquireSlot, RowsInv
  <2>4. RunsInv'
    <3>1. [run[r] EXCEPT !.timer = 0] \in RunRecords
      BY <1>0 DEF RunRecords
    <3>2. run' = [run EXCEPT ![r] = [run[r] EXCEPT !.timer = 0]]
      BY <1>1 DEF AcquireSlot, RunsInv
    <3>. QED  BY <1>1, <3>1, <3>2, RunMoves DEF AcquireSlot, Steps
  <2>. QED  BY <1>0, <2>2, <2>3, <2>4 DEF DiscoveryInv
<1>2. CASE SlotBusy(r)
  <2>1. SlotsInv' /\ RowsInv'
    BY <1>2, RowsKept DEF SlotBusy, SlotsInv, RowsInv, Holders
  <2>2. RunsInv'
    BY <1>0, <1>2, <1>b, FailingSound DEF SlotBusy
  <2>. QED  BY <1>0, <2>1, <2>2 DEF DiscoveryInv
<1>3. CASE SearchAndSave(r)
  <2>1. SlotsInv'
    BY <1>3 DEF SearchAndSave, SlotsInv, Holders
  <2>2. saved \subseteq saved' /\ saved' \subseteq Keys /\ run[r].key \in saved'
    BY <1>0, <1>3 DEF SearchAndSave, RowsInv
  <2>3. RowsInv'
    BY <1>3, <2>2, RowsKept DEF SearchAndSave
  <2>4. RunsInv'
    <3>. DEFINE x == [run[r] EXCEPT !.ttl = CacheTTL]
    <3>1. run' = [run EXCEPT ![r] = x] /\ pc' = [pc EXCEPT ![r] = "saved"] /\ holding' = holding
      BY <1>3 DEF SearchAndSave, RunsInv
    <3>2. /\ x \in RunRecords /\ x.key = run[r].key /\ x.ttl = CacheTTL
          /\ x.life \in Nat /\ x.life <= RunTimeout
      BY <1>0, TimesAssumption DEF RunRecords
    <3>3. x.life > 0 /\ MinGap(x.key) > 0 => x.ttl >= x.life + MinGap(x.key)
      <4>. HIDE DEF x
      <4>1. gap > 0 => gap + RunTimeout <= CacheTTL
        BY <1>0, GapType
      <4>. QED  BY <1>g, <3>2, <4>1, TimesAssumption
    <3>. HIDE DEF x
    <3>. QED  BY <2>2, <3>1, <3>2, <3>3, RunMoves DEF Steps
  <2>. QED  BY <1>0, <2>1, <2>3, <2>4 DEF DiscoveryInv
<1>4. CASE SearchFails(r)
  <2>1. SlotsInv' /\ RowsInv'
    BY <1>4, RowsKept DEF SearchFails, SlotsInv, RowsInv, Holders
  <2>2. RunsInv'
    BY <1>0, <1>4, <1>f, FailingSound DEF SearchFails
  <2>. QED  BY <1>0, <2>1, <2>2 DEF DiscoveryInv
<1>5. CASE Panic(r)
  <2>1. SlotsInv' /\ holding' \subseteq holding
    BY <1>5, SlotReleased DEF Panic, Release
  <2>2. RowsInv'
    BY <1>5, RowsKept DEF Panic, RowsInv
  <2>3. RunsInv'
    BY <1>0, <1>5, <1>b, <2>1, FailingSound DEF Panic
  <2>. QED  BY <1>0, <2>1, <2>2, <2>3 DEF DiscoveryInv
<1>. QED  BY <1>1, <1>2, <1>3, <1>4, <1>5

\* The report of a run, and its loss, keep the invariant.
LEMMA ReportSteps ==
    ASSUME DiscoveryInv, NEW r \in Runs, Complete(r) \/ ReportFailure(r) \/ ReportLost(r)
    PROVE  DiscoveryInv'
<1>. SlotsInv /\ RowsInv /\ RunsInv
  BY DEF DiscoveryInv
<1>1. /\ pc[r] # "off" /\ UNCHANGED <<saved, since, crashes>> /\ Return(r)
  BY DEF Complete, ReportFailure, ReportLost
<1>2. SlotsInv' /\ RunsInv' /\ crashes' \in 0..MaxCrashes
  BY <1>1, ReturnSound DEF DiscoveryInv
<1>3. /\ run[r].key \in Keys /\ run[r].ttl \in Nat /\ RunSound(r)
      /\ run[r].life \in Nat /\ run[r].timer \in Nat /\ MinGap(run[r].key) \in Nat
  BY <1>1, RunType, GapType, TimesAssumption DEF RunRecords, RunsInv
<1>4. CASE Complete(r)
  <2>1. run[r].key \in saved /\ run[r].ttl >= MinGap(run[r].key)
    BY <1>3, <1>4 DEF Complete, RunSound, TimeToWrite
  <2>2. RowsInv'
    BY <1>1, <1>3, <1>4, <2>1, OutcomeSound DEF Complete
  <2>. QED  BY <1>2, <2>2 DEF DiscoveryInv
<1>5. CASE ReportFailure(r)
  <2>1. run[r].ttl >= MinGap(run[r].key)
    BY <1>5, <1>3 DEF ReportFailure, RunSound, TimeToWrite
  <2>2. RowsInv'
    BY <1>1, <1>3, <1>5, <2>1, OutcomeSound DEF ReportFailure
  <2>. QED  BY <1>2, <2>2 DEF DiscoveryInv
<1>6. CASE ReportLost(r)
  <2>1. RowsInv'
    BY <1>6, RowsKept DEF ReportLost, RowsInv
  <2>. QED  BY <1>2, <2>1 DEF DiscoveryInv
<1>. QED  BY <1>4, <1>5, <1>6

\* A crash keeps the invariant.
LEMMA CrashStep ==
    ASSUME DiscoveryInv, NEW p \in Replicas, Crash(p)
    PROVE  DiscoveryInv'
<1>. SlotsInv /\ RowsInv /\ RunsInv
  BY DEF DiscoveryInv
<1>1. SlotsInv'
  BY SlotsLost DEF Crash
<1>2. RowsInv'
  BY RowsKept DEF Crash, RowsInv
<1>3. crashes' \in 0..MaxCrashes
  BY ReplicasAssumption DEF Crash, DiscoveryInv
<1>4. RunsInv'
  BY DEF Crash, RunsInv, RunSound, TimeToWrite, Steps, MinGap
<1>. QED  BY <1>1, <1>2, <1>3, <1>4 DEF DiscoveryInv

\* Time passes: what a row loses of its outcome, or its claim gains in age, its key
\* has waited longer.
LEMMA TickStep ==
    ASSUME DiscoveryInv, Tick
    PROVE  DiscoveryInv'
<1>. SlotsInv /\ RowsInv /\ RunsInv
  BY DEF DiscoveryInv
<1>. RunTimeout \in Nat
  BY TimesAssumption
<1>1. SlotsInv' /\ crashes' \in 0..MaxCrashes
  BY DEF DiscoveryInv, Tick, SlotsInv, Holders
<1>2. \A n \in Nat : Down(n) \in Nat /\ Down(n) <= n /\ Down(n) + 1 >= n
  BY DEF Down
<1>3. RowsInv'
  <2>1. ASSUME NEW k \in Keys
        PROVE  row'[k] \in Rows /\ since'[k] \in Nat /\ RowSound(k)'
    <3>1. row[k] \in Rows /\ since[k] \in Nat /\ RowSound(k) /\ MinGap(k) \in Nat
      BY GapType DEF RowsInv
    <3>2. row[k].age \in 0..RunTimeout /\ row[k].ttl \in Nat
      BY <3>1 DEF Rows
    <3>3. MinGap(k)' = MinGap(k) /\ saved' = saved
      BY DEF Tick, MinGap, Smaller
    <3>4. since'[k] = Smaller(since[k] + 1, MinGap(k))
      BY DEF Tick
    <3>5. since'[k] \in Nat
      BY <3>1, <3>4 DEF Smaller
    <3>6. CASE row[k].status = "running"
      <4>. DEFINE age == Smaller(row[k].age + 1, RunTimeout)
      <4>1. row'[k] = [row[k] EXCEPT !.age = age]
        BY <3>6 DEF Tick
      <4>2. age \in 0..RunTimeout /\ age <= row[k].age + 1
        BY <3>2 DEF Smaller
      <4>3. row'[k] \in Rows /\ row'[k].status = "running" /\ row'[k].age = age
        <5>. HIDE DEF age
        <5>. QED  BY <3>1, <3>6, <4>1, <4>2 DEF Rows
      <4>4. since'[k] >= Smaller(age, MinGap(k))
        <5>1. since[k] >= Smaller(row[k].age, MinGap(k))
          BY <3>1, <3>6 DEF RowSound
        <5>. HIDE DEF age
        <5>. QED  BY <3>1, <3>2, <3>4, <4>2, <5>1 DEF Smaller
      <4>. HIDE DEF age
      <4>. QED  BY <3>3, <3>5, <4>3, <4>4 DEF RowSound
    <3>7. CASE row[k].status # "running"
      <4>1. row'[k] = [row[k] EXCEPT !.ttl = Down(row[k].ttl)]
        BY <3>7 DEF Tick
      <4>2. Down(row[k].ttl) \in Nat /\ Down(row[k].ttl) + 1 >= row[k].ttl
        BY <1>2, <3>2
      <4>3. /\ row'[k] \in Rows /\ row'[k].status = row[k].status
            /\ row'[k].ttl = Down(row[k].ttl)
        BY <3>1, <4>1, <4>2 DEF Rows
      <4>4. Down(row[k].ttl) + since'[k] >= MinGap(k)
        <5>1. row[k].ttl + since[k] >= MinGap(k)
          BY <3>1, <3>7 DEF RowSound
        <5>. QED  BY <3>1, <3>2, <3>4, <4>2, <5>1 DEF Smaller
      <4>5. row[k].status = "ready" => k \in saved
        BY <3>1 DEF RowSound
      <4>. QED  BY <3>3, <3>5, <3>7, <4>3, <4>4, <4>5 DEF RowSound
    <3>. QED  BY <3>6, <3>7
  <2>2. row' = [k \in Keys |-> row'[k]] /\ since' = [k \in Keys |-> since'[k]]
    BY DEF Tick
  <2>3. row' \in [Keys -> Rows] /\ since' \in [Keys -> Nat]
    BY <2>1, <2>2
  <2>4. saved' \subseteq Keys
    BY DEF Tick, RowsInv
  <2>. QED  BY <2>1, <2>3, <2>4 DEF RowsInv
<1>4. RunsInv'
  <2>1. ASSUME NEW r \in Runs
        PROVE  run'[r] \in RunRecords \cup {NoRun} /\ RunSound(r)'
    <3>1. RunSound(r) /\ run[r] \in RunRecords \cup {NoRun}
      BY DEF RunsInv
    <3>2. pc' = pc /\ saved' = saved /\ holding' = holding
      BY DEF Tick
    <3>3. CASE pc[r] = "off"
      <4>1. run'[r] = run[r]
        BY <3>3 DEF Tick
      <4>. QED  BY <3>1, <3>2, <3>3, <4>1 DEF RunSound, TimeToWrite
    <3>4. CASE pc[r] # "off"
      <4>1. run[r] \in RunRecords
        BY <3>4, RunType
      <4>2. run[r].life \in 0..RunTimeout /\ run[r].timer \in Nat /\ run[r].ttl \in Nat
        BY <4>1 DEF RunRecords
      <4>3. /\ Down(run[r].life) \in 0..RunTimeout
            /\ Down(run[r].timer) \in Nat /\ Down(run[r].ttl) \in Nat
        BY <4>2 DEF Down
      <4>4. run'[r] = [run[r] EXCEPT !.life = Down(run[r].life),
                                     !.timer = Down(run[r].timer), !.ttl = Down(run[r].ttl)]
        BY <3>4 DEF Tick
      <4>5. /\ run'[r] \in RunRecords /\ run'[r].key = run[r].key
            /\ run'[r].life = Down(run[r].life) /\ run'[r].timer = Down(run[r].timer)
            /\ run'[r].ttl = Down(run[r].ttl)
        BY <4>1, <4>3, <4>4 DEF RunRecords
      <4>6. MinGap(run[r].key) \in Nat 
        BY <4>1, GapType DEF RunRecords
      <4>7. MinGap(run[r].key)' = MinGap(run[r].key)
        BY <4>5 DEF MinGap
      <4>8. /\ TimeToWrite(r) \in Nat
            /\ TimeToWrite(r)' = Down(TimeToWrite(r))
        BY <3>2, <4>2, <4>5 DEF TimeToWrite
      <4>9. pc[r] \in {"saved", "failing"} /\ TimeToWrite(r)' > 0 /\ MinGap(run[r].key) > 0 =>
              run'[r].ttl >= TimeToWrite(r)' + MinGap(run[r].key)
        BY <3>1, <4>2, <4>5, <4>6, <4>8 DEF RunSound, Down
      <4>. QED  BY <3>1, <3>2, <4>5, <4>7, <4>9 DEF RunSound
    <3>. QED  BY <3>3, <3>4
  <2>2. run' = [r \in Runs |-> run'[r]] /\ pc' \in [Runs -> Steps]
    BY DEF Tick, RunsInv
  <2>3. run' \in [Runs -> RunRecords \cup {NoRun}]
    BY <2>1, <2>2
  <2>. QED  BY <2>1, <2>2, <2>3 DEF RunsInv
<1>. QED  BY <1>1, <1>3, <1>4 DEF DiscoveryInv

----------------------------------------------------------------------------
(* The theorems.                                                           *)

\* The invariant holds of every state of a behaviour.
THEOREM DiscoveryInvariant == Spec => []DiscoveryInv
<1>1. Init => DiscoveryInv
  <2>. SUFFICES ASSUME Init PROVE DiscoveryInv
    OBVIOUS
  <2>1. SlotsInv
    <3>1. \A p \in Replicas : Holders(p) = {}
      BY DEF Init, Holders
    <3>. QED  BY <3>1, FS_EmptySet, ReplicasAssumption DEF Init, SlotsInv
  <2>2. RowsInv
    BY GapType, TimesAssumption DEF Init, RowsInv, RowSound, Rows
  <2>3. RunsInv
    BY DEF Init, RunsInv, RunSound, Steps
  <2>4. crashes \in 0..MaxCrashes
    BY ReplicasAssumption DEF Init
  <2>. QED  BY <2>1, <2>2, <2>3, <2>4 DEF DiscoveryInv
<1>2. DiscoveryInv /\ [Next]_vars => DiscoveryInv'
  <2>. SUFFICES ASSUME DiscoveryInv, [Next]_vars PROVE DiscoveryInv'
    OBVIOUS
  <2>1. ASSUME NEW r \in Runs, NEW k \in Keys, Claim(r, k) PROVE DiscoveryInv'
    BY <2>1, ClaimStep
  <2>2. ASSUME NEW r \in Runs,
               AcquireSlot(r) \/ SlotBusy(r) \/ SearchAndSave(r) \/ SearchFails(r) \/ Panic(r)
        PROVE  DiscoveryInv'
    BY <2>2, RunSteps
  <2>3. ASSUME NEW r \in Runs, Complete(r) \/ ReportFailure(r) \/ ReportLost(r)
        PROVE  DiscoveryInv'
    BY <2>3, ReportSteps
  <2>4. ASSUME NEW p \in Replicas, Crash(p) PROVE DiscoveryInv'
    BY <2>4, CrashStep
  <2>5. CASE Tick
    BY <2>5, TickStep
  <2>6. CASE UNCHANGED vars
    BY <2>6 DEF vars, DiscoveryInv, SlotsInv, RowsInv, RunsInv, RowSound, RunSound, TimeToWrite,
                Holders, MinGap
  <2>. QED  BY <2>1, <2>2, <2>3, <2>4, <2>5, <2>6 DEF Next
<1>. QED  BY <1>1, <1>2, PTL DEF Spec

\* Every variable keeps its type, the channels within their capacity.
THEOREM TypeCorrect == Spec => []TypeOK
<1>1. DiscoveryInv => TypeOK
  BY DEF DiscoveryInv, SlotsInv, RowsInv, RunsInv, RunSound, TypeOK
<1>. QED  BY <1>1, DiscoveryInvariant, PTL

\* No failure, panic or lost write leaks a slot, and no release takes the slot of
\* another run.
THEOREM SlotsCorrect == Spec => []SlotsAccounted
<1>1. DiscoveryInv => SlotsAccounted
  BY DEF DiscoveryInv, SlotsInv, SlotsAccounted, Holders
<1>. QED  BY <1>1, DiscoveryInvariant, PTL

\* A row says ready only after events were saved for its key.
THEOREM ReadyCorrect == Spec => []ReadyMeansSaved
<1>1. DiscoveryInv => ReadyMeansSaved
  BY DEF DiscoveryInv, RowsInv, RowSound, ReadyMeansSaved
<1>. QED  BY <1>1, DiscoveryInvariant, PTL

\* Two claims of a key are at least its gap apart, even though a run that was taken
\* over may write to the row of its successor.
THEOREM ClaimsCorrect == Spec => ClaimsSpaced
<1>1. ASSUME DiscoveryInv, NEW k \in Keys, NEW r \in Runs, Claim(r, k)
      PROVE  since[k] >= MinGap(k)
  <2>1. RowSound(k) /\ row[k] \in Rows /\ since[k] \in Nat
    BY <1>1 DEF DiscoveryInv, RowsInv
  <2>2. CASE row[k].status = "running"
    <3>1. row[k].age = RunTimeout
      BY <1>1, <2>2 DEF Claim, Claimable
    <3>2. Smaller(RunTimeout, MinGap(k)) = MinGap(k)
      BY GapType, TimesAssumption DEF Smaller
    <3>. QED  BY <2>1, <2>2, <3>1, <3>2 DEF RowSound
  <2>3. CASE row[k].status # "running"
    <3>1. row[k].ttl = 0
      BY <1>1, <2>3 DEF Claim, Claimable
    <3>. QED  BY <2>1, <2>3, <3>1, GapType DEF RowSound
  <2>. QED  BY <2>2, <2>3
<1>2. DiscoveryInv => [\A k \in Keys, r \in Runs : Claim(r, k) => since[k] >= MinGap(k)]_vars
  BY <1>1
<1>. QED  BY <1>2, DiscoveryInvariant, PTL DEF ClaimsSpaced

============================================================================
