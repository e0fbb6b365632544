-------------------- MODULE RecommendationWorkflowProofs --------------------
(***************************************************************************)
(* RecommendationWorkflow for any number of rows, stages, callers and      *)
(* streams.  The invariant is about each row with its goroutine (Sound)    *)
(* and about what each stream knows of the row it follows (Follows).       *)
(***************************************************************************)
EXTENDS RecommendationWorkflow, SequenceTheorems, TLAPS

----------------------------------------------------------------------------
(* The inductive invariant.                                                *)

\* A row and its goroutine agree: at work there is no outcome yet; what is about to
\* be reported as a failure has no outcome, or that of a commit that was not
\* confirmed; and what nobody works on any more has an outcome with its options,
\* or a reason to have none.
Sound(row, g) ==
    /\ g.pc \in {"stage", "work"} =>
           row.status = "processing" /\ row.options = FALSE /\ g.cut = "no"
    /\ g.pc = "failing" =>
           \/ row.status = "processing" /\ row.options = FALSE /\ g.cut = "no"
           \/ row.status \in Finished /\ row.options = TRUE /\ g.cut = "commit unknown"
    /\ g.pc = "off" =>
           /\ row.status = "processing" =>
                  row.options = FALSE /\ (g.live = FALSE \/ g.cut # "no")
           /\ row.status = "blocked" => row.options = FALSE
           /\ row.status \in Finished => row.options = TRUE
           /\ row.status = "failed" => row.options = FALSE \/ g.cut = "commit unknown"

\* What can become of a row and its goroutine: options stay, an outcome is replaced
\* by "failed" only, after an unconfirmed commit, and who is off stays off.
Succeeds(row, g, next, h) ==
    /\ row.options = TRUE => next.options = TRUE
    /\ row.status \in Terminal =>
           \/ next = row
           \/ /\ next.status = "failed" /\ h.pc = "off"
              /\ g.cut = "commit unknown" /\ h.cut = "commit unknown"
    /\ g.pc = "off" => h = g /\ next = row

\* A status that was read of row i is an outcome it has, or one that an unconfirmed
\* commit has left behind; the options of a finished one are there.
Known(status, i) ==
    /\ status \in Terminal =>
           status = rows[i].status \/ (wf[i].cut = "commit unknown" /\ wf[i].pc = "off")
    /\ status \in Finished => rows[i].options = TRUE

Follows(s) ==
    /\ s.pc # "off" => s.of \in Requests
    /\ s.pc \in {"row", "options"} => s.sent.status \notin Terminal
    /\ s.pc = "options" => s.read \in Seen /\ Known(s.read.status, s.of)
    /\ s.pc = "closed" =>
           /\ s.sent.status \in Terminal
           /\ s.sent.status \in Finished => s.options = TRUE
           /\ Known(s.sent.status, s.of)

WorkflowInv ==
    /\ TypeOK
    /\ \A i \in Requests : Sound(rows[i], wf[i])
    /\ \A c \in Streams : Follows(stream[c])

----------------------------------------------------------------------------
(* Rows and goroutines.                                                    *)

\* A request has one row and one goroutine, each of its type.
LEMMA RowTypes ==
    ASSUME TypeOK, NEW i \in Requests
    PROVE  /\ Requests = 1 .. Len(rows) /\ Len(rows) \in Nat
           /\ DOMAIN wf = Requests
           /\ rows[i] \in Rows /\ wf[i] \in Goroutines
  BY DEF TypeOK, Requests

Goroutine(i) ==
    \/ SetStage(i) \/ StageFails(i) \/ Work(i)
    \/ Fail(i) \/ FailLost(i) \/ Timeout(i)

\* A step of a goroutine changes its row and itself alone, and keeps them sound.
GoesOn(i, next, h) ==
    /\ rows' = [rows EXCEPT ![i] = next]
    /\ wf' = [wf EXCEPT ![i] = h]
    /\ UNCHANGED others
    /\ next \in Rows /\ h \in Goroutines
    /\ Sound(next, h)
    /\ Succeeds(rows[i], wf[i], next, h)

\* A goroutine that gives up after a write that failed has a reason.
LEMMA LostSound ==
    ASSUME TypeOK, NEW i \in Requests, Sound(rows[i], wf[i]), wf[i].pc # "off"
    PROVE  /\ Lost(i) \in Goroutines
           /\ Sound(rows[i], Lost(i))
           /\ Succeeds(rows[i], wf[i], rows[i], Lost(i))
  <1>1. rows[i] \in Rows /\ wf[i] \in Goroutines
    BY RowTypes
  <1>2. /\ Lost(i) \in Goroutines /\ Lost(i).pc = "off" /\ Lost(i).live = wf[i].live
        /\ wf[i].live = TRUE => Lost(i).cut = "write lost"
        /\ wf[i].live = FALSE => Lost(i).cut = wf[i].cut
        /\ wf[i].live \in BOOLEAN
    BY <1>1 DEF Lost, Goroutines
  <1>3. Sound(rows[i], Lost(i))
    BY <1>1, <1>2 DEF Sound, Goroutines, Rows, Finished, Terminal
  <1>. QED
    BY <1>1, <1>2, <1>3 DEF Succeeds

\* Each step of a goroutine changes its own row and its own state only, by one of
\* the moves GoesOn allows.
LEMMA GoroutineStep ==
    ASSUME TypeOK, NEW i \in Requests, Sound(rows[i], wf[i]), Goroutine(i)
    PROVE  \E next, h : GoesOn(i, next, h)
  <1>. DEFINE row == rows[i]
              g == wf[i]
  <1>0. /\ row \in Rows /\ g \in Goroutines
        /\ rows = [rows EXCEPT ![i] = row] /\ wf = [wf EXCEPT ![i] = g]
    BY RowTypes DEF TypeOK
  <1>1. CASE SetStage(i)
    <2>. DEFINE next == [row EXCEPT !.stage = g.at]
                h == [g EXCEPT !.pc = "work"]
    <2>0. g.at \in 0 .. Finalize
      <3>1. g.at \in 1 .. Finalize
        BY <1>0 DEF Goroutines
      <3>. QED
        BY <3>1, StagesAssumption
    <2>1. next \in Rows /\ h \in Goroutines
      BY <1>0, <2>0 DEF Rows, Goroutines
    <2>2. Sound(next, h) /\ Succeeds(row, g, next, h)
      BY <1>0, <1>1 DEF SetStage, Sound, Succeeds, Rows, Goroutines, Terminal, Finished
    <2>3. GoesOn(i, next, h)
      BY <1>1, <2>1, <2>2 DEF SetStage, GoesOn
    <2>. QED
      BY <2>3
  <1>2. CASE StageFails(i)
    <2>. DEFINE h == [g EXCEPT !.pc = "failing"]
    <2>1. h \in Goroutines
      BY <1>0 DEF Goroutines
    <2>2. Sound(row, h) /\ Succeeds(row, g, row, h)
      BY <1>0, <1>2 DEF StageFails, Sound, Succeeds, Rows, Goroutines, Terminal, Finished
    <2>3. GoesOn(i, row, h)
      BY <1>0, <1>2, <2>1, <2>2 DEF StageFails, GoesOn, others
    <2>. QED
      BY <2>3
  <1>3. CASE WorkDone(i)
    <2>1. PICK issues \in BOOLEAN :
            wf' = [wf EXCEPT ![i].pc = "stage", ![i].at = @ + 1, ![i].issues = issues]
      BY <1>3 DEF WorkDone
    <2>. DEFINE h == [g EXCEPT !.pc = "stage", !.at = @ + 1, !.issues = issues]
    <2>0. g.at + 1 \in 1 .. Finalize
      <3>1. g.at \in 1 .. Finalize
        BY <1>0 DEF Goroutines
      <3>2. g.at < Finalize
        BY <1>3 DEF WorkDone
      <3>. QED
        BY <3>1, <3>2, StagesAssumption
    <2>2. h \in Goroutines
      BY <1>0, <2>0 DEF Goroutines
    <2>3. Sound(row, h) /\ Succeeds(row, g, row, h)
      BY <1>0, <1>3 DEF WorkDone, Sound, Succeeds, Rows, Goroutines, Terminal, Finished
    <2>4. GoesOn(i, row, h)
      BY <1>0, <1>3, <2>1, <2>2, <2>3 DEF WorkDone, GoesOn, others
    <2>. QED
      BY <2>4
  <1>4. CASE WorkFails(i) \/ CompleteFails(i)
    <2>. DEFINE h == [g EXCEPT !.pc = "failing"]
    <2>1. h \in Goroutines
      BY <1>0 DEF Goroutines
    <2>2. Sound(row, h) /\ Succeeds(row, g, row, h)
      BY <1>0, <1>4 DEF WorkFails, CompleteFails, Sound, Succeeds, Rows, Goroutines,
                        Terminal, Finished
    <2>3. GoesOn(i, row, h)
      BY <1>0, <1>4, <2>1, <2>2 DEF WorkFails, CompleteFails, GoesOn, others
    <2>. QED
      BY <2>3
  <1>5. CASE Block(i)
    <2>. DEFINE next == [row EXCEPT !.status = "blocked"]
                h == [g EXCEPT !.pc = "off"]
    <2>1. next \in Rows /\ h \in Goroutines
      BY <1>0 DEF Rows, Goroutines, Terminal
    <2>2. Sound(next, h) /\ Succeeds(row, g, next, h)
      BY <1>0, <1>5 DEF Block, Sound, Succeeds, Rows, Goroutines, Terminal, Finished
    <2>3. GoesOn(i, next, h)
      BY <1>5, <2>1, <2>2 DEF Block, GoesOn
    <2>. QED
      BY <2>3
  <1>6. CASE BlockLost(i) \/ FailLost(i)
    <2>1. wf[i].pc # "off"
      BY <1>6 DEF BlockLost, FailLost
    <2>2. GoesOn(i, row, Lost(i))
      BY <1>0, <1>6, <2>1, LostSound DEF BlockLost, FailLost, GoesOn, others
    <2>. QED
      BY <2>2
  <1>7. CASE Complete(i) \/ CompleteUnconfirmed(i)
    <2>. DEFINE outcome == IF g.issues THEN "partial" ELSE "completed"
                next == [row EXCEPT !.options = TRUE, !.status = outcome]
    <2>0. outcome \in Finished
      BY DEF Finished
    <2>1. next \in Rows /\ next.status \in Finished /\ next.options = TRUE
      BY <1>0, <2>0 DEF Rows, Terminal
    <2>2. rows' = [rows EXCEPT ![i] = next]
      BY <1>0, <1>7 DEF Complete, CompleteUnconfirmed, Committed, Rows
    <2>3. row.status = "processing" /\ g.pc = "work"
      BY <1>0, <1>7 DEF Complete, CompleteUnconfirmed, Sound, Terminal
    <2>4. PICK h \in Goroutines :
            /\ wf' = [wf EXCEPT ![i] = h]
            /\ h.pc = "off" \/ (h.pc = "failing" /\ h.cut = "commit unknown")
      <3>1. CASE Complete(i)
        <4>1. [g EXCEPT !.pc = "off"] \in Goroutines /\ [g EXCEPT !.pc = "off"].pc = "off"
          BY <1>0 DEF Goroutines
        <4>. QED
          BY <3>1, <4>1 DEF Complete
      <3>2. CASE CompleteUnconfirmed(i)
        <4>. DEFINE h == [g EXCEPT !.pc = "failing", !.cut = "commit unknown"]
        <4>1. h \in Goroutines /\ h.pc = "failing" /\ h.cut = "commit unknown"
          BY <1>0 DEF Goroutines
        <4>. QED
          BY <3>2, <4>1 DEF CompleteUnconfirmed
      <3>. QED
        BY <1>7, <3>1, <3>2
    <2>5. Sound(next, h) /\ Succeeds(row, g, next, h)
      BY <2>0, <2>1, <2>3, <2>4 DEF Sound, Succeeds, Terminal, Finished
    <2>6. UNCHANGED others
      BY <1>7 DEF Complete, CompleteUnconfirmed
    <2>7. GoesOn(i, next, h)
      BY <2>1, <2>2, <2>4, <2>5, <2>6 DEF GoesOn
    <2>. QED
      BY <2>7
  <1>8. CASE Fail(i)
    <2>. DEFINE next == [row EXCEPT !.status = "failed"]
                h == [g EXCEPT !.pc = "off"]
    <2>1. next \in Rows /\ h \in Goroutines
      BY <1>0 DEF Rows, Goroutines, Terminal
    <2>2. Sound(next, h) /\ Succeeds(row, g, next, h)
      BY <1>0, <1>8 DEF Fail, Sound, Succeeds, Rows, Goroutines, Terminal, Finished
    <2>3. GoesOn(i, next, h)
      BY <1>8, <2>1, <2>2 DEF Fail, GoesOn
    <2>. QED
      BY <2>3
  <1>9. CASE Timeout(i)
    <2>. DEFINE h == [g EXCEPT !.live = FALSE]
    <2>1. h \in Goroutines
      BY <1>0 DEF Goroutines
    <2>2. Sound(row, h) /\ Succeeds(row, g, row, h)
      BY <1>0, <1>9 DEF Timeout, Sound, Succeeds, Rows, Goroutines, Terminal, Finished
    <2>3. GoesOn(i, row, h)
      BY <1>0, <1>9, <2>1, <2>2 DEF Timeout, GoesOn, others
    <2>. QED
      BY <2>3
  <1>. QED
    BY <1>1, <1>2, <1>3, <1>4, <1>5, <1>6, <1>7, <1>8, <1>9 DEF Goroutine, Work

\* After such a step rows and goroutines are what they were but for one.
LEMMA GoesOnTypes ==
    ASSUME TypeOK, NEW i \in Requests, NEW next, NEW h, GoesOn(i, next, h)
    PROVE  /\ TypeOK'
           /\ Requests' = Requests
           /\ rows'[i] = next /\ wf'[i] = h
           /\ \A j \in Requests : j # i => rows'[j] = rows[j] /\ wf'[j] = wf[j]
  <1>1. /\ Requests = 1 .. Len(rows) /\ Len(rows) \in Nat /\ DOMAIN wf = Requests
        /\ rows \in Seq(Rows) /\ wf \in Seq(Goroutines) /\ Len(wf) = Len(rows)
    BY RowTypes DEF TypeOK
  <1>2. rows' \in Seq(Rows) /\ Len(rows') = Len(rows) /\ DOMAIN rows' = DOMAIN rows
    BY <1>1 DEF GoesOn, Requests
  <1>3. wf' \in Seq(Goroutines) /\ Len(wf') = Len(wf)
    BY <1>1 DEF GoesOn
  <1>4. UNCHANGED others
    BY DEF GoesOn
  <1>5. TypeOK'
    BY <1>1, <1>2, <1>3, <1>4 DEF TypeOK, others
  <1>6. /\ rows'[i] = next /\ wf'[i] = h
        /\ \A j \in Requests : j # i => rows'[j] = rows[j] /\ wf'[j] = wf[j]
    BY <1>1 DEF GoesOn, Requests
  <1>. QED
    BY <1>2, <1>5, <1>6 DEF Requests

\* What a stream knows of a row stays true when rows go on.
LEMMA KnownStays ==
    ASSUME TypeOK, NEW i \in Requests, NEW status, Known(status, i),
           \/ rows'[i] = rows[i] /\ wf'[i] = wf[i]
           \/ Succeeds(rows[i], wf[i], rows'[i], wf'[i])
    PROVE  Known(status, i)'
  BY DEF Known, Succeeds, Terminal, Finished

\* What a stream has read stays true of its request while goroutines move on.
LEMMA FollowsStays ==
    ASSUME TypeOK, NEW s, Follows(s), Requests \subseteq Requests',
           \A i \in Requests :
              \/ rows'[i] = rows[i] /\ wf'[i] = wf[i]
              \/ Succeeds(rows[i], wf[i], rows'[i], wf'[i])
    PROVE  /\ s.pc # "off" => s.of \in Requests'
           /\ s.pc \in {"row", "options"} => s.sent.status \notin Terminal
           /\ s.pc = "options" => s.read \in Seen /\ Known(s.read.status, s.of)'
           /\ s.pc = "closed" =>
                 /\ s.sent.status \in Terminal
                 /\ s.sent.status \in Finished => s.options = TRUE
                 /\ Known(s.sent.status, s.of)'
  <1>1. ASSUME s.pc = "options" PROVE Known(s.read.status, s.of)'
    BY <1>1, KnownStays DEF Follows
  <1>2. ASSUME s.pc = "closed" PROVE Known(s.sent.status, s.of)'
    BY <1>2, KnownStays DEF Follows
  <1>. QED
    BY <1>1, <1>2 DEF Follows

----------------------------------------------------------------------------
(* The invariant.                                                          *)

\* A step in which no stream moves keeps what streams know.
LEMMA StreamsStay ==
    ASSUME WorkflowInv, stream' = stream, Requests \subseteq Requests',
           \A i \in Requests :
              \/ rows'[i] = rows[i] /\ wf'[i] = wf[i]
              \/ Succeeds(rows[i], wf[i], rows'[i], wf'[i])
    PROVE  \A c \in Streams : Follows(stream[c])'
  <1>. SUFFICES ASSUME NEW c \in Streams PROVE Follows(stream[c])'
    OBVIOUS
  <1>1. TypeOK /\ Follows(stream[c])
    BY DEF WorkflowInv
  <1>. QED
    BY <1>1, FollowsStays DEF Follows

\* A new request joins with a goroutine of its own and keeps the invariant.
LEMMA InsertStep ==
    ASSUME WorkflowInv, NEW u \in Users, NEW personal \in BOOLEAN,
           NEW prompt \in BOOLEAN, Insert(u, personal, prompt),
           caller' \in [Callers -> Users \cup {"none"}],
           UNCHANGED <<stale, stream, crashes>>
    PROVE  WorkflowInv'
  <1>. DEFINE row == [user |-> u, personal |-> personal, prompt |-> prompt, stage |-> 0,
                      status |-> "processing", options |-> FALSE]
              g == [pc |-> "stage", at |-> 1, issues |-> FALSE, live |-> TRUE, cut |-> "no"]
  <1>1. row \in Rows /\ g \in Goroutines /\ Sound(row, g)
    <2>1. 0 \in 0 .. Finalize /\ 1 \in 1 .. Finalize
      BY StagesAssumption
    <2>2. row \in Rows
      BY <2>1 DEF Rows
    <2>3. g \in Goroutines
      BY <2>1 DEF Goroutines
    <2>. QED
      BY <2>2, <2>3 DEF Sound
  <1>2. /\ rows \in Seq(Rows) /\ wf \in Seq(Goroutines) /\ Len(wf) = Len(rows)
        /\ Len(rows) \in Nat /\ stale \in 0 .. Len(rows)
    BY DEF WorkflowInv, TypeOK
  <1>3. rows' = Append(rows, row) /\ wf' = Append(wf, g) /\ Len(rows) < MaxRequests
    BY DEF Insert
  <1>4. /\ rows' \in Seq(Rows) /\ wf' \in Seq(Goroutines)
        /\ Len(rows') = Len(rows) + 1 /\ Len(wf') = Len(rows')
        /\ Requests' = Requests \cup {Len(rows) + 1}
        /\ rows'[Len(rows) + 1] = row /\ wf'[Len(rows) + 1] = g
        /\ \A i \in Requests : rows'[i] = rows[i] /\ wf'[i] = wf[i]
    BY <1>1, <1>2, <1>3 DEF Requests
  <1>5. TypeOK'
    <2>1. Len(rows') <= MaxRequests /\ stale' \in 0 .. Len(rows')
      BY <1>2, <1>3, <1>4, BoundsAssumption
    <2>2. /\ stream \in [Streams -> StreamStates] /\ crashes \in 0 .. MaxCrashes
          /\ \A c \in Streams : stream[c].of <= Len(rows)
      BY DEF WorkflowInv, TypeOK
    <2>3. \A c \in Streams : stream[c].of <= Len(rows')
      <3>1. \A c \in Streams : stream[c].of \in 0 .. MaxRequests
        BY <2>2 DEF StreamStates
      <3>. QED
        BY <1>2, <1>4, <2>2, <3>1, BoundsAssumption
    <2>. QED
      BY <1>4, <2>1, <2>2, <2>3 DEF TypeOK
  <1>6. \A i \in Requests' : Sound(rows'[i], wf'[i])
    BY <1>1, <1>4 DEF WorkflowInv
  <1>7. \A c \in Streams : Follows(stream[c])'
    BY <1>4, StreamsStay
  <1>. QED
    BY <1>5, <1>6, <1>7 DEF WorkflowInv

\* A step of a goroutine keeps the invariant.
LEMMA WorkStep ==
    ASSUME WorkflowInv, NEW i \in Requests, Goroutine(i)
    PROVE  WorkflowInv'
  <1>1. PICK next, h : GoesOn(i, next, h)
    BY GoroutineStep DEF WorkflowInv
  <1>2. /\ TypeOK' /\ Requests' = Requests
        /\ rows'[i] = next /\ wf'[i] = h
        /\ \A j \in Requests : j # i => rows'[j] = rows[j] /\ wf'[j] = wf[j]
    BY <1>1, GoesOnTypes DEF WorkflowInv
  <1>3. Sound(next, h) /\ Succeeds(rows[i], wf[i], next, h) /\ stream' = stream
    BY <1>1 DEF GoesOn, others
  <1>4. \A j \in Requests : Sound(rows'[j], wf'[j])
    BY <1>2, <1>3 DEF WorkflowInv
  <1>5. \A c \in Streams : Follows(stream[c])'
    BY <1>2, <1>3, StreamsStay
  <1>. QED
    BY <1>2, <1>4, <1>5 DEF WorkflowInv

\* A stream that follows nothing.
LEMMA NoStreamType == NoStream \in StreamStates /\ NoStream.of = 0
  <1>1. Unsent \in Seen \cup {Unsent} /\ 0 \in 0 .. MaxRequests
    BY BoundsAssumption
  <1>. QED
    BY <1>1 DEF NoStream, StreamStates

\* The end of the process, which parts every goroutine from the database and ends
\* every stream, keeps the invariant.
LEMMA CrashStep ==
    ASSUME WorkflowInv, Crash
    PROVE  WorkflowInv'
  <1>1. /\ rows \in Seq(Rows) /\ wf \in Seq(Goroutines) /\ Len(wf) = Len(rows)
        /\ Requests = 1 .. Len(rows) /\ Len(rows) \in Nat
        /\ \A i \in Requests : rows[i] \in Rows /\ wf[i] \in Goroutines
    BY RowTypes DEF WorkflowInv, TypeOK, Requests
  <1>2. /\ wf' = [i \in Requests |->
                    IF wf[i].pc = "off" THEN wf[i]
                    ELSE [wf[i] EXCEPT !.pc = "off", !.cut = "crashed"]]
        /\ rows' = rows /\ stale' = stale
        /\ caller' = [a \in Callers |-> "none"]
        /\ stream' = [c \in Streams |-> NoStream]
        /\ crashes < MaxCrashes /\ crashes' = crashes + 1
    BY DEF Crash
  <1>3. \A i \in Requests : wf'[i] \in Goroutines /\ Sound(rows[i], wf'[i])
    <2>. SUFFICES ASSUME NEW i \in Requests
                  PROVE  wf'[i] \in Goroutines /\ Sound(rows[i], wf'[i])
      OBVIOUS
    <2>1. rows[i] \in Rows /\ wf[i] \in Goroutines /\ Sound(rows[i], wf[i])
      BY <1>1 DEF WorkflowInv
    <2>2. CASE wf[i].pc = "off"
      BY <1>2, <2>1, <2>2
    <2>3. CASE wf[i].pc # "off"
      <3>1. wf'[i] = [wf[i] EXCEPT !.pc = "off", !.cut = "crashed"]
        BY <1>2, <2>3
      <3>2. wf'[i] \in Goroutines /\ wf'[i].pc = "off" /\ wf'[i].cut = "crashed"
        BY <2>1, <3>1 DEF Goroutines
      <3>. QED
        BY <2>1, <2>3, <3>2 DEF Sound, Rows, Goroutines, Finished, Terminal
    <2>. QED
      BY <2>2, <2>3
  <1>4. wf' \in Seq(Goroutines) /\ Len(wf') = Len(rows)
    <2>1. wf' \in [1 .. Len(rows) -> Goroutines]
      BY <1>1, <1>2, <1>3
    <2>. QED
      BY <1>1, <2>1, SeqDef
  <1>5. stream' \in [Streams -> StreamStates] /\ \A c \in Streams : stream'[c].of <= Len(rows)
    <2>1. \A c \in Streams : stream'[c] = NoStream
      BY <1>2
    <2>2. NoStream.of <= Len(rows)
      BY <1>1, NoStreamType
    <2>. QED
      BY <1>2, <2>1, <2>2, NoStreamType
  <1>6. TypeOK'
    <2>1. /\ Len(rows) <= MaxRequests /\ stale \in 0 .. Len(rows)
          /\ crashes \in 0 .. MaxCrashes
      BY DEF WorkflowInv, TypeOK
    <2>2. crashes' \in 0 .. MaxCrashes
      <3>1. crashes < MaxCrashes /\ crashes' = crashes + 1
        BY <1>2
      <3>. QED
        BY <2>1, <3>1, BoundsAssumption
    <2>3. caller' \in [Callers -> Users \cup {"none"}]
      BY <1>2
    <2>. QED
      BY <1>1, <1>2, <1>4, <1>5, <2>1, <2>2, <2>3 DEF TypeOK
  <1>7. \A c \in Streams : Follows(stream[c])'
    BY <1>2 DEF Follows, NoStream
  <1>. QED
    BY <1>2, <1>3, <1>6, <1>7 DEF WorkflowInv, Requests

\* A step of one stream: what it read and sent is of the row it follows.
LEMMA StreamStep ==
    ASSUME WorkflowInv, NEW c \in Streams, NEW s,
           s \in StreamStates, s.of <= Len(rows), Follows(s),
           stream' = [stream EXCEPT ![c] = s],
           UNCHANGED <<rows, wf, stale, caller, crashes>>
    PROVE  WorkflowInv'
  <1>1. stream \in [Streams -> StreamStates]
    BY DEF WorkflowInv, TypeOK
  <1>2. stream'[c] = s /\ \A d \in Streams : d # c => stream'[d] = stream[d]
    BY <1>1
  <1>3. stream' \in [Streams -> StreamStates]
    BY <1>1
  <1>4. TypeOK'
    BY <1>2, <1>3 DEF WorkflowInv, TypeOK
  <1>5. \A d \in Streams : Follows(stream'[d])
    BY <1>2 DEF WorkflowInv
  <1>6. \A d \in Streams : Follows(stream[d])'
    BY <1>5 DEF Follows, Known, Requests
  <1>. QED
    BY <1>4, <1>6 DEF WorkflowInv, Requests

\* A stream that opens has read and sent nothing yet.
LEMMA OpenStep ==
    ASSUME WorkflowInv, NEW c \in Streams, NEW i \in Requests, Open(c, i)
    PROVE  WorkflowInv'
  <1>. DEFINE s == [NoStream EXCEPT !.pc = "row", !.of = i]
  <1>1. i \in 0 .. MaxRequests /\ i <= Len(rows)
    BY RowTypes, BoundsAssumption DEF WorkflowInv, TypeOK
  <1>2. s.pc = "row" /\ s.of = i /\ s.sent = Unsent
    BY DEF NoStream
  <1>3. s \in StreamStates
    BY <1>1, NoStreamType DEF StreamStates
  <1>4. Follows(s)
    <2>1. s.sent.status = "none"
      BY <1>2 DEF Unsent
    <2>. QED
      BY <1>2, <2>1 DEF Follows, Terminal, Finished
  <1>5. s.of <= Len(rows)
    BY <1>1, <1>2
  <1>. QED
    BY <1>3, <1>4, <1>5, StreamStep DEF Open

\* The first statement of a stream reads the row.
LEMMA ReadRowStep ==
    ASSUME WorkflowInv, NEW c \in Streams, ReadRow(c)
    PROVE  WorkflowInv'
  <1>. DEFINE i == stream[c].of
              seen == [status |-> rows[i].status, stage |-> rows[i].stage]
              s == [stream[c] EXCEPT !.pc = "options", !.read = seen]
  <1>1. /\ stream[c] \in StreamStates /\ stream[c].of <= Len(rows)
        /\ Follows(stream[c]) /\ stream[c].pc = "row"
    BY DEF WorkflowInv, TypeOK, ReadRow
  <1>2. i \in Requests
    BY <1>1 DEF Follows
  <1>3. rows[i] \in Rows /\ Sound(rows[i], wf[i]) /\ wf[i] \in Goroutines
    BY <1>2, RowTypes DEF WorkflowInv
  <1>4. seen \in Seen
    BY <1>3 DEF Rows, Seen
  <1>5. s \in StreamStates
    BY <1>1, <1>4 DEF StreamStates
  <1>6. s.pc = "options" /\ s.read = seen /\ s.of = i /\ s.sent = stream[c].sent
    BY <1>1 DEF StreamStates
  <1>7. Known(seen.status, i)
    BY <1>3 DEF Known, Sound, Goroutines, Terminal, Finished
  <1>8. Follows(s)
    BY <1>1, <1>2, <1>4, <1>6, <1>7 DEF Follows
  <1>9. stream' = [stream EXCEPT ![c] = s]
    BY DEF ReadRow
  <1>. QED
    BY <1>1, <1>5, <1>6, <1>8, <1>9, StreamStep DEF ReadRow

\* The second statement of a stream reads the options, which may be newer than
\* the row: they belong to a final status only if that status was read.
LEMMA ReadOptionsStep ==
    ASSUME WorkflowInv, NEW c \in Streams, ReadOptions(c)
    PROVE  WorkflowInv'
  <1>. DEFINE i == stream[c].of
              options == IF stream[c].read # stream[c].sent THEN rows[i].options
                                                            ELSE stream[c].options
              s == [stream[c] EXCEPT !.pc = Closing(c), !.read = Unsent,
                                     !.sent = stream[c].read, !.options = options]
  <1>1. /\ stream[c] \in StreamStates /\ stream[c].of <= Len(rows)
        /\ Follows(stream[c]) /\ stream[c].pc = "options"
    BY DEF WorkflowInv, TypeOK, ReadOptions
  <1>2. i \in Requests /\ stream[c].read \in Seen /\ Known(stream[c].read.status, i)
        /\ stream[c].sent.status \notin Terminal
    BY <1>1 DEF Follows
  <1>3. rows[i] \in Rows
    BY <1>2, RowTypes DEF WorkflowInv
  <1>4. options \in BOOLEAN
    BY <1>1, <1>3 DEF StreamStates, Rows
  <1>5. s \in StreamStates
    BY <1>1, <1>2, <1>4 DEF StreamStates, Closing
  <1>6. /\ s.pc = Closing(c) /\ s.sent = stream[c].read /\ s.of = i
        /\ s.options = options
    BY <1>1 DEF StreamStates
  <1>7. CASE stream[c].read.status \in Terminal
    <2>1. options = rows[i].options
      BY <1>2, <1>7
    <2>2. s.pc = "closed"
      BY <1>6, <1>7 DEF Closing
    <2>3. s.sent.status \in Finished => s.options = TRUE
      BY <1>2, <1>6, <2>1 DEF Known
    <2>4. Follows(s)
      BY <1>2, <1>6, <1>7, <2>2, <2>3 DEF Follows
    <2>. QED
      BY <1>1, <1>5, <1>6, <2>4, StreamStep DEF ReadOptions
  <1>8. CASE stream[c].read.status \notin Terminal
    <2>1. s.pc = "row"
      BY <1>6, <1>8 DEF Closing
    <2>2. Follows(s)
      BY <1>2, <1>6, <1>8, <2>1 DEF Follows
    <2>. QED
      BY <1>1, <1>5, <1>6, <2>2, StreamStep DEF ReadOptions
  <1>. QED
    BY <1>7, <1>8

\* Every step keeps the invariant.
LEMMA WorkflowStep == WorkflowInv /\ [Next]_vars => WorkflowInv'
  <1>. SUFFICES ASSUME WorkflowInv, [Next]_vars PROVE WorkflowInv'
    OBVIOUS
  <1>0. TypeOK
    BY DEF WorkflowInv
  <1>1. ASSUME NEW u \in Users, CreateSearch(u) PROVE WorkflowInv'
    <2>1. PICK prompt \in BOOLEAN : Insert(u, FALSE, prompt)
      BY <1>1 DEF CreateSearch
    <2>. QED
      BY <1>0, <1>1, <2>1, InsertStep DEF CreateSearch, TypeOK
  <1>2. ASSUME NEW a \in Callers, CreatePersonal(a) PROVE WorkflowInv'
    <2>1. caller[a] \in Users /\ caller' \in [Callers -> Users \cup {"none"}]
      BY <1>0, <1>2 DEF CreatePersonal, TypeOK
    <2>. QED
      BY <1>2, <2>1, InsertStep DEF CreatePersonal
  <1>3. ASSUME NEW i \in Requests, Goroutine(i) PROVE WorkflowInv'
    BY <1>3, WorkStep
  <1>4. CASE Crash
    BY <1>4, CrashStep
  <1>5. ASSUME NEW c \in Streams, NEW i \in Requests, Open(c, i) PROVE WorkflowInv'
    BY <1>5, OpenStep
  <1>6. ASSUME NEW c \in Streams, ReadRow(c) PROVE WorkflowInv'
    BY <1>6, ReadRowStep
  <1>7. ASSUME NEW c \in Streams, ReadOptions(c) PROVE WorkflowInv'
    BY <1>7, ReadOptionsStep
  <1>8. ASSUME NEW c \in Streams, StreamEnds(c) PROVE WorkflowInv'
    <2>1. Follows(NoStream)
      BY DEF Follows, NoStream
    <2>2. NoStream.of <= Len(rows)
      BY <1>0, NoStreamType DEF TypeOK
    <2>. QED
      BY <1>8, <2>1, <2>2, NoStreamType, StreamStep DEF StreamEnds
  <1>9. ASSUME \/ \E u \in Users, a \in Callers : StartPersonal(a, u) \/ RebuildPersonal(a, u)
               \/ \E a \in Callers : PersonalFails(a)
               \/ Age
               \/ UNCHANGED vars
        PROVE  WorkflowInv'
    <2>1. UNCHANGED <<rows, wf, stream, crashes>>
      BY <1>9 DEF StartPersonal, RebuildPersonal, PersonalFails, Age, vars
    <2>2. caller' \in [Callers -> Users \cup {"none"}]
      BY <1>0, <1>9 DEF StartPersonal, RebuildPersonal, PersonalFails, Age, vars, TypeOK
    <2>3. stale' \in 0 .. Len(rows)
      BY <1>0, <1>9 DEF StartPersonal, RebuildPersonal, PersonalFails, Age, vars, TypeOK
    <2>4. TypeOK'
      BY <1>0, <2>1, <2>2, <2>3 DEF TypeOK
    <2>. QED
      BY <2>1, <2>4 DEF WorkflowInv, Follows, Known, Requests
  <1>. QED
    BY <1>1, <1>2, <1>3, <1>4, <1>5, <1>6, <1>7, <1>8, <1>9 DEF Next, Goroutine

\* The inductive invariant holds.
THEOREM WorkflowInvariant == Spec => []WorkflowInv
  <1>1. Init => WorkflowInv
    <2>. SUFFICES ASSUME Init PROVE WorkflowInv
      OBVIOUS
    <2>1. rows = <<>> /\ wf = <<>> /\ Len(rows) = 0 /\ Requests = {}
      BY DEF Init, Requests
    <2>2. stream \in [Streams -> StreamStates] /\ \A c \in Streams : stream[c] = NoStream
      BY NoStreamType DEF Init
    <2>3. TypeOK
      BY <2>1, <2>2, NoStreamType, BoundsAssumption DEF Init, TypeOK
    <2>. QED
      BY <2>1, <2>2, <2>3 DEF WorkflowInv, Follows, NoStream
  <1>. QED
    BY <1>1, WorkflowStep, PTL DEF Spec

\* Every variable stays in its type.
THEOREM TypeCorrect == Spec => []TypeOK
  <1>1. WorkflowInv => TypeOK
    BY DEF WorkflowInv
  <1>. QED
    BY <1>1, WorkflowInvariant, PTL

\* A finished request has its options, and the other way round.
THEOREM OptionsCorrect == Spec => []OptionsStored
  <1>1. WorkflowInv => OptionsStored
    <2>. SUFFICES ASSUME WorkflowInv, NEW i \in Requests
                  PROVE  /\ rows[i].status \in Finished => rows[i].options
                         /\ rows[i].options => \/ rows[i].status \in Finished
                                               \/ wf[i].cut = "commit unknown"
      BY DEF OptionsStored
    <2>1. rows[i] \in Rows /\ wf[i] \in Goroutines /\ Sound(rows[i], wf[i])
      BY RowTypes DEF WorkflowInv
    <2>. QED
      BY <2>1 DEF Sound, Rows, Goroutines, Finished, Terminal
  <1>. QED
    BY <1>1, WorkflowInvariant, PTL

\* A request nobody works on is in processing for a reason.
THEOREM AbandonedCorrect == Spec => []AbandonedExplained
  <1>1. WorkflowInv => AbandonedExplained
    BY DEF WorkflowInv, AbandonedExplained, Sound
  <1>. QED
    BY <1>1, WorkflowInvariant, PTL

\* A stream that ended has sent the outcome, with the options.
THEOREM StreamsCorrect == Spec => []StreamOutcome
  <1>1. WorkflowInv => StreamOutcome
    BY DEF WorkflowInv, StreamOutcome, Follows, Known
  <1>. QED
    BY <1>1, WorkflowInvariant, PTL

\* An outcome is final.
THEOREM OutcomesFinal == Spec => OutcomeFinal
  <1>1. ASSUME WorkflowInv, [Next]_vars, NEW i \in Requests, rows[i].status \in Terminal
        PROVE  \/ rows'[i] = rows[i]
               \/ wf[i].cut = "commit unknown" /\ rows'[i].status = "failed"
    <2>0. TypeOK
      BY <1>1 DEF WorkflowInv
    <2>1. ASSUME NEW j \in Requests, Goroutine(j)
          PROVE  rows'[i] = rows[i] \/ (wf[i].cut = "commit unknown" /\ rows'[i].status = "failed")
      <3>1. PICK next, h : GoesOn(j, next, h)
        BY <1>1, <2>1, GoroutineStep DEF WorkflowInv
      <3>2. rows'[j] = next /\ \A k \in Requests : k # j => rows'[k] = rows[k]
        BY <2>0, <3>1, GoesOnTypes
      <3>. QED
        BY <1>1, <3>1, <3>2 DEF GoesOn, Succeeds
    <2>2. ASSUME NEW u, NEW personal, NEW prompt, Insert(u, personal, prompt)
          PROVE  rows'[i] = rows[i]
      BY <2>0, <2>2, RowTypes DEF Insert, TypeOK, Requests
    <2>3. ASSUME \/ \E u \in Users, a \in Callers : StartPersonal(a, u) \/ RebuildPersonal(a, u)
                 \/ \E a \in Callers : PersonalFails(a)
                 \/ \E c \in Streams : \/ \E j \in Requests : Open(c, j)
                                       \/ ReadRow(c) \/ ReadOptions(c) \/ StreamEnds(c)
                 \/ Age \/ Crash \/ UNCHANGED vars
          PROVE  rows' = rows
      BY <2>3 DEF StartPersonal, RebuildPersonal, PersonalFails, Open, ReadRow,
                  ReadOptions, StreamEnds, Age, Crash, vars
    <2>. QED
      BY <1>1, <2>1, <2>2, <2>3 DEF Next, Goroutine, CreateSearch, CreatePersonal
  <1>2. WorkflowInv /\ [Next]_vars =>
          [\A i \in Requests :
             rows[i].status \in Terminal =>
               \/ rows'[i] = rows[i]
               \/ wf[i].cut = "commit unknown" /\ rows'[i].status = "failed"]_vars
    BY <1>1
  <1>. QED
    BY <1>2, WorkflowInvariant, PTL DEF Spec, OutcomeFinal

============================================================================
