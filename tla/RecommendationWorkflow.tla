----------------------- MODULE RecommendationWorkflow -----------------------
(***************************************************************************)
(* A recommendation request from the INSERT of its row to its outcome: the *)
(* goroutine that takes it through the stages, the event streams that show *)
(* its progress, and the handlers that start requests.                     *)
(*                                                                         *)
(* The goroutine works under one context of workflowTimeout, which covers  *)
(* the write of its outcome too.  created_at is drawn just before the      *)
(* INSERT; the model draws it there, so rows are in its order.             *)
(***************************************************************************)
EXTENDS Naturals, Sequences, FiniteSets

CONSTANTS
    Users,
    Callers,        \* handlers in createPersonalized at the same time
    Streams,        \* event streams
    Transport,      \* stageMCPTransport
    Finalize,       \* stageFinalize; AIClassification is stage 1
    DatabaseFails,  \* a write may fail while its context lives
    MaxRequests,    \* bound on the rows
    MaxActivity,    \* bound on the rows and the streams together
    MaxCrashes      \* bound on the crashes of the process

ASSUME StagesAssumption ==
    /\ Finalize \in Nat
    /\ Transport \in 1 .. Finalize - 1

ASSUME BoundsAssumption ==
    /\ MaxRequests \in Nat
    /\ MaxActivity \in Nat
    /\ MaxCrashes \in Nat
    /\ DatabaseFails \in BOOLEAN

VARIABLES
    rows,       \* recommendation_requests with whether options are stored
    wf,         \* the goroutine of each row
    stale,      \* how many rows, the oldest, are past FreshnessHours
    caller,     \* the user whose Latest row did not satisfy a caller
    stream,
    crashes

vars == <<rows, wf, stale, caller, stream, crashes>>

Requests == DOMAIN rows
Finished == {"completed", "partial"}
Terminal == Finished \cup {"blocked", "failed"}
Rows == [user: Users, personal: BOOLEAN, prompt: BOOLEAN, stage: 0..Finalize,
         status: Terminal \cup {"processing"}, options: BOOLEAN]

\* cut: how the goroutine was parted from the database, if it was.
Goroutines == [pc: {"stage", "work", "failing", "off"}, at: 1..Finalize,
               issues: BOOLEAN, live: BOOLEAN,
               cut: {"no", "write lost", "commit unknown", "crashed"}]

\* What a stream sends: status and stage, and the options read after them.
Seen == [status: Terminal \cup {"processing"}, stage: 0..Finalize]
Unsent == [status |-> "none", stage |-> 0]
StreamStates == [pc: {"off", "row", "options", "closed"}, of: 0..MaxRequests,
                 read: Seen \cup {Unsent}, sent: Seen \cup {Unsent},
                 options: BOOLEAN]
NoStream == [pc |-> "off", of |-> 0, read |-> Unsent, sent |-> Unsent,
             options |-> FALSE]

TypeOK ==
    /\ rows \in Seq(Rows) /\ Len(rows) <= MaxRequests
    /\ wf \in Seq(Goroutines) /\ Len(wf) = Len(rows)
    /\ stale \in 0..Len(rows)
    /\ caller \in [Callers -> Users \cup {"none"}]
    /\ stream \in [Streams -> StreamStates]
    /\ \A c \in Streams : stream[c].of <= Len(rows)
    /\ crashes \in 0..MaxCrashes

Init ==
    /\ rows = <<>>
    /\ wf = <<>>
    /\ stale = 0
    /\ caller = [a \in Callers |-> "none"]
    /\ stream = [c \in Streams |-> NoStream]
    /\ crashes = 0

----------------------------------------------------------------------------
(* Starting a request.                                                     *)

\* What there is to follow at the same time, as far as the model goes.
Activity == Len(rows) + Cardinality({c \in Streams : stream[c].pc # "off"})

\* Create: the row is inserted and the goroutine starts.
Insert(u, personal, prompt) ==
    /\ Len(rows) < MaxRequests
    /\ Activity < MaxActivity
    /\ rows' = Append(rows, [user |-> u, personal |-> personal,
                             prompt |-> prompt, stage |-> 0,
                             status |-> "processing", options |-> FALSE])
    /\ wf' = Append(wf, [pc |-> "stage", at |-> 1, issues |-> FALSE,
                         live |-> TRUE, cut |-> "no"])

\* POST /recommendations.
CreateSearch(u) ==
    /\ \E prompt \in BOOLEAN : Insert(u, FALSE, prompt)
    /\ UNCHANGED <<stale, caller, stream, crashes>>

LatestPersonal(u, i) ==
    /\ i \in Requests /\ rows[i].user = u /\ rows[i].personal
    /\ \A j \in Requests : rows[j].user = u /\ rows[j].personal => j <= i

\* The latest personal request is returned instead of starting one.
Current(u) ==
    \E i \in Requests : /\ LatestPersonal(u, i)
                        /\ i > stale
                        /\ rows[i].status \in Finished \cup {"processing"}

\* CreatePersonalized, for the bootstrap and the onboarding: it has read the
\* latest row and will start a request.
StartPersonal(a, u) ==
    /\ caller[a] = "none"
    /\ ~Current(u)
    /\ caller' = [caller EXCEPT ![a] = u]
    /\ UNCHANGED <<rows, wf, stale, stream, crashes>>

\* RebuildPersonalized, on a refresh and after a change of the profile, starts
\* one whatever the latest row is.
RebuildPersonal(a, u) ==
    /\ caller[a] = "none"
    /\ caller' = [caller EXCEPT ![a] = u]
    /\ UNCHANGED <<rows, wf, stale, stream, crashes>>

\* Create, whatever was inserted meanwhile; there is no prompt.
CreatePersonal(a) ==
    /\ caller[a] # "none"
    /\ Insert(caller[a], TRUE, FALSE)
    /\ caller' = [caller EXCEPT ![a] = "none"]
    /\ UNCHANGED <<stale, stream, crashes>>

\* A quota, the settings, the validation or the INSERT ends it.
PersonalFails(a) ==
    /\ caller[a] # "none"
    /\ caller' = [caller EXCEPT ![a] = "none"]
    /\ UNCHANGED <<rows, wf, stale, stream, crashes>>

\* FreshnessHours are over; a workflow takes 45 s at most.
Age ==
    /\ stale < Len(rows)
    /\ wf[stale + 1].pc = "off"
    /\ stale' = stale + 1
    /\ UNCHANGED <<rows, wf, caller, stream, crashes>>

----------------------------------------------------------------------------
(* The goroutine.                                                          *)

others == <<stale, caller, stream, crashes>>

\* A write of goroutine i fails: its context has ended, or the database.
WriteFails(i) == ~wf[i].live \/ DatabaseFails

\* What is left when the goroutine gives up after a write that failed.
Lost(i) == [wf[i] EXCEPT !.pc = "off",
                         !.cut = IF wf[i].live THEN "write lost" ELSE @]

\* updateWorkflowStage: the UPDATE takes effect only while processing.
SetStage(i) ==
    /\ wf[i].pc = "stage" /\ wf[i].live
    /\ rows[i].status = "processing"
    /\ rows' = [rows EXCEPT ![i].stage = wf[i].at]
    /\ wf' = [wf EXCEPT ![i].pc = "work"]
    /\ UNCHANGED others

\* Mutant of StageFails: the error only stops the work.
StageFailsSilently(i) ==
    /\ wf[i].pc = "stage"
    /\ WriteFails(i) \/ rows[i].status # "processing"
    /\ wf' = [wf EXCEPT ![i].pc = "off"]
    /\ UNCHANGED <<rows, others>>

\* Mutant of StageFails: the write is tried again.
StageFailsRetried(i) ==
    /\ wf[i].pc = "stage"
    /\ WriteFails(i) \/ rows[i].status # "processing"
    /\ UNCHANGED <<rows, wf, others>>

StageFails(i) ==
    /\ wf[i].pc = "stage"
    /\ WriteFails(i) \/ rows[i].status # "processing"
    /\ wf' = [wf EXCEPT ![i].pc = "failing"]
    /\ UNCHANGED <<rows, others>>

\* Mutant of WorkDone: the bound of the stages is off by one.
WorkDoneBeyond(i) ==
    /\ wf[i].pc = "work"
    /\ \E issues \in BOOLEAN :
        /\ wf[i].at # Transport => issues = wf[i].issues
        /\ wf' = [wf EXCEPT ![i].pc = "stage", ![i].at = @ + 1,
                            ![i].issues = issues]
    /\ UNCHANGED <<rows, others>>

\* A stage has its result; the transport search may have had issues.  A result
\* that comes after the context ended meets the next stage's write.
WorkDone(i) ==
    /\ wf[i].pc = "work" /\ wf[i].at < Finalize
    /\ \E issues \in BOOLEAN :
        /\ wf[i].at # Transport => issues = wf[i].issues
        /\ wf' = [wf EXCEPT ![i].pc = "stage", ![i].at = @ + 1,
                            ![i].issues = issues]
    /\ UNCHANGED <<rows, others>>

\* An error or an empty result of a stage, invalid settings, or a panic.
WorkFails(i) ==
    /\ wf[i].pc = "work" /\ wf[i].at < Finalize
    /\ wf' = [wf EXCEPT ![i].pc = "failing"]
    /\ UNCHANGED <<rows, others>>

\* Mutant of Block: the workflow goes on.
BlockContinues(i) ==
    /\ wf[i].pc = "work" /\ wf[i].at = 1 /\ wf[i].live
    /\ rows[i].prompt /\ rows[i].status = "processing"
    /\ rows' = [rows EXCEPT ![i].status = "blocked"]
    /\ wf' = [wf EXCEPT ![i].pc = "stage", ![i].at = @ + 1]
    /\ UNCHANGED others

\* The analysis of the prompt found something to block.
Block(i) ==
    /\ wf[i].pc = "work" /\ wf[i].at = 1 /\ wf[i].live
    /\ rows[i].prompt /\ rows[i].status = "processing"
    /\ rows' = [rows EXCEPT ![i].status = "blocked"]
    /\ wf' = [wf EXCEPT ![i].pc = "off"]
    /\ UNCHANGED others

\* The error of that write is ignored.
BlockLost(i) ==
    /\ wf[i].pc = "work" /\ wf[i].at = 1 /\ rows[i].prompt
    /\ WriteFails(i) \/ rows[i].status # "processing"
    /\ wf' = [wf EXCEPT ![i] = Lost(i)]
    /\ UNCHANGED <<rows, others>>

\* The transaction of Complete: the options, and the status whatever it is.
Committed(i) ==
    rows' = [rows EXCEPT
                ![i].options = TRUE,
                ![i].status = IF wf[i].issues THEN "partial" ELSE "completed"]

Complete(i) ==
    /\ wf[i].pc = "work" /\ wf[i].at = Finalize /\ wf[i].live
    /\ Committed(i)
    /\ wf' = [wf EXCEPT ![i].pc = "off"]
    /\ UNCHANGED others

\* Mutant of CompleteFails: the options are inserted outside the transaction.
CompleteFailsHalfway(i) ==
    /\ wf[i].pc = "work" /\ wf[i].at = Finalize
    /\ WriteFails(i)
    /\ rows' = [rows EXCEPT ![i].options = TRUE]
    /\ wf' = [wf EXCEPT ![i].pc = "failing"]
    /\ UNCHANGED others

CompleteFails(i) ==
    /\ wf[i].pc = "work" /\ wf[i].at = Finalize
    /\ WriteFails(i)
    /\ wf' = [wf EXCEPT ![i].pc = "failing"]
    /\ UNCHANGED <<rows, others>>

\* The commit took place and the connection broke before it was confirmed.
CompleteUnconfirmed(i) ==
    /\ wf[i].pc = "work" /\ wf[i].at = Finalize /\ wf[i].live
    /\ DatabaseFails
    /\ Committed(i)
    /\ wf' = [wf EXCEPT ![i].pc = "failing", ![i].cut = "commit unknown"]
    /\ UNCHANGED others

\* failWorkflow: an UPDATE by id alone, under the context of the workflow.
Fail(i) ==
    /\ wf[i].pc = "failing" /\ wf[i].live
    /\ rows' = [rows EXCEPT ![i].status = "failed"]
    /\ wf' = [wf EXCEPT ![i].pc = "off"]
    /\ UNCHANGED others

\* Its error is logged.
FailLost(i) ==
    /\ wf[i].pc = "failing"
    /\ WriteFails(i)
    /\ wf' = [wf EXCEPT ![i] = Lost(i)]
    /\ UNCHANGED <<rows, others>>

\* workflowTimeout is over.
Timeout(i) ==
    /\ wf[i].pc # "off" /\ wf[i].live
    /\ wf' = [wf EXCEPT ![i].live = FALSE]
    /\ UNCHANGED <<rows, others>>

\* The process dies; nothing resumes a workflow.
Crash ==
    /\ crashes < MaxCrashes
    /\ crashes' = crashes + 1
    /\ wf' = [i \in Requests |->
                IF wf[i].pc = "off" THEN wf[i]
                ELSE [wf[i] EXCEPT !.pc = "off", !.cut = "crashed"]]
    /\ caller' = [a \in Callers |-> "none"]
    /\ stream' = [c \in Streams |-> NoStream]
    /\ UNCHANGED <<rows, stale>>

----------------------------------------------------------------------------
(* The event stream.                                                       *)

Open(c, i) ==
    /\ \/ stream[c].pc = "off" /\ Activity < MaxActivity
       \/ stream[c].pc = "closed"
    /\ stream' = [stream EXCEPT ![c] = [NoStream EXCEPT !.pc = "row", !.of = i]]
    /\ UNCHANGED <<rows, wf, stale, caller, crashes>>

\* Get reads the row and, in a statement of its own, the options.
ReadRow(c) ==
    LET i == stream[c].of IN
    /\ stream[c].pc = "row"
    /\ stream' = [stream EXCEPT
                    ![c].pc = "options",
                    ![c].read = [status |-> rows[i].status,
                                 stage |-> rows[i].stage]]
    /\ UNCHANGED <<rows, wf, stale, caller, crashes>>

Closing(c) == IF stream[c].read.status \in Terminal THEN "closed" ELSE "row"

\* Mutant of ReadOptions: an event is sent when the stage changes.
ReadOptionsByStage(c) ==
    LET i == stream[c].of IN
    /\ stream[c].pc = "options"
    /\ stream' = [stream EXCEPT
                    ![c].pc = Closing(c), ![c].read = Unsent,
                    ![c].sent = IF stream[c].read.stage # @.stage
                                THEN stream[c].read ELSE @,
                    ![c].options = IF stream[c].read.stage # stream[c].sent.stage
                                   THEN rows[i].options ELSE @]
    /\ UNCHANGED <<rows, wf, stale, caller, crashes>>

\* An event is sent when status or stage changed; a terminal one is the last.
ReadOptions(c) ==
    LET i == stream[c].of IN
    /\ stream[c].pc = "options"
    /\ stream' = [stream EXCEPT
                    ![c].pc = Closing(c), ![c].read = Unsent,
                    ![c].sent = stream[c].read,
                    ![c].options = IF stream[c].read # stream[c].sent
                                   THEN rows[i].options ELSE @]
    /\ UNCHANGED <<rows, wf, stale, caller, crashes>>

\* The lifetime of the stream is over, Get fails or the client is gone.
StreamEnds(c) ==
    /\ stream[c].pc \in {"row", "options"}
    /\ stream' = [stream EXCEPT ![c] = NoStream]
    /\ UNCHANGED <<rows, wf, stale, caller, crashes>>

----------------------------------------------------------------------------

Work(i) ==
    \/ WorkDone(i)
    \/ WorkFails(i)
    \/ Block(i)
    \/ BlockLost(i)
    \/ Complete(i)
    \/ CompleteFails(i)
    \/ CompleteUnconfirmed(i)

Next ==
    \/ \E u \in Users :
        \/ CreateSearch(u)
        \/ \E a \in Callers : StartPersonal(a, u) \/ RebuildPersonal(a, u)
    \/ \E a \in Callers : CreatePersonal(a) \/ PersonalFails(a)
    \/ \E i \in Requests :
        \/ SetStage(i)
        \/ StageFails(i)
        \/ Work(i)
        \/ Fail(i)
        \/ FailLost(i)
        \/ Timeout(i)
        \/ \E c \in Streams : Open(c, i)
    \/ \E c \in Streams : ReadRow(c) \/ ReadOptions(c) \/ StreamEnds(c)
    \/ Age
    \/ Crash

\* The goroutines are scheduled, the calls they make return (they have a
\* context with a deadline), and time passes.
Fairness ==
    \A i \in 1..MaxRequests :
        /\ WF_vars(i \in Requests /\ (SetStage(i) \/ StageFails(i)))
        /\ WF_vars(i \in Requests /\ Work(i))
        /\ WF_vars(i \in Requests /\ (Fail(i) \/ FailLost(i)))
        /\ WF_vars(i \in Requests /\ Timeout(i))

Spec == Init /\ [][Next]_vars /\ Fairness

----------------------------------------------------------------------------
(* Properties.                                                             *)

\* Options and outcome are stored together: a request shown as completed or
\* partial has its options, and one with options is completed or partial unless
\* the confirmation of that commit was lost.
OptionsStored ==
    \A i \in Requests :
        /\ rows[i].status \in Finished => rows[i].options
        /\ rows[i].options => \/ rows[i].status \in Finished
                              \/ wf[i].cut = "commit unknown"

\* An outcome is final, although Complete and Fail do not look at the status
\* they overwrite: only the failure reported after an unconfirmed commit
\* replaces another outcome.
OutcomeFinal ==
    [][\A i \in Requests :
        rows[i].status \in Terminal =>
            \/ rows'[i] = rows[i]
            \/ wf[i].cut = "commit unknown" /\ rows'[i].status = "failed"]_vars

\* A request is left in processing with nobody working on it only when its
\* context ended before the outcome was written, the process died, or the
\* write of its outcome failed: no branch of the workflow returns silently.
AbandonedExplained ==
    \A i \in Requests :
        rows[i].status = "processing" /\ wf[i].pc = "off" =>
            ~wf[i].live \/ wf[i].cut # "no"

\* A stream that ended of itself has sent the outcome as its last event, a
\* completed or partial one with its options although Get reads them in a
\* second statement, and the row still says so unless the commit of it was
\* unconfirmed.
StreamOutcome ==
    \A c \in Streams : stream[c].pc = "closed" =>
        LET i == stream[c].of IN
        /\ stream[c].sent.status \in Terminal
        /\ stream[c].sent.status \in Finished => stream[c].options
        /\ \/ stream[c].sent.status = rows[i].status
           \/ wf[i].cut = "commit unknown"

\* Every goroutine comes to its end, whatever the calls and writes return.
WorkflowEnds ==
    \A i \in 1..MaxRequests :
        (i \in Requests /\ wf[i].pc # "off")
            ~> (i \in Requests /\ wf[i].pc = "off")

\* README.md:288: the workflow goes on without the client and the result is in
\* the database in any case.
ResultLands ==
    \A i \in 1..MaxRequests :
        (i \in Requests) ~> (i \in Requests /\ rows[i].status \in Terminal)

============================================================================
