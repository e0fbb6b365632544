----------------------------- MODULE McpSession -----------------------------
(***************************************************************************)
(* The one MCP client of a process, shared by all its goroutines: the      *)
(* handshake under its mutex, the session id any response may set, the     *)
(* retries of the transport, and the renewal of an expired session.        *)
(*                                                                         *)
(* A call is a goroutine in Client.call.  It sends up to three messages,   *)
(* initialize, initialized and its tool, each in some attempts; an attempt *)
(* reads the session id there is, and its response comes back whenever.    *)
(*                                                                         *)
(* The server is external.  It answers 404 to a session it does not know,  *)
(* which is what the client takes for an expired session, and refuses a    *)
(* tool without one.  The end of the process (Close) is left out.          *)
(***************************************************************************)
EXTENDS Naturals, FiniteSets

CONSTANTS
    Calls,
    MaxAttempts,    \* RetryPolicy.MaxAttempts
    MaxSessions,    \* bound on the sessions the server opens
    MaxFaults,      \* bound on failing responses and contexts that end
    MaxExpiries     \* bound on the sessions the server ends

ASSUME BoundsAssumption ==
    /\ MaxAttempts \in Nat \ {0}
    /\ MaxSessions \in Nat
    /\ MaxFaults \in Nat
    /\ MaxExpiries \in Nat

VARIABLES
    initialized,    \* Client.initialized
    session,        \* Streamable.sessionID, 0 for the empty one
    lock,           \* holder of Client.handshake
    call,           \* local state of each call
    executed,       \* how often the server ran the tool of a call (history)
    live,           \* sessions the server knows
    born,           \* how many it opened
    faults, expiries

client == <<initialized, session, lock>>
server == <<live, born>>
bounds == <<faults, expiries>>
vars == <<client, call, executed, server, bounds>>

Sessions == 0..MaxSessions
Messages == {"initialize", "initialized", "tool"}
Replies == [status: {"ok", "not found", "refused", "rejected", "broken"},
            session: Sessions]
NoReply == [status |-> "none", session |-> 0]

\* carried: the session id in the headers of the attempt.  renewed: the call
\* has been through the renewal.
CallStates == [pc: {"enter", "renew", "ready", "sent", "answered"},
               message: Messages, mutating: BOOLEAN, attempt: 1..MaxAttempts,
               carried: Sessions, reply: Replies \cup {NoReply},
               renewed: BOOLEAN]
Ended == [pc: {"new", "returned", "failed"}]

TypeOK ==
    /\ initialized \in BOOLEAN
    /\ session \in Sessions
    /\ lock \in Calls \cup {"free"}
    /\ call \in [Calls -> CallStates \cup Ended]
    /\ executed \in [Calls -> Nat]
    /\ live \subseteq 1..born
    /\ born \in Sessions
    /\ faults \in 0..MaxFaults
    /\ expiries \in 0..MaxExpiries

Init ==
    /\ initialized = FALSE
    /\ session = 0
    /\ lock = "free"
    /\ call = [c \in Calls |-> [pc |-> "new"]]
    /\ executed = [c \in Calls |-> 0]
    /\ live = {}
    /\ born = 0
    /\ faults = 0
    /\ expiries = 0

----------------------------------------------------------------------------

\* The first attempt of a message.
Message(c, m) == [call[c] EXCEPT !.pc = "ready", !.message = m, !.attempt = 1,
                                 !.reply = NoReply]

\* The call ends, and with it its hold of the handshake.
End(c, outcome) ==
    /\ call' = [call EXCEPT ![c] = [pc |-> outcome]]
    /\ lock' = IF lock = c THEN "free" ELSE lock

Fault ==
    /\ faults < MaxFaults
    /\ faults' = faults + 1
    /\ UNCHANGED expiries

Start(c) ==
    /\ call[c] \in Ended
    /\ \E mutating \in BOOLEAN :
        call' = [call EXCEPT ![c] =
                    [pc |-> "enter", message |-> "initialize",
                     mutating |-> mutating, attempt |-> 1, carried |-> 0,
                     reply |-> NoReply, renewed |-> FALSE]]
    /\ executed' = [executed EXCEPT ![c] = 0]
    /\ UNCHANGED <<client, server, bounds>>

\* Initialize: under the mutex, only the first call shakes hands.
Enter(c) ==
    /\ call[c].pc = "enter"
    /\ lock = "free"
    /\ IF initialized
       THEN lock' = lock /\ call' = [call EXCEPT ![c] = Message(c, "tool")]
       ELSE lock' = c /\ call' = [call EXCEPT ![c] = Message(c, "initialize")]
    /\ UNCHANGED <<initialized, session, executed, server, bounds>>

\* Mutant of Renew: the session is reset by a call that waits for the mutex.
RenewUnlocked(c) ==
    /\ call[c].pc = "renew"
    /\ session' = 0
    /\ IF lock = "free"
       THEN /\ lock' = c
            /\ initialized' = FALSE
            /\ call' = [call EXCEPT ![c] = [Message(c, "initialize")
                                            EXCEPT !.renewed = TRUE]]
       ELSE UNCHANGED <<lock, initialized, call>>
    /\ UNCHANGED <<executed, server, bounds>>

\* The session has expired: under the mutex it is reset and the handshake is
\* made again, also if another call has just done so.
Renew(c) ==
    /\ call[c].pc = "renew"
    /\ lock = "free"
    /\ lock' = c
    /\ initialized' = FALSE
    /\ session' = 0
    /\ call' = [call EXCEPT ![c] = [Message(c, "initialize")
                                    EXCEPT !.renewed = TRUE]]
    /\ UNCHANGED <<executed, server, bounds>>

\* attempt: the headers carry the session id there is now.
Send(c) ==
    /\ call[c].pc = "ready"
    /\ call' = [call EXCEPT ![c].pc = "sent", ![c].carried = session,
                            ![c].reply = NoReply]
    /\ UNCHANGED <<client, executed, server, bounds>>

----------------------------------------------------------------------------
(* The server.                                                             *)

Reply(c, status, id) ==
    call' = [call EXCEPT ![c].pc = "answered",
                         ![c].reply = [status |-> status, session |-> id]]

\* What the server does for a request it accepts: it opens a session, runs a
\* tool, or takes note.  id is the session of its answer, 0 if not named.
Accept(c, id) ==
    LET r == call[c] IN
    \/ /\ r.message = "initialize" /\ r.carried = 0
       /\ born < MaxSessions
       /\ born' = born + 1 /\ live' = live \cup {born'} /\ id = born'
       /\ UNCHANGED executed
    \/ /\ r.message = "initialize" /\ r.carried \in live
       /\ id = r.carried
       /\ UNCHANGED <<server, executed>>
    \/ /\ r.message = "initialized" /\ r.carried \in live
       /\ id \in {0, r.carried}
       /\ UNCHANGED <<server, executed>>
    \/ /\ r.message = "tool" /\ r.carried \in live
       /\ id \in {0, r.carried}
       /\ executed' = [executed EXCEPT ![c] = @ + 1]
       /\ UNCHANGED server

Serve(c) ==
    /\ call[c].pc = "sent"
    /\ \E id \in Sessions : Accept(c, id) /\ Reply(c, "ok", id)
    /\ UNCHANGED <<client, bounds>>

\* The session is unknown, or there is none where one is needed.
TurnAway(c) ==
    LET r == call[c] IN
    /\ r.pc = "sent"
    /\ \/ r.carried \notin live \cup {0} /\ Reply(c, "not found", 0)
       \/ r.carried = 0 /\ r.message # "initialize" /\ Reply(c, "refused", 0)
    /\ UNCHANGED <<client, executed, server, bounds>>

\* 429 or 503: nothing was done.
Reject(c) ==
    /\ call[c].pc = "sent"
    /\ Reply(c, "rejected", 0)
    /\ Fault
    /\ UNCHANGED <<client, executed, server>>

\* Another 5xx, or no response: the server may have done it or not.
Break(c) ==
    /\ call[c].pc = "sent"
    /\ \/ \E id \in Sessions : Accept(c, id)
       \/ UNCHANGED <<executed, server>>
    /\ Reply(c, "broken", 0)
    /\ Fault
    /\ UNCHANGED client

Expire(s) ==
    /\ s \in live
    /\ expiries < MaxExpiries
    /\ live' = live \ {s}
    /\ expiries' = expiries + 1
    /\ UNCHANGED <<client, call, executed, born, faults>>

----------------------------------------------------------------------------
(* The response.                                                           *)

Answered(c, status) ==
    call[c].pc = "answered" /\ call[c].reply.status = status

\* A session id in the headers of a success is kept, whoever asked and when.
KeepSession(c) ==
    session' = IF call[c].reply.session = 0 THEN session
               ELSE call[c].reply.session

\* initialized is set before the server is notified.
Introduced(c) ==
    /\ Answered(c, "ok") /\ call[c].message = "initialize"
    /\ KeepSession(c)
    /\ initialized' = TRUE
    /\ call' = [call EXCEPT ![c] = Message(c, "initialized")]
    /\ UNCHANGED <<lock, executed, server, bounds>>

\* The handshake is complete; the call goes on to its tool.
Notified(c) ==
    /\ Answered(c, "ok") /\ call[c].message = "initialized"
    /\ KeepSession(c)
    /\ lock' = "free"
    /\ call' = [call EXCEPT ![c] = Message(c, "tool")]
    /\ UNCHANGED <<initialized, executed, server, bounds>>

Done(c) ==
    /\ Answered(c, "ok") /\ call[c].message = "tool"
    /\ KeepSession(c)
    /\ End(c, "returned")
    /\ UNCHANGED <<initialized, executed, server, bounds>>

\* The headers are there and the body is not, or is no result.  A
\* notification has no body to read.
Undecoded(c) ==
    /\ Answered(c, "ok") /\ call[c].message # "initialized"
    /\ KeepSession(c)
    /\ End(c, "failed")
    /\ Fault
    /\ UNCHANGED <<initialized, executed, server>>

\* Mutant of Repeatable: every failed attempt is repeated.
RepeatableAlways(c) == call[c].reply.status \in {"rejected", "broken"}

\* retryable: a mutating tool only if the server said it did nothing.
Repeatable(c) ==
    \/ call[c].reply.status = "rejected"
    \/ /\ call[c].reply.status = "broken"
       /\ call[c].message # "tool" \/ ~call[c].mutating

\* Mutant of Retry: one attempt too many.
RetryOnceMore(c) ==
    /\ call[c].pc = "answered"
    /\ Repeatable(c)
    /\ call[c].attempt <= MaxAttempts
    /\ call' = [call EXCEPT ![c].pc = "ready", ![c].attempt = @ + 1]
    /\ UNCHANGED <<client, executed, server, bounds>>

\* do: the next attempt, after a delay.
Retry(c) ==
    /\ call[c].pc = "answered"
    /\ Repeatable(c)
    /\ call[c].attempt < MaxAttempts
    /\ call' = [call EXCEPT ![c].pc = "ready", ![c].attempt = @ + 1]
    /\ UNCHANGED <<client, executed, server, bounds>>

\* ErrSessionExpired: a 404, and there is a session id now.
Lapsed(c) == Answered(c, "not found") /\ session # 0

\* Only the first sending of the tool leads to a renewal.
Expired(c) ==
    /\ Lapsed(c)
    /\ call[c].message = "tool" /\ ~call[c].renewed
    /\ call' = [call EXCEPT ![c].pc = "renew"]
    /\ UNCHANGED <<client, executed, server, bounds>>

\* Mutant of Fails: a handshake that failed is tried again and again.
FailsAgain(c) ==
    /\ call[c].pc = "answered" /\ call[c].reply.status # "ok"
    /\ ~(Repeatable(c) /\ call[c].attempt < MaxAttempts)
    /\ ~(Lapsed(c) /\ call[c].message = "tool" /\ ~call[c].renewed)
    /\ IF call[c].message = "tool" THEN End(c, "failed")
       ELSE /\ lock' = "free"
            /\ call' = [call EXCEPT ![c] = [Message(c, "initialize")
                                            EXCEPT !.pc = "enter"]]
    /\ UNCHANGED <<initialized, session, executed, server, bounds>>

\* Any other error ends the call; initialized and the id stay as they are.
Fails(c) ==
    /\ call[c].pc = "answered" /\ call[c].reply.status # "ok"
    /\ ~(Repeatable(c) /\ call[c].attempt < MaxAttempts)
    /\ ~(Lapsed(c) /\ call[c].message = "tool" /\ ~call[c].renewed)
    /\ End(c, "failed")
    /\ UNCHANGED <<initialized, session, executed, server, bounds>>

\* The context of the call ends, in the delay before an attempt or while the
\* server may be at it; the mutex does not look at it.
GiveUp(c) ==
    /\ \/ call[c].pc = "sent" /\ \E id \in Sessions : Accept(c, id)
       \/ call[c].pc \in {"ready", "sent"} /\ UNCHANGED <<executed, server>>
    /\ End(c, "failed")
    /\ Fault
    /\ UNCHANGED <<initialized, session>>

----------------------------------------------------------------------------

Receive(c) ==
    \/ Introduced(c)
    \/ Notified(c)
    \/ Done(c)
    \/ Retry(c)
    \/ Expired(c)
    \/ Fails(c)

Next ==
    \/ \E c \in Calls :
        \/ Start(c)
        \/ Enter(c)
        \/ Renew(c)
        \/ Send(c)
        \/ Serve(c)
        \/ TurnAway(c)
        \/ Reject(c)
        \/ Break(c)
        \/ Receive(c)
        \/ Undecoded(c)
        \/ GiveUp(c)
    \/ \E s \in live : Expire(s)

\* What a call does when nothing goes wrong, and after something did.
Progress(c) ==
    Start(c) \/ Enter(c) \/ Renew(c) \/ Send(c) \/ Serve(c) \/ TurnAway(c) \/ Receive(c)

\* Calls come again and again; goroutines are scheduled, Go's mutex does not
\* starve a waiter, and every request is answered or times out.
Fairness == \A c \in Calls : SF_vars(Progress(c))

Spec == Init /\ [][Next]_vars /\ Fairness

----------------------------------------------------------------------------
(* Properties.                                                             *)

\* A tool that changes something is run at most once per call, through all
\* attempts, renewals and lost responses, and a call that returned has run its
\* tool.
ToolRunOnce ==
    \A c \in Calls :
        /\ call[c].pc \notin {"new", "returned", "failed"} /\ call[c].mutating
            => executed[c] <= 1
        /\ call[c].pc = "returned" => executed[c] >= 1

\* While nobody shakes hands, a client that is initialized has a session id:
\* concurrent renewals never leave it sending tools without one.
SessionKept ==
    initialized /\ lock = "free" => session # 0

\* Every call ends, also those that wait for the mutex behind a handshake that
\* fails.
CallsEnd ==
    \A c \in Calls : call[c] \notin Ended ~> call[c] \in Ended

\* infra/tutumcp/README.md:32: the handshake is repeated by itself when the
\* session is lost.  Once the server ends no more sessions and no more
\* responses fail, some call returns its result again and again.
HandshakeRepeats ==
    []<>(\E c \in Calls : call[c].pc = "returned")

=============================================================================
