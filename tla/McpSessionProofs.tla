-------------------------- MODULE McpSessionProofs --------------------------
(***************************************************************************)
(* What holds of the one MCP client for every number of calls, attempts,   *)
(* sessions and faults.                                                    *)
(***************************************************************************)
EXTENDS McpSession, TLAPS

\* A call whose tool changes something and has run it stands before an answer
\* that leads to no further attempt; a result of a tool means that it has run.
RunOnce(r, n) ==
    /\ r.pc \notin {"new", "returned", "failed"} =>
        /\ r.mutating => n <= 1
        /\ r.mutating /\ n > 0 =>
            r.pc = "answered" /\ r.message = "tool" /\ r.reply.status \in {"ok", "broken"}
        /\ r.pc = "answered" /\ r.message = "tool" /\ r.reply.status = "ok" => n >= 1
    /\ r.pc = "returned" => n >= 1

\* An accepted initialize names the session it opened.
Opened(r) ==
    r.pc = "answered" /\ r.message = "initialize" /\ r.reply.status = "ok"
    => r.reply.session # 0

SessionInv ==
    /\ TypeOK
    /\ \A c \in Calls : RunOnce(call[c], executed[c]) /\ Opened(call[c])
    /\ initialized => session # 0

\* The invariant holds of a call that moves to s with n runs of its tool, and of
\* every other call.
CallMoves(c, s, n) ==
    /\ s \in CallStates \cup Ended
    /\ n \in Nat
    /\ RunOnce(s, n)
    /\ Opened(s)
    /\ call' = [call EXCEPT ![c] = s]
    /\ executed' = [executed EXCEPT ![c] = n]

\* What the invariant says of the calls is kept when one of them moves.
LEMMA CallsStep ==
    ASSUME SessionInv, NEW c \in Calls, NEW s, NEW n, CallMoves(c, s, n)
    PROVE  /\ call' \in [Calls -> CallStates \cup Ended]
           /\ executed' \in [Calls -> Nat]
           /\ \A d \in Calls : RunOnce(call'[d], executed'[d]) /\ Opened(call'[d])
<1>. /\ call \in [Calls -> CallStates \cup Ended]
     /\ executed \in [Calls -> Nat]
     /\ \A d \in Calls : RunOnce(call[d], executed[d]) /\ Opened(call[d])
  BY DEF SessionInv, TypeOK
<1>1. \A d \in Calls : /\ call'[d] = IF d = c THEN s ELSE call[d]
                       /\ executed'[d] = IF d = c THEN n ELSE executed[d]
  BY DEF CallMoves
<1>2. call' \in [Calls -> CallStates \cup Ended] /\ executed' \in [Calls -> Nat]
  BY DEF CallMoves
<1>3. ASSUME NEW d \in Calls
      PROVE  RunOnce(call'[d], executed'[d]) /\ Opened(call'[d])
  <2>1. CASE d = c
    BY <1>1, <2>1, Zenon DEF CallMoves
  <2>2. CASE d # c
    BY <1>1, <2>2, Zenon
  <2>. QED  BY <2>1, <2>2
<1>. QED  BY <1>2, <1>3

\* A call that is under way has all the fields of one.
LEMMA UnderWay ==
    ASSUME TypeOK, NEW c \in Calls, call[c].pc \notin {"new", "returned", "failed"}
    PROVE  call[c] \in CallStates
BY DEF TypeOK, Ended

\* What the handshake leaves behind, and the bounds.
RestOK ==
    /\ initialized \in BOOLEAN
    /\ session \in Sessions
    /\ lock \in Calls \cup {"free"}
    /\ live \subseteq 1..born
    /\ born \in Sessions
    /\ faults \in 0..MaxFaults
    /\ expiries \in 0..MaxExpiries
    /\ initialized => session # 0

\* A step of one call keeps the invariant.
LEMMA OneCall ==
    ASSUME SessionInv, NEW c \in Calls, NEW s, NEW n, CallMoves(c, s, n), RestOK'
    PROVE  SessionInv'
<1>1. /\ call' \in [Calls -> CallStates \cup Ended]
      /\ executed' \in [Calls -> Nat]
      /\ \A d \in Calls : RunOnce(call'[d], executed'[d]) /\ Opened(call'[d])
  BY CallsStep
<1>. QED  BY <1>1 DEF SessionInv, TypeOK, RestOK

\* So does a step in which one call moves and no tool is run.
LEMMA QuietCall ==
    ASSUME SessionInv, NEW c \in Calls, NEW s \in CallStates \cup Ended,
           RunOnce(s, executed[c]), Opened(s),
           call' = [call EXCEPT ![c] = s], UNCHANGED executed, RestOK'
    PROVE  SessionInv'
<1>1. executed[c] \in Nat /\ executed' = [executed EXCEPT ![c] = executed[c]]
  BY DEF SessionInv, TypeOK
<1>. QED  BY <1>1, OneCall, Zenon DEF CallMoves

\* Before an attempt of a call that changes something its tool has not run,
\* unless an answer says so.
LEMMA NotRun ==
    ASSUME SessionInv, NEW c \in Calls, call[c] \in CallStates, call[c].mutating,
           ~(call[c].pc = "answered" /\ call[c].message = "tool"
             /\ call[c].reply.status \in {"ok", "broken"})
    PROVE  executed[c] = 0
BY DEF SessionInv, TypeOK, RunOnce, CallStates

\* The first attempt of a message is a state of the call it belongs to.
LEMMA MessageType ==
    ASSUME TypeOK, NEW c \in Calls, call[c] \in CallStates, NEW m \in Messages
    PROVE  /\ Message(c, m) \in CallStates
           /\ Message(c, m).pc = "ready"
           /\ Message(c, m).mutating <=> call[c].mutating
<1>1. 1 \in 1..MaxAttempts
  BY BoundsAssumption
<1>. QED  BY <1>1 DEF Message, CallStates

\* A call that comes to an attempt keeps the invariant if its tool may still run.
LEMMA AttemptSound ==
    ASSUME NEW s \in CallStates, NEW n \in Nat, s.pc # "answered", s.mutating => n = 0
    PROVE  RunOnce(s, n) /\ Opened(s)
BY DEF RunOnce, Opened, CallStates

\* An answer keeps the invariant if it tells whether the tool has run, and which
\* session was opened.
LEMMA AnswerSound ==
    ASSUME NEW s \in CallStates, NEW n \in Nat, s.pc = "answered",
           s.mutating => n <= 1,
           s.mutating /\ n > 0 => s.message = "tool" /\ s.reply.status \in {"ok", "broken"},
           s.message = "tool" /\ s.reply.status = "ok" => n >= 1,
           s.message = "initialize" /\ s.reply.status = "ok" => s.reply.session # 0
    PROVE  RunOnce(s, n) /\ Opened(s)
BY DEF RunOnce, Opened

----------------------------------------------------------------------------
(* The actions.                                                            *)

\* Start, Enter, Renew and Send keep the invariant.
LEMMA CallSteps ==
    ASSUME SessionInv, NEW c \in Calls, Start(c) \/ Enter(c) \/ Renew(c) \/ Send(c)
    PROVE  SessionInv'
<1>. TypeOK /\ executed[c] \in Nat
  BY DEF SessionInv, TypeOK
<1>r. RestOK
  BY DEF SessionInv, TypeOK, RestOK
<1>1. CASE Start(c)
  <2>1. PICK mutating \in BOOLEAN :
            call' = [call EXCEPT ![c] =
                        [pc |-> "enter", message |-> "initialize",
                         mutating |-> mutating, attempt |-> 1, carried |-> 0,
                         reply |-> NoReply, renewed |-> FALSE]]
    BY <1>1 DEF Start
  <2>. DEFINE s == [pc |-> "enter", message |-> "initialize",
                    mutating |-> mutating, attempt |-> 1, carried |-> 0,
                    reply |-> NoReply, renewed |-> FALSE]
  <2>2. s \in CallStates
    BY BoundsAssumption DEF CallStates, Messages, Sessions
  <2>3. RunOnce(s, 0) /\ Opened(s)
    BY DEF RunOnce, Opened
  <2>4. CallMoves(c, s, 0)
    BY <1>1, <2>1, <2>2, <2>3 DEF CallMoves, Start
  <2>5. RestOK'
    BY <1>r, <1>1 DEF RestOK, Start, client, server, bounds
  <2>. HIDE DEF s
  <2>. QED  BY <2>4, <2>5, OneCall
<1>2. CASE Enter(c)
  <2>1. call[c] \in CallStates /\ call[c].pc = "enter"
    BY <1>2, UnderWay DEF Enter
  <2>2. PICK m \in {"initialize", "tool"} : call' = [call EXCEPT ![c] = Message(c, m)]
    BY <1>2 DEF Enter
  <2>3. RunOnce(Message(c, m), executed[c]) /\ Opened(Message(c, m)) /\ Message(c, m) \in CallStates
    BY <2>1, NotRun, MessageType, AttemptSound DEF Messages
  <2>4. RestOK'
    BY <1>r, <1>2 DEF RestOK, Enter, server, bounds
  <2>. QED  BY <1>2, <2>2, <2>3, <2>4, QuietCall DEF Enter
<1>3. CASE Renew(c)
  <2>. DEFINE s == [Message(c, "initialize") EXCEPT !.renewed = TRUE]
  <2>1. call[c] \in CallStates /\ call[c].pc = "renew"
    BY <1>3, UnderWay DEF Renew
  <2>2. s \in CallStates /\ s.pc = "ready" /\ (s.mutating <=> call[c].mutating)
    BY <2>1, MessageType DEF Messages, CallStates
  <2>3. RunOnce(s, executed[c]) /\ Opened(s)
    BY <2>1, <2>2, NotRun, AttemptSound
  <2>4. RestOK'
    <3>1. ~initialized' /\ initialized' \in BOOLEAN /\ session' = 0
      BY <1>3, Zenon DEF Renew
    <3>2. /\ lock' \in Calls \cup {"free"}
          /\ live' \subseteq 1..born' /\ born' \in Sessions
          /\ faults' \in 0..MaxFaults /\ expiries' \in 0..MaxExpiries
      BY <1>r, <1>3 DEF RestOK, Renew, server, bounds, Sessions
    <3>3. 0 \in Sessions
      BY BoundsAssumption DEF Sessions
    <3>. QED  BY <3>1, <3>2, <3>3, Zenon DEF RestOK
  <2>5. call' = [call EXCEPT ![c] = s] /\ UNCHANGED executed
    BY <1>3 DEF Renew
  <2>. HIDE DEF s
  <2>. QED  BY <2>2, <2>3, <2>4, <2>5, QuietCall
<1>4. CASE Send(c)
  <2>. DEFINE s == [call[c] EXCEPT !.pc = "sent", !.carried = session, !.reply = NoReply]
  <2>1. call[c] \in CallStates /\ call[c].pc = "ready"
    BY <1>4, UnderWay DEF Send
  <2>2. s \in CallStates /\ s.pc = "sent" /\ (s.mutating <=> call[c].mutating)
    BY <2>1 DEF CallStates, TypeOK
  <2>3. RunOnce(s, executed[c]) /\ Opened(s)
    BY <2>1, <2>2, NotRun, AttemptSound
  <2>4. RestOK'
    BY <1>r, <1>4 DEF RestOK, Send, client, server, bounds
  <2>5. call' = [call EXCEPT ![c] = s] /\ UNCHANGED executed
    BY <1>4 DEF Send, TypeOK
  <2>. HIDE DEF s
  <2>. QED  BY <2>2, <2>3, <2>4, <2>5, QuietCall
<1>. QED  BY <1>1, <1>2, <1>3, <1>4

\* What the server has done for a request it accepts.
Runs(c) == IF call[c].message = "tool" THEN executed[c] + 1 ELSE executed[c]

\* An accepted initialize is answered with a session, and only an accepted tool
\* is run.
LEMMA Accepted ==
    ASSUME SessionInv, NEW c \in Calls, call[c].pc = "sent",
           NEW id \in Sessions, Accept(c, id)
    PROVE  /\ executed' = [executed EXCEPT ![c] = Runs(c)]
           /\ Runs(c) \in Nat
           /\ live' \subseteq 1..born' /\ born' \in Sessions
           /\ call[c].message = "initialize" => id # 0
<1>. TypeOK /\ executed \in [Calls -> Nat]
  BY DEF SessionInv, TypeOK
<1>1. call[c] \in CallStates
  BY UnderWay
<1>2. live \subseteq 1..born /\ born \in Sessions /\ MaxSessions \in Nat
  BY BoundsAssumption DEF TypeOK
<1>. DEFINE r == call[c]
<1>3. CASE r.message = "initialize" /\ born < MaxSessions /\ born' = born + 1
           /\ live' = live \cup {born'} /\ id = born' /\ UNCHANGED executed
  <2>1. born' \in Sessions /\ live' \subseteq 1..born' /\ id # 0
    BY <1>2, <1>3 DEF Sessions
  <2>. QED  BY <1>3, <2>1 DEF Runs
<1>4. CASE r.message = "initialize" /\ r.carried \in live /\ id = r.carried
           /\ UNCHANGED <<server, executed>>
  <2>1. id # 0
    BY <1>2, <1>4 DEF Sessions
  <2>. QED  BY <1>2, <1>4, <2>1 DEF Runs, server
<1>5. CASE r.message = "initialized" /\ UNCHANGED <<server, executed>>
  BY <1>2, <1>5 DEF Runs, server
<1>6. CASE r.message = "tool" /\ executed' = [executed EXCEPT ![c] = @ + 1] /\ UNCHANGED server
  BY <1>2, <1>6 DEF Runs, server
<1>. QED  BY <1>3, <1>4, <1>5, <1>6, Zenon DEF Accept

\* The call with an answer.
AnswerTo(c, status, id) ==
    [call[c] EXCEPT !.pc = "answered", !.reply = [status |-> status, session |-> id]]

Statuses == {"ok", "not found", "refused", "rejected", "broken"}

\* An answer leaves the call what it is.
LEMMA AnswerFields ==
    ASSUME NEW c \in Calls, call[c] \in CallStates, NEW status \in Statuses, NEW id \in Sessions
    PROVE  /\ AnswerTo(c, status, id) \in CallStates
           /\ AnswerTo(c, status, id).pc = "answered"
           /\ AnswerTo(c, status, id).message = call[c].message
           /\ AnswerTo(c, status, id).reply.status = status
           /\ AnswerTo(c, status, id).reply.session = id
BY DEF AnswerTo, CallStates, Replies, Statuses

\* It changes something if it did before.
LEMMA AnswerMutates ==
    ASSUME NEW c \in Calls, call[c] \in CallStates, NEW status, NEW id,
           AnswerTo(c, status, id).mutating
    PROVE  call[c].mutating
BY DEF AnswerTo, CallStates

\* The server answers, or the answer is lost.
LEMMA ServerSteps ==
    ASSUME SessionInv, NEW c \in Calls,
           Serve(c) \/ TurnAway(c) \/ Reject(c) \/ Break(c)
    PROVE  SessionInv'
<1>. TypeOK /\ executed[c] \in Nat
  BY DEF SessionInv, TypeOK
<1>r. RestOK
  BY DEF SessionInv, TypeOK, RestOK
<1>1. call[c] \in CallStates /\ call[c].pc = "sent"
  BY UnderWay DEF Serve, TurnAway, Reject, Break
<1>2. call[c].mutating => executed[c] = 0
  BY <1>1, NotRun
<1>4. ASSUME NEW status, NEW id, Reply(c, status, id)
      PROVE  call' = [call EXCEPT ![c] = AnswerTo(c, status, id)]
  BY <1>1, <1>4 DEF AnswerTo, Reply, TypeOK
<1>5. 0 \in Sessions
  BY BoundsAssumption DEF Sessions
\* The server has done what it was asked, whether the answer comes or not.
<1>6. ASSUME NEW id \in Sessions, NEW named \in Sessions, NEW status \in {"ok", "broken"},
             Accept(c, id), status = "ok" => named = id,
             Reply(c, status, named)
      PROVE  CallMoves(c, AnswerTo(c, status, named), Runs(c))
  <2>1. /\ executed' = [executed EXCEPT ![c] = Runs(c)]
        /\ Runs(c) \in Nat
        /\ call[c].message = "initialize" => id # 0
    BY <1>1, <1>6, Accepted
  <2>2. status \in Statuses
    BY DEF Statuses
  <2>3. /\ AnswerTo(c, status, named) \in CallStates
        /\ AnswerTo(c, status, named).pc = "answered"
        /\ AnswerTo(c, status, named).message = call[c].message
        /\ AnswerTo(c, status, named).reply.status = status
        /\ AnswerTo(c, status, named).reply.session = named
    BY <1>1, <2>2, AnswerFields
  <2>4. call' = [call EXCEPT ![c] = AnswerTo(c, status, named)]
    BY <1>4, <1>6
  <2>5. /\ call[c].message # "tool" => Runs(c) = executed[c]
        /\ call[c].message = "tool" => Runs(c) = executed[c] + 1
    BY DEF Runs
  <2>6. AnswerTo(c, status, named).mutating => executed[c] = 0
    BY <1>1, <1>2, AnswerMutates
  <2>7. RunOnce(AnswerTo(c, status, named), Runs(c)) /\ Opened(AnswerTo(c, status, named))
    BY <1>6, <2>1, <2>3, <2>5, <2>6, AnswerSound
  <2>. QED  BY <2>1, <2>3, <2>4, <2>7 DEF CallMoves
\* The server has done nothing.
<1>7. ASSUME NEW status \in Statuses, NEW id \in Sessions, status # "ok"
      PROVE  /\ AnswerTo(c, status, id) \in CallStates
             /\ RunOnce(AnswerTo(c, status, id), executed[c])
             /\ Opened(AnswerTo(c, status, id))
  <2>1. /\ AnswerTo(c, status, id) \in CallStates
        /\ AnswerTo(c, status, id).pc = "answered"
        /\ AnswerTo(c, status, id).reply.status = status
    BY <1>1, AnswerFields
  <2>2. AnswerTo(c, status, id).mutating => executed[c] = 0
    BY <1>1, <1>2, AnswerMutates
  <2>. QED  BY <1>7, <2>1, <2>2 DEF RunOnce, Opened
<1>8. CASE Serve(c)
  <2>1. PICK id \in Sessions : Accept(c, id) /\ Reply(c, "ok", id)
    BY <1>8 DEF Serve
  <2>2. CallMoves(c, AnswerTo(c, "ok", id), Runs(c))
    BY <1>6, <2>1
  <2>3. RestOK'
    BY <1>r, <1>1, <1>8, <2>1, Accepted DEF RestOK, Serve, client, bounds
  <2>. QED  BY <2>2, <2>3, OneCall
<1>9. ASSUME NEW status \in Statuses, NEW id \in Sessions, status # "ok",
             Reply(c, status, id), UNCHANGED executed, RestOK'
      PROVE  SessionInv'
  <2>1. call' = [call EXCEPT ![c] = AnswerTo(c, status, id)]
    BY <1>4, <1>9
  <2>. QED  BY <1>7, <1>9, <2>1, QuietCall
<1>10. CASE TurnAway(c)
  <2>1. RestOK' /\ UNCHANGED executed
    BY <1>r, <1>10 DEF RestOK, TurnAway, client, server, bounds
  <2>. QED  BY <1>5, <1>9, <1>10, <2>1 DEF TurnAway, Statuses
<1>11. CASE Reject(c)
  <2>1. RestOK' /\ UNCHANGED executed
    BY <1>r, <1>11, BoundsAssumption DEF RestOK, Reject, Fault, client, server
  <2>. QED  BY <1>5, <1>9, <1>11, <2>1 DEF Reject, Statuses
<1>12. CASE Break(c)
  <2>1. faults' \in 0..MaxFaults /\ UNCHANGED <<client, expiries>>
    BY <1>r, <1>12, BoundsAssumption DEF RestOK, Break, Fault
  <2>2. CASE \E id \in Sessions : Accept(c, id)
    <3>1. PICK id \in Sessions : Accept(c, id)
      BY <2>2
    <3>2. CallMoves(c, AnswerTo(c, "broken", 0), Runs(c))
      BY <1>5, <1>6, <1>12, <3>1 DEF Break
    <3>3. RestOK'
      BY <1>r, <1>1, <2>1, <3>1, Accepted DEF RestOK, client
    <3>. QED  BY <3>2, <3>3, OneCall
  <2>3. CASE UNCHANGED <<executed, server>>
    <3>1. RestOK'
      BY <1>r, <2>1, <2>3 DEF RestOK, client, server
    <3>. QED  BY <1>5, <1>9, <1>12, <2>3, <3>1 DEF Break, Statuses
  <2>. QED  BY <1>12, <2>2, <2>3 DEF Break
<1>. QED  BY <1>8, <1>10, <1>11, <1>12

\* The server ends a session.
LEMMA ExpireStep ==
    ASSUME SessionInv, NEW id \in live, Expire(id)
    PROVE  SessionInv'
BY BoundsAssumption DEF SessionInv, TypeOK, Expire, client

\* A call that ends keeps the invariant if its result comes from its tool.
LEMMA EndMoves ==
    ASSUME SessionInv, NEW c \in Calls, NEW outcome \in {"returned", "failed"}, NEW n \in Nat,
           End(c, outcome), executed' = [executed EXCEPT ![c] = n],
           outcome = "returned" => n >= 1
    PROVE  /\ CallMoves(c, [pc |-> outcome], n)
           /\ lock' \in Calls \cup {"free"}
<1>1. [pc |-> outcome] \in CallStates \cup Ended
  BY DEF Ended
<1>2. RunOnce([pc |-> outcome], n) /\ Opened([pc |-> outcome])
  BY DEF RunOnce, Opened
<1>3. lock' \in Calls \cup {"free"}
  BY DEF End, SessionInv, TypeOK
<1>. QED  BY <1>1, <1>2, <1>3 DEF CallMoves, End

\* A success leaves the client with a session if it had one.
LEMMA SessionType ==
    ASSUME SessionInv, NEW c \in Calls, Answered(c, "ok"), KeepSession(c)
    PROVE  /\ session' \in Sessions
           /\ initialized => session' # 0
           /\ call[c].message = "initialize" => session' # 0
<1>1. call[c] \in CallStates /\ call[c].pc = "answered" /\ call[c].reply.status = "ok"
  BY UnderWay DEF Answered, SessionInv
<1>2. call[c].reply.session \in Sessions
  <2>1. call[c].reply \in Replies \cup {NoReply}
    BY <1>1 DEF CallStates
  <2>2. call[c].reply \in Replies
    BY <1>1, <2>1 DEF NoReply
  <2>. QED  BY <2>2 DEF Replies
<1>3. Opened(call[c]) /\ session \in Sessions /\ (initialized => session # 0)
  BY DEF SessionInv, TypeOK
<1>4. call[c].message = "initialize" => call[c].reply.session # 0
  BY <1>1, <1>3 DEF Opened
<1>. QED  BY <1>2, <1>3, <1>4 DEF KeepSession

\* What a call does with a response, and its end, keep the invariant.
LEMMA ReceiveSteps ==
    ASSUME SessionInv, NEW c \in Calls, Receive(c) \/ Undecoded(c) \/ GiveUp(c)
    PROVE  SessionInv'
<1>. TypeOK /\ executed[c] \in Nat
  BY DEF SessionInv, TypeOK
<1>r. RestOK
  BY DEF SessionInv, TypeOK, RestOK
<1>q. UNCHANGED executed => executed' = [executed EXCEPT ![c] = executed[c]]
  BY DEF TypeOK
<1>1. CASE Introduced(c)
  <2>1. call[c] \in CallStates /\ call[c].pc = "answered" /\ call[c].message = "initialize"
    BY <1>1, UnderWay DEF Introduced, Answered
  <2>2. /\ RunOnce(Message(c, "initialized"), executed[c])
        /\ Opened(Message(c, "initialized"))
        /\ Message(c, "initialized") \in CallStates
    BY <2>1, NotRun, MessageType, AttemptSound DEF Messages
  <2>3. session' \in Sessions /\ session' # 0
    BY <1>1, <2>1, SessionType DEF Introduced
  <2>4. initialized' \in BOOLEAN
    BY <1>1 DEF Introduced
  <2>5. RestOK'
    BY <1>r, <1>1, <2>3, <2>4 DEF RestOK, Introduced, server, bounds
  <2>. QED  BY <1>1, <2>2, <2>5, QuietCall DEF Introduced
<1>2. CASE Notified(c)
  <2>1. call[c] \in CallStates /\ call[c].pc = "answered" /\ call[c].message = "initialized"
    BY <1>2, UnderWay DEF Notified, Answered
  <2>2. /\ RunOnce(Message(c, "tool"), executed[c])
        /\ Opened(Message(c, "tool"))
        /\ Message(c, "tool") \in CallStates
    BY <2>1, NotRun, MessageType, AttemptSound DEF Messages
  <2>3. session' \in Sessions /\ (initialized => session' # 0)
    BY <1>2, SessionType DEF Notified
  <2>4. RestOK'
    BY <1>r, <1>2, <2>3 DEF RestOK, Notified, server, bounds
  <2>. QED  BY <1>2, <2>2, <2>4, QuietCall DEF Notified
<1>3. CASE Done(c)
  <2>1. /\ call[c] \in CallStates /\ call[c].pc = "answered"
        /\ call[c].message = "tool" /\ call[c].reply.status = "ok"
    BY <1>3, UnderWay DEF Done, Answered
  <2>2. executed[c] >= 1
    BY <2>1 DEF SessionInv, RunOnce
  <2>3. session' \in Sessions /\ (initialized => session' # 0)
    BY <1>3, SessionType DEF Done
  <2>4. CallMoves(c, [pc |-> "returned"], executed[c]) /\ lock' \in Calls \cup {"free"}
    BY <1>3, <1>q, <2>2, EndMoves DEF Done
  <2>5. RestOK'
    BY <1>r, <1>3, <2>3, <2>4 DEF RestOK, Done, server, bounds
  <2>. QED  BY <2>4, <2>5, OneCall
<1>4. CASE Retry(c)
  <2>. DEFINE s == [call[c] EXCEPT !.pc = "ready", !.attempt = @ + 1]
  <2>1. call[c] \in CallStates /\ call[c].pc = "answered" /\ Repeatable(c)
    BY <1>4, UnderWay DEF Retry
  <2>2. call[c].attempt + 1 \in 1..MaxAttempts
    BY <1>4, <2>1, BoundsAssumption DEF Retry, CallStates
  <2>3. s \in CallStates /\ s.pc = "ready"
    BY <2>1, <2>2 DEF CallStates
  <2>4. s.mutating => call[c].mutating
    BY <2>1 DEF CallStates
  <2>5. call[c].mutating => executed[c] = 0
    BY <2>1, NotRun DEF Repeatable
  <2>6. call' = [call EXCEPT ![c] = s] /\ UNCHANGED executed
    BY <1>4 DEF Retry, TypeOK
  <2>7. RestOK'
    BY <1>r, <1>4 DEF RestOK, Retry, client, server, bounds
  <2>. HIDE DEF s
  <2>8. s.mutating => executed[c] = 0
    BY <2>4, <2>5
  <2>9. RunOnce(s, executed[c]) /\ Opened(s)
    BY <2>3, <2>8, AttemptSound
  <2>. QED  BY <2>3, <2>6, <2>7, <2>9, QuietCall
<1>5. CASE Expired(c)
  <2>. DEFINE s == [call[c] EXCEPT !.pc = "renew"]
  <2>1. /\ call[c] \in CallStates /\ call[c].pc = "answered"
        /\ call[c].reply.status = "not found"
    BY <1>5, UnderWay DEF Expired, Lapsed, Answered
  <2>2. s \in CallStates /\ s.pc = "renew"
    BY <2>1 DEF CallStates
  <2>3. s.mutating => call[c].mutating
    BY <2>1 DEF CallStates
  <2>4. call[c].mutating => executed[c] = 0
    BY <2>1, NotRun
  <2>5. call' = [call EXCEPT ![c] = s] /\ UNCHANGED executed
    BY <1>5 DEF Expired, TypeOK
  <2>6. RestOK'
    BY <1>r, <1>5 DEF RestOK, Expired, client, server, bounds
  <2>. HIDE DEF s
  <2>7. s.mutating => executed[c] = 0
    BY <2>3, <2>4
  <2>8. RunOnce(s, executed[c]) /\ Opened(s)
    BY <2>2, <2>7, AttemptSound
  <2>. QED  BY <2>2, <2>5, <2>6, <2>8, QuietCall
<1>6. CASE Fails(c)
  <2>1. CallMoves(c, [pc |-> "failed"], executed[c]) /\ lock' \in Calls \cup {"free"}
    BY <1>6, <1>q, EndMoves DEF Fails
  <2>2. RestOK'
    BY <1>r, <1>6, <2>1 DEF RestOK, Fails, server, bounds
  <2>. QED  BY <2>1, <2>2, OneCall
<1>7. CASE Undecoded(c)
  <2>1. CallMoves(c, [pc |-> "failed"], executed[c]) /\ lock' \in Calls \cup {"free"}
    BY <1>7, <1>q, EndMoves DEF Undecoded
  <2>2. session' \in Sessions /\ (initialized => session' # 0)
    BY <1>7, SessionType DEF Undecoded
  <2>3. faults' \in 0..MaxFaults /\ UNCHANGED expiries
    BY <1>r, <1>7, BoundsAssumption DEF RestOK, Undecoded, Fault
  <2>4. RestOK'
    BY <1>r, <1>7, <2>1, <2>2, <2>3 DEF RestOK, Undecoded, server
  <2>. QED  BY <2>1, <2>4, OneCall
<1>8. CASE GiveUp(c)
  <2>1. faults' \in 0..MaxFaults /\ UNCHANGED <<expiries, initialized, session>>
    BY <1>r, <1>8, BoundsAssumption DEF RestOK, GiveUp, Fault
  <2>2. CASE call[c].pc = "sent" /\ \E id \in Sessions : Accept(c, id)
    <3>1. PICK id \in Sessions : Accept(c, id)
      BY <2>2
    <3>2. /\ executed' = [executed EXCEPT ![c] = Runs(c)]
          /\ Runs(c) \in Nat
          /\ live' \subseteq 1..born' /\ born' \in Sessions
      BY <2>2, <3>1, Accepted
    <3>3. CallMoves(c, [pc |-> "failed"], Runs(c)) /\ lock' \in Calls \cup {"free"}
      BY <1>8, <3>2, EndMoves DEF GiveUp
    <3>4. RestOK'
      BY <1>r, <2>1, <3>2, <3>3 DEF RestOK
    <3>. QED  BY <3>3, <3>4, OneCall
  <2>3. CASE UNCHANGED <<executed, server>>
    <3>1. CallMoves(c, [pc |-> "failed"], executed[c]) /\ lock' \in Calls \cup {"free"}
      BY <1>8, <1>q, <2>3, EndMoves DEF GiveUp
    <3>2. RestOK'
      BY <1>r, <2>1, <2>3, <3>1 DEF RestOK, server
    <3>. QED  BY <3>1, <3>2, OneCall
  <2>. QED  BY <1>8, <2>2, <2>3 DEF GiveUp
<1>. QED  BY <1>1, <1>2, <1>3, <1>4, <1>5, <1>6, <1>7, <1>8 DEF Receive

----------------------------------------------------------------------------
(* The theorems.                                                           *)

\* The invariant holds of every state of a behaviour.
THEOREM SessionInvariant == Spec => []SessionInv
<1>1. Init => SessionInv
  <2>. SUFFICES ASSUME Init PROVE SessionInv
    OBVIOUS
  <2>1. \A c \in Calls : call[c] = [pc |-> "new"] /\ executed[c] = 0
    BY DEF Init
  <2>2. [pc |-> "new"] \in Ended /\ RunOnce([pc |-> "new"], 0) /\ Opened([pc |-> "new"])
    BY DEF Ended, RunOnce, Opened
  <2>3. call \in [Calls -> CallStates \cup Ended] /\ executed \in [Calls -> Nat]
    BY <2>2 DEF Init
  <2>4. \A c \in Calls : RunOnce(call[c], executed[c]) /\ Opened(call[c])
    BY <2>1, <2>2, Zenon
  <2>5. /\ session \in Sessions /\ born \in Sessions /\ live \subseteq 1..born
        /\ faults \in 0..MaxFaults /\ expiries \in 0..MaxExpiries
        /\ lock \in Calls \cup {"free"}
    BY BoundsAssumption DEF Init, Sessions
  <2>6. ~initialized /\ initialized \in BOOLEAN
    BY Zenon DEF Init
  <2>. QED  BY <2>3, <2>4, <2>5, <2>6, Zenon DEF SessionInv, TypeOK
<1>2. SessionInv /\ [Next]_vars => SessionInv'
  <2>. SUFFICES ASSUME SessionInv, [Next]_vars PROVE SessionInv'
    OBVIOUS
  <2>1. ASSUME NEW c \in Calls,
               \/ Start(c) \/ Enter(c) \/ Renew(c) \/ Send(c)
               \/ Serve(c) \/ TurnAway(c) \/ Reject(c) \/ Break(c)
               \/ Receive(c) \/ Undecoded(c) \/ GiveUp(c)
        PROVE  SessionInv'
    BY <2>1, CallSteps, ServerSteps, ReceiveSteps
  <2>2. ASSUME NEW id \in live, Expire(id) PROVE SessionInv'
    BY <2>2, ExpireStep
  <2>3. CASE UNCHANGED vars
    BY <2>3 DEF vars, client, server, bounds, SessionInv, TypeOK, RunOnce, Opened
  <2>. QED  BY <2>1, <2>2, <2>3 DEF Next
<1>. QED  BY <1>1, <1>2, PTL DEF Spec

\* Every variable keeps its type: the counters within their bounds, the sessions
\* known to the server among the ones it opened.
THEOREM TypeCorrect == Spec => []TypeOK
<1>1. SessionInv => TypeOK
  BY DEF SessionInv
<1>. QED  BY <1>1, SessionInvariant, PTL

\* A tool that changes something is run at most once per call, however often the
\* transport repeats it and the session is renewed, and a call that returned has
\* run its tool.
THEOREM RunsCorrect == Spec => []ToolRunOnce
<1>1. SessionInv => ToolRunOnce
  BY DEF SessionInv, ToolRunOnce, RunOnce
<1>. QED  BY <1>1, SessionInvariant, PTL

\* A client that is initialized has a session id: no renewal and no late response
\* leaves it sending tools without one.
THEOREM SessionCorrect == Spec => []SessionKept
<1>1. SessionInv => SessionKept
  BY DEF SessionInv, SessionKept
<1>. QED  BY <1>1, SessionInvariant, PTL

============================================================================
