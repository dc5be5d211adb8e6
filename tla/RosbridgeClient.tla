--------------------------- MODULE RosbridgeClient ---------------------------
(***************************************************************************)
(* The outbound path of the client: session objects push into their       *)
(* TalkerQueue, the talk() timer thread of RosbridgeClient drains every    *)
(* attached TalkerQueue into Connection::send(), and the open handler of   *)
(* every new websocket session resets all TalkerQueues so that their head  *)
(* (advertise/subscribe/...) is sent again.                                *)
(*                                                                         *)
(* Threads and what they run:                                              *)
(*   - the talker_timer thread: talk() every 5 ms (rosbridgeclient.cpp)    *)
(*     - TalkPassEnd, TalkSkip, TalkPeek, TalkSend, TalkPop;               *)
(*   - the Connection runner thread (connection.h): Connect, the open      *)
(*     handler resetTalkers() one queue at a time (ResetNext), and the     *)
(*     transport closing (Drop);                                           *)
(*   - the application threads: Create, Publish, Call, Respond, Destroy.   *)
(* The remote rosbridge server is reduced to what it has registered for   *)
(* this client in the current websocket session.                          *)
(***************************************************************************)
EXTENDS Naturals, Sequences, SequencesExt, FiniteSets

CONSTANTS
  Sessions,   \* the Publisher/Subscriber/ServiceServer/ServiceClient objects
  Kind,       \* Kind[s]: the class of session s
  QueueSize,  \* QueueSize[s]: capacity of the TalkerQueue of s
  MaxPush,    \* bound on the messages one session pushes
  MaxEpoch,   \* bound on the websocket sessions opened
  NoMsg       \* talk()'s local copy of next() before the first call

Kinds == {"Publisher", "Subscriber", "ServiceServer", "ServiceClient"}

ASSUME /\ Kind \in [Sessions -> Kinds]
       /\ QueueSize \in [Sessions -> Nat \ {0}]
       /\ MaxPush \in Nat /\ MaxEpoch \in Nat \ {0}

(***************************************************************************)
(* Messages.  The op field is the wire token std::to_string(OP) writes     *)
(* (op.cpp); n numbers the messages a session pushes, 0 for its head.      *)
(* Payloads, ids, topic and type strings are left out.                     *)
(***************************************************************************)
InvalidToken == "_"

\* The head each constructor gives its TalkerQueue.
HeadOp(k) ==
  CASE k = "Publisher"     -> "advertise"
    [] k = "Subscriber"    -> "subscribe"
    [] k = "ServiceServer" -> "advertise_service"
    [] k = "ServiceClient" -> InvalidToken

\* The message each destructor pushes before abandoning its queues.
TeardownOp(k) ==
  CASE k = "Publisher"     -> "unadvertise"
    [] k = "Subscriber"    -> "unsubscribe"
    [] k = "ServiceServer" -> "unadvertise_service"

HasTeardown(k) == k # "ServiceClient"

Ops == {"advertise", "unadvertise", "subscribe", "unsubscribe", "publish",
        "advertise_service", "unadvertise_service", "call_service",
        "service_response", InvalidToken}

Msgs == [s : Sessions, op : Ops, n : 0 .. MaxPush + 1]

Msg(s, op, n) == [s |-> s, op |-> op, n |-> n]

\* What the rosbridge server does with a message it receives: a head
\* registers the session (advertise, subscribe, advertise_service), a
\* teardown removes it, anything else leaves the registrations alone.
RegisterOps   == {"advertise", "subscribe", "advertise_service"}
UnregisterOps == {"unadvertise", "unsubscribe", "unadvertise_service"}

VARIABLES
  talkers,     \* the TalkerQueue objects
  attached,    \* RosbridgeClient::talkers, in attach order
  life,        \* life[s]: "unborn", "live" or "destroyed"
  pushed,      \* pushed[s]: messages s has pushed after its head
  open,        \* the transport is open: what connection.active() returns
  epoch,       \* websocket sessions opened so far
  resetTodo,   \* queues the running open handler has still to reset()
  talkPc,      \* where the talk thread is inside its loop body
  talkIdx,     \* index of the loop variable t of talk()
  talkEnd,     \* talkers.size() when the current talk() pass started
  talkMsg,     \* the message talk() got from t->next()
  registered,  \* sessions the server has registered in this websocket session
  tornDown     \* sessions whose teardown message reached the server

vars == <<talkers, attached, life, pushed, open, epoch, resetTodo, talkPc,
          talkIdx, talkEnd, talkMsg, registered, tornDown>>

TQ == INSTANCE TalkerQueue
        WITH Queues <- Sessions, QSize <- QueueSize,
             HeadMsg <- [s \in Sessions |-> Msg(s, HeadOp(Kind[s]), 0)]

TypeOK ==
  /\ TQ!TypeOK
  /\ attached \in Seq(Sessions)
  /\ life \in [Sessions -> {"unborn", "live", "destroyed"}]
  /\ pushed \in [Sessions -> 0 .. MaxPush + 1]
  /\ open \in BOOLEAN
  /\ epoch \in 0 .. MaxEpoch
  /\ resetTodo \in Seq(Sessions)
  /\ talkPc \in {"peek", "send", "pop"}
  /\ talkIdx \in 1 .. Cardinality(Sessions) + 1
  /\ talkEnd \in 0 .. Cardinality(Sessions)
  /\ talkMsg \in Msgs \cup {NoMsg}
  /\ registered \subseteq Sessions
  /\ tornDown \subseteq Sessions

Init ==
  /\ TQ!Init
  /\ attached = <<>>
  /\ life = [s \in Sessions |-> "unborn"]
  /\ pushed = [s \in Sessions |-> 0]
  /\ open = FALSE
  /\ epoch = 0
  /\ resetTodo = <<>>
  /\ talkPc = "peek"
  /\ talkIdx = 1
  /\ talkEnd = 0
  /\ talkMsg = NoMsg
  /\ registered = {}
  /\ tornDown = {}

(***************************************************************************)
(* The server receiving message m over the open websocket.                 *)
(***************************************************************************)
ServerReceives(m) ==
  /\ registered' = IF m.op \in RegisterOps THEN registered \cup {m.s}
                   ELSE IF m.op \in UnregisterOps THEN registered \ {m.s}
                   ELSE registered
  /\ tornDown' = IF m.op \in UnregisterOps THEN tornDown \cup {m.s} ELSE tornDown

ServerUnchanged == UNCHANGED <<registered, tornDown>>

TalkVars == <<talkPc, talkIdx, talkEnd, talkMsg>>
ConnVars == <<open, epoch, resetTodo>>
AppVars  == <<attached, life, pushed>>

(***************************************************************************)
(* Application threads: constructing, using and destroying sessions.       *)
(***************************************************************************)

\* The constructor builds the TalkerQueue with its head and attaches it
\* (rb.attach pushes it at the back of RosbridgeClient::talkers).
Create(s) ==
  /\ life[s] = "unborn"
  /\ life' = [life EXCEPT ![s] = "live"]
  /\ attached' = Append(attached, s)
  /\ UNCHANGED <<talkers, pushed, ConnVars, TalkVars, registered, tornDown>>

\* A session pushing one message of kind op into its TalkerQueue.
PushBody(s, op) ==
  /\ life[s] = "live"
  /\ pushed[s] < MaxPush
  /\ TQ!Push(s, Msg(s, op, pushed[s] + 1))
  /\ pushed' = [pushed EXCEPT ![s] = @ + 1]
  /\ UNCHANGED <<attached, life, ConnVars, TalkVars, registered, tornDown>>

\* Publisher::publish()
Publish(s) == Kind[s] = "Publisher" /\ PushBody(s, "publish")

\* ServiceClient::call() pushes the request before polling for its response.
Call(s) == Kind[s] = "ServiceClient" /\ PushBody(s, "call_service")

\* ServiceServer::listener() pushing the response to a request it served.
Respond(s) == Kind[s] = "ServiceServer" /\ PushBody(s, "service_response")

\* The destructors: push the teardown message (none for a ServiceClient),
\* then abandon() the queue.  The queue stays attached.
Destroy(s) ==
  /\ life[s] = "live"
  /\ life' = [life EXCEPT ![s] = "destroyed"]
  /\ IF HasTeardown(Kind[s])
       THEN /\ talkers' = [talkers EXCEPT ![s] =
                 TQ!AfterAbandon(TQ!AfterPush(s, @, Msg(s, TeardownOp(Kind[s]), pushed[s] + 1)))]
            /\ pushed' = [pushed EXCEPT ![s] = @ + 1]
       ELSE /\ TQ!Abandon(s)
            /\ UNCHANGED pushed
  /\ UNCHANGED <<attached, ConnVars, TalkVars, registered, tornDown>>

(***************************************************************************)
(* The Connection runner thread.                                           *)
(***************************************************************************)

\* A websocket session opens: the state becomes open, so active() is true,
\* and the open handler on_connection -> resetTalkers() is entered with a
\* snapshot of the attached queues.  The runner only gets here after the
\* previous c.run() returned, i.e. after the previous handler finished.
Connect ==
  /\ ~open
  /\ resetTodo = <<>>
  /\ epoch < MaxEpoch
  /\ open' = TRUE
  /\ epoch' = epoch + 1
  /\ resetTodo' = attached
  /\ UNCHANGED <<talkers, AppVars, TalkVars, registered, tornDown>>

\* One iteration of resetTalkers(): t->reset() on the next attached queue.
ResetNext ==
  /\ resetTodo # <<>>
  /\ TQ!Reset(Head(resetTodo))
  /\ resetTodo' = Tail(resetTodo)
  /\ UNCHANGED <<open, epoch, AppVars, TalkVars, registered, tornDown>>

\* The session ends (peer or network close, send error, or the pong
\* watchdog closing it): active() turns false and the server drops every
\* registration this client made in that session.
Drop ==
  /\ open
  /\ open' = FALSE
  /\ registered' = {}
  /\ UNCHANGED <<talkers, epoch, resetTodo, AppVars, TalkVars, tornDown>>

(***************************************************************************)
(* The talker_timer thread: one loop iteration of talk() per step group.   *)
(*   for (t : talkers) { if (!active()) break; if (t->empty()) continue;   *)
(*                       send(t->next().serialized()); t->pop(); }         *)
(***************************************************************************)

CurrentQueue == attached[talkIdx]

\* The range-for is over (end reached), or active() is false (break): the
\* pass ends and the timer starts the next one over the current vector.
TalkPassEnd ==
  /\ talkPc = "peek"
  /\ talkIdx > talkEnd \/ ~open
  /\ talkIdx' = 1
  /\ talkEnd' = Len(attached)
  /\ UNCHANGED <<talkers, talkPc, talkMsg, AppVars, ConnVars, registered, tornDown>>

\* Faulty variant of TalkSkip: break instead of continue on an empty queue.
TalkSkipBreak ==
  /\ talkPc = "peek"
  /\ talkIdx <= talkEnd
  /\ open
  /\ TQ!IsEmpty(CurrentQueue)
  /\ talkIdx' = 1
  /\ talkEnd' = Len(attached)
  /\ UNCHANGED <<talkers, talkPc, talkMsg, AppVars, ConnVars, registered, tornDown>>

\* active() holds and t->empty(): continue with the next queue.
TalkSkip ==
  /\ talkPc = "peek"
  /\ talkIdx <= talkEnd
  /\ open
  /\ TQ!IsEmpty(CurrentQueue)
  /\ talkIdx' = talkIdx + 1
  /\ UNCHANGED <<talkers, talkPc, talkEnd, talkMsg, AppVars, ConnVars, registered, tornDown>>

\* active() holds and the queue is not empty: t->next().
TalkPeek ==
  /\ talkPc = "peek"
  /\ talkIdx <= talkEnd
  /\ open
  /\ ~TQ!IsEmpty(CurrentQueue)
  /\ talkMsg' = TQ!NextMsg(CurrentQueue)
  /\ talkPc' = "send"
  /\ UNCHANGED <<talkers, talkIdx, talkEnd, AppVars, ConnVars, registered, tornDown>>

\* Connection::send() with the session still open: the server gets it.
TalkSend ==
  /\ talkPc = "send"
  /\ open
  /\ ServerReceives(talkMsg)
  /\ talkPc' = "pop"
  /\ UNCHANGED <<talkers, talkIdx, talkEnd, talkMsg, AppVars, ConnVars>>

\* Connection::send() after the session closed: it returns early (or the
\* send throws and is caught), and the message is gone all the same.
TalkSendLost ==
  /\ talkPc = "send"
  /\ ~open
  /\ talkPc' = "pop"
  /\ UNCHANGED <<talkers, talkIdx, talkEnd, talkMsg, AppVars, ConnVars, registered, tornDown>>

\* t->pop(), then on to the next queue.
TalkPop ==
  /\ talkPc = "pop"
  /\ TQ!Pop(CurrentQueue)
  /\ talkIdx' = talkIdx + 1
  /\ talkPc' = "peek"
  /\ talkMsg' = NoMsg
  /\ UNCHANGED <<talkEnd, AppVars, ConnVars, registered, tornDown>>

TalkStep == TalkPassEnd \/ TalkSkip \/ TalkPeek \/ TalkSend \/ TalkSendLost \/ TalkPop

Next ==
  \/ \E s \in Sessions : Create(s) \/ Publish(s) \/ Call(s) \/ Respond(s) \/ Destroy(s)
  \/ Connect \/ ResetNext \/ Drop
  \/ TalkStep

\* The talker_timer thread runs talk() forever, and the open handler runs
\* to its end on the runner thread: both are weakly fair.  Connecting,
\* dropping and the application get no fairness.
Fairness == WF_vars(TalkStep) /\ WF_vars(ResetNext)

Spec == Init /\ [][Next]_vars /\ Fairness

-----------------------------------------------------------------------------
(***************************************************************************)
(* Properties.                                                             *)
(***************************************************************************)

\* Backlog drains: once the websocket stays open, talk() eventually empties
\* every attached TalkerQueue and keeps them empty.
AllDrained == \A i \in 1 .. Len(attached) : TQ!IsEmpty(attached[i])

Drains == (<>[]open) => <>[]AllDrained

\* Spec 4.4/8: the head is replayed before anything else after a
\* reconnect, so the server has a session registered whenever it receives
\* one of its publishes, responses or teardowns.
SentWhileRegistered ==
  [][TalkSend /\ talkMsg.n > 0 /\ Kind[talkMsg.s] # "ServiceClient"
       => talkMsg.s \in registered]_vars

\* Spec 1: every live publisher, subscriber and service server re-announces
\* itself after every reconnect: if the websocket stays open, it ends up
\* registered at the server.
Reannounced ==
  \A s \in Sessions :
    Kind[s] # "ServiceClient" =>
      ((<>[](open /\ life[s] = "live")) => <>[](s \in registered))

\* Spec 3/4.5: a destroyed Publisher, Subscriber or ServiceServer pushes its
\* teardown (unadvertise, unsubscribe, unadvertise_service) as its last
\* message; if the websocket stays open, the server eventually gets it.
TeardownDelivered ==
  \A s \in Sessions :
    HasTeardown(Kind[s]) => ((<>[]open) => [](life[s] = "destroyed" => <>(s \in tornDown)))

\* A destroyed session whose teardown reached the server is not registered
\* again: its queue is orphaned and no longer speaks for it.
DestroyedStaysUnregistered == \A s \in tornDown : s \notin registered
=============================================================================
