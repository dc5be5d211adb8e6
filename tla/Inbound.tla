------------------------------ MODULE Inbound ------------------------------
(***************************************************************************)
(* The inbound half of the client: RosbridgeClient::listen() decoding a   *)
(* frame and pushing it into the ListenerQueues registered under its      *)
(* topic or service name, the consumer threads of Subscriber and          *)
(* ServiceServer, and ServiceClient::call() polling its queue by id.      *)
(* The rosbridge server is the environment: it sends what it may send to *)
(* this client, including ops the client does not implement and frames   *)
(* that are not JSON.                                                     *)
(***************************************************************************)
EXTENDS Naturals, Sequences, SequencesExt, FiniteSets, Op

CONSTANTS
  Sessions,   \* the Subscriber / ServiceServer / ServiceClient objects
  Kind,       \* Kind[s]: which of the three s is
  Name,       \* Name[s]: its topic or service name (one map for both)
  QueueSize,  \* QueueSize[s]: queue_size_ of its constructor
  Callers,    \* threads calling call() on the ServiceClient, once each;
              \* a caller is also the correlation id of its request
  MaxIn,      \* number of frames the server sends in a behaviour
  Destroyed,  \* the consumers the application destroys in a behaviour
  NoMsg

Subs    == {s \in Sessions : Kind[s] = "Subscriber"}
Servers == {s \in Sessions : Kind[s] = "ServiceServer"}
Clients == {s \in Sessions : Kind[s] = "ServiceClient"}
Consumers == Subs \cup Servers

ASSUME /\ Kind \in [Sessions -> {"Subscriber", "ServiceServer", "ServiceClient"}]
       /\ Callers # {} => Cardinality(Clients) = 1
       /\ MaxIn \in Nat
       /\ Destroyed \subseteq Consumers

\* The ServiceClient the callers share.
Client == CHOOSE s \in Clients : TRUE

\* A frame picojson cannot parse.
Unparsable == "<unparsable>"

\* The id rosbridge gives the call_service requests it forwards.
ServerCallId == "rq"

Names == {Name[s] : s \in Sessions}
InTokens == {"publish", "call_service", "service_response", "status", Unparsable}
InMsgs == [op : InTokens, name : Names \cup {""}, id : Callers \cup {"", ServerCallId},
           result : BOOLEAN, n : 1 .. MaxIn]

\* What the client pushes to its TalkerQueues here: the heads, the
\* ServiceServer's responses and the ServiceClient's requests.
OutMsgs == [s : Sessions, op : {"subscribe", "advertise_service", "_",
                                "service_response", "call_service",
                                "unsubscribe", "unadvertise_service"},
            id : Callers \cup {"", ServerCallId}]
Out(s, op, id) == [s |-> s, op |-> op, id |-> id]
HeadOf(s) ==
  CASE Kind[s] = "Subscriber"    -> Out(s, "subscribe", "")
    [] Kind[s] = "ServiceServer" -> Out(s, "advertise_service", "")
    [] Kind[s] = "ServiceClient" -> Out(s, "_", "")

\* The teardown a consumer's destructor pushes.
TeardownOf(s) ==
  IF Kind[s] = "Subscriber" THEN Out(s, "unsubscribe", "")
                            ELSE Out(s, "unadvertise_service", "")

VARIABLES
  listeners,  \* the ListenerQueues, one per session
  talkers,    \* the TalkerQueues, one per session
  open,       \* the websocket session is open (c.run() is running)
  inCount,    \* frames received so far; numbers the next one
  responded,  \* callers whose request the server has answered
  life,       \* life[s]: consumer s live, in its destructor, or destroyed
  pc,         \* pc[s]: where the consumer thread of s is in its loop
  cur,        \* cur[s]: the Unserializer msg the consumer read by next()
  delivered,  \* delivered[s]: numbers of the messages given to the callback
  callPc,     \* callPc[c]: where caller c is in call()
  callRet     \* callRet[c]: the response call() returned to c

vars == <<listeners, talkers, open, inCount, responded, life, pc, cur, delivered,
          callPc, callRet>>

LQ == INSTANCE ListenerQueue WITH Queues <- Sessions, Msgs <- InMsgs, QSize <- QueueSize
TQ == INSTANCE TalkerQueue WITH Queues <- Sessions, Msgs <- OutMsgs, QSize <- QueueSize,
                                HeadMsg <- [s \in Sessions |-> HeadOf(s)]
TypeOK ==
  /\ LQ!TypeOK
  /\ TQ!TypeOK
  /\ open \in BOOLEAN
  /\ inCount \in 0 .. MaxIn
  /\ responded \subseteq Callers
  /\ life \in [Consumers -> {"live", "stopping", "destroyed"}]
  /\ pc \in [Consumers -> {"poll", "slept", "handle", "exited"}]
  /\ cur \in [Consumers -> InMsgs \cup {NoMsg}]
  /\ delivered \in [Subs -> Seq(1 .. MaxIn)]
  /\ callPc \in [Callers -> {"idle", "polling", "scanning", "returned", "timedout"}]
  /\ callRet \in [Callers -> InMsgs \cup {NoMsg}]

\* After the constructors: every queue attached, every consumer thread
\* started, the websocket session open.
Init ==
  /\ LQ!Init
  /\ TQ!Init
  /\ open = TRUE
  /\ inCount = 0
  /\ responded = {}
  /\ life = [s \in Consumers |-> "live"]
  /\ pc = [s \in Consumers |-> "poll"]
  /\ cur = [s \in Consumers |-> NoMsg]
  /\ delivered = [s \in Subs |-> <<>>]
  /\ callPc = [c \in Callers |-> "idle"]
  /\ callRet = [c \in Callers |-> NoMsg]

(***************************************************************************)
(* Decoding (unserializer.h).                                              *)
(***************************************************************************)

\* The Unserializer constructor: v.get<picojson::object>() throws when the
\* frame did not parse.
Decodes(m) == m.op # Unparsable

\* type(): stringToOP of the "op" field.
TypeOf(m) == StringToOP(m.op)

\* The ops listen() routes, and whether the name accessor it calls
\* (topic() for publish, service() for the two service ops) accepts the op
\* instead of throwing runtime_error.
Routed(op) == op \in {"TopicPublishOp", "ServiceCallOp", "ServiceResponseOp"}
NameReadable(op) ==
  IF op = "TopicPublishOp" THEN IsTopicOP(op) ELSE IsServiceOP(op)

\* listen() throws out of the message handler, so out of c.run().
Throws(m) == ~Decodes(m) \/ (Routed(TypeOf(m)) /\ ~NameReadable(TypeOf(m)))

(***************************************************************************)
(* The server: the frames it may send this client now.                     *)
(***************************************************************************)

Frame(op, name, id, result) ==
  [op |-> op, name |-> name, id |-> id, result |-> result, n |-> inCount + 1]

Arrivals ==
     {Frame("publish", Name[s], "", FALSE) : s \in Subs}
  \cup {Frame("call_service", Name[s], ServerCallId, FALSE) : s \in Servers}
  \cup {Frame("service_response", Name[Client], c, b) :
          c \in {x \in Callers : callPc[x] # "idle"} \ responded, b \in BOOLEAN}
  \cup {Frame("status", "", "", FALSE), Frame(Unparsable, "", "", FALSE)}

(***************************************************************************)
(* listen() and the Connection around it.                                  *)
(***************************************************************************)

\* The message handler runs listen(data) on the websocket thread.  A frame
\* that throws ends c.run(); the exception leaves connect() before
\* on_disconnection and is caught by runner().  A routed op is pushed to
\* every queue of listeners[name]; any other op is logged and dropped.
Receive(m) ==
  /\ open
  /\ inCount < MaxIn
  /\ inCount' = inCount + 1
  /\ responded' = IF TypeOf(m) = "ServiceResponseOp" THEN responded \cup {m.id}
                                                     ELSE responded
  /\ IF Throws(m)
       THEN open' = FALSE /\ UNCHANGED listeners
       ELSE /\ listeners' = IF Routed(TypeOf(m))
                              THEN [l \in Sessions |->
                                      IF Name[l] = m.name
                                        THEN LQ!AfterPush(l, listeners[l], m)
                                        ELSE listeners[l]]
                              ELSE listeners
            /\ UNCHANGED open
  /\ UNCHANGED <<talkers, life, pc, cur, delivered, callPc, callRet>>

\* runner(): after the catch, loop and connect again.
Reconnect ==
  /\ ~open
  /\ open' = TRUE
  /\ UNCHANGED <<listeners, talkers, inCount, responded, life, pc, cur, delivered,
                 callPc, callRet>>

(***************************************************************************)
(* The consumer threads (Subscriber::listener, ServiceServer::listener).   *)
(* The loop tests shutdown_requested, then sleeps, then polls the queue.   *)
(* While the consumer is live, the test and the sleep touch nothing the   *)
(* other threads see, so they are merged into the next step; pc "slept"   *)
(* is a thread that passed the test just before the destructor set the    *)
(* flag.  empty() and next() are one step too: only this thread pops, so  *)
(* a queue found non-empty stays non-empty until next().                   *)
(***************************************************************************)

ConsumerVarsUnchanged == UNCHANGED <<open, inCount, responded, life, callPc, callRet>>

\* Faulty variant of LoopCheck whose while condition ignores the flag.
LoopCheckNoExit(s) ==
  /\ pc[s] = "poll"
  /\ life[s] # "live"
  /\ pc' = [pc EXCEPT ![s] = "slept"]
  /\ UNCHANGED <<listeners, talkers, cur, delivered>>
  /\ ConsumerVarsUnchanged

\* while (not shutdown_requested) finds the flag set: the thread ends.
LoopCheck(s) ==
  /\ pc[s] = "poll"
  /\ life[s] # "live"
  /\ pc' = [pc EXCEPT ![s] = "exited"]
  /\ UNCHANGED <<listeners, talkers, cur, delivered>>
  /\ ConsumerVarsUnchanged

\* After the sleep the queue is empty: back to the loop test.
ConsumerIdle(s) ==
  /\ pc[s] = "slept"
  /\ LQ!IsEmpty(s)
  /\ pc' = [pc EXCEPT ![s] = "poll"]
  /\ UNCHANGED <<listeners, talkers, cur, delivered>>
  /\ ConsumerVarsUnchanged

\* Test passed, sleep, empty() false, next().
ConsumerNext(s) ==
  /\ \/ pc[s] = "poll" /\ life[s] = "live"
     \/ pc[s] = "slept"
  /\ ~LQ!IsEmpty(s)
  /\ pc' = [pc EXCEPT ![s] = "handle"]
  /\ cur' = [cur EXCEPT ![s] = LQ!NextMsg(s)]
  /\ UNCHANGED <<listeners, talkers, delivered>>
  /\ ConsumerVarsUnchanged

\* Back to the top of the loop after pop().
ConsumerDone(s) ==
  /\ LQ!Pop(s)
  /\ pc' = [pc EXCEPT ![s] = "poll"]
  /\ cur' = [cur EXCEPT ![s] = NoMsg]

\* Subscriber: callback(msg.payload()), then pop().
SubDeliver(s) ==
  /\ pc[s] = "handle"
  /\ delivered' = [delivered EXCEPT ![s] = Append(@, cur[s].n)]
  /\ ConsumerDone(s)
  /\ UNCHANGED talkers
  /\ ConsumerVarsUnchanged

\* ServiceServer: the callback returns, the response carrying msg.id() is
\* pushed to the TalkerQueue, then pop().
SrvRespond(s) ==
  /\ pc[s] = "handle"
  /\ TQ!Push(s, Out(s, "service_response", cur[s].id))
  /\ ConsumerDone(s)
  /\ UNCHANGED delivered
  /\ ConsumerVarsUnchanged

\* Faulty variant of SrvCallbackFails with pop() inside the try block.
SrvCallbackFailsKeeps(s) ==
  /\ pc[s] = "handle"
  /\ pc' = [pc EXCEPT ![s] = "poll"]
  /\ cur' = [cur EXCEPT ![s] = NoMsg]
  /\ UNCHANGED <<listeners, talkers, delivered>>
  /\ ConsumerVarsUnchanged

\* ServiceServer: the callback throws, catch (...) swallows it, then pop().
SrvCallbackFails(s) ==
  /\ pc[s] = "handle"
  /\ ConsumerDone(s)
  /\ UNCHANGED <<talkers, delivered>>
  /\ ConsumerVarsUnchanged

ConsumerStep(s) ==
  \/ LoopCheck(s)
  \/ ConsumerIdle(s)
  \/ ConsumerNext(s)
  \/ s \in Subs /\ SubDeliver(s)
  \/ s \in Servers /\ (SrvRespond(s) \/ SrvCallbackFails(s))

(***************************************************************************)
(* ~Subscriber and ~ServiceServer on the application thread.               *)
(***************************************************************************)

\* shutdown_requested = true, then the teardown is pushed to the
\* TalkerQueue; the consumer thread may be anywhere in its loop.
\* A thread at the top of its loop may already have passed the test.
DestroyBegin(s) ==
  /\ s \in Destroyed
  /\ life[s] = "live"
  /\ life' = [life EXCEPT ![s] = "stopping"]
  /\ TQ!Push(s, TeardownOf(s))
  /\ \E p \in IF pc[s] = "poll" THEN {"poll", "slept"} ELSE {pc[s]} :
       pc' = [pc EXCEPT ![s] = p]
  /\ UNCHANGED <<listeners, open, inCount, responded, cur, delivered,
                 callPc, callRet>>

\* listener_thread.join() returns once the loop has seen the flag; then
\* both queues are abandoned.  They stay in RosbridgeClient, and listen()
\* keeps pushing into the ListenerQueue.
DestroyEnd(s) ==
  /\ life[s] = "stopping"
  /\ pc[s] = "exited"
  /\ life' = [life EXCEPT ![s] = "destroyed"]
  /\ LQ!Abandon(s)
  /\ TQ!Abandon(s)
  /\ UNCHANGED <<open, inCount, responded, pc, cur, delivered, callPc, callRet>>

(***************************************************************************)
(* ServiceClient::call() on the thread of caller c.                        *)
(***************************************************************************)

CallVarsUnchanged == UNCHANGED <<open, inCount, responded, life, pc, cur, delivered>>

\* Build the request with a fresh id and push it to the TalkerQueue.
CallRequest(c) ==
  /\ callPc[c] = "idle"
  /\ TQ!Push(Client, Out(Client, "call_service", c))
  /\ callPc' = [callPc EXCEPT ![c] = "polling"]
  /\ UNCHANGED <<listeners, callRet>>
  /\ CallVarsUnchanged

\* Inside the deadline: sleep, then nextById starts its find_if over the
\* list, without the queue's mutex.
CallScan(c) ==
  /\ callPc[c] = "polling"
  /\ callPc' = [callPc EXCEPT ![c] = "scanning"]
  /\ UNCHANGED <<listeners, talkers, callRet>>
  /\ CallVarsUnchanged

\* The scan ends: a match whose result() is true is returned, otherwise
\* the loop goes round.  The list is read as it is now.
CallScanEnd(c) ==
  /\ callPc[c] = "scanning"
  /\ LET q == listeners[Client].q
         i == LQ!FindById(q, c)
     IN  IF i # 0 /\ q[i].result
           THEN /\ callPc' = [callPc EXCEPT ![c] = "returned"]
                /\ callRet' = [callRet EXCEPT ![c] = q[i]]
           ELSE /\ callPc' = [callPc EXCEPT ![c] = "polling"]
                /\ UNCHANGED callRet
  /\ UNCHANGED <<listeners, talkers>>
  /\ CallVarsUnchanged

\* The while condition finds the deadline passed: return the empty optional.
CallTimeout(c) ==
  /\ callPc[c] = "polling"
  /\ callPc' = [callPc EXCEPT ![c] = "timedout"]
  /\ UNCHANGED <<listeners, talkers, callRet>>
  /\ CallVarsUnchanged

CallStep(c) == CallScan(c) \/ CallScanEnd(c) \/ CallTimeout(c)

Next ==
  \/ \E m \in Arrivals : Receive(m)
  \/ Reconnect
  \/ \E s \in Consumers : ConsumerStep(s) \/ DestroyBegin(s) \/ DestroyEnd(s)
  \/ \E c \in Callers : CallRequest(c) \/ CallStep(c)

\* The consumer threads loop every 10 ms and call() loops every 5 ms until
\* its deadline, so each keeps taking steps while it can; a destructor
\* blocked in join() returns once the thread has ended.  The server, the
\* network and the callers' decision to call get no fairness.
Fairness ==
  /\ \A s \in Consumers : WF_vars(ConsumerStep(s)) /\ WF_vars(DestroyEnd(s))
  /\ \A c \in Callers : WF_vars(CallStep(c))

Spec == Init /\ [][Next]_vars /\ Fairness

(***************************************************************************)
(* Properties.                                                             *)
(***************************************************************************)

\* Subscriber::listener hands messages to the callback in the order
\* listen() received them, none twice (spec 5: "one at a time, in arrival
\* order"), whatever evictions happen while a callback runs.
SubscriberFifo ==
  \A s \in Subs : \A i, j \in 1 .. Len(delivered[s]) :
    i < j => delivered[s][i] < delivered[s][j]

\* Once the server stops sending, every Subscriber and ServiceServer
\* consumer thread empties its ListenerQueue and goes back to polling, also
\* when service callbacks keep throwing.
ConsumersDrain ==
  <>[](\A s \in Consumers :
         life[s] = "live" => LQ!IsEmpty(s) /\ pc[s] \in {"poll", "slept"})

\* A destructor of a Subscriber or ServiceServer returns: its consumer
\* thread sees shutdown_requested at the top of its loop and ends, so
\* join() returns, whatever the thread was doing when the flag was set.
DestructorReturns ==
  \A s \in Consumers : life[s] = "stopping" ~> life[s] = "destroyed"

\* The teardown a destructor pushed stays in the TalkerQueue (spec 3: the
\* destructor pushes the unadvertise/unsubscribe so that the server
\* forgets the session); nothing the session does afterwards removes it.
TeardownQueued ==
  \A s \in Consumers :
    life[s] # "live" => \E i \in 1 .. Len(talkers[s].q) : talkers[s].q[i] = TeardownOf(s)

\* The pop() at the end of a consumer iteration removes the message that
\* next() handed to the callback (queues.h: one producer and one consumer
\* make the queue safe), so no message is dropped unseen while an older
\* one is handled.
ConsumerPopsWhatItRead ==
  [][\A s \in Consumers :
       pc[s] = "handle" /\ pc'[s] = "poll" => cur[s] = LQ!NextMsg(s)]_vars

\* The ServiceServer runs its callback and pushes a service_response only
\* for call_service requests (spec 5).
ServerAnswersOnlyCalls ==
  [][\A s \in Servers : SrvRespond(s) => TypeOf(cur[s]) = "ServiceCallOp"]_vars

=============================================================================
