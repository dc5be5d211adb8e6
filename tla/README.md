# TLA+ models of rosbridge_client_cpp

These modules model the concurrency of the rosbridge client library in
`src/` (headers in `src/include/rosbridge_client_cpp/`, code in `src/src/`).
The client keeps a websocket open to a rosbridge server. It buffers outgoing
messages in per-session queues and replays each session's "head" message
(advertise, subscribe, ...) after every reconnect.

## The system

| Part | Source | State | Operations | Threads that touch it |
|---|---|---|---|---|
| TalkerQueue | `queues.h` 33-81, `queues.cpp` 21-62 | `head_popped`, body `std::queue q` bounded by `q_size`, `orphan` | push (evicts the oldest entries beyond `q_size`), pop, next, empty, reset, abandon, isOrphan; each under the queue's mutex | the application (push, abandon), the talk timer (empty/next/pop), the websocket open handler (reset) |
| ListenerQueue | `queues.h` 84-110, `queues.cpp` 75-113 | bounded `std::list` of inbound messages | push (evicting), next, pop, empty, nextById, popById (**without** the mutex) | the websocket thread (push), the Subscriber/ServiceServer listener threads, ServiceClient::call |
| RosbridgeClient | `rosbridgeclient.h`, `rosbridgeclient.cpp` | vector of talkers, map of listeners, the Connection, a 5 ms Timer | attach, talk() (every 5 ms), listen() (message handler), resetTalkers() (open handler) | the application, the timer thread, the websocket thread |
| Connection | `connection.h` | websocketpp client, `active` predicate, ping/pong timestamps | runner() loop: connect, run, on_disconnection, sleep 1 s; send() drops the message if the session is not open; ping/pong watchdog | a detached runner thread |
| Publisher / Subscriber / ServiceServer / ServiceClient | `publisher.cpp`, `subscriber.cpp`, `serviceserver.cpp`, `serviceclient.cpp` | one TalkerQueue each (head: advertise / subscribe / advertise_service / the Invalid placeholder), a ListenerQueue for the last three | constructor attaches, publish / call push, destructor pushes the teardown (unadvertise, unsubscribe, unadvertise_service; none for ServiceClient) and abandons; listener threads consume inbound messages | the application, their own listener thread |
| Op codec, Serializer, Unserializer | `op.cpp`, `serializer.h`, `unserializer.h` | none | OP to wire token, JSON building and parsing | all |
| Utilities | `utils.h`, `utils.cpp` | Timer, Pinger | periodic callback, HTTP ping | timer threads |
| cpprest variant | `rosbridge_client.hpp/.cpp` | a separate, unfinished client | `send` and `poll` are empty stubs | none |

How they interact. Outbound, an application thread pushes into a
TalkerQueue. The talk() timer drains every attached queue in order:

```
for t: if (!active()) break; if (t->empty()) continue; send(t->next()); t->pop();
```

Each of `empty`, `next` and `pop` takes the lock separately. `send` returns
without sending if the websocket session is not open. When websocketpp opens a
session, it first marks the session open and then calls the open handler,
`resetTalkers()`, which resets every talker so that its head is sent again.
Inbound, listen() decodes each message and pushes it into the ListenerQueue
for its topic or service.

## Modules

- **`TalkerQueue.tla`** models the TalkerQueue.
  - Its variable `talkers` maps every queue to its record `[head_popped, q, orphan]`.
  - Each method is one atomic step, because each holds the queue's mutex. `Evict` is the while loop of push().
  - Value operators (`NextMsg`, `IsEmpty`, `IsOrphan`) and record transformers (`AfterPush`, `AfterPop`, ...) let a composing module chain calls within one step of the caller.
- **`RosbridgeClient.tla`** composes the TalkerQueues (by `INSTANCE TalkerQueue`) with the session objects, the Connection and talk(). Its variables:
  - `attached`: the talkers vector.
  - `life[s]`: whether the session is unborn, live or destroyed.
  - `pushed[s]`: the count of bodies pushed, which numbers messages.
  - `open` and `epoch`: the websocket state and the session count.
  - `resetTodo`: the talkers the open handler still has to reset.
  - The talk loop's program counter and locals: `talkPc`, `talkIdx`, `talkEnd`, `talkMsg`.
  - The server's view: `registered` (sessions whose head it received and that are not torn down) and `tornDown`.
- **`RosbridgeClient.tla`'s actions** map to the code as follows:
  - `Create` is the session constructor and `attach`.
  - `Publish`, `Call` and `Respond` are pushes.
  - `Destroy` is the destructor: push the teardown, then abandon, in one step, as the destructor runs before anyone else can observe the object.
  - `Connect` is the runner reaching `state=open`.
  - `ResetNext` is one iteration of `resetTalkers()`.
  - `Drop` is the session closing. The server forgets every registration.
  - talk() is split at every lock boundary:
    - `TalkPassEnd`: the end of a pass, or the `break` when the session is not active;
    - `TalkSkip`: `empty()` returned true;
    - `TalkPeek`: `next()`;
    - `TalkSend` / `TalkSendLost`: `send()` while the session is open or closed;
    - `TalkPop`: `pop()`.
- **`MCRosbridgeClient.tla`** gives the session kinds and capacities for TLC. The Publisher gets its default capacity 1; the other sessions get capacity 2. The Subscriber's real capacity is 10, but 2 already exercises eviction.

Messages are records `[s, op, n]`. `n` is 0 for the head and otherwise numbers
the pushes, so a message can be told from the one it replaced. Payloads, ids
and JSON text are abstracted away. Rosbridge itself is outside the repository;
it is modelled only as the `registered` and `tornDown` sets that the
properties read.

- **`Op.tla`** holds the codec of `op.cpp` as operators:
  - `OPs` is the enum; `OpToString` is `std::to_string`;
  - `StringToOP` is `stringToOP` (its if-else chain is the record `Decoded`);
  - `IsTopicOP` and `IsServiceOP` are the two classifiers.
- **`ListenerQueue.tla`** models the inbound queue, with variable `listeners` mapping every queue to `[q, orphan]`.
  - `push` (with its eviction loop `Evict`), `next`, `pop`, `empty` and `abandon` are atomic steps, since each holds the mutex.
  - `FindById` is `nextById`'s `find_if`.
  - `PopById` is `popById`, modelled as the library actually runs it:
    - `remove_if` compacts the non-matching messages to the front;
    - the slots after the new end keep their old values, because Unserializer has no move assignment;
    - `erase(iter)` removes one element there. `PopByIdDefined` is false when nothing matches, since `erase(end())` is undefined.
- **`Inbound.tla`** composes a ListenerQueue and a TalkerQueue per session (both by `INSTANCE`) with `listen()` and the inbound threads:
  - `Receive(m)` is `listen()`. It decodes the frame. An unparsable frame, or a name accessor called on the wrong op, throws and ends the session (`open` becomes FALSE). Publish, call_service and service_response are pushed into every queue registered under the frame's name. Any other op is dropped.
  - `Reconnect` is the runner's catch and loop.
  - `ConsumerNext` is `empty()` plus `next()`. They are merged into one step, because only this thread pops.
  - `SubDeliver` is the Subscriber callback plus `pop()`.
  - `SrvRespond` and `SrvCallbackFails` are the ServiceServer callback returning (a response is pushed) or throwing, each followed by `pop()`.
  - `CallRequest`, `CallScan` / `CallScanEnd` and `CallTimeout` are `ServiceClient::call`. `nextById` takes no lock, so its traversal spans two steps.
  - The rosbridge server is the environment (`Arrivals`). It may send:
    - publishes to subscribed topics;
    - call_service to advertised services;
    - one service_response, with either result, to each request made;
    - "status" frames, and frames that are not JSON.
  - `MaxIn` bounds the number of frames.
  - Destruction of the Subscriber and ServiceServer (`subscriber.cpp` 37-49, `serviceserver.cpp` 39-51) is two steps. `life[s]` is live, stopping or destroyed.
    - `DestroyBegin` stores the shutdown flag, pushes the teardown (unsubscribe / unadvertise_service) into the talker queue and begins the join. It is enabled for the sessions in the constant `Destroyed`.
    - `LoopCheck` is the listener loop's `while (!shutdown_requested)` test seeing the flag. `DestroyEnd` is the join returning, followed by `abandon()` of both queues.
    - The flag is tested before the 10 ms sleep. A thread past the test when the flag is stored still handles one more message. For a live consumer the test and the sleep are merged into `ConsumerNext`. `DestroyBegin` chooses whether the thread was caught before the test (`pc = "poll"`) or after it (`pc = "slept"`). `ConsumerIdle` is the sleep ending on an empty queue.
- **`Watchdog.tla`** models the ping/pong watchdog of `Connection::connect` (`connection.h` 138-181) across the runner loop.
  - Time is counted in timer periods (1000 ms). The stamps `time_last_ping` and `time_last_pong` are kept as their ages `now - stamp` (`pingAge`, `pongAge`), so time stays finite and liveness stays checkable: `Tick` adds one to both, a stamp sets its age to 0.
  - `Ping` is `handler_ping`: `c.ping()` throws unless the session is open, and the catch skips the stamp. `Pong` is `handler_pong`. `Check` is `handler_ping_pong_check`: close when `time_last_ping - time_last_pong` (`Gap`) exceeds `max_ping_pong_interval`.
  - `Tick` is one period of the two Timer threads (`utils.cpp` 76-84). Each has run its handler once, the open and close handshakes (1000 and 500 ms) have ended, and a live server's pong has arrived.
  - `Opened`, `ConnectFailed`, `Closed` and `Dropped` are the websocketpp state changes. `Reconnect` is the return from `connect()` (the Timers' destructors stop and join them) and the next `connect()` with fresh stamps.
  - `PeerDies` is a server that stops answering without closing TCP. `ClockJump(j)` is the wall clock being set: `high_resolution_clock` is `system_clock` in libstdc++, so both ages move by `j`.
- **`ClientLifetime.tla`** models the lifetime of a `RosbridgeClient` against the two threads it starts. These are the talk thread of `talker_timer` and the detached runner of its `Connection`, which also runs the websocket handlers.
  - Memory is abstracted to the shared objects, each alive or freed (`alive`):
    - the `listeners` and `talkers` containers;
    - the Connection's callbacks, `active`, `message_sender` and `shutting_down`;
    - the runner's per-iteration locals `c` and `connection` (`"session"`).
  - `activeTo` and `senderTo` record whether `active` and `message_sender` are bound to those locals, which their lambdas capture by reference.
  - Each thread's program counter names the statement it runs next. `TalkUses` and `RunnerUses` give the objects that statement touches.
  - The application thread does `Attach`, then the destructor sequence:
    - `DtorBody` (`rosbridgeclient.cpp` 31-37), after which a handler the runner dispatches is the no-op the body installed (`Dispatch`); a handler already running keeps running the client's own;
    - `FreeListeners`, then `FreeTalkers` (reverse declaration order, `rosbridgeclient.h` 69-72);
    - `TimerStop` and `TimerJoin` (`utils.cpp` 57-67);
    - `ConnectionDtor`, which only sets `shutting_down`;
    - `ConnectionFreed`.
  - The talk thread is `TCheck` (the `_execute` test), `TIter`, `TQuery` (`active()`, `empty()`), `TSend` and `TSleep`.
  - The runner is:
    - `RTop`: the loop test, then `c` constructed and `message_sender` bound;
    - `RConnect`: `active` bound, `c.run()`;
    - `ROpen`, `RMessage` and `RHandled`: the handlers;
    - `RThrow`: `listen()` throwing out of `c.run()`;
    - `RClose` and `RClosed`: lines 175-181;
    - `RReset`: lines 116-117.
  - `attach()` is one atomic step. Its race with `talk()` and `listen()` is undefined behaviour and is not enumerated.
- **`MCInbound.tla`** instantiates Inbound for TLC: the sessions, their names and capacities (1 or 2), and two caller threads.
  - It also states the pure-algorithm checks as constant formulas, which TLC evaluates once: `CodecInverse` over every (token, OP) pair, and `PopByIdUnique` over every list of up to three messages over two ids plus the empty id.
  - The invariants `DecodeInvertsEncode` and `PopByIdRemovesUnique` read them in every state before the first frame.

### Fairness

- `WF_vars(TalkStep)`: talk() runs on a perpetual 5 ms Timer thread (`utils.cpp` 70-85).
- `WF_vars(ResetNext)`: once the open handler is running, it runs to completion.
- No fairness on `Connect`, `Drop` or application actions. The network and the application may do anything or nothing.
- In `Inbound`:
  - WF on each consumer thread (`ConsumerStep`): it loops every 10 ms until shutdown.
  - WF on `DestroyEnd`: `join()` returns once the thread has exited. No fairness on `DestroyBegin`, because the application may never destroy a session.
  - WF on each caller's polling loop (`CallStep`): it loops every 5 ms until its deadline.
  - No fairness on frames, reconnects or the decision to call.
  - A ServiceServer callback may throw forever; nothing forces it to succeed.
- In `Watchdog`:
  - WF on `Ping`, `Check` and `Tick`: the Timer threads loop until their `stop()`, and time passes.
  - WF on `Pong`: the websocket thread runs the pong handler.
  - WF on the handshakes ending and on `Reconnect`: websocketpp enforces the handshake timeouts, and the runner loops.
  - No fairness on the server (`PeerDies`, `Dropped`) or the wall clock.

## Runs

All runs use `MaxEpoch = 2`, so there are two websocket sessions (one reconnect).

| Run | Sessions, bounds | Checks | Result |
|---|---|---|---|
| `outbound_pub_srv` | Publisher (capacity 1) and ServiceServer, `MaxPush = 1` | `TypeOK` (queue within capacity) and `Drains` (if the connection stays open, every queue is eventually empty for good) | passes, about 97k distinct states |
| `outbound_sub_cli` | Subscriber and ServiceClient, `MaxPush = 2` | `Drains` | passes, about 40k distinct states |
| `unregistered_send` | one Publisher | `SentWhileRegistered`: a body message reaches the server only while its head is registered | violated |
| `lost_reannounce` | one Publisher | `Reannounced`: a live session that stays connected is eventually registered | violated |
| `lost_teardown` | one Publisher | `TeardownDelivered`: a destroyed session's teardown eventually reaches the server while connected | violated |
| `resurrected` | one Publisher | `DestroyedStaysUnregistered`: a torn-down session is never registered again | violated |
| `inbound` | Subscriber, ServiceServer (destroyed in some behaviours), ServiceClient with two callers, capacity 2, 4 frames; 13 tokens × 10 OPs and lists of ≤3 messages for the constant checks | `TypeOK`; `SubscriberFifo` (callback sees arrival order, no repeats); `DecodeInvertsEncode` (`stringToOP` is the inverse of `to_string` on valid ops and InvalidOp elsewhere); `PopByIdRemovesUnique` (with one matching message, `nextById` finds it and `popById` removes exactly it, keeping order); `ConsumersDrain` (every live consumer thread empties its queue once frames stop); `DestructorReturns` (a destructor that has stored the flag eventually returns from the join) | passes, about 847k states in 2.5-3 min |
| `consumer_race` | Subscriber, capacity 1 | `ConsumerPopsWhatItRead`: `pop()` removes the message handed to the callback | violated |
| `server_answers_response` | ServiceServer and ServiceClient on one service name | `ServerAnswersOnlyCalls` | violated |
| `teardown_evicted` | one ServiceServer, capacity 1, one frame, destroyed | `TeardownQueued`: once a destructor has pushed the teardown, it stays queued | violated |
| `lifetime` | one Publisher-like session attached before the client is destroyed | `NoUseAfterFree`: no thread runs a statement touching a freed object | violated |
| `watchdog` | `max_ping_pong_interval` = 2 periods, one setting of the wall clock by 3 periods, back or forward | `DeadPeerClosed`: an open session whose server stops answering is eventually closed | passes, about 1k states |

What the violations show:

- **`unregistered_send`**:
  - The talk thread runs in the window where the session is open but the open handler has not reset the heads.
  - A publish left in the queue is therefore sent before the advertise.
- **`lost_reannounce`**:
  - talk() reads the head with `next()` and the session drops.
  - The reconnect's `reset()` lands before talk()'s `pop()`.
  - That pop marks the never-sent head as sent, so the Publisher stays unadvertised for the whole session.
  - The same window duplicates a body message: if talk() has read a publish when the reset lands, it sends the publish, its `pop()` consumes the head flag instead, and the next pass sends the publish again. TLC shows this in 16 states when `Drains` runs beside a property that the server gets each session's bodies in push order and none twice. That property is not kept, since it only restates this finding.
- **`lost_teardown`**:
  - With capacity 1, `~Publisher` pushes the unadvertise, which evicts the publish that talk() has just read.
  - talk() sends the publish, then its `pop()` removes the unadvertise.
- The ServiceClient's placeholder head `{"op":"_"}` (`HeadOp`) is sent on every connection, although spec 6 says the Invalid op never goes on the wire. It shows on the first connection with no interleaving, so no run is spent on it (see the hazard in `PROJECT.json`).
- **`resurrected`**:
  - Orphaned queues are never detached, and `isOrphan()` is never read.
  - `resetTalkers()` therefore replays a destroyed session's advertise after its unadvertise.

- **`consumer_race`**:
  - The Subscriber reads message 1 with `next()`.
  - While its callback runs, message 2 arrives and evicts 1.
  - `pop()` then removes 2, which is never delivered.
  - The ServiceServer loop has the same window, so a request is dropped unanswered.
- **`server_answers_response`**: with a ServiceClient of the same service in the process, the service_response for the client is routed to the ServiceServer too. The server runs its callback and sends a response to a response. The server never checks the op.
- **`teardown_evicted`**:
  - The server thread takes a call and runs its callback.
  - `~ServiceServer` pushes the unadvertise_service and waits in `join()`.
  - The thread then pushes its response into the capacity-1 talker queue, which evicts the unadvertise. The service stays advertised at rosbridge.
- **`lifetime`**:
  - `~RosbridgeClient` frees `listeners` and then `talkers` before `talker_timer`, declared first, is destroyed.
  - The talk thread wakes from its 5 ms sleep, still sees `_execute`, and starts a `talk()` pass over the freed vector.
  - The runner is never joined either. `~Connection` only stores `shutting_down`, which the runner reads again after `c.run()` returns, in freed memory. A message arriving meanwhile runs `on_message_received` of the freed Connection.
  - The model also shows a window in the runner itself. When `listen()` throws out of `c.run()`, lines 178-179 are skipped, so `active` stays bound to the destroyed local `connection` until line 117.
- A frame that is not JSON makes `get<picojson::object>()` throw out of `listen()` and `c.run()`, ending the session without `on_disconnection`, where the spec says decode faults are logged and processing continues. `Inbound` and `ClientLifetime` model the throw (`Throws`, `RThrow`), but no run is spent on it: it shows on the first such frame, and a unit test reaches it.

Each property of a passing run has a mutant in `PROJECT.json` that TLC must find violating it:
- `EvictKeepsOneMore`: an off-by-one in the eviction loop.
- `TalkSkipBreak`: talk() breaking instead of continuing on an empty queue.
- `LoopCheckNoExit`: the listener loop not leaving on the shutdown flag, so the join never returns.
- `DecodedNoUnsubscribe`: `stringToOP` missing an arm.
- `PopByIdInverted`: an inverted `remove_if` predicate.
- `NextMsgBack`: `next()` reading `back()`.
- `SrvCallbackFailsKeeps`: `pop()` inside the `try` block.
- `CheckSwapped`: the pong check subtracting the stamps the other way round.

The `watchdog` run sets the clock by 3 periods, more than
`max_ping_pong_interval`, in either direction, and a dead peer is still
closed. Such a setting also closes a live session. Forward, both ages pass the
limit at once. Back, between a ping and its pong, the pong's stamp is later
than the ping's by 3 periods. TLC shows the backward case in 6 states (open,
ping, set back, pong, check). That is because the code measures intervals with
the wall clock and not `steady_clock`. The project states no passing property
about it: "the check closes only a session whose server stopped answering"
holds only for settings within the limit, which would hide the case, and no run
slot is left to report the violation. It is listed as a hazard
(`connection.h:140`).

The bounds are enough for the questions asked. Two websocket sessions give one
reconnect, which is where every race above lives. One or two pushes fill a
capacity-1 or capacity-2 queue and force eviction. Each counterexample is under
15 steps. The inbound runs have no deadlock check: once the bounded traffic ends, every
thread idles on an empty queue, and each idle poll is a stuttering step.

## Not modelled

- **Refinement.** No abstract specification is shown to be implemented. The natural one is an atomic per-session channel: each session's messages go out in push order, once each, its head first after every reconnect. It is not implemented: `unregistered_send`, `lost_reannounce` (including the duplicate above) and `lost_teardown` are three ways talk()'s unlocked `next()`/`send()`/`pop()` departs from it. A channel weakened until it holds would only restate `TalkerQueue`.

Left out for good:
- A torn read of a timestamp (the stamps are raced between three threads). `Watchdog` treats each read and write as atomic.
- Pinger (HTTP I/O, used nowhere by the library).
- `to_json` and the JSON text (formatting only), and `unique()`: its ids collide only on an equal clock reading and an equal random suffix, a matter of probability. The model gives every caller its own id.
- Which response `call()` returns. It returns only a message found by its own id whose `result` is true; a property saying so would restate that guard. Each model caller calls once, so stale responses of earlier calls never meet a later call.
- ServiceClient responses piling up. `call()` never pops its response, so answered responses accumulate in the ListenerQueue and, past `queue_size`, evict a response another caller still polls for. The inbound run's two single-shot callers never fill the capacity-2 queue, and more calls do not fit beside the other sessions (hazard at `serviceclient.cpp:64`).
- The cpprest `rosbridge_client.cpp`, whose `send` and `poll` are empty stubs. Its Publisher's defaulted move assignment (`rosbridge_client.hpp` 34) overwrites the target without unadvertising its topic, a leak visible from the code alone.
- The tests and examples.
- Outcomes that are undefined behaviour, as the model has no meaningful successor state for them:
  - the reallocation of the talkers vector by a concurrent `attach()` (`ClientLifetime` makes `attach()` atomic);
  - the `std::map` insertion by `attach(ListenerQueue)` racing `listen()`;
  - the runner reassigning the `std::function` members `active` and `message_sender` while the talk thread calls them (each assignment and call is one step);
  - `erase(end())` in `popById` (nothing calls `popById`);
  - the unlocked `nextById` scan racing `push()`. The model lets the scan read the list as it is when the scan ends, which is one outcome of the race; no run checks the race itself.
- A Subscriber callback that throws. The exception escapes the thread and terminates the process.
