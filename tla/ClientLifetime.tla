--------------------------- MODULE ClientLifetime ---------------------------
(***************************************************************************)
(* The lifetime of a RosbridgeClient and the two threads it starts: the    *)
(* talk thread of talker_timer (utils.cpp 70-85 running talk()) and the    *)
(* detached runner thread of its Connection (connection.h 45, 101-181),    *)
(* which also runs the websocket handlers inside c.run().  The third       *)
(* thread is the application's: it attaches the queues of its sessions    *)
(* and then destroys the client, which runs ~RosbridgeClient and destroys *)
(* the members in reverse declaration order (rosbridgeclient.h 69-72):    *)
(* listeners, talkers, talker_timer (stop and join), connection.          *)
(*                                                                         *)
(* Memory is abstracted to the objects the threads share, each alive or   *)
(* freed.  A thread's program counter names the statement it executes     *)
(* next, and Uses gives the objects that statement touches; the std::     *)
(* function members active and message_sender touch, besides themselves,  *)
(* the runner's locals (c, connection) their lambdas capture by reference.*)
(***************************************************************************)
EXTENDS FiniteSets

CONSTANTS
  Sessions   \* the sessions the application constructs before it destroys the client

\* The shared objects: the two containers of RosbridgeClient, the three
\* callbacks of Connection, its active and message_sender functions, its
\* shutting_down flag, and the locals of one iteration of runner().
Objects == {"listeners", "talkers", "callbacks", "active", "sender", "flag", "session"}

\* The members of Connection, freed when the connection member is destroyed.
ConnectionMembers == {"callbacks", "active", "sender", "flag"}

VARIABLES
  alive,      \* the objects not yet freed
  attached,   \* the sessions whose queues attach() has registered
  appPc,      \* the application thread
  execute,    \* talker_timer._execute
  flag,       \* connection.shutting_down
  tPc,        \* the talk thread
  pass,       \* the talkers the current talk() pass has still to visit
  rPc,        \* the runner thread
  open,       \* the websocket session of the runner is open
  activeTo,   \* what connection.active calls: "default" or the runner's locals
  senderTo    \* what connection.message_sender calls: likewise

vars == <<alive, attached, appPc, execute, flag, tPc, pass, rPc, open, activeTo, senderTo>>

Bindings == {"default", "session"}

TypeOK ==
  /\ alive \subseteq Objects
  /\ attached \subseteq Sessions
  /\ appPc \in {"run", "members", "talkers", "timer", "join", "connection", "freed", "gone"}
  /\ execute \in BOOLEAN /\ flag \in BOOLEAN
  /\ tPc \in {"check", "talk", "query", "send", "sleep", "exited"}
  /\ pass \subseteq Sessions
  /\ rPc \in {"top", "connect", "running", "onconn", "onmsg", "noop", "closed", "reset", "exited"}
  /\ open \in BOOLEAN
  /\ activeTo \in Bindings /\ senderTo \in Bindings

\* The objects a call through a std::function reaches.
Target(f) == IF f = "session" THEN {"session"} ELSE {}

\* The objects the next statement of each thread touches.
TalkUses ==
  CASE tPc = "talk"  -> {"talkers"}
    [] tPc = "query" -> {"active"} \cup Target(activeTo)
    [] tPc = "send"  -> {"active", "sender"} \cup Target(activeTo) \cup Target(senderTo)
    [] OTHER         -> {}

RunnerUses ==
  CASE rPc = "top"     -> {"flag", "sender"}
    [] rPc = "connect" -> {"session", "active"}
    [] rPc = "running" -> {"session"}
    [] rPc = "onconn"  -> {"callbacks", "talkers"}
    [] rPc = "onmsg"   -> {"callbacks", "listeners"}
    [] rPc = "noop"    -> {"callbacks"}
    [] rPc = "closed"  -> {"callbacks", "sender", "active"}
    [] rPc = "reset"   -> {"sender", "active"}
    [] OTHER           -> {}

(***************************************************************************)
(* The application thread.                                                 *)
(***************************************************************************)

\* RosbridgeClient(): the Connection constructor starts the detached
\* runner, the callbacks are installed and talker_timer.start(5, talk).
Init ==
  /\ alive = Objects \ {"session"}
  /\ attached = {}
  /\ appPc = "run"
  /\ execute = TRUE /\ flag = FALSE
  /\ tPc = "check" /\ pass = {}
  /\ rPc = "top" /\ open = FALSE
  /\ activeTo = "default" /\ senderTo = "default"

\* attach(): a session's constructor registers its queues.
Attach(s) ==
  /\ appPc = "run"
  /\ s \notin attached
  /\ attached' = attached \cup {s}
  /\ UNCHANGED <<alive, appPc, execute, flag, tPc, pass, rPc, open, activeTo, senderTo>>

\* ~RosbridgeClient's body replaces the three callbacks by no-ops (a
\* handler already running keeps running the old one); then the members
\* are destroyed.
DtorBody ==
  /\ appPc = "run"
  /\ attached = Sessions
  /\ appPc' = "members"
  /\ UNCHANGED <<alive, attached, execute, flag, tPc, pass, rPc, open, activeTo, senderTo>>

\* The last-declared members go first: listeners, then talkers.
FreeListeners ==
  /\ appPc = "members"
  /\ alive' = alive \ {"listeners"}
  /\ appPc' = "talkers"
  /\ UNCHANGED <<attached, execute, flag, tPc, pass, rPc, open, activeTo, senderTo>>

FreeTalkers ==
  /\ appPc = "talkers"
  /\ alive' = alive \ {"talkers"}
  /\ appPc' = "timer"
  /\ UNCHANGED <<attached, execute, flag, tPc, pass, rPc, open, activeTo, senderTo>>

\* ~Timer: _execute is true, so stop() clears it ...
TimerStop ==
  /\ appPc = "timer"
  /\ execute' = FALSE
  /\ appPc' = "join"
  /\ UNCHANGED <<alive, attached, flag, tPc, pass, rPc, open, activeTo, senderTo>>

\* ... and joins the talk thread.
TimerJoin ==
  /\ appPc = "join"
  /\ tPc = "exited"
  /\ appPc' = "connection"
  /\ UNCHANGED <<alive, attached, execute, flag, tPc, pass, rPc, open, activeTo, senderTo>>

\* ~Connection sets shutting_down and returns; nothing waits for the runner.
ConnectionDtor ==
  /\ appPc = "connection"
  /\ flag' = TRUE
  /\ appPc' = "freed"
  /\ UNCHANGED <<alive, attached, execute, tPc, pass, rPc, open, activeTo, senderTo>>

\* The members of Connection are destroyed and the client's storage freed.
ConnectionFreed ==
  /\ appPc = "freed"
  /\ alive' = alive \ ConnectionMembers
  /\ appPc' = "gone"
  /\ UNCHANGED <<attached, execute, flag, tPc, pass, rPc, open, activeTo, senderTo>>

App ==
  \/ \E s \in Sessions : Attach(s)
  \/ DtorBody \/ FreeListeners \/ FreeTalkers \/ TimerStop \/ TimerJoin
  \/ ConnectionDtor \/ ConnectionFreed

(***************************************************************************)
(* The talk thread: while _execute { talk(); sleep 5 ms }.                 *)
(***************************************************************************)

\* The loop test of the Timer thread; talk() starts a pass over talkers.
TCheck ==
  /\ tPc = "check"
  /\ tPc' = IF execute THEN "talk" ELSE "exited"
  /\ pass' = attached
  /\ UNCHANGED <<alive, attached, appPc, execute, flag, rPc, open, activeTo, senderTo>>

\* The range-for takes the next talker, or the pass ends.
TIter ==
  /\ tPc = "talk"
  /\ \/ pass = {} /\ tPc' = "sleep" /\ UNCHANGED pass
     \/ \E t \in pass : pass' = pass \ {t} /\ tPc' = "query"
  /\ UNCHANGED <<alive, attached, appPc, execute, flag, rPc, open, activeTo, senderTo>>

\* if (not connection.active()) break; if (t->empty()) continue;
TQuery ==
  /\ tPc = "query"
  /\ \/ ~(activeTo = "session" /\ open) /\ tPc' = "sleep"
     \/ activeTo = "session" /\ open /\ tPc' \in {"talk", "send"}
  /\ UNCHANGED <<alive, attached, appPc, execute, flag, pass, rPc, open, activeTo, senderTo>>

\* connection.send(t->next().serialized()) calls active() and
\* message_sender; t->pop().
TSend ==
  /\ tPc = "send"
  /\ tPc' = "talk"
  /\ UNCHANGED <<alive, attached, appPc, execute, flag, pass, rPc, open, activeTo, senderTo>>

TSleep ==
  /\ tPc = "sleep"
  /\ tPc' = "check"
  /\ UNCHANGED <<alive, attached, appPc, execute, flag, pass, rPc, open, activeTo, senderTo>>

Talk == TCheck \/ TIter \/ TQuery \/ TSend \/ TSleep

(***************************************************************************)
(* The runner thread: while (not shutting_down) { try { client c; ...;    *)
(* connect(c, connection); } catch ...; reset sender and active }.        *)
(***************************************************************************)

RunnerVars == <<attached, appPc, execute, flag, tPc, pass>>

\* The loop test; a new iteration constructs c and binds message_sender.
RTop ==
  /\ rPc = "top"
  /\ \/ flag /\ rPc' = "exited" /\ UNCHANGED <<alive, senderTo>>
     \/ ~flag /\ rPc' = "connect" /\ alive' = alive \cup {"session"} /\ senderTo' = "session"
  /\ UNCHANGED <<open, activeTo>> /\ UNCHANGED RunnerVars

\* connect(): the handlers and the ping timers are set up, c.connect(),
\* active bound to the local connection, c.run().
RConnect ==
  /\ rPc = "connect"
  /\ rPc' = "running"
  /\ activeTo' = "session"
  /\ UNCHANGED <<alive, open, senderTo>> /\ UNCHANGED RunnerVars

\* The callbacks are the client's own until ~RosbridgeClient's body has
\* replaced them with no-ops.
Dispatch(handler) == IF appPc = "run" THEN handler ELSE "noop"

\* The open handler: on_connection, which runs resetTalkers().
ROpen ==
  /\ rPc = "running" /\ ~open
  /\ open' = TRUE
  /\ rPc' = Dispatch("onconn")
  /\ UNCHANGED <<alive, activeTo, senderTo>> /\ UNCHANGED RunnerVars

\* The message handler: on_message_received, which runs listen().
RMessage ==
  /\ rPc = "running" /\ open
  /\ rPc' = Dispatch("onmsg")
  /\ UNCHANGED <<alive, open, activeTo, senderTo>> /\ UNCHANGED RunnerVars

\* A handler returns to the event loop.
RHandled ==
  /\ rPc \in {"onconn", "onmsg", "noop"}
  /\ rPc' = "running"
  /\ UNCHANGED <<alive, open, activeTo, senderTo>> /\ UNCHANGED RunnerVars

\* listen() throws on a frame that is not JSON: the exception leaves
\* c.run() and connect(), the try block's locals are destroyed and the
\* catch clause runs, with active and message_sender still bound to them.
RThrow ==
  /\ rPc = "onmsg"
  /\ rPc' = "reset"
  /\ open' = FALSE
  /\ alive' = alive \ {"session"}
  /\ UNCHANGED <<activeTo, senderTo>> /\ UNCHANGED RunnerVars

\* The session closes or never opens: c.run() returns.
RClose ==
  /\ rPc = "running"
  /\ rPc' = "closed"
  /\ open' = FALSE
  /\ UNCHANGED <<alive, activeTo, senderTo>> /\ UNCHANGED RunnerVars

\* on_disconnection(); message_sender and active reset; sleep 1 s;
\* connect() returns and the locals are destroyed.
RClosed ==
  /\ rPc = "closed"
  /\ rPc' = "reset"
  /\ activeTo' = "default" /\ senderTo' = "default"
  /\ alive' = alive \ {"session"}
  /\ UNCHANGED open /\ UNCHANGED RunnerVars

\* After the try block: message_sender and active reset again.
RReset ==
  /\ rPc = "reset"
  /\ rPc' = "top"
  /\ activeTo' = "default" /\ senderTo' = "default"
  /\ UNCHANGED <<alive, open>> /\ UNCHANGED RunnerVars

Runner == RTop \/ RConnect \/ ROpen \/ RMessage \/ RHandled \/ RThrow \/ RClose \/ RClosed \/ RReset

Next == App \/ Talk \/ Runner

Spec == Init /\ [][Next]_vars

(***************************************************************************)
(* Properties.                                                             *)
(***************************************************************************)

\* No thread executes a statement that touches an object already freed:
\* the talk thread does not iterate a destroyed talkers vector or call a
\* destroyed or dangling active/message_sender, and the runner does not
\* test shutting_down, dispatch a handler or reset its functions in a
\* destroyed Connection.
NoUseAfterFree == TalkUses \cup RunnerUses \subseteq alive
=============================================================================
