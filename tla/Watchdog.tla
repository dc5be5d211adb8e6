------------------------------ MODULE Watchdog ------------------------------
(***************************************************************************)
(* The ping/pong watchdog of Connection::connect (connection.h 138-181)    *)
(* across the runner loop.  Two Timers (utils.cpp 70-85) each run their   *)
(* handler once per 1000 ms period: handler_ping pings the server and     *)
(* stamps time_last_ping, handler_ping_pong_check closes the session when *)
(* time_last_ping - time_last_pong exceeds max_ping_pong_interval, and    *)
(* handler_pong (on the websocket thread) stamps time_last_pong.          *)
(*                                                                         *)
(* Time is counted in timer periods.  The two stamps are kept as ages     *)
(* relative to the clock reading (age = now - stamp): a step of time adds *)
(* one to both, a stamp sets its age to 0.  The clock is                  *)
(* high_resolution_clock, which libstdc++ defines as system_clock, so the *)
(* reading can also jump when the wall clock is set: a jump adds the same *)
(* amount to both ages.                                                    *)
(***************************************************************************)
EXTENDS Integers

CONSTANTS
  MaxGap,    \* max_ping_pong_interval, in periods (2 s by default)
  Jumps,     \* the wall-clock adjustments that may happen, in periods
  MaxJumps   \* how many adjustments a behaviour may contain

ASSUME MaxGap \in Nat /\ Jumps \subseteq Int /\ MaxJumps \in Nat

\* Ages stop growing here; the watchdog reads only ages up to MaxGap + 1
\* since the last stamp while the session is open.  A forward setting of
\* the clock may carry an age past the cap, where it then stays.
AgeCap == MaxGap + 3
JumpAhead == CHOOSE m \in Jumps \cup {0} : \A j \in Jumps : j <= m
MaxAge == AgeCap + MaxJumps * JumpAhead

VARIABLES
  state,        \* websocketpp connection state: connecting, open, closing, closed
  peerAlive,    \* the server still answers (its pongs reach the client)
  pongDue,      \* a ping was sent and its pong is still on its way
  pingAge,      \* now - time_last_ping
  pongAge,      \* now - time_last_pong
  pingFired,    \* timer_ping_send ran its handler in this period
  checkFired,   \* timer_pong_check ran its handler in this period
  jumps         \* wall-clock adjustments so far

vars == <<state, peerAlive, pongDue, pingAge, pongAge, pingFired, checkFired, jumps>>

TypeOK ==
  /\ state \in {"connecting", "open", "closing", "closed"}
  /\ peerAlive \in BOOLEAN
  /\ pongDue \in BOOLEAN
  /\ pingAge \in Int /\ pingAge <= MaxAge
  /\ pongAge \in Int /\ pongAge <= MaxAge
  /\ pingFired \in BOOLEAN /\ checkFired \in BOOLEAN
  /\ jumps \in 0 .. MaxJumps

\* connect(): both stamps set to now, the timers started, c.connect().
Init ==
  /\ state = "connecting"
  /\ pongDue = FALSE
  /\ pingAge = 0 /\ pongAge = 0
  /\ peerAlive = TRUE
  /\ pingFired = FALSE /\ checkFired = FALSE
  /\ jumps = 0

\* The open handshake completes.
Opened ==
  /\ state = "connecting"
  /\ peerAlive
  /\ state' = "open"
  /\ UNCHANGED <<peerAlive, pongDue, pingAge, pongAge, pingFired, checkFired, jumps>>

\* The open handshake fails or times out (set_open_handshake_timeout(1000)).
ConnectFailed ==
  /\ state = "connecting"
  /\ state' = "closed"
  /\ UNCHANGED <<peerAlive, pongDue, pingAge, pongAge, pingFired, checkFired, jumps>>

\* handler_ping: c.ping() throws unless the session is open; catch (...)
\* then skips the stamp.
Ping ==
  /\ ~pingFired
  /\ pingFired' = TRUE
  /\ IF state = "open"
       THEN pingAge' = 0 /\ pongDue' = TRUE
       ELSE UNCHANGED <<pingAge, pongDue>>
  /\ UNCHANGED <<state, peerAlive, pongAge, checkFired, jumps>>

\* handler_pong: the pong arrives and time_last_pong is stamped.
Pong ==
  /\ pongDue /\ peerAlive /\ state = "open"
  /\ pongDue' = FALSE
  /\ pongAge' = 0
  /\ UNCHANGED <<state, peerAlive, pingAge, pingFired, checkFired, jumps>>

\* The gap the check computes: time_last_ping - time_last_pong.
Gap == pongAge - pingAge

\* Faulty variant of Check that subtracts the stamps the other way round.
CheckSwapped ==
  /\ ~checkFired
  /\ checkFired' = TRUE
  /\ state' = IF state = "open" /\ -Gap > MaxGap THEN "closing" ELSE state
  /\ UNCHANGED <<peerAlive, pongDue, pingAge, pongAge, pingFired, jumps>>

\* handler_ping_pong_check: c.close() when the gap exceeds the maximum;
\* on a session that is not open c.close() throws and is swallowed.
Check ==
  /\ ~checkFired
  /\ checkFired' = TRUE
  /\ state' = IF state = "open" /\ Gap > MaxGap THEN "closing" ELSE state
  /\ UNCHANGED <<peerAlive, pongDue, pingAge, pongAge, pingFired, jumps>>

\* The close handshake ends (set_close_handshake_timeout(500)); c.run()
\* returns.
Closed ==
  /\ state = "closing"
  /\ state' = "closed"
  /\ UNCHANGED <<peerAlive, pongDue, pingAge, pongAge, pingFired, checkFired, jumps>>

\* The server or the network closes the session.
Dropped ==
  /\ state = "open"
  /\ state' = "closed"
  /\ UNCHANGED <<peerAlive, pongDue, pingAge, pongAge, pingFired, checkFired, jumps>>

\* The server stops answering without closing the TCP connection.
PeerDies ==
  /\ peerAlive
  /\ peerAlive' = FALSE
  /\ UNCHANGED <<state, pongDue, pingAge, pongAge, pingFired, checkFired, jumps>>

\* runner(): on_disconnection, sleep, return from connect() (the Timers'
\* destructors stop and join them), loop and connect() again, to a server
\* that may answer again; the new Timers run their handlers at once.
Reconnect ==
  /\ state = "closed"
  /\ state' = "connecting"
  /\ pongDue' = FALSE
  /\ pingAge' = 0 /\ pongAge' = 0
  /\ peerAlive' \in BOOLEAN
  /\ pingFired' = FALSE /\ checkFired' = FALSE
  /\ UNCHANGED jumps

\* One timer period passes.  Each timer has run its handler once in it;
\* the open and close handshakes (1000 ms, 500 ms) end within a period,
\* and a live server's pong arrives within it.
Tick ==
  /\ pingFired /\ checkFired
  /\ state \notin {"connecting", "closing"}
  /\ ~(state = "open" /\ pongDue /\ peerAlive)
  /\ pingAge' = IF pingAge < AgeCap THEN pingAge + 1 ELSE pingAge
  /\ pongAge' = IF pongAge < AgeCap THEN pongAge + 1 ELSE pongAge
  /\ pingFired' = FALSE /\ checkFired' = FALSE
  /\ UNCHANGED <<state, peerAlive, pongDue, jumps>>

\* The wall clock is set: high_resolution_clock::now() jumps by j, and both
\* ages with it.
ClockJump(j) ==
  /\ jumps < MaxJumps
  /\ jumps' = jumps + 1
  /\ pingAge' = pingAge + j
  /\ pongAge' = pongAge + j
  /\ UNCHANGED <<state, peerAlive, pongDue, pingFired, checkFired>>

Next ==
  \/ Opened \/ ConnectFailed \/ Ping \/ Pong \/ Check \/ Closed \/ Dropped
  \/ PeerDies \/ Reconnect \/ Tick
  \/ \E j \in Jumps : ClockJump(j)

\* The timer threads, the websocket thread and the runner keep running,
\* the handshakes end by their timeouts, and time passes.  The server, the
\* network and the wall clock get no fairness.
Fairness ==
  /\ WF_vars(Ping) /\ WF_vars(Check) /\ WF_vars(Pong) /\ WF_vars(Tick)
  /\ WF_vars(Opened \/ ConnectFailed) /\ WF_vars(Closed) /\ WF_vars(Reconnect)

Spec == Init /\ [][Next]_vars /\ Fairness

(***************************************************************************)
(* Properties.                                                             *)
(***************************************************************************)

\* A session whose server has stopped answering is eventually closed by
\* the pong check, whatever the order of the two timers and the wall-clock
\* adjustments.
DeadPeerClosed == (state = "open" /\ ~peerAlive) ~> (state = "closed")
=============================================================================
