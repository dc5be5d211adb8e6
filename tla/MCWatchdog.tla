------------------------------ MODULE MCWatchdog ------------------------------
(* The watchdog with the default max_ping_pong_interval of 2 s (two timer  *)
(* periods) and one setting of the wall clock by three periods, back or   *)
(* forward: more than the interval, so a setting can close the session.   *)
EXTENDS Watchdog

MCJumps == {-3, 3}
=============================================================================
