---------------------------- MODULE BufferStats -----------------------------
(***************************************************************************)
(* The stuck timers of a router's buffers (Metrics/Stats.cpp): how long a  *)
(* buffer that holds flits goes without letting one go.  s[v] is the       *)
(* BufferStats of virtual channel v of one relay, with the fields          *)
(* stuck_timer and max_suck_delay; a negative timer is not running.        *)
(***************************************************************************)
EXTENDS Integers

NewStats(vcs) == [v \in vcs |-> [stuck_timer |-> -1, max_suck_delay |-> -1]]

Larger(x, y) == IF x > y THEN x ELSE y

StartStuckTimer(s, v, time) ==
    IF s[v].stuck_timer >= 0 THEN s ELSE [s EXCEPT ![v].stuck_timer = time]

\* A mutation of StopStuckTimer: the last delay replaces the longest.
StopStuckTimerLast(s, v, time) ==
    IF s[v].stuck_timer < 0 THEN s
    ELSE [s EXCEPT ![v] = [stuck_timer |-> -1, max_suck_delay |-> time - @.stuck_timer]]

StopStuckTimer(s, v, time) ==
    IF s[v].stuck_timer < 0 THEN s
    ELSE [s EXCEPT ![v] = [stuck_timer |-> -1,
              max_suck_delay |-> Larger(@.max_suck_delay, time - @.stuck_timer)]]
=============================================================================
