------------------------------- MODULE HubDeadman -------------------------------
(***************************************************************************)
(* The inverted dead-man switch: the hub notes every cycle of its loop     *)
(* that completes (monitor.py, server.py), and a timer on each machine     *)
(* reads /health and fails its unit when the hub has stopped doing         *)
(* anything (hub-watchdog.sh).                                             *)
(*                                                                         *)
(* Time passes in units.  Ages stop counting at TooOld.  The time since a  *)
(* cycle could last complete, and whether one has failed since the last    *)
(* that did, are history.                                                  *)
(***************************************************************************)
EXTENDS Integers

CONSTANTS
    Interval,   \* the hub's sleep between cycles
    Slowest,    \* bound: how long a cycle of a live loop takes, retries and back-offs in
    Period,     \* the time between two looks of the watchdog
    Never

ASSUME DeadmanAssumption ==
    /\ {Interval, Period} \subseteq Nat \ {0}
    /\ Slowest \in Nat
    /\ Never \notin Nat

VARIABLES hub, due, alarm, wedged, sick

deadmanVars == <<hub, due, alarm, wedged, sick>>

\* "a few missed cycles"
Grace == 5 * Interval
TooOld == Grace + Period + 1

Older(age) == IF age = TooOld THEN age ELSE age + 1

Started(polling) ==
    [up |-> TRUE, polling |-> polling, uptime |-> 0, last |-> Never,
     loop |-> IF polling THEN "cycle" ELSE "off", spent |-> 0]

-----------------------------------------------------------------------------
DeadmanInit ==
    /\ \E polling \in BOOLEAN : hub = Started(polling)
    /\ due = Period
    /\ alarm = "ok"
    /\ wedged = 0
    /\ sick = FALSE

\* A look is due, a sleep is over, a live cycle has taken as long as it can.
Urgent ==
    \/ due = 0
    \/ hub.loop = "sleep" /\ hub.spent = Interval
    \/ hub.loop = "cycle" /\ hub.spent = Slowest

Pass ==
    /\ ~Urgent
    /\ hub' = [hub EXCEPT !.uptime = Older(@),
                          !.last = IF @ = Never THEN @ ELSE Older(@),
                          !.spent = IF hub.loop \in {"sleep", "cycle"} THEN @ + 1 ELSE @]
    /\ due' = due - 1
    /\ wedged' = IF hub.loop = "wedged" THEN Older(wedged) ELSE 0
    /\ UNCHANGED <<alarm, sick>>

(* run *)

CycleStarts ==
    /\ hub.loop = "sleep"
    /\ hub.spent = Interval
    /\ hub' = [hub EXCEPT !.loop = "cycle", !.spent = 0]
    /\ UNCHANGED <<due, alarm, wedged, sick>>

\* Defect: a poll is noted once, when the loop first completes one.
NotedOnce ==
    /\ hub.loop = "cycle"
    /\ hub' = [hub EXCEPT !.loop = "sleep", !.spent = 0,
                          !.last = IF @ = Never THEN 0 ELSE @]
    /\ sick' = FALSE
    /\ UNCHANGED <<due, alarm, wedged>>

\* note_poll, although each of its repositories may have raised.
CycleCompletes ==
    /\ hub.loop = "cycle"
    /\ hub' = [hub EXCEPT !.loop = "sleep", !.spent = 0, !.last = 0]
    /\ sick' = FALSE
    /\ UNCHANGED <<due, alarm, wedged>>

CycleRaises ==
    /\ hub.loop = "cycle"
    /\ hub' = [hub EXCEPT !.loop = "sleep", !.spent = 0]
    /\ sick' = TRUE
    /\ UNCHANGED <<due, alarm, wedged>>

\* A call that never returns.
Wedges ==
    /\ hub.loop = "cycle"
    /\ hub' = [hub EXCEPT !.loop = "wedged"]
    /\ UNCHANGED <<due, alarm, wedged, sick>>

Down ==
    /\ hub.up
    /\ hub' = [hub EXCEPT !.up = FALSE, !.loop = "off"]
    /\ wedged' = 0
    /\ UNCHANGED <<due, alarm, sick>>

\* main: polling is enabled by the presence of a token.
Up ==
    /\ ~hub.up
    /\ \E polling \in BOOLEAN : hub' = Started(polling)
    /\ sick' = FALSE
    /\ UNCHANGED <<due, alarm, wedged>>

(* hub-watchdog.sh *)

\* Defect: a loop that has never polled is still starting up.
ReadsNoFirstPoll ==
    IF ~hub.up \/ (hub.polling /\ hub.last # Never /\ hub.last > Grace) THEN "fail" ELSE "ok"

\* The verdict on what /health says.
Reads ==
    CASE ~hub.up -> "fail"
      [] hub.up /\ ~hub.polling -> "warn"
      [] hub.up /\ hub.polling ->
            IF (IF hub.last = Never THEN hub.uptime ELSE hub.last) > Grace
            THEN "fail" ELSE "ok"

Look ==
    /\ due = 0
    /\ due' = Period
    /\ alarm' = Reads
    /\ UNCHANGED <<hub, wedged, sick>>

DeadmanNext ==
    \/ Pass \/ CycleStarts \/ CycleCompletes \/ CycleRaises \/ Wedges
    \/ Down \/ Up \/ Look

DeadmanSpec == DeadmanInit /\ [][DeadmanNext]_deadmanVars

-----------------------------------------------------------------------------
\* A loop that hangs is found by the first look after the grace, in its first cycle and
\* in any later one, whenever the hub was restarted (hub-watchdog.sh:88-104).
WedgeIsFound == wedged > Grace + Period => alarm = "fail"

\* Nobody is paged for a hub that is up and whose cycles complete, as long as a cycle
\* and a sleep fit into the grace (hub-watchdog.sh:78-80, monitor.py:82-98).
NoFalsePage ==
    [][Interval + Slowest <= Grace /\ due < due' /\ alarm' = "fail" =>
           ~hub.up \/ sick \/ hub.loop = "wedged"]_deadmanVars
================================================================================
