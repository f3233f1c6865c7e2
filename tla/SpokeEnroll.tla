------------------------------ MODULE SpokeEnroll ------------------------------
(***************************************************************************)
(* Enrolling and revoking runners on one host (runner-enroll.sh with       *)
(* lib/runner-units.sh), for runner names that sanitize onto one slug: one *)
(* ticket file and one set of timers for all of them.  The hub answers or  *)
(* not, its answer is lost or not, a script dies or not, and the operator  *)
(* edits the ticket.  Scripts are run one at a time.                       *)
(*                                                                         *)
(* The hub gives a name one token in its life, so a token is its name.     *)
(* timers are those that systemd runs, or is to run from the next login.   *)
(* stuck is history, which no guard reads: the timers that a stop or a     *)
(* disable has failed for since they were last enabled.  The legacy units, *)
(* the helpers and the watchdog's timer are left out.                      *)
(***************************************************************************)
EXTENDS Integers

CONSTANTS
    Names,             \* runner names of one slug
    NoTicket, Unnamed  \* no file; the owner of a file that names no runner

Optional == {"cycle", "sweep"}
Tickets == [owner : Names \cup {Unnamed}, keys : SUBSET Optional]

ASSUME TicketAssumption == Names # {} /\ Unnamed \notin Names /\ NoTicket \notin Tickets

VARIABLES names, ticket, timers, stuck, script, asked

enrollVars == <<names, ticket, timers, stuck, script, asked>>

Keys == IF ticket = NoTicket THEN {} ELSE ticket.keys
OwnedBy(name) == ticket # NoTicket /\ ticket.owner = name

Steps(pc) == script' = [script EXCEPT !.pc = pc]
Quits == Steps("none")
Step(mode, pc) == script.mode = mode /\ script.pc = pc

-----------------------------------------------------------------------------
EnrollInit ==
    /\ names = [name \in Names |-> "free"]
    /\ ticket = NoTicket
    /\ timers = {}
    /\ stuck = {}
    /\ script = [mode |-> "enroll", name |-> CHOOSE name \in Names : TRUE, pc |-> "none"]
    /\ asked = [keys |-> {}, answered |-> FALSE]

(* The operator *)

Provision ==
    /\ ticket # NoTicket
    /\ \E key \in Optional \ ticket.keys :
          ticket' = [ticket EXCEPT !.keys = @ \cup {key}]
    /\ UNCHANGED <<names, timers, stuck, script, asked>>

\* A file that names no runner, written ahead of enrollment or torn; or a stale one deleted.
\* Not in the moments in which a script that has looked at the slug switches the units.
EditTicket ==
    /\ script.pc \notin {"enable", "remove"}
    /\ \/ ticket' = [owner |-> Unnamed, keys |-> Keys]
       \/ timers = {} /\ ticket' = NoTicket
    /\ UNCHANGED <<names, timers, stuck, script, asked>>

(* The scripts *)

Start(mode, name) ==
    /\ script.pc = "none"
    /\ script' = [mode |-> mode, name |-> name, pc |-> "check"]
    /\ asked' = [keys |-> IF OwnedBy(name) THEN Keys ELSE {}, answered |-> FALSE]
    /\ UNCHANGED <<names, ticket, timers, stuck>>

\* slug_owner, and what each of its callers makes of it.
SlugIsOurs(name) == ticket = NoTicket \/ ticket.owner = name

\* Before an enrollment the slug is looked at, before a revocation it is not.
CheckSlug ==
    /\ script.pc = "check"
    /\ IF script.mode = "enroll" => SlugIsOurs(script.name) THEN Steps("post") ELSE Quits
    /\ UNCHANGED <<names, ticket, timers, stuck, asked>>

Before == IF script.mode = "enroll" THEN "free" ELSE "live"
After == IF script.mode = "enroll" THEN "live" ELSE "revoked"

\* The hub takes the request, and its answer arrives or the script has given up on it.
Accepted ==
    /\ script.pc = "post"
    /\ names[script.name] = Before
    /\ names' = [names EXCEPT ![script.name] = After]
    /\ \/ Steps(IF script.mode = "enroll" THEN "write" ELSE "stop")
             /\ asked' = [asked EXCEPT !.answered = TRUE]
       \/ Quits /\ UNCHANGED asked
    /\ UNCHANGED <<ticket, timers, stuck>>

\* 409 for a name that was ever enrolled, 401 for a token that is not valid.
Declined ==
    /\ script.pc = "post"
    /\ names[script.name] # Before
    /\ Quits
    /\ asked' = [asked EXCEPT !.answered = TRUE]
    /\ UNCHANGED <<names, ticket, timers, stuck>>

\* Defect: the slug is not looked at again after the hub has answered.
WriteUnlooked ==
    /\ Step("enroll", "write")
    /\ ticket' = [owner |-> script.name, keys |-> Keys]
    /\ Steps("enable")
    /\ UNCHANGED <<names, timers, stuck, asked>>

\* What else the file has is carried over; the move into place is atomic.
WriteTicket ==
    /\ Step("enroll", "write")
    /\ IF SlugIsOurs(script.name)
       THEN ticket' = [owner |-> script.name, keys |-> Keys] /\ Steps("enable")
       ELSE Quits /\ UNCHANGED ticket
    /\ UNCHANGED <<names, timers, stuck, asked>>

CycleTimer == Keys \cap {"cycle"}

SweepTimer == Keys \cap {"sweep"}

\* The heartbeat's, then each of the others only if the ticket is provisioned for it; a
\* start that fails ends the run where it is.
EnableTimers ==
    /\ Step("enroll", "enable")
    /\ Quits
    /\ \E started \in {{}, {"heartbeat"}, {"heartbeat"} \cup CycleTimer,
                       {"heartbeat"} \cup CycleTimer \cup SweepTimer} :
          /\ timers' = timers \cup started
          /\ stuck' = stuck \ started
          /\ asked' = [asked EXCEPT !.answered =
                           started = {"heartbeat"} \cup CycleTimer \cup SweepTimer]
    /\ UNCHANGED <<names, ticket>>

\* Defect: the ticket is removed with the units still running.
StopNothing ==
    /\ Step("revoke", "stop")
    /\ IF SlugIsOurs(script.name) THEN Steps("remove") ELSE Quits
    /\ UNCHANGED <<names, ticket, timers, stuck, asked>>

\* Each stop and each disable may fail, as where there is no user bus, and the script
\* goes on as if it had not; or it is killed among them.
StopTimers ==
    /\ Step("revoke", "stop")
    /\ IF SlugIsOurs(script.name)
       THEN /\ timers' \in SUBSET timers
            /\ \/ stuck' = stuck \cup timers' /\ Steps("remove")
               \/ UNCHANGED stuck /\ Quits
       ELSE Quits /\ UNCHANGED <<timers, stuck>>
    /\ UNCHANGED <<names, ticket, asked>>

RemoveTicket ==
    /\ Step("revoke", "remove")
    /\ ticket' = NoTicket
    /\ Quits
    /\ UNCHANGED <<names, timers, stuck, asked>>

\* No hub, a failing call, a kill.
ScriptEnds ==
    /\ script.pc # "none"
    /\ Quits
    /\ asked' = [asked EXCEPT !.answered = FALSE]
    /\ UNCHANGED <<names, ticket, timers, stuck>>

EnrollNext ==
    \/ Provision \/ EditTicket
    \/ \E mode \in {"enroll", "revoke"}, name \in Names : Start(mode, name)
    \/ CheckSlug \/ Accepted \/ Declined
    \/ WriteTicket \/ EnableTimers \/ StopTimers \/ RemoveTicket \/ ScriptEnds

EnrollSpec == EnrollInit /\ [][EnrollNext]_enrollVars

-----------------------------------------------------------------------------
\* "Never remove files that belong to someone else", nor overwrite them, nor one that
\* names no runner: whatever the operator does while a script waits for the hub, it takes
\* down and replaces only what is its runner's (runner-enroll.sh:104-117, 239-245, 441-476).
OthersTicketStays ==
    [][(WriteTicket \/ StopTimers \/ RemoveTicket) /\ <<ticket, timers>>' # <<ticket, timers>> =>
           ticket = NoTicket \/ OwnedBy(script.name)]_enrollVars

\* No timer is left running without the ticket it reads, which "would leave a unit that
\* fails forever", wherever a script dies and whoever enrolls on the slug afterwards; but
\* for one whose stop or disable failed, which the script does not look at
\* (runner-enroll.sh:459-473).
TimersHaveTicket == ticket = NoTicket => timers \subseteq stuck

\* "add ... to the runner's environment file and run enroll again": a run that the hub
\* answered leaves each timer enabled that the ticket was provisioned for when it began
\* (runner-enroll.sh:149-158, runner-units.sh:189-191).
ProvisionedIsEnabled ==
    script.mode = "enroll" /\ script.pc = "none" /\ asked.answered /\ OwnedBy(script.name) =>
        asked.keys \subseteq timers
================================================================================
