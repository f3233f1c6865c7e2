------------------------------- MODULE HubMonitor -------------------------------
(***************************************************************************)
(* The poll loop (hub/monitor.py) over the rows of the registry, which     *)
(* request threads change under it, and over GitHub, which may answer,     *)
(* refuse (no answer after the retries, or not 200) or raise.              *)
(*                                                                         *)
(* One cycle takes the repositories one by one through seven checks.  A    *)
(* check visits its subjects (runners, branches, or the repository) and    *)
(* raises the alerts a reading earns; an exception, of GitHub's client or  *)
(* of the alert sink, ends the repository's turn.                          *)
(*                                                                         *)
(* told, cut, lost, torn, met, ever and steady are history of the cycle:   *)
(* no guard reads them.                                                    *)
(***************************************************************************)
EXTENDS HealthReadings

CONSTANTS
    Repos,
    Runners,
    Readings,    \* the readings a row may hold
    Worlds       \* what GitHub may have to say of a repository

\* The checks of _poll_repo, in its order.
Image == 1
Scan == 2
Status == 3
Queue == 4
Gates == 5
Drift == 6
Coherence == 7
Checks == 1..7

\* registry.enroll: what a row says before its first heartbeat.
Unreported == [beat |-> "stale", digest |-> FALSE, scan |-> None]

ASSUME MonitorAssumption ==
    /\ None \notin Repos \cup Runners \cup Branches
    /\ None # "recent"
    /\ None \notin [repo : Repos, enrolled : BOOLEAN, reading : Readings]
    /\ Unreported \in Readings
    /\ Readings \subseteq [beat : {"fresh", "stale"}, digest : BOOLEAN, scan : ScanStates]
    /\ Worlds \subseteq [online : SUBSET Runners, stalled : BOOLEAN,
                         gates : [Branches -> {"green", "red", "no branch"}],
                         drift : {NoWorkflow} \cup Seq(Runs),
                         coherence : {NoWorkflow} \cup Seq(Runs)]

VARIABLES
    rows,        \* the registry: per runner None, or repo, enrolled and reading
    world,       \* GitHub, per repository
    phase,       \* "sleep" or "poll"
    todo,        \* poll_cycle: the groups still to poll
    at,          \* the repository being polled, or None
    check,       \* the check of _poll_repo under way
    left,        \* its subjects still to visit
    usable,      \* scan_alerts: the runner whose scan state was found usable, or None
    online,      \* _check_runner_status: api_runners that are online, or None
    pending,     \* alerts of the last reading, not raised yet
    told,        \* history: <<repo, check, subject>> raised in this cycle
    cut,         \* history: those whose reading was refused or cut off
    lost,        \* history: repositories at which the sink raised
    torn,        \* history: those with a report between two looks at a scan state
    met,         \* history: runners enrolled at some time in the cycle
    ever,        \* history: what was wrong at some time in the cycle
    steady       \* history: what was wrong all through the cycle

environment == <<rows, world>>
loop == <<phase, todo, at, check, left, usable, online, pending>>
history == <<told, cut, lost, torn, met, ever, steady>>
vars == <<environment, loop, history>>

-----------------------------------------------------------------------------
Row == [repo : Repos, enrolled : BOOLEAN, reading : Readings]

\* Defect: revoked rows are polled as well.
GroupOfAll(p) == {r \in Runners : rows[r] # None /\ rows[r].repo = p}

\* poll_cycle: the enrolled runners of a repository.
Group(p) == {r \in Runners : rows[r] # None /\ rows[r].enrolled /\ rows[r].repo = p}

Reading(r) == rows[r].reading

\* The subjects of a check for the group g.
Subjects(c, g) ==
    CASE c \in {Image, Scan, Status} -> g
      [] c = Gates -> Branches
      [] OTHER -> {None}

(* What the documents want to be told of: where, and why *)

\* What is read at two moments is wrong for either of two reasons: a runner that is
\* offline, and one whose repositories are not known to be clean.
WrongWith(r) ==
    LET reading == rows[r].reading
    IN  {why \in {<<Image, "image">>, <<Scan, "unknown">>, <<Scan, "unclean">>,
                <<Status, "silent">>, <<Status, "absent">>} :
            \/ why[2] = "image"   /\ ~reading.digest
            \/ /\ ~ScannedClean(reading.scan)
               /\ why[2] = IF ScanStateUnknown(reading.scan) THEN "unknown" ELSE "unclean"
            \/ why[2] = "silent"  /\ reading.beat = "stale"
            \/ why[2] = "absent"  /\ r \notin world[rows[r].repo].online}

\* "skipped", "hidden" and "masked" are where the code differs from the documents.
WrongAt(p) ==
    {why \in {<<Queue, "queue">>, <<Drift, "drift">>, <<Drift, "skipped">>, <<Drift, "hidden">>,
              <<Coherence, "coherence">>, <<Coherence, "masked">>} :
        \/ why[2] = "queue"     /\ world[p].stalled
        \/ why[2] = "drift"     /\ ~DriftHealthy(world[p].drift)
        \/ why[2] = "skipped"   /\ DriftSkipped(world[p].drift)
        \/ why[2] = "hidden"    /\ DriftHidden(world[p].drift)
        \/ why[2] = "coherence" /\ ~CoherenceHealthy(world[p].coherence)
        \/ why[2] = "masked"    /\ CoherenceMasked(world[p].coherence)}

Trouble(p, why, x) == [at |-> <<p, why[1], x>>, why |-> why[2]]

\* What is wrong with the runners R and the repositories P at the moment.
Amiss(R, P) ==
    (UNION {{Trouble(rows[r].repo, why, r) : why \in WrongWith(r)} : r \in R})
    \cup (UNION {{Trouble(p, why, None) : why \in WrongAt(p)} : p \in P})
    \cup {Trouble(pb[1], <<Gates, "gates">>, pb[2]) :
            pb \in {q \in P \X Branches : world[q[1]].gates[q[2]] = "red"}}

Places(troubles) == {t.at : t \in troubles}

Enrolled == {r \in Runners : rows[r] # None /\ rows[r].enrolled}
Registered == {p \in Repos : \E r \in Enrolled : rows[r].repo = p}

\* History keeps up with a step that changes the environment.
Observe ==
    /\ met' = IF phase = "poll" THEN met \cup Enrolled' ELSE met
    /\ ever' = IF phase = "poll" THEN ever \cup Amiss(met, Repos)' ELSE ever
    /\ steady' = IF phase = "poll" THEN steady \cap Amiss(Enrolled, Registered)' ELSE steady
    /\ torn' = IF usable # None /\ rows'[usable].reading.scan # Reading(usable).scan
               THEN torn \cup {at} ELSE torn
    /\ UNCHANGED <<told, cut, lost>>

-----------------------------------------------------------------------------
\* Between two cycles.
Idle ==
    /\ phase = "sleep"
    /\ todo = [p \in Repos |-> {}]
    /\ at = None
    /\ check = Image
    /\ left = {}
    /\ usable = None /\ online = None
    /\ pending = <<>>
    /\ told = {} /\ cut = {} /\ lost = {} /\ torn = {} /\ met = {} /\ ever = {} /\ steady = {}

Init ==
    /\ rows \in [Runners -> {None} \cup Row]
    /\ world \in [Repos -> Worlds]
    /\ Idle

(* The environment *)

\* A spoke enrolls, reports, goes quiet for two intervals, or is revoked.
Enroll(r) ==
    /\ rows[r] = None
    /\ \E p \in Repos :
        rows' = [rows EXCEPT ![r] = [repo |-> p, enrolled |-> TRUE, reading |-> Unreported]]
    /\ UNCHANGED <<world, loop>>
    /\ Observe

Report(r) ==
    /\ rows[r] # None
    /\ rows[r].enrolled
    /\ \E n \in {m \in Readings \ {Reading(r)} : m.beat = "fresh"} :
        rows' = [rows EXCEPT ![r].reading = n]
    /\ UNCHANGED <<world, loop>>
    /\ Observe

GoStale(r) ==
    /\ rows[r] # None
    /\ Reading(r).beat = "fresh"
    /\ [Reading(r) EXCEPT !.beat = "stale"] \in Readings
    /\ rows' = [rows EXCEPT ![r].reading.beat = "stale"]
    /\ UNCHANGED <<world, loop>>
    /\ Observe

Revoke(r) ==
    /\ rows[r] # None
    /\ rows[r].enrolled
    /\ rows' = [rows EXCEPT ![r].enrolled = FALSE]
    /\ UNCHANGED <<world, loop>>
    /\ Observe

\* GitHub has something else to say.
Change(p) ==
    /\ \E w \in Worlds \ {world[p]} : world' = [world EXCEPT ![p] = w]
    /\ UNCHANGED <<rows, loop>>
    /\ Observe

-----------------------------------------------------------------------------
(* poll_cycle *)

\* Group the live rows.
BeginCycle ==
    /\ phase = "sleep"
    /\ phase' = "poll"
    /\ todo' = [p \in Repos |-> Group(p)]
    /\ told' = {} /\ cut' = {} /\ lost' = {} /\ torn' = {}
    /\ met' = Enrolled
    /\ ever' = Amiss(Enrolled, Repos)
    /\ steady' = Amiss(Enrolled, Registered)
    /\ UNCHANGED <<environment, at, check, left, usable, online, pending>>

Enter(c, g) ==
    /\ check' = c
    /\ left' = Subjects(c, g)
    /\ usable' = None /\ online' = None
    /\ pending' = <<>>

PollRepo(p) ==
    /\ phase = "poll" /\ at = None
    /\ todo[p] # {}
    /\ at' = p
    /\ Enter(Image, todo[p])
    /\ UNCHANGED <<environment, phase, todo, history>>

\* Defect: the group stays where it was.
LeaveKeepsGroup ==
    /\ at' = None
    /\ todo' = todo
    /\ check' = Image /\ left' = {} /\ usable' = None /\ online' = None /\ pending' = <<>>

\* The next repository, or the end of the cycle.
Leave ==
    /\ at' = None
    /\ todo' = [todo EXCEPT ![at] = {}]
    /\ check' = Image /\ left' = {} /\ usable' = None /\ online' = None /\ pending' = <<>>

\* Every subject has been visited: the next check, or the next repository.
Advance ==
    /\ phase = "poll" /\ at # None
    /\ left = {} /\ pending = <<>>
    /\ IF check < Coherence THEN Enter(check + 1, todo[at]) /\ UNCHANGED <<at, todo>> ELSE Leave
    /\ UNCHANGED <<environment, phase, history>>

\* The loop calls note_poll and sleeps.
EndCycle ==
    /\ phase = "poll" /\ at = None
    /\ \A p \in Repos : todo[p] = {}
    /\ phase' = "sleep"
    /\ UNCHANGED <<environment, todo, at, check, left, usable, online, pending, history>>

-----------------------------------------------------------------------------
(* The checks of one repository *)

Ready(c) == phase = "poll" /\ at # None /\ check = c /\ pending = <<>>

\* The alerts of one subject are next.
Reads(x, classes) ==
    /\ x \in left
    /\ left' = left \ {x}
    /\ pending' = [n \in DOMAIN classes |-> [on |-> x, class |-> classes[n]]]

CheckImage(r) ==
    /\ Ready(Image)
    /\ Reads(r, IF ImageMissing(Reading(r)) THEN <<"runner_image_missing">> ELSE <<>>)
    /\ UNCHANGED <<environment, phase, todo, at, check, usable, online, history>>

\* What the repository's turn would still have looked at.
Unseen ==
    {<<at, check, x>> : x \in left}
    \cup {<<at, check, pending[n].on>> : n \in DOMAIN pending}
    \cup (UNION {{<<at, c, x>> : x \in Subjects(c, todo[at])} : c \in (check + 1)..Coherence})

\* scan_alerts asks the live row whether its scan state is unknown...
CheckScan(r) ==
    /\ Ready(Scan) /\ usable = None
    /\ r \in left
    /\ IF ScanStateUnknown(Reading(r).scan)
       THEN Reads(r, <<"runner_scan_unknown">>) /\ UNCHANGED usable
       ELSE usable' = r /\ UNCHANGED <<left, pending>>
    /\ UNCHANGED <<environment, phase, todo, at, check, online, history>>

\* ... and if it is not takes the repositories from whatever the row holds by then...
WalkScan(r) ==
    /\ Ready(Scan) /\ usable = r
    /\ Reading(r).scan # None
    /\ \E repos \in Walks(Reading(r).scan.repos) : Reads(r, RepoAlerts(repos))
    /\ usable' = None
    /\ UNCHANGED <<environment, phase, todo, at, check, online, history>>

\* ... which raises into poll_cycle when there are none to take.
WalkRaises(r) ==
    /\ Ready(Scan) /\ usable = r
    /\ Reading(r).scan # None => Reading(r).scan.repos = None
    /\ cut' = cut \cup Unseen
    /\ Leave
    /\ UNCHANGED <<environment, phase, told, lost, torn, met, ever, steady>>

FetchRunners ==
    /\ Ready(Status) /\ online = None /\ left # {}
    /\ online' = world[at].online
    /\ UNCHANGED <<environment, phase, todo, at, check, left, usable, pending, history>>

CheckStatus(r) ==
    /\ Ready(Status) /\ online # None
    /\ Reads(r, StatusAlerts(r \in online, Reading(r)))
    /\ UNCHANGED <<environment, phase, todo, at, check, usable, online, history>>

CheckQueue ==
    /\ Ready(Queue)
    /\ Reads(None, IF world[at].stalled THEN <<"queue_stall">> ELSE <<>>)
    /\ UNCHANGED <<environment, phase, todo, at, check, usable, online, history>>

\* A branch the repository does not have is not an answer (404).
CheckGates(b) ==
    /\ Ready(Gates)
    /\ world[at].gates[b] # "no branch"
    /\ Reads(b, IF world[at].gates[b] = "red" THEN <<"gate_failure">> ELSE <<>>)
    /\ UNCHANGED <<environment, phase, todo, at, check, usable, online, history>>

CheckDrift ==
    /\ Ready(Drift)
    /\ Reads(None, DriftAlerts(world[at].drift))
    /\ UNCHANGED <<environment, phase, todo, at, check, usable, online, history>>

CheckCoherence ==
    /\ Ready(Coherence)
    /\ Reads(None, IF Named = {} THEN <<"coherence_unconfigured">>
                   ELSE CoherenceAlerts(world[at].coherence))
    /\ UNCHANGED <<environment, phase, todo, at, check, usable, online, history>>

\* Defect: the readings of the registry wait for GitHub too.
AskedAlways == {{x} : x \in left}

\* GitHub is about to be asked for these subjects.
Asked ==
    IF check = Status /\ online = None THEN {left}
    ELSE IF check = Gates \/ check = Queue \/ check = Drift
            \/ (check = Coherence /\ Named # {})
         THEN {{x} : x \in left}
    ELSE {}

\* No answer after the retries, or not 200: the check returns, or goes on with
\* the next branch.
Refused ==
    /\ Ready(check)
    /\ \E S \in Asked :
        /\ S # {}
        /\ left' = left \ S
        /\ cut' = cut \cup {<<at, check, x>> : x \in S}
    /\ UNCHANGED <<environment, phase, todo, at, check, usable, online, pending,
                   told, lost, torn, met, ever, steady>>

\* Defect: the exception ends the cycle.
RaisesOutOfCycle ==
    /\ Ready(check)
    /\ Asked \notin {{}, {{}}}
    /\ cut' = cut \cup Unseen
    /\ at' = None
    /\ todo' = [p \in Repos |-> {}]
    /\ check' = Image /\ left' = {} /\ usable' = None /\ online' = None /\ pending' = <<>>
    /\ UNCHANGED <<environment, phase, told, lost, torn, met, ever, steady>>

\* An exception (URLError, or an answer of another shape) reaches poll_cycle.
Raises ==
    /\ Ready(check)
    /\ Asked \notin {{}, {{}}}
    /\ cut' = cut \cup Unseen
    /\ Leave
    /\ UNCHANGED <<environment, phase, told, lost, torn, met, ever, steady>>

\* _raise_alert: the sink takes the alert...
Tell ==
    /\ pending # <<>>
    /\ told' = told \cup {<<at, check, pending[1].on>>}
    /\ pending' = Tail(pending)
    /\ UNCHANGED <<environment, phase, todo, at, check, left, usable, online,
                   cut, lost, torn, met, ever, steady>>

\* ... or raises (the audit log cannot be written).
SinkRaises ==
    /\ pending # <<>>
    /\ cut' = cut \cup Unseen
    /\ lost' = lost \cup {at}
    /\ Leave
    /\ UNCHANGED <<environment, phase, told, torn, met, ever, steady>>

Poll ==
    \/ BeginCycle \/ Advance \/ EndCycle
    \/ \E p \in Repos : PollRepo(p)
    \/ \E r \in Runners : CheckImage(r) \/ CheckStatus(r)
    \/ \E r \in Runners : CheckScan(r) \/ WalkScan(r) \/ WalkRaises(r)
    \/ FetchRunners
    \/ CheckQueue \/ CheckDrift \/ CheckCoherence
    \/ \E b \in Branches : CheckGates(b)
    \/ Refused \/ Raises
    \/ Tell \/ SinkRaises

Next ==
    \/ Poll
    \/ \E r \in Runners : Enroll(r) \/ Report(r) \/ GoStale(r) \/ Revoke(r)
    \/ \E p \in Repos : Change(p)

Spec == Init /\ [][Next]_vars

\* Every call to GitHub and every sleep is bounded, so the loop always goes on.
FairSpec == Spec /\ WF_vars(Poll)

-----------------------------------------------------------------------------
(* Properties *)

\* Every variable has its type.
TypeOK ==
    /\ rows \in [Runners -> {None} \cup Row]
    /\ world \in [Repos -> Worlds]
    /\ phase \in {"sleep", "poll"}
    /\ todo \in [Repos -> SUBSET Runners]
    /\ at \in Repos \cup {None}
    /\ check \in Checks
    /\ left \subseteq Runners \cup Branches \cup {None}
    /\ usable \in {None} \cup Runners
    /\ online \in {None} \cup SUBSET Runners
    /\ \A n \in DOMAIN pending : pending[n].on \in Runners \cup Branches \cup {None}
    /\ told \subseteq Repos \X Checks \X (Runners \cup Branches \cup {None})
    /\ cut \subseteq Repos \X Checks \X (Runners \cup Branches \cup {None})
    /\ lost \subseteq Repos /\ torn \subseteq Repos
    /\ met \subseteq Runners

\* A cycle leaves nothing out: what was wrong for one reason from its beginning to
\* its end was raised, unless GitHub refused that very reading or an exception cut off that
\* repository's turn (monitor.py:101-149).
NothingMissed ==
    phase = "sleep" =>
        Places({t \in steady : t.why \notin {"skipped", "hidden", "masked"}}) \subseteq told \cup cut

\* What only the registry knows goes quiet through no outage of GitHub: the image through
\* an alert that could not be filed, the scan state through that or a report that came
\* between the two looks at a row (monitor.py:122-128, scan_view.py:124-148).
OutageProof ==
    \A c \in cut : /\ c[2] = Image => c[1] \in lost
                   /\ c[2] = Scan => c[1] \in lost \cup torn

\* Every alert names something that was wrong, of a runner that was enrolled, at some
\* moment of this cycle, but for a drift scan that mon-drift-01 calls healthy and a newer
\* run hides from the check (monitor.py:269-374, scan_view.py:108-165).
NoFalseAlarm == told \subseteq Places(ever)

\* Whatever fails, a cycle comes to its end and the next one begins.
CycleEnds == phase = "poll" ~> phase = "sleep"

================================================================================
