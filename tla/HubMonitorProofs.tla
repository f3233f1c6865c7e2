---------------------------- MODULE HubMonitorProofs ----------------------------
(***************************************************************************)
(* Proofs about HubMonitor, for any repositories, runners, branches and    *)
(* readings, and any histories of GitHub's workflows.                      *)
(***************************************************************************)
EXTENDS HubMonitor, SequenceTheorems, WellFoundedInduction, TLAPS

Anyone == Runners \cup Branches \cup {None}
Classes == {"runner_image_missing", "runner_scan_unknown", "runner_scan_findings",
            "runner_offline", "queue_stall", "gate_failure", "drift_overdue", "drift_failed",
            "coherence_unconfigured", "coherence_missing", "coherence_failure",
            "coherence_skipped", "coherence_overdue"}
Alerts == [on : Anyone, class : Classes]
Excused == {"skipped", "hidden", "masked"}

T(p, c, x, why) == [at |-> <<p, c, x>>, why |-> why]

\* Where the loop is.
WhereInv ==
    /\ phase = "sleep" => at = None
    /\ at = None => pending = <<>> /\ usable = None /\ online = None
    /\ at # None => left \subseteq Subjects(check, todo[at])

\* The groups of a cycle are of runners that were enrolled in it.
GroupInv ==
    phase = "poll" =>
        \A p \in Repos : \A r \in todo[p] :
            r \in met /\ rows[r] # None /\ rows[r].repo = p

\* What the history of a cycle knows of the moment.
HistoryInv ==
    phase = "poll" =>
        /\ met \subseteq Runners
        /\ Amiss(met, Repos) \subseteq ever
        /\ steady \subseteq Amiss(Enrolled, Registered)

\* Between two looks at a scan state: only a report makes it unknown.
UsableInv ==
    usable # None =>
        /\ check = Scan /\ usable \in left
        /\ T(at, Scan, usable, "unknown") \notin steady
        /\ ScanStateUnknown(Reading(usable).scan) => at \in torn

\* The runners that GitHub said were offline.
OnlineInv ==
    online # None =>
        /\ \A r \in left : r \notin online => <<at, Status, r>> \in Places(ever)
        /\ \A r \in left : T(at, Status, r, "absent") \in steady => r \notin online

\* The alerts that wait are as true as those that were raised.
AlarmInv ==
    /\ told \subseteq Places(ever)
    /\ \A n \in DOMAIN pending : <<at, check, pending[n].on>> \in Places(ever)

\* What the cycle still comes to.
Coming(place) ==
    \/ \E p \in Repos \ {at}, c \in Checks :
           todo[p] # {} /\ \E x \in Subjects(c, todo[p]) : place = <<p, c, x>>
    \/ /\ at # None
       /\ \/ \E x \in left : place = <<at, check, x>>
          \/ \E n \in DOMAIN pending : place = <<at, check, pending[n].on>>
          \/ \E c \in (check + 1)..Coherence :
                 \E x \in Subjects(c, todo[at]) : place = <<at, c, x>>

MissedInv ==
    /\ phase = "poll" =>
           \A t \in steady :
               t.why \notin Excused => t.at \in told \/ t.at \in cut \/ Coming(t.at)
    /\ NothingMissed

MonitorInv ==
    /\ TypeOK /\ pending \in Seq(Alerts)
    /\ WhereInv /\ GroupInv /\ HistoryInv /\ OnlineInv /\ AlarmInv /\ MissedInv
    /\ UsableInv /\ OutageProof

-----------------------------------------------------------------------------
(* Facts about sequences and numbers *)

\* The first run on a watched branch exists if there is any (_check_spec_coherence).
LEMMA LeastNumber ==
  ASSUME NEW S, S \subseteq Nat, S # {}
  PROVE  Min(S) \in S /\ \A y \in S : Min(S) =< y
  <1>1. PICK x \in S : \A y \in S : ~ (<<y, x>> \in OpToRel(<, Nat))
    BY NatLessThanWellFounded, WFMin
  <1>2. \A y, z \in Nat : y < z => <<y, z>> \in OpToRel(<, Nat)
    BY DEF OpToRel
  <1>3. \A y, z \in Nat : ~ (y < z) => z =< y
    OBVIOUS
  <1>4. \A y \in S : ~ (y < x)
    BY <1>1, <1>2, Zenon
  <1>5. \E z \in S : \A y \in S : z =< y
    <2> HIDE <1>1
    <2> QED
      BY <1>3, <1>4, Zenon
  <1> QED
    BY <1>5 DEF Min

\* The alerts of one subject are a sequence again (_raise_alert, one call per class).
LEMMA AlertsOfSubject ==
  ASSUME NEW x \in Anyone, NEW classes \in Seq(Classes)
  PROVE  LET new == [n \in DOMAIN classes |-> [on |-> x, class |-> classes[n]]]
         IN  /\ new \in Seq(Alerts)
             /\ classes # <<>> => 1 \in DOMAIN new
             /\ \A n \in DOMAIN new : new[n].on = x
  <1> DEFINE new == [n \in DOMAIN classes |-> [on |-> x, class |-> classes[n]]]
  <1>1. Len(classes) \in Nat /\ DOMAIN classes = 1..Len(classes)
    OBVIOUS
  <1>2. \A n \in 1..Len(classes) : new[n] \in Alerts /\ new[n].on = x
    BY <1>1 DEF Alerts
  <1>3. new \in [1..Len(classes) -> Alerts]
    BY <1>1, <1>2
  <1>4. new \in Seq(Alerts)
    <2> HIDE DEF new
    <2> QED
      BY <1>1, <1>3, SeqDef
  <1>5. classes # <<>> => 1 \in DOMAIN new
    BY <1>1, EmptySeq
  <1> QED
    BY <1>1, <1>2, <1>4, <1>5

\* A check visits runners, branches or the repository itself (_poll_repo).
LEMMA SubjectsType ==
  ASSUME NEW c, NEW g, g \subseteq Runners
  PROVE  Subjects(c, g) \subseteq Anyone
  BY DEF Subjects, Anyone

\* Each of the first three checks visits the group.
LEMMA SubjectsAre ==
  ASSUME NEW g
  PROVE  Subjects(Image, g) = g /\ Subjects(Scan, g) = g /\ Subjects(Status, g) = g
  <1>1. Image # Gates /\ Scan # Gates /\ Status # Gates
    BY DEF Image, Scan, Status, Gates
  <1>2. Subjects(Image, g) = g
    BY <1>1 DEF Subjects
  <1>3. Subjects(Scan, g) = g
    BY <1>1 DEF Subjects
  <1>4. Subjects(Status, g) = g
    BY <1>1 DEF Subjects
  <1> QED
    BY <1>2, <1>3, <1>4

-----------------------------------------------------------------------------
(* Verdicts *)

\* One alert, or none.
LEMMA Words == <<>> \in Seq(Classes) /\ \A class \in Classes : <<class>> \in Seq(Classes)
  OBVIOUS

\* Silence about the records walked is exactly a clean sweep (scan_view.scan_alerts).
LEMMA RepoVerdict ==
  ASSUME NEW repos
  PROVE  /\ RepoAlerts(repos) \in Seq(Classes)
         /\ RepoAlerts(repos) = <<>> <=> repos \subseteq {"clean"}
  <1> DEFINE leak == IF "findings" \in repos THEN <<"runner_scan_findings">> ELSE <<>>
  <1> DEFINE rest == IF repos \subseteq {"clean", "findings"} THEN <<>>
                     ELSE <<"runner_scan_unknown">>
  <1>1. leak \in Seq(Classes) /\ rest \in Seq(Classes)
    BY Words DEF Classes
  <1>2. leak = <<>> <=> "findings" \notin repos
    OBVIOUS
  <1>3. rest = <<>> <=> repos \subseteq {"clean", "findings"}
    OBVIOUS
  <1>4. RepoAlerts(repos) = leak \o rest
    BY DEF RepoAlerts
  <1> HIDE DEF leak, rest
  <1>5. leak \o rest \in Seq(Classes) /\ (leak \o rest = <<>> <=> leak = <<>> /\ rest = <<>>)
    BY <1>1, ConcatProperties, ConcatEmptySeq, EmptySeq
  <1> QED
    BY <1>2, <1>3, <1>4, <1>5

\* The drift check is silent of a healthy scan only, and of every one that no newer run
\* hides (_check_drift_scan).
LEMMA DriftVerdict ==
  ASSUME NEW runs \in {NoWorkflow} \cup Seq(Runs)
  PROVE  /\ DriftAlerts(runs) \in Seq(Classes)
         /\ DriftAlerts(runs) = <<>> <=> DriftHealthy(runs) /\ ~DriftHidden(runs)
  <1>1. DriftAlerts(runs) \in Seq(Classes)
    BY Words DEF Classes, DriftAlerts, Recency
  <1>2. CASE runs \in {NoWorkflow, <<>>}
    <2>1. DriftAlerts(runs) # <<>>
      BY <1>2 DEF DriftAlerts
    <2>2. ~DriftHealthy(runs)
      <3>1. CASE runs = NoWorkflow
        BY <3>1 DEF DriftHealthy
      <3>2. CASE runs = <<>>
        <4>1. DOMAIN runs = {}
          BY <3>2
        <4> QED
          BY <4>1 DEF DriftHealthy
      <3> QED
        BY <1>2, <3>1, <3>2
    <2> QED
      BY <1>1, <2>1, <2>2
  <1>3. CASE runs \notin {NoWorkflow, <<>>}
    <2>1. runs[1] \in Runs /\ 1 \in DOMAIN runs /\ runs # NoWorkflow /\ runs \in Seq(Runs)
      BY <1>3
    <2>2. DriftAlerts(runs) = <<>> <=>
              runs[1].conclusion \notin NonPassing /\ runs[1].age = "recent"
      BY <1>3 DEF DriftAlerts, Recency
    <2>3. runs[1].age = "recent" => runs[1].conclusion # None
      BY <2>1, MonitorAssumption DEF Runs
    <2>4. DriftHealthy(runs) => runs[1].conclusion \notin NonPassing
      <3>1. \A m \in 1..(1 - 1) : runs[m].conclusion = None
        OBVIOUS
      <3> QED
        BY <2>1, <3>1 DEF DriftHealthy
    <2>5. ASSUME runs[1].conclusion \notin NonPassing, runs[1].age = "recent"
          PROVE  DriftHealthy(runs)
      <3> SUFFICES ASSUME NEW n \in DOMAIN runs,
                          \A m \in 1..(n - 1) : runs[m].conclusion = None
                   PROVE  runs[n].conclusion \notin NonPassing
        BY <2>1, <2>5 DEF DriftHealthy
      <3>1. n \in Nat /\ n >= 1
        BY <2>1
      <3>2. n # 1 => 1 \in 1..(n - 1)
        BY <3>1
      <3> QED
        BY <2>3, <2>5, <3>2
    <2> QED
      BY <1>1, <2>2, <2>4, <2>5 DEF DriftHidden
  <1> QED
    BY <1>2, <1>3

\* Silence of the coherence check is a recent pass of the newest watched run
\* (_check_spec_coherence).
LEMMA CoherenceVerdict ==
  ASSUME NEW runs \in {NoWorkflow} \cup Seq(Runs), Named # {}
  PROVE  /\ CoherenceAlerts(runs) \in Seq(Classes)
         /\ CoherenceAlerts(runs) = <<>> <=> CoherenceHealthy(runs)
  <1>1. CoherenceAlerts(runs) \in Seq(Classes)
    BY Words DEF Classes, CoherenceAlerts, Recency
  <1>2. CASE runs = NoWorkflow \/ \A n \in DOMAIN runs : runs[n].branch \notin Named
    BY <1>1, <1>2 DEF CoherenceAlerts, CoherenceHealthy
  <1>3. CASE runs # NoWorkflow /\ \E n \in DOMAIN runs : runs[n].branch \in Named
    <2> DEFINE S == {n \in DOMAIN runs : runs[n].branch \in Named}
    <2> DEFINE first == Min(S)
    <2>0. runs \in Seq(Runs)
      BY <1>3
    <2>1. S \subseteq Nat /\ S # {}
      BY <1>3, <2>0
    <2>2. first \in S /\ \A y \in S : first =< y
      BY <2>1, LeastNumber
    <2>3. /\ first \in DOMAIN runs /\ first \in Nat
          /\ runs[first].branch \in Named /\ runs[first] \in Runs
          /\ Latest(runs) = runs[first]
      BY <2>0, <2>2 DEF Latest
    <2>4. \A m \in 1..(first - 1) : runs[m].branch \notin Named
      <3> SUFFICES ASSUME NEW m \in 1..(first - 1), runs[m].branch \in Named
                   PROVE  FALSE
        OBVIOUS
      <3>1. m \in DOMAIN runs /\ m < first
        BY <2>0, <2>3
      <3>2. m \in S
        BY <3>1
      <3>3. first =< m
        BY <2>2, <3>2
      <3> QED
        BY <2>3, <3>1, <3>3
    <2>5. \A n \in DOMAIN runs :
              runs[n].branch \in Named /\ (\A m \in 1..(n - 1) : runs[m].branch \notin Named)
                  => n = first
      <3> SUFFICES ASSUME NEW n \in DOMAIN runs, runs[n].branch \in Named,
                          \A m \in 1..(n - 1) : runs[m].branch \notin Named
                   PROVE  n = first
        OBVIOUS
      <3>1. n \in S
        OBVIOUS
      <3>2. first =< n
        BY <2>2, <3>1
      <3>3. n \in Nat /\ first >= 1
        BY <2>0, <2>3
      <3>4. first \notin 1..(n - 1)
        BY <2>3
      <3> QED
        BY <2>3, <3>2, <3>3, <3>4
    <2> HIDE DEF first, S
    <2>6. CoherenceHealthy(runs) <=> Passed(runs[first])
      BY <1>3, <2>3, <2>4, <2>5 DEF CoherenceHealthy
    <2>7. CoherenceAlerts(runs) = <<>> <=>
              /\ runs[first].conclusion \notin {"failure", "skipped"}
              /\ runs[first].age = "recent"
      BY <1>3, <2>3 DEF CoherenceAlerts, Recency, NonPassing
    <2>8. runs[first].conclusion \in {"failure", "success", "skipped", None}
      BY <2>3 DEF Runs, NonPassing
    <2>9. runs[first].conclusion = None => runs[first].age # "recent"
      BY <2>3, MonitorAssumption DEF Runs
    <2> QED
      BY <1>1, <2>6, <2>7, <2>8, <2>9 DEF Passed
  <1> QED
    BY <1>2, <1>3

-----------------------------------------------------------------------------
(* What is wrong, and where *)

\* The ways a runner can be wrong (secret-scan, image and heartbeat documents).
RunnerWrong(r, c, why) ==
    \/ c = Image /\ why = "image" /\ ~Reading(r).digest
    \/ /\ c = Scan /\ ~ScannedClean(Reading(r).scan)
       /\ why = IF ScanStateUnknown(Reading(r).scan) THEN "unknown" ELSE "unclean"
    \/ c = Status /\ why = "silent" /\ Reading(r).beat = "stale"
    \/ c = Status /\ why = "absent" /\ r \notin world[rows[r].repo].online

\* The ways a repository can be wrong.
RepoWrong(p, c, why) ==
    \/ c = Queue /\ why = "queue" /\ world[p].stalled
    \/ c = Drift /\ why = "drift" /\ ~DriftHealthy(world[p].drift)
    \/ c = Drift /\ why = "skipped" /\ DriftSkipped(world[p].drift)
    \/ c = Drift /\ why = "hidden" /\ DriftHidden(world[p].drift)
    \/ c = Coherence /\ why = "coherence" /\ ~CoherenceHealthy(world[p].coherence)
    \/ c = Coherence /\ why = "masked" /\ CoherenceMasked(world[p].coherence)

\* Every trouble is a runner's, a repository's or a branch's.
LEMMA AmissIs ==
  ASSUME NEW R, NEW P, NEW t \in Amiss(R, P)
  PROVE  \/ \E r \in R : \E c, why : t = T(rows[r].repo, c, r, why) /\ RunnerWrong(r, c, why)
         \/ \E p \in P : \E c, why : t = T(p, c, None, why) /\ RepoWrong(p, c, why)
         \/ \E p \in P, b \in Branches :
                t = T(p, Gates, b, "gates") /\ world[p].gates[b] = "red"
  <1>1. CASE \E r \in R : \E why \in WrongWith(r) : t = Trouble(rows[r].repo, why, r)
    <2>1. PICK r \in R : \E why \in WrongWith(r) : t = Trouble(rows[r].repo, why, r)
      BY <1>1
    <2>0. PICK why \in WrongWith(r) : t = Trouble(rows[r].repo, why, r)
      BY <2>1
    <2>2. t = T(rows[r].repo, why[1], r, why[2])
      BY <2>0 DEF Trouble, T
    <2>3. RunnerWrong(r, why[1], why[2])
      <3> HIDE DEF ScannedClean
      <3> QED
        BY <2>0 DEF WrongWith, RunnerWrong, Reading, Image, Scan, Status
    <2> QED
      BY <2>2, <2>3
  <1>2. CASE \E p \in P : \E why \in WrongAt(p) : t = Trouble(p, why, None)
    <2>1. PICK p \in P : \E why \in WrongAt(p) : t = Trouble(p, why, None)
      BY <1>2
    <2>0. PICK why \in WrongAt(p) : t = Trouble(p, why, None)
      BY <2>1
    <2>2. t = T(p, why[1], None, why[2])
      BY <2>0 DEF Trouble, T
    <2>3. RepoWrong(p, why[1], why[2])
      BY <2>0 DEF WrongAt, RepoWrong, Queue, Drift, Coherence
    <2> QED
      BY <2>2, <2>3
  <1>3. CASE \E pb \in P \X Branches :
                 world[pb[1]].gates[pb[2]] = "red" /\ t = Trouble(pb[1], <<Gates, "gates">>, pb[2])
    BY <1>3 DEF Trouble, T
  <1> QED
    BY <1>1, <1>2, <1>3 DEF Amiss

\* What is wrong with a runner, a repository or a branch has its place.
LEMMA AmissHas ==
  ASSUME NEW R, NEW P
  PROVE  /\ \A r \in R : \A c, why :
                RunnerWrong(r, c, why) => <<rows[r].repo, c, r>> \in Places(Amiss(R, P))
         /\ \A p \in P : \A c, why : RepoWrong(p, c, why) => <<p, c, None>> \in Places(Amiss(R, P))
         /\ \A p \in P, b \in Branches :
                world[p].gates[b] = "red" => <<p, Gates, b>> \in Places(Amiss(R, P))
  <1>1. ASSUME NEW r \in R, NEW c, NEW why, RunnerWrong(r, c, why)
        PROVE  <<rows[r].repo, c, r>> \in Places(Amiss(R, P))
    <2> DEFINE w == <<c, why>>
    <2>1. w \in WrongWith(r)
      BY <1>1 DEF WrongWith, RunnerWrong, Reading, Image, Scan, Status
    <2>2. Trouble(rows[r].repo, w, r) \in Amiss(R, P)
      BY <2>1 DEF Amiss
    <2>3. Trouble(rows[r].repo, w, r).at = <<rows[r].repo, c, r>>
      BY DEF Trouble
    <2> QED
      BY <2>2, <2>3 DEF Places
  <1>2. ASSUME NEW p \in P, NEW c, NEW why, RepoWrong(p, c, why)
        PROVE  <<p, c, None>> \in Places(Amiss(R, P))
    <2> DEFINE w == <<c, why>>
    <2>1. w \in WrongAt(p)
      BY <1>2 DEF WrongAt, RepoWrong, Queue, Drift, Coherence
    <2>2. Trouble(p, w, None) \in Amiss(R, P)
      BY <2>1 DEF Amiss
    <2>3. Trouble(p, w, None).at = <<p, c, None>>
      BY DEF Trouble
    <2> QED
      BY <2>2, <2>3 DEF Places
  <1>3. ASSUME NEW p \in P, NEW b \in Branches, world[p].gates[b] = "red"
        PROVE  <<p, Gates, b>> \in Places(Amiss(R, P))
    <2>1. Trouble(p, <<Gates, "gates">>, b) \in Amiss(R, P)
      <3> DEFINE pb == <<p, b>>
      <3>1. pb \in P \X Branches /\ pb[1] = p /\ pb[2] = b
        OBVIOUS
      <3> HIDE DEF pb
      <3> QED
        BY <1>3, <3>1 DEF Amiss
    <2>2. Trouble(p, <<Gates, "gates">>, b).at = <<p, Gates, b>>
      BY DEF Trouble
    <2> QED
      BY <2>1, <2>2 DEF Places
  <1> QED
    BY <1>1, <1>2, <1>3

-----------------------------------------------------------------------------
(* Steps *)

\* What the turn of a repository would still have looked at is what comes of it.
LEMMA UnseenIs ==
  ASSUME NEW place
  PROVE  place \in Unseen <=>
             \/ \E x \in left : place = <<at, check, x>>
             \/ \E n \in DOMAIN pending : place = <<at, check, pending[n].on>>
             \/ \E c \in (check + 1)..Coherence :
                    \E x \in Subjects(c, todo[at]) : place = <<at, c, x>>
  BY DEF Unseen

\* Nothing is more or less amiss when neither GitHub nor the registry changes.
LEMMA AmissSame ==
  ASSUME UNCHANGED <<rows, world, met>>
  PROVE  /\ Amiss(met, Repos)' = Amiss(met, Repos)
         /\ Amiss(Enrolled, Registered)' = Amiss(Enrolled, Registered)
  BY DEF Amiss, WrongWith, WrongAt, Trouble, Enrolled, Registered

\* A step of the environment: rows stay with their repository, and the history keeps up.
LEMMA EnvironmentStep ==
  ASSUME MonitorInv, UNCHANGED loop, Observe,
         rows' \in [Runners -> {None} \cup Row],
         world' \in [Repos -> Worlds],
         \A r \in Runners : rows[r] # None => rows'[r] # None /\ rows'[r].repo = rows[r].repo
  PROVE  MonitorInv'
  <1> USE DEF MonitorInv
  <1>0. UNCHANGED <<phase, todo, at, check, left, usable, online, pending, told, cut, lost>>
    BY DEF loop, Observe
  <1>1. ever \subseteq ever' /\ steady' \subseteq steady /\ met \subseteq met'
    BY DEF Observe
  <1>2. Enrolled' \subseteq Runners
    BY DEF Enrolled
  <1>3. TypeOK' /\ (pending \in Seq(Alerts))'
    <2>1. met' \subseteq Runners
      BY <1>2 DEF Observe, TypeOK
    <2>2. torn' \subseteq Repos
      BY DEF Observe, TypeOK, WhereInv
    <2> QED
      BY <1>0, <2>1, <2>2 DEF TypeOK
  <1>4. WhereInv'
    BY <1>0 DEF WhereInv, Subjects
  <1>5. GroupInv'
    BY <1>0, <1>1 DEF GroupInv, TypeOK
  <1>6. HistoryInv'
    <2>1. phase = "poll" => Amiss(met, Repos)' \subseteq ever'
      BY DEF Observe
    <2>2. phase = "poll" => steady' \subseteq Amiss(Enrolled, Registered)'
      BY DEF Observe
    <2> QED
      BY <1>0, <1>3, <2>1, <2>2 DEF HistoryInv, TypeOK
  <1>7. OnlineInv'
    BY <1>0, <1>1 DEF OnlineInv, Places
  <1>8. AlarmInv'
    BY <1>0, <1>1 DEF AlarmInv, Places
  <1>9. MissedInv'
    <2>1. phase = "sleep" => steady' = steady
      BY DEF Observe
    <2>2. NothingMissed'
      BY <1>0, <2>1 DEF MissedInv, NothingMissed, Places
    <2>3. \A place : Coming(place)' <=> Coming(place)
      BY <1>0 DEF Coming
    <2> QED
      BY <1>0, <1>1, <2>2, <2>3 DEF MissedInv
  <1>10. UsableInv' /\ OutageProof'
    <2>1. /\ torn \subseteq torn'
          /\ usable # None /\ at \notin torn' => Reading(usable)'.scan = Reading(usable).scan
      BY <1>0 DEF Observe, Reading
    <2>2. UsableInv'
      BY <1>0, <1>1, <2>1 DEF UsableInv
    <2>3. OutageProof'
      BY <1>0, <2>1 DEF OutageProof
    <2> QED
      BY <2>2, <2>3
  <1> QED
    BY <1>3, <1>4, <1>5, <1>6, <1>7, <1>8, <1>9, <1>10

\* The part of the invariant that a step of the loop within a cycle leaves alone.
LEMMA HistoryStep ==
  ASSUME MonitorInv, UNCHANGED <<environment, phase, met, ever, steady>>
  PROVE  /\ HistoryInv'
         /\ rows' \in [Runners -> {None} \cup Row] /\ world' \in [Repos -> Worlds]
         /\ met' \subseteq Runners
  BY AmissSame DEF MonitorInv, HistoryInv, TypeOK, environment

LEMMA CycleBegins ==
  ASSUME MonitorInv, BeginCycle
  PROVE  MonitorInv'
  <1> USE DEF MonitorInv
  <1>0. /\ at = None /\ pending = <<>> /\ usable = None /\ online = None
        /\ UNCHANGED <<rows, world, at, check, left, usable, online, pending>>
        /\ phase' = "poll" /\ todo' = [p \in Repos |-> Group(p)]
        /\ told' = {} /\ cut' = {} /\ lost' = {} /\ torn' = {} /\ met' = Enrolled
    BY DEF BeginCycle, WhereInv, environment
  <1>1. \A p \in Repos : Group(p) \subseteq Enrolled
    BY DEF Group, Enrolled
  <1>2. Enrolled \subseteq Runners
    BY DEF Enrolled
  <1>3. TypeOK' /\ (pending \in Seq(Alerts))'
    BY <1>0, <1>1, <1>2 DEF TypeOK
  <1>4. WhereInv'
    BY <1>0 DEF WhereInv
  <1>5. GroupInv'
    BY <1>0, <1>1 DEF GroupInv, Group
  <1>6. /\ ever' = Amiss(met, Repos)'
        /\ steady' = Amiss(Enrolled, Registered)'
        /\ steady' = Amiss(Enrolled, Registered)
    <2>1. ever' = Amiss(Enrolled, Repos) /\ steady' = Amiss(Enrolled, Registered)
      BY DEF BeginCycle
    <2>2. Amiss(met, Repos)' = Amiss(Enrolled, Repos)
      BY <1>0 DEF Amiss, WrongWith, WrongAt, Trouble
    <2>3. Amiss(Enrolled, Registered)' = Amiss(Enrolled, Registered)
      BY <1>0 DEF Amiss, WrongWith, WrongAt, Trouble, Enrolled, Registered
    <2> QED
      BY <2>1, <2>2, <2>3
  <1>7. HistoryInv'
    BY <1>0, <1>2, <1>6 DEF HistoryInv
  <1>8. OnlineInv' /\ AlarmInv'
    BY <1>0 DEF OnlineInv, AlarmInv
  <1>9. MissedInv'
    <2> SUFFICES ASSUME NEW t \in Amiss(Enrolled, Registered)
                 PROVE  Coming(t.at)'
      BY <1>0, <1>6 DEF MissedInv, NothingMissed
    <2>1. \A p \in Repos, c \in Checks : \A x \in Subjects(c, todo'[p]) :
              todo'[p] # {} => Coming(<<p, c, x>>)'
      BY <1>0, MonitorAssumption DEF Coming, Subjects
    <2>2. ASSUME NEW r \in Enrolled, NEW c, NEW why, RunnerWrong(r, c, why),
                 t = T(rows[r].repo, c, r, why)
          PROVE  Coming(t.at)'
      <3>1. rows[r].repo \in Repos /\ r \in todo'[rows[r].repo]
        BY <1>0 DEF Enrolled, Group, TypeOK, Row
      <3>2. c \in {Image, Scan, Status}
        BY <2>2 DEF RunnerWrong
      <3>3. c \in Checks /\ Subjects(c, todo'[rows[r].repo]) = todo'[rows[r].repo]
        BY <3>2, SubjectsAre DEF Checks, Image, Scan, Status
      <3>4. t.at = <<rows[r].repo, c, r>>
        BY <2>2 DEF T
      <3> QED
        BY <2>1, <3>1, <3>3, <3>4
    <2>3. \A p \in Registered : p \in Repos /\ todo'[p] # {}
      BY <1>0 DEF Registered, Enrolled, Group
    <2>4. ASSUME NEW p \in Registered, NEW c, NEW why, RepoWrong(p, c, why),
                 t = T(p, c, None, why)
          PROVE  Coming(t.at)'
      <3>1. c \in {Queue, Drift, Coherence}
        BY <2>4 DEF RepoWrong
      <3>2. c \in Checks /\ None \in Subjects(c, todo'[p])
        BY <3>1 DEF Subjects, Checks, Image, Scan, Status, Queue, Gates, Drift, Coherence
      <3>3. t.at = <<p, c, None>>
        BY <2>4 DEF T
      <3> QED
        BY <2>1, <2>3, <3>2, <3>3
    <2>5. ASSUME NEW p \in Registered, NEW b \in Branches, t = T(p, Gates, b, "gates")
          PROVE  Coming(t.at)'
      <3>1. Gates \in Checks /\ b \in Subjects(Gates, todo'[p])
        BY DEF Subjects, Checks, Image, Scan, Status, Gates
      <3>2. t.at = <<p, Gates, b>>
        BY <2>5 DEF T
      <3> QED
        BY <2>1, <2>3, <3>1, <3>2
    <2> QED
      BY <2>2, <2>4, <2>5, AmissIs
  <1>10. UsableInv' /\ OutageProof'
    BY <1>0 DEF UsableInv, Reading, OutageProof
  <1> QED
    BY <1>3, <1>4, <1>5, <1>7, <1>8, <1>9, <1>10

LEMMA CycleEndsStep ==
  ASSUME MonitorInv, EndCycle
  PROVE  MonitorInv'
  <1> USE DEF MonitorInv
  <1>0. /\ phase = "poll" /\ phase' = "sleep" /\ at = None
        /\ \A p \in Repos : todo[p] = {}
        /\ UNCHANGED <<rows, world, todo, at, check, left, usable, online, pending,
                       told, cut, lost, torn, met, ever, steady>>
    BY DEF EndCycle, environment, history
  <1>1. TypeOK' /\ (pending \in Seq(Alerts))'
    BY <1>0 DEF TypeOK
  <1>2. WhereInv' /\ GroupInv' /\ HistoryInv'
    BY <1>0 DEF WhereInv, GroupInv, HistoryInv
  <1>3. OnlineInv' /\ AlarmInv' /\ UsableInv' /\ OutageProof'
    BY <1>0 DEF OnlineInv, AlarmInv, UsableInv, Reading, OutageProof, WhereInv
  <1>4. \A place : ~Coming(place)
    BY <1>0 DEF Coming
  <1>5. MissedInv'
    BY <1>0, <1>4 DEF MissedInv, NothingMissed, Places, Excused
  <1> QED
    BY <1>1, <1>2, <1>3, <1>5

LEMMA RepoBegins ==
  ASSUME MonitorInv, NEW q \in Repos, PollRepo(q)
  PROVE  MonitorInv'
  <1> USE DEF MonitorInv
  <1>0. /\ phase = "poll" /\ at = None /\ todo[q] # {} /\ at' = q
        /\ check' = Image /\ left' = Subjects(Image, todo[q])
        /\ usable' = None /\ online' = None /\ pending' = <<>>
        /\ UNCHANGED <<rows, world, phase, todo, told, cut, lost, torn, met, ever, steady>>
    BY DEF PollRepo, Enter, environment, history
  <1>1. TypeOK' /\ (pending \in Seq(Alerts))'
    <2>1. left' \subseteq Anyone
      BY <1>0, SubjectsType DEF TypeOK
    <2> QED
      BY <1>0, <2>1 DEF TypeOK, Checks, Image, Anyone
  <1>2. WhereInv' /\ GroupInv'
    BY <1>0, MonitorAssumption DEF WhereInv, GroupInv
  <1>3. HistoryInv'
    BY <1>0, HistoryStep DEF environment
  <1>4. OnlineInv' /\ AlarmInv' /\ UsableInv' /\ OutageProof'
    BY <1>0 DEF OnlineInv, AlarmInv, UsableInv, Reading, OutageProof, Places
  <1>5. ASSUME NEW place, Coming(place)
        PROVE  Coming(place)'
    <2>1. PICK p \in Repos, c \in Checks : 
              todo[p] # {} /\ \E x \in Subjects(c, todo[p]) : place = <<p, c, x>>
      BY <1>0, <1>5 DEF Coming
    <2>2. CASE p # q
      BY <1>0, <2>1, <2>2 DEF Coming
    <2>3. CASE p = q
      <3>1. c = Image \/ c \in (Image + 1)..Coherence
        BY DEF Checks, Image, Coherence
      <3> QED
        BY <1>0, <2>1, <2>3, <3>1, MonitorAssumption DEF Coming
    <2> QED
      BY <2>2, <2>3
  <1>6. MissedInv'
    BY <1>0, <1>5 DEF MissedInv, NothingMissed
  <1> QED
    BY <1>1, <1>2, <1>3, <1>4, <1>6

\* The next check, or the next repository (_poll_repo's sequence).
LEMMA AdvanceStep ==
  ASSUME MonitorInv, Advance
  PROVE  MonitorInv'
  <1> USE DEF MonitorInv
  <1>0. /\ phase = "poll" /\ at \in Repos /\ left = {} /\ pending = <<>>
        /\ check \in Checks
        /\ pending' = <<>> /\ usable' = None /\ online' = None
        /\ UNCHANGED <<rows, world, phase, told, cut, lost, torn, met, ever, steady>>
    BY DEF Advance, Enter, Leave, environment, history, TypeOK
  <1>1. CASE check < Coherence
    <2>1. /\ check' = check + 1 /\ left' = Subjects(check + 1, todo[at])
          /\ UNCHANGED <<at, todo>>
      BY <1>1 DEF Advance, Enter
    <2>2. check + 1 \in Checks
      BY <1>0, <1>1 DEF Checks, Coherence
    <2>3. TypeOK' /\ (pending \in Seq(Alerts))'
      <3>1. left' \subseteq Anyone
        BY <1>0, <2>1, SubjectsType DEF TypeOK
      <3> QED
        BY <1>0, <2>1, <2>2, <3>1 DEF TypeOK, Anyone
    <2>4. WhereInv' /\ GroupInv'
      BY <1>0, <2>1 DEF WhereInv, GroupInv
    <2>5. HistoryInv'
      BY <1>0, HistoryStep DEF environment
    <2>6. OnlineInv' /\ AlarmInv' /\ UsableInv' /\ OutageProof'
      BY <1>0 DEF OnlineInv, AlarmInv, UsableInv, Reading, OutageProof, Places
    <2>7. ASSUME NEW place, Coming(place)
          PROVE  Coming(place)'
      <3>1. ASSUME NEW c \in (check + 1)..Coherence
            PROVE  c = check + 1 \/ c \in (check + 1 + 1)..Coherence
        BY <1>0 DEF Checks, Coherence
      <3> QED
        BY <1>0, <2>1, <2>7, <3>1 DEF Coming
    <2>8. MissedInv'
      BY <1>0, <2>7 DEF MissedInv, NothingMissed
    <2> QED
      BY <2>3, <2>4, <2>5, <2>6, <2>8
  <1>2. CASE ~(check < Coherence)
    <2>1. /\ at' = None /\ todo' = [todo EXCEPT ![at] = {}] /\ check' = Image /\ left' = {}
      BY <1>2 DEF Advance, Leave
    <2>2. TypeOK' /\ (pending \in Seq(Alerts))'
      BY <1>0, <2>1 DEF TypeOK, Checks, Image
    <2>3. WhereInv' /\ GroupInv'
      BY <1>0, <2>1 DEF WhereInv, GroupInv, TypeOK
    <2>4. HistoryInv'
      BY <1>0, HistoryStep DEF environment
    <2>5. OnlineInv' /\ AlarmInv' /\ UsableInv' /\ OutageProof'
      BY <1>0 DEF OnlineInv, AlarmInv, UsableInv, Reading, OutageProof, Places
    <2>6. ASSUME NEW place, Coming(place)
          PROVE  Coming(place)'
      <3>1. \A c : c \notin (check + 1)..Coherence
        BY <1>0, <1>2 DEF Checks, Coherence
      <3>2. PICK p \in Repos \ {at}, c \in Checks :
                todo[p] # {} /\ \E x \in Subjects(c, todo[p]) : place = <<p, c, x>>
        BY <1>0, <2>6, <3>1 DEF Coming
      <3>3. todo'[p] = todo[p] /\ p # at'
        BY <2>1, <3>2, MonitorAssumption DEF TypeOK
      <3> QED
        BY <3>2, <3>3 DEF Coming
    <2>7. MissedInv'
      BY <1>0, <2>6 DEF MissedInv, NothingMissed
    <2> QED
      BY <2>2, <2>3, <2>4, <2>5, <2>7
  <1> QED
    BY <1>1, <1>2

\* A reading that is as true as its alerts, and as silent as there is nothing wrong.
LEMMA ReadStep ==
  ASSUME MonitorInv, NEW x, NEW classes \in Seq(Classes), Ready(check), Reads(x, classes),
         UNCHANGED <<environment, phase, todo, at, check, online, history>>, usable' = None,
         classes # <<>> => <<at, check, x>> \in Places(ever),
         classes = <<>> => \A t \in steady : t.why \notin Excused => t.at # <<at, check, x>>
  PROVE  MonitorInv'
  <1> USE DEF MonitorInv
  <1>0. /\ phase = "poll" /\ at \in Repos /\ pending = <<>>
        /\ x \in left /\ left' = left \ {x}
        /\ usable' = None
        /\ UNCHANGED <<rows, world, phase, todo, at, check, online,
                       told, cut, lost, torn, met, ever, steady>>
    BY DEF Ready, Reads, environment, history, TypeOK
  <1>1. x \in Anyone
    BY <1>0 DEF TypeOK, Anyone
  <1>2. /\ pending' \in Seq(Alerts)
        /\ classes # <<>> => 1 \in DOMAIN pending'
        /\ \A n \in DOMAIN pending' : pending'[n].on = x
    BY <1>1, AlertsOfSubject DEF Reads
  <1>3. classes = <<>> => DOMAIN pending' = {}
    BY DEF Reads
  <1>4. TypeOK' /\ (pending \in Seq(Alerts))'
    BY <1>0, <1>1, <1>2 DEF TypeOK, Anyone
  <1>5. WhereInv' /\ GroupInv'
    <2>1. at # None /\ at' # None /\ phase' # "sleep"
      BY <1>0, MonitorAssumption
    <2>2. left' \subseteq Subjects(check, todo[at])
      BY <1>0, <2>1 DEF WhereInv
    <2> QED
      BY <1>0, <2>1, <2>2 DEF WhereInv, GroupInv
  <1>6. HistoryInv'
    BY <1>0, HistoryStep DEF environment
  <1>7. OnlineInv' /\ UsableInv' /\ OutageProof'
    BY <1>0 DEF OnlineInv, UsableInv, Reading, OutageProof, Places
  <1>8. AlarmInv'
    BY <1>0, <1>2, <1>3 DEF AlarmInv, Places
  <1>9. ASSUME NEW place, Coming(place), classes = <<>> => place # <<at, check, x>>
        PROVE  Coming(place)'
    BY <1>0, <1>2, <1>9 DEF Coming
  <1>10. MissedInv'
    BY <1>0, <1>9 DEF MissedInv, NothingMissed
  <1> QED
    BY <1>4, <1>5, <1>6, <1>7, <1>8, <1>10

\* The row that a check of a runner reads is one of the repository's group, wrong only if
\* history knows it (_check_runner_image, _check_runner_scan, _check_runner_status).
LEMMA RunnerReading ==
  ASSUME MonitorInv, NEW r \in left, Ready(check), check \in {Image, Scan, Status}
  PROVE  /\ r \in Runners /\ at \in Repos /\ rows[r] \in Row /\ rows[r].repo = at
         /\ \A why : RunnerWrong(r, check, why) => <<at, check, r>> \in Places(ever)
         /\ \A t \in steady : t.at = <<at, check, r>> =>
                RunnerWrong(r, check, t.why) /\ t = T(at, check, r, t.why)
  <1> USE DEF MonitorInv
  <1>1. at \in Repos /\ phase = "poll"
    BY DEF Ready, TypeOK
  <1>2. r \in todo[at]
    BY <1>1, SubjectsAre DEF WhereInv, Ready
  <1>3. r \in Runners /\ r \in met /\ rows[r] \in Row /\ rows[r].repo = at
    BY <1>1, <1>2 DEF GroupInv, TypeOK
  <1>4. ASSUME NEW why, RunnerWrong(r, check, why)
        PROVE  <<at, check, r>> \in Places(ever)
    <2>1. <<at, check, r>> \in Places(Amiss(met, Repos))
      BY <1>3, <1>4, AmissHas
    <2>2. Amiss(met, Repos) \subseteq ever
      BY <1>1 DEF HistoryInv
    <2> QED
      BY <2>1, <2>2 DEF Places
  <1>5. ASSUME NEW t \in steady, t.at = <<at, check, r>>
        PROVE  RunnerWrong(r, check, t.why) /\ t = T(at, check, r, t.why)
    <2>1. t \in Amiss(Enrolled, Registered)
      BY <1>1 DEF HistoryInv
    <2>2. ASSUME NEW q \in Enrolled, NEW c, NEW why,
                 t = T(rows[q].repo, c, q, why), RunnerWrong(q, c, why)
          PROVE  RunnerWrong(r, check, t.why) /\ t = T(at, check, r, t.why)
      <3>1. t.at = <<rows[q].repo, c, q>> /\ t.why = why
        BY <2>2 DEF T
      <3>2. c = check /\ q = r
        BY <1>5, <3>1
      <3> QED
        BY <1>3, <2>2, <3>1, <3>2
    <2>3. \A p, c, why : RepoWrong(p, c, why) => t # T(p, c, None, why)
      <3> SUFFICES ASSUME NEW p, NEW c, NEW why, RepoWrong(p, c, why), t = T(p, c, None, why)
                   PROVE  FALSE
        OBVIOUS
      <3>1. t.at = <<p, c, None>>
        BY DEF T
      <3>2. c = check
        BY <1>5, <3>1
      <3> QED
        BY <3>2 DEF RepoWrong, Image, Scan, Status, Queue, Drift, Coherence
    <2>4. \A p, b : t # T(p, Gates, b, "gates")
      <3> SUFFICES ASSUME NEW p, NEW b, t = T(p, Gates, b, "gates")
                   PROVE  FALSE
        OBVIOUS
      <3>1. t.at = <<p, Gates, b>>
        BY DEF T
      <3>2. check = Gates
        BY <1>5, <3>1
      <3> QED
        BY <3>2 DEF Image, Scan, Status, Gates
    <2> QED
      BY <2>1, <2>2, <2>3, <2>4, AmissIs
  <1> QED
    BY <1>1, <1>3, <1>4, <1>5

\* The same of what GitHub says of the repository (_check_queue, _check_drift_scan,
\* _check_spec_coherence)...
LEMMA RepoReading ==
  ASSUME MonitorInv, Ready(check), check \in {Queue, Drift, Coherence}
  PROVE  /\ at \in Repos
         /\ \A why : RepoWrong(at, check, why) => <<at, check, None>> \in Places(ever)
         /\ \A t \in steady : t.at = <<at, check, None>> => RepoWrong(at, check, t.why)
  <1> USE DEF MonitorInv
  <1>1. at \in Repos /\ phase = "poll"
    BY DEF Ready, TypeOK
  <1>2. ASSUME NEW why, RepoWrong(at, check, why)
        PROVE  <<at, check, None>> \in Places(ever)
    <2>1. <<at, check, None>> \in Places(Amiss(met, Repos))
      BY <1>1, <1>2, AmissHas
    <2>2. Amiss(met, Repos) \subseteq ever
      BY <1>1 DEF HistoryInv
    <2> QED
      BY <2>1, <2>2 DEF Places
  <1>3. ASSUME NEW t \in steady, t.at = <<at, check, None>>
        PROVE  RepoWrong(at, check, t.why)
    <2>1. t \in Amiss(Enrolled, Registered)
      BY <1>1 DEF HistoryInv
    <2>2. ASSUME NEW p \in Registered, NEW c, NEW why,
                 t = T(p, c, None, why), RepoWrong(p, c, why)
          PROVE  RepoWrong(at, check, t.why)
      <3>1. t.at = <<p, c, None>> /\ t.why = why
        BY <2>2 DEF T
      <3>2. c = check /\ p = at
        BY <1>3, <3>1
      <3> QED
        BY <2>2, <3>1, <3>2
    <2>3. \A p, c, q, why : RunnerWrong(q, c, why) => t # T(p, c, q, why)
      <3> SUFFICES ASSUME NEW p, NEW c, NEW q, NEW why, RunnerWrong(q, c, why), t = T(p, c, q, why)
                   PROVE  FALSE
        OBVIOUS
      <3>1. t.at = <<p, c, q>>
        BY DEF T
      <3>2. c = check
        BY <1>3, <3>1
      <3> QED
        BY <3>2 DEF RunnerWrong, Image, Scan, Status, Queue, Drift, Coherence
    <2>4. \A p, b : t # T(p, Gates, b, "gates")
      <3> SUFFICES ASSUME NEW p, NEW b, t = T(p, Gates, b, "gates")
                   PROVE  FALSE
        OBVIOUS
      <3>1. t.at = <<p, Gates, b>>
        BY DEF T
      <3>2. check = Gates
        BY <1>3, <3>1
      <3> QED
        BY <3>2 DEF Queue, Drift, Coherence, Gates
    <2> QED
      BY <2>1, <2>2, <2>3, <2>4, AmissIs
  <1> QED
    BY <1>1, <1>2, <1>3

\* ... and of one of its branches (_check_gates).
LEMMA BranchReading ==
  ASSUME MonitorInv, NEW b \in Branches, Ready(Gates)
  PROVE  /\ at \in Repos /\ check = Gates
         /\ world[at].gates[b] = "red" => <<at, Gates, b>> \in Places(ever)
         /\ \A t \in steady : t.at = <<at, Gates, b>> => world[at].gates[b] = "red"
  <1> USE DEF MonitorInv
  <1>1. at \in Repos /\ phase = "poll" /\ check = Gates
    BY DEF Ready, TypeOK
  <1>2. world[at].gates[b] = "red" => <<at, Gates, b>> \in Places(ever)
    <2>1. world[at].gates[b] = "red" => <<at, Gates, b>> \in Places(Amiss(met, Repos))
      BY <1>1, AmissHas
    <2>2. Amiss(met, Repos) \subseteq ever
      BY <1>1 DEF HistoryInv
    <2> QED
      BY <2>1, <2>2 DEF Places
  <1>3. ASSUME NEW t \in steady, t.at = <<at, Gates, b>>
        PROVE  world[at].gates[b] = "red"
    <2>1. t \in Amiss(Enrolled, Registered)
      BY <1>1 DEF HistoryInv
    <2>2. \A p, c, x, why : RunnerWrong(x, c, why) \/ RepoWrong(p, c, why) => t # T(p, c, x, why)
      <3> SUFFICES ASSUME NEW p, NEW c, NEW x, NEW why,
                          RunnerWrong(x, c, why) \/ RepoWrong(p, c, why), t = T(p, c, x, why)
                   PROVE  FALSE
        OBVIOUS
      <3>1. t.at = <<p, c, x>>
        BY DEF T
      <3>2. c = Gates
        BY <1>3, <3>1
      <3> QED
        BY <3>2 DEF RunnerWrong, RepoWrong, Image, Scan, Status, Queue, Gates, Drift, Coherence
    <2>3. ASSUME NEW p \in Registered, NEW d \in Branches,
                 t = T(p, Gates, d, "gates"), world[p].gates[d] = "red"
          PROVE  world[at].gates[b] = "red"
      <3>1. t.at = <<p, Gates, d>>
        BY <2>3 DEF T
      <3>2. p = at /\ d = b
        BY <1>3, <3>1
      <3> QED
        BY <2>3, <3>2
    <2> QED
      BY <2>1, <2>2, <2>3, AmissIs
  <1> QED
    BY <1>1, <1>2, <1>3

LEMMA ImageStep ==
  ASSUME MonitorInv, NEW r \in Runners, CheckImage(r)
  PROVE  MonitorInv'
  <1> DEFINE classes == IF ImageMissing(Reading(r)) THEN <<"runner_image_missing">> ELSE <<>>
  <1>1. Ready(check) /\ check = Image /\ Reads(r, classes) /\ r \in left
    BY DEF CheckImage, Ready, Reads
  <1>2. classes \in Seq(Classes) /\ (classes = <<>> <=> Reading(r).digest)
    BY Words DEF ImageMissing, Classes
  <1>3. UNCHANGED <<environment, phase, todo, at, check, online, history>> /\ usable' = None
    BY DEF CheckImage, Ready, MonitorInv, UsableInv, Image, Scan
  <1> HIDE DEF classes
  <1>4. classes # <<>> => <<at, check, r>> \in Places(ever)
    BY <1>1, <1>2, RunnerReading DEF RunnerWrong
  <1>5. ASSUME classes = <<>>, NEW t \in steady, t.at = <<at, check, r>>
        PROVE  FALSE
    <2>1. RunnerWrong(r, check, t.why)
      BY <1>1, <1>5, RunnerReading
    <2> QED
      BY <1>1, <1>2, <1>5, <2>1 DEF RunnerWrong, Image, Scan, Status
  <1> QED
    BY <1>1, <1>2, <1>3, <1>4, <1>5, ReadStep

\* The first look at a scan state...
LEMMA ScanStep ==
  ASSUME MonitorInv, NEW r \in Runners, CheckScan(r)
  PROVE  MonitorInv'
  <1> USE DEF MonitorInv
  <1> DEFINE unknown == ScanStateUnknown(Reading(r).scan)
  <1>1. Ready(check) /\ check = Scan /\ r \in left /\ usable = None
    BY DEF CheckScan, Ready
  <1>2. CASE unknown
    <2> DEFINE classes == <<"runner_scan_unknown">>
    <2>1. /\ Reads(r, classes) /\ usable' = None
          /\ UNCHANGED <<environment, phase, todo, at, check, online, history>>
      BY <1>1, <1>2 DEF CheckScan
    <2>2. classes \in Seq(Classes) /\ classes # <<>>
      BY Words DEF Classes
    <2>3. RunnerWrong(r, check, "unknown")
      BY <1>1, <1>2 DEF RunnerWrong, ScannedClean, ScanStateUnknown
    <2>4. <<at, check, r>> \in Places(ever)
      BY <1>1, <2>3, RunnerReading
    <2> HIDE DEF classes
    <2> QED
      BY <1>1, <2>1, <2>2, <2>4, ReadStep
  <1>3. CASE ~unknown
    <2>0. /\ usable' = r /\ at \in Repos /\ at # None
          /\ UNCHANGED <<rows, world, phase, todo, at, check, left, online, pending,
                         told, cut, lost, torn, met, ever, steady>>
      BY <1>1, <1>3 DEF CheckScan, Ready, environment, history, TypeOK
    <2>1. TypeOK' /\ (pending \in Seq(Alerts))'
      BY <2>0 DEF TypeOK
    <2>2. WhereInv' /\ GroupInv'
      BY <2>0 DEF WhereInv, GroupInv
    <2>3. HistoryInv'
      BY <2>0, HistoryStep DEF environment
    <2>4. OnlineInv' /\ AlarmInv' /\ OutageProof'
      BY <2>0 DEF OnlineInv, AlarmInv, OutageProof, Places
    <2>5. T(at, Scan, r, "unknown") \notin steady
      <3> SUFFICES ASSUME T(at, Scan, r, "unknown") \in steady PROVE FALSE
        OBVIOUS
      <3>1. T(at, Scan, r, "unknown").at = <<at, check, r>>
            /\ T(at, Scan, r, "unknown").why = "unknown"
        BY <1>1 DEF T
      <3>2. RunnerWrong(r, check, "unknown")
        BY <1>1, <3>1, RunnerReading
      <3> QED
        BY <1>1, <1>3, <3>2 DEF RunnerWrong, Image, Scan, Status
    <2>6. Reading(r)' = Reading(r)
      BY <2>0 DEF Reading
    <2>7. UsableInv'
      BY <1>1, <1>3, <2>0, <2>5, <2>6 DEF UsableInv
    <2>8. MissedInv'
      BY <2>0 DEF MissedInv, NothingMissed, Coming
    <2> QED
      BY <2>1, <2>2, <2>3, <2>4, <2>7, <2>8
  <1> QED
    BY <1>2, <1>3

\* ... and the second, by when a report may have made another of it.
LEMMA WalkStep ==
  ASSUME MonitorInv, NEW r \in Runners, WalkScan(r)
  PROVE  MonitorInv'
  <1> DEFINE scan == Reading(r).scan
  <1>1. /\ Ready(check) /\ check = Scan /\ usable = r /\ r \in left /\ scan # None
        /\ usable' = None
        /\ UNCHANGED <<environment, phase, todo, at, check, online, history>>
    BY DEF WalkScan, Ready, Reads
  <1>2. PICK repos \in Walks(scan.repos) : Reads(r, RepoAlerts(repos))
    BY DEF WalkScan
  <1> DEFINE classes == RepoAlerts(repos)
  <1>3. classes \in Seq(Classes) /\ (classes = <<>> <=> repos \subseteq {"clean"})
    BY RepoVerdict
  <1>4. ~ScanStateUnknown(scan) => repos = scan.repos
    BY <1>2 DEF Walks, ScanStateUnknown
  <1> HIDE DEF classes
  <1>5. ASSUME classes # <<>>
        PROVE  <<at, check, r>> \in Places(ever)
    <2> DEFINE why == IF ScanStateUnknown(scan) THEN "unknown" ELSE "unclean"
    <2>1. ~ScannedClean(scan)
      BY <1>3, <1>4, <1>5 DEF ScannedClean, ScanStateUnknown
    <2>2. RunnerWrong(r, check, why)
      BY <1>1, <2>1 DEF RunnerWrong
    <2> HIDE DEF why
    <2> QED
      BY <1>1, <2>2, RunnerReading
  <1>6. ASSUME classes = <<>>, NEW t \in steady, t.at = <<at, check, r>>
        PROVE  FALSE
    <2>1. RunnerWrong(r, check, t.why) /\ t = T(at, check, r, t.why)
      BY <1>1, <1>6, RunnerReading
    <2>2. ASSUME t.why = "unknown" PROVE FALSE
      <3>1. t = T(at, Scan, r, "unknown")
        BY <1>1, <2>1, <2>2
      <3>2. T(at, Scan, r, "unknown") \notin steady
        BY <1>1, MonitorAssumption DEF MonitorInv, UsableInv
      <3> QED
        BY <1>6, <3>1, <3>2
    <2>3. ~ScannedClean(scan) /\ ~ScanStateUnknown(scan)
      BY <1>1, <2>1, <2>2 DEF RunnerWrong, Image, Scan, Status
    <2> QED
      BY <1>3, <1>4, <1>6, <2>3 DEF ScannedClean, ScanStateUnknown
  <1> QED
    BY <1>1, <1>2, <1>3, <1>5, <1>6, ReadStep DEF classes

\* The answer of GitHub is looked at later, when it may have changed.
LEMMA FetchStep ==
  ASSUME MonitorInv, FetchRunners
  PROVE  MonitorInv'
  <1> USE DEF MonitorInv
  <1>0. /\ Ready(check) /\ check = Status /\ phase = "poll" /\ at \in Repos /\ at # None
        /\ online' = world[at].online
        /\ UNCHANGED <<rows, world, phase, todo, at, check, left, usable, pending,
                       told, cut, lost, torn, met, ever, steady>>
    BY DEF FetchRunners, Ready, environment, history, TypeOK
  <1>1. world[at].online \subseteq Runners
    <2>1. world[at] \in Worlds
      BY <1>0 DEF TypeOK
    <2> QED
      BY <2>1, MonitorAssumption
  <1>2. TypeOK' /\ (pending \in Seq(Alerts))'
    BY <1>0, <1>1 DEF TypeOK
  <1>3. WhereInv' /\ GroupInv'
    BY <1>0 DEF WhereInv, GroupInv
  <1>4. HistoryInv'
    BY <1>0, HistoryStep DEF environment
  <1>5. ASSUME NEW r \in left
        PROVE  /\ r \notin online' => <<at, Status, r>> \in Places(ever)
               /\ T(at, Status, r, "absent") \in steady => r \notin online'
    <2>1. rows[r].repo = at
      BY <1>0, RunnerReading
    <2>2. r \notin online' => RunnerWrong(r, Status, "absent")
      BY <1>0, <2>1 DEF RunnerWrong
    <2>3. ASSUME T(at, Status, r, "absent") \in steady
          PROVE  r \notin online'
      <3>1. RunnerWrong(r, Status, T(at, Status, r, "absent").why)
        BY <1>0, <2>3, RunnerReading DEF T
      <3>2. T(at, Status, r, "absent").why = "absent"
        BY DEF T
      <3> QED
        BY <1>0, <2>1, <3>1, <3>2 DEF RunnerWrong
    <2> QED
      BY <1>0, <2>2, <2>3, RunnerReading
  <1>6. OnlineInv'
    BY <1>0, <1>5 DEF OnlineInv, Places
  <1>7. AlarmInv' /\ UsableInv' /\ OutageProof'
    BY <1>0 DEF AlarmInv, UsableInv, Reading, OutageProof, Places
  <1>8. MissedInv'
    BY <1>0 DEF MissedInv, NothingMissed, Coming
  <1> QED
    BY <1>2, <1>3, <1>4, <1>6, <1>7, <1>8

LEMMA StatusStep ==
  ASSUME MonitorInv, NEW r \in Runners, CheckStatus(r)
  PROVE  MonitorInv'
  <1> DEFINE classes == StatusAlerts(r \in online, Reading(r))
  <1>1. /\ Ready(check) /\ check = Status /\ Reads(r, classes) /\ r \in left /\ online # None
    BY DEF CheckStatus, Ready, Reads
  <1>2. classes \in Seq(Classes) /\ (classes = <<>> <=> r \in online /\ Reading(r).beat = "fresh")
    BY Words DEF StatusAlerts, Classes
  <1>3. UNCHANGED <<environment, phase, todo, at, check, online, history>> /\ usable' = None
    BY DEF CheckStatus, Ready, MonitorInv, UsableInv, Status, Scan
  <1> HIDE DEF classes
  <1>4. Reading(r).beat \in {"fresh", "stale"}
    <2>1. rows[r].reading \in Readings
      BY <1>1, RunnerReading DEF Row
    <2> QED
      BY <2>1, MonitorAssumption DEF Reading
  <1>5. classes # <<>> => <<at, check, r>> \in Places(ever)
    <2>1. r \notin online => <<at, check, r>> \in Places(ever)
      BY <1>1 DEF MonitorInv, OnlineInv
    <2>2. Reading(r).beat = "stale" => <<at, check, r>> \in Places(ever)
      BY <1>1, RunnerReading DEF RunnerWrong
    <2> QED
      BY <1>2, <1>4, <2>1, <2>2
  <1>6. ASSUME classes = <<>>, NEW t \in steady, t.at = <<at, check, r>>
        PROVE  FALSE
    <2>1. r \in online /\ Reading(r).beat = "fresh"
      BY <1>2, <1>6
    <2>2. RunnerWrong(r, check, t.why) /\ t = T(at, check, r, t.why)
      BY <1>1, <1>6, RunnerReading
    <2>3. t.why = "absent"
      BY <1>1, <2>1, <2>2 DEF RunnerWrong, Image, Scan, Status
    <2>4. r \notin online
      BY <1>1, <2>2, <2>3 DEF MonitorInv, OnlineInv
    <2> QED
      BY <2>1, <2>4
  <1> QED
    BY <1>1, <1>2, <1>3, <1>5, <1>6, ReadStep

LEMMA QueueStep ==
  ASSUME MonitorInv, CheckQueue
  PROVE  MonitorInv'
  <1> DEFINE classes == IF world[at].stalled THEN <<"queue_stall">> ELSE <<>>
  <1>1. Ready(check) /\ check = Queue /\ Reads(None, classes)
    BY DEF CheckQueue, Ready
  <1>2. classes \in Seq(Classes) /\ (classes = <<>> <=> ~world[at].stalled)
    BY Words DEF Classes
  <1>3. UNCHANGED <<environment, phase, todo, at, check, online, history>> /\ usable' = None
    BY DEF CheckQueue, Ready, MonitorInv, UsableInv, Queue, Scan
  <1> HIDE DEF classes
  <1>4. classes # <<>> => <<at, check, None>> \in Places(ever)
    BY <1>1, <1>2, RepoReading DEF RepoWrong
  <1>5. classes = <<>> => \A t \in steady : t.why \notin Excused => t.at # <<at, check, None>>
    BY <1>1, <1>2, RepoReading DEF RepoWrong, Queue, Drift, Coherence
  <1> QED
    BY <1>1, <1>2, <1>3, <1>4, <1>5, ReadStep

LEMMA GatesStep ==
  ASSUME MonitorInv, NEW b \in Branches, CheckGates(b)
  PROVE  MonitorInv'
  <1> DEFINE classes == IF world[at].gates[b] = "red" THEN <<"gate_failure">> ELSE <<>>
  <1>1. Ready(check) /\ Ready(Gates) /\ check = Gates /\ Reads(b, classes)
    BY DEF CheckGates, Ready
  <1>2. classes \in Seq(Classes) /\ (classes = <<>> <=> world[at].gates[b] # "red")
    BY Words DEF Classes
  <1>3. UNCHANGED <<environment, phase, todo, at, check, online, history>> /\ usable' = None
    <2>1. usable = None
      BY <1>1 DEF MonitorInv, UsableInv, Gates, Scan
    <2> QED
      BY <2>1 DEF CheckGates
  <1> HIDE DEF classes
  <1>4. classes # <<>> => <<at, check, b>> \in Places(ever)
    BY <1>1, <1>2, BranchReading
  <1>5. classes = <<>> => \A t \in steady : t.why \notin Excused => t.at # <<at, check, b>>
    BY <1>1, <1>2, BranchReading
  <1> QED
    BY <1>1, <1>2, <1>3, <1>4, <1>5, ReadStep

\* A run that was skipped is excused: the check takes it for a completed one.
LEMMA DriftStep ==
  ASSUME MonitorInv, CheckDrift
  PROVE  MonitorInv'
  <1> DEFINE classes == DriftAlerts(world[at].drift)
  <1>1. Ready(check) /\ check = Drift /\ Reads(None, classes)
    BY DEF CheckDrift, Ready
  <1>2. /\ classes \in Seq(Classes)
        /\ (classes = <<>> <=> DriftHealthy(world[at].drift) /\ ~DriftHidden(world[at].drift))
    <2>1. world[at] \in Worlds
      BY <1>1, RepoReading DEF MonitorInv, TypeOK
    <2>2. world[at].drift \in {NoWorkflow} \cup Seq(Runs)
      BY <2>1, MonitorAssumption
    <2> QED
      BY <2>2, DriftVerdict
  <1>3. UNCHANGED <<environment, phase, todo, at, check, online, history>> /\ usable' = None
    BY DEF CheckDrift, Ready, MonitorInv, UsableInv, Drift, Scan
  <1> HIDE DEF classes
  <1>4. classes # <<>> => <<at, check, None>> \in Places(ever)
    <2>1. ~DriftHealthy(world[at].drift) => RepoWrong(at, check, "drift")
      BY <1>1 DEF RepoWrong
    <2>2. DriftHidden(world[at].drift) => RepoWrong(at, check, "hidden")
      BY <1>1 DEF RepoWrong
    <2> QED
      BY <1>1, <1>2, <2>1, <2>2, RepoReading
  <1>5. classes = <<>> => \A t \in steady : t.why \notin Excused => t.at # <<at, check, None>>
    BY <1>1, <1>2, RepoReading DEF RepoWrong, Queue, Drift, Coherence, Excused
  <1> QED
    BY <1>1, <1>2, <1>3, <1>4, <1>5, ReadStep

LEMMA CoherenceStep ==
  ASSUME MonitorInv, CheckCoherence
  PROVE  MonitorInv'
  <1> DEFINE classes == IF Named = {} THEN <<"coherence_unconfigured">>
                        ELSE CoherenceAlerts(world[at].coherence)
  <1>1. Ready(check) /\ check = Coherence /\ Reads(None, classes)
    BY DEF CheckCoherence, Ready
  <1>2. classes \in Seq(Classes) /\ (classes = <<>> <=> CoherenceHealthy(world[at].coherence))
    <2>1. world[at] \in Worlds
      BY <1>1, RepoReading DEF MonitorInv, TypeOK
    <2>2. world[at].coherence \in {NoWorkflow} \cup Seq(Runs)
      BY <2>1, MonitorAssumption
    <2>3. CASE Named = {}
      BY <2>3, Words DEF CoherenceHealthy, Classes
    <2>4. CASE Named # {}
      BY <2>2, <2>4, CoherenceVerdict
    <2> QED
      BY <2>3, <2>4
  <1>3. UNCHANGED <<environment, phase, todo, at, check, online, history>> /\ usable' = None
    BY DEF CheckCoherence, Ready, MonitorInv, UsableInv, Coherence, Scan
  <1> HIDE DEF classes
  <1>4. classes # <<>> => <<at, check, None>> \in Places(ever)
    BY <1>1, <1>2, RepoReading DEF RepoWrong
  <1>5. classes = <<>> => \A t \in steady : t.why \notin Excused => t.at # <<at, check, None>>
    BY <1>1, <1>2, RepoReading DEF RepoWrong, Queue, Drift, Coherence, Excused
  <1> QED
    BY <1>1, <1>2, <1>3, <1>4, <1>5, ReadStep

\* No answer: those subjects are cut, and they are no business of the registry's.
LEMMA RefusedStep ==
  ASSUME MonitorInv, Refused
  PROVE  MonitorInv'
  <1> USE DEF MonitorInv
  <1>1. PICK S \in Asked : /\ S # {} /\ left' = left \ S
                           /\ cut' = cut \cup {<<at, check, x>> : x \in S}
    BY DEF Refused
  <1>0. /\ phase = "poll" /\ at \in Repos /\ at # None /\ pending = <<>> /\ check \in Checks
        /\ UNCHANGED <<rows, world, phase, todo, at, check, usable, online, pending,
                       told, lost, torn, met, ever, steady>>
    BY DEF Refused, Ready, environment, TypeOK
  <1>2. S \subseteq left /\ check \notin {Image, Scan}
    BY <1>1 DEF Asked, Image, Scan, Status, Queue, Gates, Drift, Coherence
  <1>3. TypeOK' /\ (pending \in Seq(Alerts))'
    BY <1>0, <1>1, <1>2 DEF TypeOK
  <1>4. WhereInv' /\ GroupInv'
    BY <1>0, <1>1 DEF WhereInv, GroupInv
  <1>5. HistoryInv'
    BY <1>0, HistoryStep DEF environment
  <1>6. OnlineInv'
    BY <1>0, <1>1 DEF OnlineInv, Places
  <1>7. AlarmInv'
    BY <1>0 DEF AlarmInv, Places
  <1>8. UsableInv' /\ OutageProof'
    BY <1>0, <1>1, <1>2 DEF UsableInv, Reading, OutageProof
  <1>9. ASSUME NEW place, Coming(place)
        PROVE  Coming(place)' \/ place \in cut'
    BY <1>0, <1>1, <1>9 DEF Coming
  <1>10. MissedInv'
    BY <1>0, <1>1, <1>9 DEF MissedInv, NothingMissed
  <1> QED
    BY <1>3, <1>4, <1>5, <1>6, <1>7, <1>8, <1>10

\* What an exception leaves of a turn: the rest of it is cut, the other repositories stay.
LEMMA CutOffStep ==
  ASSUME MonitorInv, phase = "poll", at # None, Leave, cut' = cut \cup Unseen,
         UNCHANGED <<environment, phase, told, torn, met, ever, steady>>,
         lost \subseteq lost', lost' \subseteq Repos,
         check = Image => at \in lost', check = Scan => at \in lost' \cup torn
  PROVE  MonitorInv'
  <1> USE DEF MonitorInv
  <1>0. /\ at \in Repos /\ check \in Checks /\ at' = None /\ todo' = [todo EXCEPT ![at] = {}]
        /\ check' = Image /\ left' = {} /\ usable' = None /\ online' = None /\ pending' = <<>>
        /\ UNCHANGED <<rows, world, phase, told, torn, met, ever, steady>>
    BY DEF Leave, environment, TypeOK
  <1>1. Unseen \subseteq {at} \X Checks \X Anyone
    <2>1. \A n \in DOMAIN pending : pending[n].on \in Anyone
      BY DEF TypeOK, Anyone
    <2>2. left \subseteq Anyone
      BY DEF TypeOK, Anyone
    <2>3. \A c \in (check + 1)..Coherence :
              c \in Checks /\ Subjects(c, todo[at]) \subseteq Anyone
      BY <1>0, SubjectsType DEF TypeOK, Checks, Coherence
    <2> QED
      BY <1>0, <2>1, <2>2, <2>3 DEF Unseen
  <1>2. TypeOK' /\ (pending \in Seq(Alerts))'
    BY <1>0, <1>1 DEF TypeOK, Checks, Image, Anyone
  <1>3. WhereInv' /\ GroupInv'
    BY <1>0 DEF WhereInv, GroupInv, TypeOK
  <1>4. HistoryInv'
    BY <1>0, HistoryStep DEF environment
  <1>5. OnlineInv' /\ AlarmInv'
    BY <1>0 DEF OnlineInv, AlarmInv, Places
  <1>6. UsableInv' /\ OutageProof'
    <2>1. ASSUME NEW c \in Unseen
          PROVE  /\ c[2] = Image => c[1] \in lost'
                 /\ c[2] = Scan => c[1] \in lost' \cup torn'
      <3>1. c[2] >= check /\ c[1] = at
        BY <1>0, <2>1 DEF Unseen, Checks, Coherence
      <3>2. (c[2] = Image => check = Image) /\ (c[2] = Scan => check \in {Image, Scan})
        BY <1>0, <3>1 DEF Checks, Image, Scan
      <3> QED
        BY <1>0, <3>1, <3>2
    <2>2. OutageProof'
      BY <1>0, <2>1 DEF OutageProof
    <2> QED
      BY <1>0, <2>2 DEF UsableInv
  <1>7. ASSUME NEW place, Coming(place)
        PROVE  Coming(place)' \/ place \in cut'
    <2>1. CASE \E p \in Repos \ {at}, c \in Checks :
                   todo[p] # {} /\ \E x \in Subjects(c, todo[p]) : place = <<p, c, x>>
      <3>1. PICK p \in Repos \ {at}, c \in Checks :
                todo[p] # {} /\ \E x \in Subjects(c, todo[p]) : place = <<p, c, x>>
        BY <2>1
      <3>2. todo'[p] = todo[p] /\ p # at'
        BY <1>0, <3>1, MonitorAssumption DEF TypeOK
      <3> QED
        BY <3>1, <3>2 DEF Coming
    <2>2. CASE place \in Unseen
      BY <2>2
    <2> QED
      BY <1>7, <2>1, <2>2, UnseenIs DEF Coming
  <1>8. MissedInv'
    BY <1>0, <1>7 DEF MissedInv, NothingMissed
  <1> QED
    BY <1>2, <1>3, <1>4, <1>5, <1>6, <1>8

LEMMA RaisesStep ==
  ASSUME MonitorInv, Raises
  PROVE  MonitorInv'
  <1>1. check \notin {Image, Scan}
    BY DEF Raises, Asked, Image, Scan, Status, Queue, Gates, Drift, Coherence
  <1>2. lost' = lost /\ lost \subseteq Repos /\ phase = "poll" /\ at # None
    BY DEF Raises, Ready, MonitorInv, TypeOK
  <1> QED
    BY <1>1, <1>2, CutOffStep DEF Raises

\* The walk of what is no longer there.
LEMMA WalkRaisesStep ==
  ASSUME MonitorInv, NEW r \in Runners, WalkRaises(r)
  PROVE  MonitorInv'
  <1>1. check = Scan /\ phase = "poll" /\ at # None /\ usable = r /\ usable # None
    BY MonitorAssumption DEF WalkRaises, Ready
  <1>2. ScanStateUnknown(Reading(usable).scan)
    BY <1>1 DEF WalkRaises, ScanStateUnknown
  <1>3. at \in torn /\ check # Image
    BY <1>1, <1>2 DEF MonitorInv, UsableInv, Image, Scan
  <1>4. lost' = lost /\ lost \subseteq Repos
    BY DEF WalkRaises, MonitorInv, TypeOK
  <1> QED
    BY <1>1, <1>3, <1>4, CutOffStep DEF WalkRaises

LEMMA SinkRaisesStep ==
  ASSUME MonitorInv, SinkRaises
  PROVE  MonitorInv'
  <1>1. at # None /\ phase = "poll" /\ at \in Repos /\ lost \subseteq Repos
    BY DEF SinkRaises, MonitorInv, WhereInv, TypeOK
  <1> QED
    BY <1>1, CutOffStep DEF SinkRaises

LEMMA TellStep ==
  ASSUME MonitorInv, Tell
  PROVE  MonitorInv'
  <1> USE DEF MonitorInv
  <1>0. /\ phase = "poll" /\ at \in Repos /\ at # None /\ check \in Checks
        /\ pending # <<>> /\ pending' = Tail(pending)
        /\ told' = told \cup {<<at, check, pending[1].on>>}
        /\ UNCHANGED <<rows, world, phase, todo, at, check, left, usable, online,
                       cut, lost, torn, met, ever, steady>>
    BY DEF Tell, WhereInv, TypeOK, environment
  <1>1. /\ 1 \in DOMAIN pending /\ pending' \in Seq(Alerts)
        /\ \A n \in DOMAIN pending' : n + 1 \in DOMAIN pending /\ pending'[n] = pending[n + 1]
        /\ \A n \in DOMAIN pending : n = 1 \/ (n - 1 \in DOMAIN pending' /\ pending'[n - 1] = pending[n])
    BY <1>0
  <1>2. TypeOK' /\ (pending \in Seq(Alerts))'
    BY <1>0, <1>1 DEF TypeOK
  <1>3. WhereInv' /\ GroupInv'
    BY <1>0 DEF WhereInv, GroupInv
  <1>4. HistoryInv'
    BY <1>0, HistoryStep DEF environment
  <1>5. OnlineInv' /\ UsableInv' /\ OutageProof'
    BY <1>0 DEF OnlineInv, UsableInv, Reading, OutageProof, Places
  <1>6. AlarmInv'
    BY <1>0, <1>1 DEF AlarmInv, Places
  <1>7. ASSUME NEW place, Coming(place)
        PROVE  Coming(place)' \/ place \in told'
    <2>1. CASE \E n \in DOMAIN pending : place = <<at, check, pending[n].on>>
      <3>1. PICK n \in DOMAIN pending : place = <<at, check, pending[n].on>>
        BY <2>1
      <3>2. CASE n = 1
        BY <1>0, <3>1, <3>2
      <3>3. CASE n # 1
        <4>1. n - 1 \in DOMAIN pending' /\ pending'[n - 1] = pending[n]
          BY <1>1, <3>3
        <4> QED
          BY <1>0, <3>1, <4>1 DEF Coming
      <3> QED
        BY <3>2, <3>3
    <2>2. CASE ~ \E n \in DOMAIN pending : place = <<at, check, pending[n].on>>
      BY <1>0, <1>7, <2>2 DEF Coming
    <2> QED
      BY <2>1, <2>2
  <1>8. MissedInv'
    BY <1>0, <1>7 DEF MissedInv, NothingMissed
  <1> QED
    BY <1>2, <1>3, <1>4, <1>5, <1>6, <1>8

\* Rows are enrolled once, report, age and are revoked, and stay with their repository.
LEMMA WorldStep ==
  ASSUME MonitorInv,
         \/ \E r \in Runners : Enroll(r) \/ Report(r) \/ GoStale(r) \/ Revoke(r)
         \/ \E p \in Repos : Change(p)
  PROVE  MonitorInv'
  <1>0. rows \in [Runners -> {None} \cup Row] /\ world \in [Repos -> Worlds]
    BY DEF MonitorInv, TypeOK
  <1>1. None \notin Row
    BY MonitorAssumption DEF Row
  <1>2. ASSUME NEW r \in Runners, Enroll(r)
        PROVE  MonitorInv'
    <2>1. /\ UNCHANGED <<world, loop>> /\ Observe /\ rows[r] = None
          /\ \E p \in Repos :
                rows' = [rows EXCEPT ![r] = [repo |-> p, enrolled |-> TRUE, reading |-> Unreported]]
      BY <1>2 DEF Enroll
    <2>2. \A p \in Repos : [repo |-> p, enrolled |-> TRUE, reading |-> Unreported] \in Row
      BY MonitorAssumption DEF Row
    <2>3. rows' \in [Runners -> {None} \cup Row]
      BY <1>0, <2>1, <2>2
    <2>4. \A q \in Runners : rows[q] # None => rows'[q] = rows[q]
      BY <1>0, <2>1
    <2> QED
      BY <1>0, <2>1, <2>3, <2>4, EnvironmentStep
  <1>3. ASSUME NEW r \in Runners, rows[r] # None, NEW row \in Row, row.repo = rows[r].repo,
               rows' = [rows EXCEPT ![r] = row], UNCHANGED <<world, loop>>, Observe
        PROVE  MonitorInv'
    <2>1. rows' \in [Runners -> {None} \cup Row]
      BY <1>0, <1>3
    <2>2. \A q \in Runners : rows[q] # None => rows'[q] # None /\ rows'[q].repo = rows[q].repo
      BY <1>0, <1>1, <1>3
    <2> QED
      BY <1>0, <1>3, <2>1, <2>2, EnvironmentStep
  <1>4. ASSUME NEW r \in Runners, Report(r)
        PROVE  MonitorInv'
    <2>1. PICK n \in Readings : rows' = [rows EXCEPT ![r].reading = n]
      BY <1>4 DEF Report
    <2>2. rows[r] # None /\ rows[r] \in Row
      BY <1>0, <1>4 DEF Report
    <2> DEFINE row == [rows[r] EXCEPT !.reading = n]
    <2>3. row \in Row /\ row.repo = rows[r].repo /\ rows' = [rows EXCEPT ![r] = row]
      BY <2>1, <2>2 DEF Row
    <2> HIDE DEF row
    <2> QED
      BY <1>3, <1>4, <2>2, <2>3 DEF Report
  <1>5. ASSUME NEW r \in Runners, GoStale(r)
        PROVE  MonitorInv'
    <2>1. rows' = [rows EXCEPT ![r].reading.beat = "stale"]
      BY <1>5 DEF GoStale
    <2>2. rows[r] # None /\ rows[r] \in Row /\ [rows[r].reading EXCEPT !.beat = "stale"] \in Readings
      BY <1>0, <1>5 DEF GoStale, Reading
    <2> DEFINE row == [rows[r] EXCEPT !.reading.beat = "stale"]
    <2>3. row \in Row /\ row.repo = rows[r].repo /\ rows' = [rows EXCEPT ![r] = row]
      BY <2>1, <2>2 DEF Row
    <2> HIDE DEF row
    <2> QED
      BY <1>3, <1>5, <2>2, <2>3 DEF GoStale
  <1>6. ASSUME NEW r \in Runners, Revoke(r)
        PROVE  MonitorInv'
    <2>1. rows' = [rows EXCEPT ![r].enrolled = FALSE]
      BY <1>6 DEF Revoke
    <2>2. rows[r] # None /\ rows[r] \in Row
      BY <1>0, <1>6 DEF Revoke
    <2> DEFINE row == [rows[r] EXCEPT !.enrolled = FALSE]
    <2>3. row \in Row /\ row.repo = rows[r].repo /\ rows' = [rows EXCEPT ![r] = row]
      BY <2>1, <2>2 DEF Row
    <2> HIDE DEF row
    <2> QED
      BY <1>3, <1>6, <2>2, <2>3 DEF Revoke
  <1>7. ASSUME NEW p \in Repos, Change(p)
        PROVE  MonitorInv'
    <2>1. /\ UNCHANGED <<rows, loop>> /\ Observe
          /\ \E w \in Worlds : world' = [world EXCEPT ![p] = w]
      BY <1>7 DEF Change
    <2>2. world' \in [Repos -> Worlds]
      BY <1>0, <2>1
    <2> QED
      BY <1>0, <2>1, <2>2, EnvironmentStep
  <1> QED
    BY <1>2, <1>4, <1>5, <1>6, <1>7

\* One step of the loop, whichever.
LEMMA PollStep ==
  ASSUME MonitorInv, Poll
  PROVE  MonitorInv'
  <1>1. CASE BeginCycle \/ EndCycle \/ Advance \/ \E p \in Repos : PollRepo(p)
    BY <1>1, CycleBegins, CycleEndsStep, AdvanceStep, RepoBegins
  <1>2. CASE \/ \E r \in Runners : CheckImage(r) \/ CheckStatus(r)
             \/ \E r \in Runners : CheckScan(r) \/ WalkScan(r) \/ WalkRaises(r)
    BY <1>2, ImageStep, ScanStep, WalkStep, WalkRaisesStep, StatusStep
  <1>3. CASE FetchRunners \/ CheckQueue \/ \E b \in Branches : CheckGates(b)
    BY <1>3, FetchStep, QueueStep, GatesStep
  <1>4. CASE CheckDrift \/ CheckCoherence
    BY <1>4, DriftStep, CoherenceStep
  <1>5. CASE Refused \/ Raises \/ Tell \/ SinkRaises
    BY <1>5, RefusedStep, RaisesStep, TellStep, SinkRaisesStep
  <1> QED
    BY <1>1, <1>2, <1>3, <1>4, <1>5 DEF Poll

LEMMA MonitorInitially ==
  Init => MonitorInv
  <1> SUFFICES ASSUME Init PROVE MonitorInv
    OBVIOUS
  <1> USE DEF Init, Idle
  <1>1. TypeOK /\ pending \in Seq(Alerts)
    BY DEF TypeOK, Checks, Image
  <1>2. WhereInv /\ GroupInv /\ HistoryInv
    BY DEF WhereInv, GroupInv, HistoryInv
  <1>3. OnlineInv /\ AlarmInv /\ UsableInv /\ OutageProof
    BY DEF OnlineInv, AlarmInv, UsableInv, Reading, OutageProof
  <1>4. MissedInv
    BY DEF MissedInv, NothingMissed, Places
  <1> QED
    BY <1>1, <1>2, <1>3, <1>4 DEF MonitorInv

LEMMA MonitorStep ==
  MonitorInv /\ [Next]_vars => MonitorInv'
  <1> SUFFICES ASSUME MonitorInv, [Next]_vars PROVE MonitorInv'
    OBVIOUS
  <1>1. CASE UNCHANGED vars
    <2>1. UNCHANGED <<rows, world, phase, todo, at, check, left, usable, online, pending,
                      told, cut, lost, torn, met, ever, steady>>
      BY <1>1 DEF vars, environment, loop, history
    <2>2. TypeOK' /\ (pending \in Seq(Alerts))' /\ WhereInv' /\ GroupInv'
      BY <2>1 DEF MonitorInv, TypeOK, WhereInv, GroupInv
    <2>3. HistoryInv'
      BY <2>1, HistoryStep DEF environment
    <2>4. OnlineInv' /\ AlarmInv' /\ UsableInv' /\ OutageProof'
      BY <2>1 DEF MonitorInv, OnlineInv, AlarmInv, UsableInv, Reading, OutageProof, Places
    <2>5. MissedInv'
      BY <2>1 DEF MonitorInv, MissedInv, NothingMissed, Coming, Places
    <2> QED
      BY <2>2, <2>3, <2>4, <2>5 DEF MonitorInv
  <1>2. CASE Poll
    BY <1>2, PollStep
  <1>3. CASE \/ \E r \in Runners : Enroll(r) \/ Report(r) \/ GoStale(r) \/ Revoke(r)
             \/ \E p \in Repos : Change(p)
    BY <1>3, WorldStep
  <1> QED
    BY <1>1, <1>2, <1>3 DEF Next

\* The invariant of a cycle over rows and a GitHub that change under it: the groups are of
\* this cycle's runners, what waits to be raised is true, and what is wrong all along has
\* been told, was cut, or is still to come (monitor.poll_cycle, _poll_repo).
THEOREM MonitorInvariant == Spec => []MonitorInv
  BY MonitorInitially, MonitorStep, PTL DEF Spec

\* Every variable of the loop has its type.
THEOREM MonitorTypeCorrect == Spec => []TypeOK
  <1>1. MonitorInv => TypeOK
    BY DEF MonitorInv
  <1> QED
    BY <1>1, MonitorInvariant, PTL

\* A cycle leaves nothing out, for any fleet, any readings and any histories of the
\* workflows (monitor.py:101-149).
THEOREM NothingIsMissed == Spec => []NothingMissed
  <1>1. MonitorInv => NothingMissed
    BY DEF MonitorInv, MissedInv
  <1> QED
    BY <1>1, MonitorInvariant, PTL

\* No outage of GitHub silences the readings of the registry: the image goes quiet only
\* through the sink, the scan state also through a report between two looks at it
\* (monitor.py:122-128, scan_view.py:124-148).
THEOREM RegistryReadingsSurvive == Spec => []OutageProof
  <1>1. MonitorInv => OutageProof
    BY DEF MonitorInv
  <1> QED
    BY <1>1, MonitorInvariant, PTL

\* Every alert was true at some moment of its cycle, or of a healthy drift scan that a
\* newer run hides, for any fleet and any histories of the workflows
\* (monitor._raise_alert and its callers).
THEOREM NoAlarmIsFalse == Spec => []NoFalseAlarm
  <1>1. MonitorInv => NoFalseAlarm
    BY DEF MonitorInv, AlarmInv, NoFalseAlarm
  <1> QED
    BY <1>1, MonitorInvariant, PTL

================================================================================
