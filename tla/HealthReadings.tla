----------------------------- MODULE HealthReadings -----------------------------
(***************************************************************************)
(* What the hub reads out of a runner's row and out of GitHub's answers:   *)
(* image_missing and scan_state_unknown (hub/registry.py), scan_alerts     *)
(* (hub/scan_view.py) and the verdicts of the checks (hub/monitor.py).     *)
(* No state: each operator gives the alert classes a reading earns.        *)
(***************************************************************************)
EXTENDS Integers, Sequences, FiniteSetsExt

CONSTANTS Branches, Default, None

(* Readings of a runner *)

\* The states a sweep records per repository; "damaged" is a record that is no
\* object, or one whose state no reader knows.
RepoStates == {"clean", "findings", "unfetchable", "unscannable", "damaged"}
ScanStates == {None} \cup [unreadable : BOOLEAN, repos : {None} \cup SUBSET RepoStates]

\* image_missing: an absent digest, whatever the reason.
ImageMissing(row) == ~row.digest

\* Never reported, reported as absent, reported as unreadable, or no list of
\* repositories: all the same to a reader.
ScanStateUnknown(scan) ==
    \/ scan = None
    \/ scan.unreadable
    \/ scan.repos = None

\* Defect: unknown words are read as clean.
RepoAlertsBlacklist(repos) ==
    IF "findings" \in repos THEN <<"runner_scan_findings">>
    ELSE IF repos \cap {"unfetchable", "unscannable"} # {}
         THEN <<"runner_scan_unknown">> ELSE <<>>

\* Defect: a sweep of no repository is unknown.
RepoAlertsNonEmpty(repos) ==
    (IF "findings" \in repos THEN <<"runner_scan_findings">> ELSE <<>>)
    \o (IF repos # {} /\ repos \subseteq {"clean", "findings"} THEN <<>>
        ELSE <<"runner_scan_unknown">>)

\* scan_alerts, of the records walked: silence only for "clean", and a leak leads.
RepoAlerts(repos) ==
    (IF "findings" \in repos THEN <<"runner_scan_findings">> ELSE <<>>)
    \o (IF repos \subseteq {"clean", "findings"} THEN <<>>
        ELSE <<"runner_scan_unknown">>)

\* What a walk of the records comes by.  What is no list may be walked as well, as
\* nothing or as records that are none.
Walks(repos) == IF repos = None THEN {{}, {"damaged"}} ELSE {repos}

\* Defect: either channel vouches for the runner.
StatusAlertsEither(onGitHub, row) ==
    IF onGitHub \/ row.beat = "fresh" THEN <<>> ELSE <<"runner_offline">>

\* _check_runner_status: online on GitHub and a fresh heartbeat, or offline.
StatusAlerts(onGitHub, row) ==
    IF onGitHub /\ row.beat = "fresh" THEN <<>> ELSE <<"runner_offline">>

-----------------------------------------------------------------------------
(* Readings of GitHub *)

\* A workflow run: its branch, its conclusion (None while it runs), and how long
\* ago it was completed.  "failure" stands for all of NON_PASSING_CONCLUSIONS.
NonPassing == {"failure"}
Runs == {run \in [branch : Branches \cup {None},
                  conclusion : NonPassing \cup {"success", "skipped", None},
                  age : {"recent", "old", None}] :
            run.conclusion = None <=> run.age = None}

\* The branches the coherence check watches: "default" is not one.
Named == Branches \ {Default}

\* "No workflow of that name", beside the sequence of its runs, newest first.
NoWorkflow == None

\* Completed within the period and its grace, or overdue.
Recency(run, overdue) == IF run.age = "recent" THEN <<>> ELSE <<overdue>>

\* Defect: the first run there ever was.
DriftAlertsOldest(runs) ==
    IF runs = NoWorkflow \/ runs = <<>> THEN <<"drift_overdue">>
    ELSE IF runs[Len(runs)].conclusion \in NonPassing THEN <<"drift_failed">>
    ELSE Recency(runs[Len(runs)], "drift_overdue")

\* _check_drift_scan.
DriftAlerts(runs) ==
    IF runs = NoWorkflow \/ runs = <<>> THEN <<"drift_overdue">>
    ELSE IF runs[1].conclusion \in NonPassing THEN <<"drift_failed">>
    ELSE Recency(runs[1], "drift_overdue")

\* The newest run on any of the watched branches.
Latest(runs) == runs[Min({n \in DOMAIN runs : runs[n].branch \in Named})]

\* Defects: no workflow is a pass; whatever did not fail is judged by its age.
CoherenceAlertsOptional(runs) ==
    IF runs = NoWorkflow THEN <<>>
    ELSE IF \A n \in DOMAIN runs : runs[n].branch \notin Named THEN <<"coherence_missing">>
    ELSE IF Latest(runs).conclusion \in NonPassing THEN <<"coherence_failure">>
    ELSE Recency(Latest(runs), "coherence_overdue")

\* _check_spec_coherence, once a branch is named.
CoherenceAlerts(runs) ==
    IF runs = NoWorkflow \/ \A n \in DOMAIN runs : runs[n].branch \notin Named
    THEN <<"coherence_missing">>
    ELSE IF Latest(runs).conclusion \in NonPassing THEN <<"coherence_failure">>
    ELSE IF Latest(runs).conclusion = "skipped" THEN <<"coherence_skipped">>
    ELSE Recency(Latest(runs), "coherence_overdue")

-----------------------------------------------------------------------------
(* What the documents call healthy, to compare the verdicts with *)

\* secret-scan-07: a repository is clean only if its verdict says so.
ScannedClean(scan) ==
    /\ scan # None
    /\ ~scan.unreadable
    /\ scan.repos # None
    /\ scan.repos \subseteq {"clean"}

\* A pass within the period.
Passed(run) == run.conclusion = "success" /\ run.age = "recent"

\* mon-drift-01: a scan has completed within the period and its grace, and the latest
\* completed one, in GitHub's order, did not fail.  A run that was skipped counts as
\* completed; one in progress does not.
DriftHealthy(runs) ==
    /\ runs # NoWorkflow
    /\ \E n \in DOMAIN runs : runs[n].age = "recent"
    /\ \A n \in DOMAIN runs :
        (\A m \in 1..(n - 1) : runs[m].conclusion = None) => runs[n].conclusion \notin NonPassing

DriftSkipped(runs) ==
    /\ runs \notin {NoWorkflow, <<>>}
    /\ runs[1].conclusion = "skipped" /\ runs[1].age = "recent"

\* The newest run of the list is not the recent one that makes the drift scan healthy.
DriftHidden(runs) == DriftHealthy(runs) /\ runs[1].age # "recent"

\* coh-int-02, coh-int-06: some branch is named, and the newest run on the named
\* branches is a recent pass.
CoherenceHealthy(runs) ==
    /\ Named # {}
    /\ runs # NoWorkflow
    /\ \E n \in DOMAIN runs :
        /\ runs[n].branch \in Named
        /\ Passed(runs[n])
        /\ \A m \in 1..(n - 1) : runs[m].branch \notin Named

\* Some named branch's latest run did not pass, and a newer run on another did.
CoherenceMasked(runs) ==
    /\ CoherenceHealthy(runs)
    /\ \E n \in DOMAIN runs :
        /\ runs[n].branch \in Named
        /\ ~Passed(runs[n])
        /\ \A m \in 1..(n - 1) : runs[m].branch # runs[n].branch
================================================================================
