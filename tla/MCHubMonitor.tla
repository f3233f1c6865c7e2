------------------------------ MODULE MCHubMonitor ------------------------------
(* Small instances of HubMonitor for TLC. *)
EXTENDS HubMonitor, TLC, FiniteSets

CONSTANTS repoA, repoB, anna, ben, main, side, default

\* A healthy row, a silent one, and one whose host reports trouble: no image, and a scan
\* state in which nothing can be walked, or what is no record.
Clean == [unreadable |-> FALSE, repos |-> {"clean"}]
Well == [beat |-> "fresh", digest |-> TRUE, scan |-> Clean]
Silent == [Well EXCEPT !.beat = "stale"]
Ill == [beat |-> "fresh", digest |-> FALSE, scan |-> [unreadable |-> FALSE, repos |-> None]]
FewReadings == {Unreported, Well, Silent, Ill}
TwoReadings == {Unreported, Well}

\* Rows that differ in the scan: every way to be unusable, and a usable one of each
\* kind.
Scans == {None} \cup [unreadable : {FALSE}, repos : {None, {}, {"clean"}, {"findings"},
                                                    {"clean", "damaged"}, {"findings", "unfetchable"}}]
         \cup {[Clean EXCEPT !.unreadable = TRUE]}
ScanReadings == {Unreported} \cup {[Well EXCEPT !.scan = scan] : scan \in Scans}

\* Worlds that are all well, or all ill.
Run(b, c, a) == [branch |-> b, conclusion |-> c, age |-> a]
Good == <<Run(main, "success", "recent")>>
Bad == <<Run(main, "failure", "recent")>>
AllGreen == [online |-> Runners, stalled |-> FALSE,
             gates |-> [b \in Branches |-> "green"], drift |-> Good, coherence |-> Good]
AllRed == [online |-> {}, stalled |-> TRUE,
           gates |-> [b \in Branches |-> "red"], drift |-> Bad, coherence |-> Bad]
TwoWorlds == {AllGreen, AllRed}

\* Worlds that differ in the history of one workflow, of at most two runs.
Histories == {NoWorkflow} \cup UNION {[1..n -> Runs] : n \in 0..2}
HistoryWorlds ==
    {[AllGreen EXCEPT !.drift = d] : d \in Histories}
    \cup {[AllGreen EXCEPT !.coherence = d] : d \in Histories}

\* A cycle of a fleet during which nothing changes: every spread of two runners over
\* two repositories, and in one repository every report and every history.
FleetInit ==
    /\ \/ /\ rows \in [Runners -> {None} \cup [repo : Repos, enrolled : BOOLEAN, reading : TwoReadings]]
          /\ world \in [Repos -> TwoWorlds]
       \/ /\ rows \in {[r \in Runners |-> IF r = anna THEN row ELSE None] :
                         row \in {None} \cup [repo : {repoA}, enrolled : BOOLEAN, reading : ScanReadings]}
          /\ world \in {[p \in Repos |-> IF p = repoA THEN w ELSE AllGreen] : w \in HistoryWorlds}
    /\ Idle

FleetSpec == FleetInit /\ [][Poll]_vars

FleetReadings == TwoReadings \cup ScanReadings
FleetWorlds == TwoWorlds \cup HistoryWorlds
================================================================================
