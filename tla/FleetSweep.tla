------------------------------- MODULE FleetSweep -------------------------------
(***************************************************************************)
(* The sweep of the declared fleet for secrets (secret-scan-fleet.sh), one *)
(* after another by a timer, and its report, which the heartbeat reads at  *)
(* any moment.  A sweep can die anywhere and any of its writes can fail.   *)
(*                                                                         *)
(* A record is the repository and its state; the reasons, the counts and   *)
(* the places of the findings are left out.  gate is history: what the     *)
(* gate answered for each repository in the sweep under way.               *)
(***************************************************************************)
EXTENDS Integers, Sequences

CONSTANTS
    FleetRepos,
    Declarations,  \* what the operator may declare
    NoReport, Partial

Answers == {"clean", "findings", "fault", "refused", "not asked"}
Records == [repo : FleetRepos, state : {"clean", "findings", "unfetchable", "unscannable"}]
Reports == [repos : Seq(Records), declared : Nat, gate : Seq(Answers)]

ASSUME SweepAssumption == Declarations \subseteq Seq(FleetRepos) /\ Partial \notin Reports

VARIABLES declared, sweep, report, gate

sweepVars == <<declared, sweep, report, gate>>

Is(pc) == sweep.pc = pc
Ended(code) ==
    [pc |-> "rest", records |-> <<>>, aborted |-> FALSE, found |-> FALSE,
     unscanned |-> FALSE, exit |-> code]

SweepInit ==
    /\ declared \in Declarations
    /\ sweep = Ended(-1)
    /\ report = NoReport
    /\ gate = <<>>

Declare ==
    /\ Is("rest")
    /\ declared' \in Declarations \ {declared}
    /\ sweep' = Ended(-1)
    /\ UNCHANGED <<report, gate>>

\* An empty declaration is refused before the first fetch.
BeginSweep ==
    /\ Is("rest")
    /\ sweep' = IF declared = <<>> THEN Ended(3) ELSE [Ended(-1) EXCEPT !.pc = "scan"]
    /\ gate' = <<>>
    /\ UNCHANGED <<declared, report>>

NextRepo == declared[Len(sweep.records) + 1]

Recorded(state) == Append(sweep.records, [repo |-> NextRepo, state |-> state])

Scanning == Is("scan") /\ Len(sweep.records) < Len(declared)

Answered(rc) ==
    /\ gate' = Append(gate, rc)
    /\ UNCHANGED <<declared, report>>

\* After an unusable scanner each remaining repository is recorded all the same.
PassOver ==
    /\ Scanning
    /\ sweep.aborted
    /\ sweep' = [sweep EXCEPT !.records = Recorded("unscannable"), !.unscanned = TRUE]
    /\ Answered("not asked")

Unfetchable ==
    /\ Scanning
    /\ ~sweep.aborted
    /\ sweep' = [sweep EXCEPT !.records = Recorded("unfetchable"), !.unscanned = TRUE]
    /\ Answered("not asked")

Scanned ==
    /\ Scanning
    /\ ~sweep.aborted
    /\ \/ /\ sweep' = [sweep EXCEPT !.records = Recorded("clean")]
          /\ Answered("clean")
       \/ /\ sweep' = [sweep EXCEPT !.records = Recorded("findings"), !.found = TRUE]
          /\ Answered("findings")

Unusable ==
    /\ Scanning
    /\ ~sweep.aborted
    /\ sweep' = [sweep EXCEPT !.records = Recorded("unscannable"), !.unscanned = TRUE,
                              !.aborted = TRUE]
    /\ Answered("fault")

Refused ==
    /\ Scanning
    /\ ~sweep.aborted
    /\ sweep' = [sweep EXCEPT !.records = Recorded("unscannable"), !.unscanned = TRUE]
    /\ Answered("refused")

\* A write that fails ends the script with the code of the writer, which is 1.
WriteFails ==
    /\ ~Is("rest")
    /\ sweep' = Ended(1)
    /\ UNCHANGED <<declared, report, gate>>

SweepDies ==
    /\ ~Is("rest")
    /\ sweep' = Ended(-1)
    /\ UNCHANGED <<declared, report, gate>>

\* Defect: the report is opened for writing where it is read.
OpenInPlace ==
    /\ Is("scan")
    /\ Len(sweep.records) = Len(declared)
    /\ sweep' = [sweep EXCEPT !.pc = "replace"]
    /\ report' = Partial
    /\ UNCHANGED <<declared, gate>>

\* The report is written to a sibling.
WriteSibling ==
    /\ Is("scan")
    /\ Len(sweep.records) = Len(declared)
    /\ sweep' = [sweep EXCEPT !.pc = "replace"]
    /\ UNCHANGED <<declared, report, gate>>

Replace ==
    /\ Is("replace")
    /\ report' = [repos |-> sweep.records, declared |-> Len(declared), gate |-> gate]
    /\ sweep' = [sweep EXCEPT !.pc = "verdict"]
    /\ UNCHANGED <<declared, gate>>

\* A scanner fault outranks a finding, and a finding outranks an unknown.
Verdict ==
    /\ Is("verdict")
    /\ sweep' = Ended(CASE sweep.aborted -> 2
                       [] ~sweep.aborted /\ sweep.found -> 1
                       [] ~sweep.aborted /\ ~sweep.found /\ sweep.unscanned -> 4
                       [] OTHER -> 0)
    /\ UNCHANGED <<declared, report, gate>>

SweepNext ==
    \/ Declare \/ BeginSweep
    \/ PassOver \/ Unfetchable \/ Scanned \/ Unusable \/ Refused
    \/ WriteFails \/ SweepDies
    \/ WriteSibling \/ Replace \/ Verdict

SweepSpec == SweepInit /\ [][SweepNext]_sweepVars

-----------------------------------------------------------------------------
\* Whenever the heartbeat reads, it finds no report or a whole one: every repository of
\* the declaration it was made for has its row, and a row is clean only if the gate has
\* scanned that repository (secret-scan-fleet.sh:36-39, 248-291).
ReportIsWhole ==
    report # NoReport =>
        /\ report # Partial
        /\ Len(report.repos) = report.declared
        /\ \A n \in DOMAIN report.repos :
               report.repos[n].state = "clean" <=> report.gate[n] = "clean"

\* Exit 0 is given over a report in which each declared repository is clean, and exit 4
\* over one without a finding and with an unknown (secret-scan-fleet.sh:301-317).
ExitIsOfReport ==
    LET states == {report.repos[n].state : n \in DOMAIN report.repos}
    IN  /\ sweep.exit = 0 => Len(report.repos) = Len(declared) /\ states = {"clean"}
        /\ sweep.exit = 4 => "findings" \notin states /\ states # {"clean"}
================================================================================
