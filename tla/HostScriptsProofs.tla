---------------------------- MODULE HostScriptsProofs ----------------------------
(***************************************************************************)
(* Proofs about the scripts of a runner host: SpokeEnroll, ImageCycle and  *)
(* FleetSweep, for any names, images and declarations.                     *)
(***************************************************************************)
EXTENDS SpokeEnroll, ImageCycle, FleetSweep, SequenceTheorems, TLAPS

(***************************************************************************)
(* SpokeEnroll                                                             *)
(***************************************************************************)

EnrollTypeOK ==
    /\ ticket \in Tickets \cup {NoTicket}
    /\ script \in [mode : {"enroll", "revoke"}, name : Names,
                   pc : {"none", "check", "post", "write", "enable", "stop", "remove"}]

\* What a script that has switched from looking to acting still has before it.
ActingInv ==
    /\ Step("enroll", "enable") => ticket # NoTicket
    /\ Step("revoke", "remove") => timers \subseteq stuck /\ SlugIsOurs(script.name)

EnrollInv == EnrollTypeOK /\ ActingInv /\ TimersHaveTicket

LEMMA KeysAreOptional == EnrollTypeOK => Keys \subseteq Optional
  BY DEF EnrollTypeOK, Tickets, Keys

LEMMA EnrollInitially == EnrollInit => EnrollInv
  BY TicketAssumption DEF EnrollInit, EnrollInv, EnrollTypeOK, ActingInv, TimersHaveTicket,
                          Step

LEMMA OperatorStep == EnrollInv /\ (Provision \/ EditTicket) => EnrollInv'
  <1> SUFFICES ASSUME EnrollInv, Provision \/ EditTicket PROVE EnrollInv'
    OBVIOUS
  <1> USE DEF EnrollInv
  <1>1. CASE Provision
    <2>1. PICK key \in Optional : /\ ticket # NoTicket
                                  /\ ticket' = [ticket EXCEPT !.keys = @ \cup {key}]
      BY <1>1 DEF Provision
    <2>2. ticket' \in Tickets /\ ticket'.owner = ticket.owner
      BY <2>1 DEF EnrollTypeOK, Tickets
    <2>3. ticket' # NoTicket /\ UNCHANGED <<timers, stuck, script>>
      BY <1>1, <2>2, TicketAssumption DEF Provision
    <2> QED
      BY <2>1, <2>2, <2>3
         DEF EnrollTypeOK, ActingInv, TimersHaveTicket, Step, SlugIsOurs
  <1>2. CASE EditTicket
    <2>1. /\ script.pc \notin {"enable", "remove"} /\ UNCHANGED <<timers, stuck, script>>
          /\ \/ ticket' = [owner |-> Unnamed, keys |-> Keys]
             \/ timers = {} /\ ticket' = NoTicket
      BY <1>2 DEF EditTicket
    <2>2. [owner |-> Unnamed, keys |-> Keys] \in Tickets
      BY KeysAreOptional DEF Tickets
    <2>3. [owner |-> Unnamed, keys |-> Keys] # NoTicket
      BY <2>2, TicketAssumption
    <2> QED
      BY <2>1, <2>2, <2>3 DEF EnrollTypeOK, ActingInv, TimersHaveTicket, Step
  <1> QED
    BY <1>1, <1>2

\* The steps of a script that leave ticket and timers alone, and end before it acts.
LEMMA LookingStep ==
    EnrollInv /\ ((\E mode \in {"enroll", "revoke"}, name \in Names : Start(mode, name))
                  \/ CheckSlug \/ Accepted \/ Declined \/ ScriptEnds) => EnrollInv'
  <1> SUFFICES ASSUME EnrollInv,
                      \/ \E mode \in {"enroll", "revoke"}, name \in Names : Start(mode, name)
                      \/ CheckSlug \/ Accepted \/ Declined \/ ScriptEnds
               PROVE  EnrollInv'
    OBVIOUS
  <1>1. ticket' = ticket /\ timers' = timers /\ stuck' = stuck
    BY DEF Start, CheckSlug, Accepted, Declined, ScriptEnds
  <1>2. EnrollTypeOK' /\ script'.pc \notin {"enable", "remove"}
    <2> USE <1>1 DEF EnrollInv, EnrollTypeOK
    <2>1. ASSUME NEW mode \in {"enroll", "revoke"}, NEW name \in Names, Start(mode, name)
          PROVE  EnrollTypeOK' /\ script'.pc \notin {"enable", "remove"}
      BY <2>1 DEF Start
    <2>2. CASE CheckSlug
      BY <2>2 DEF CheckSlug, Steps, Quits
    <2>3. CASE Accepted
      BY <2>3 DEF Accepted, Steps, Quits
    <2>4. CASE Declined \/ ScriptEnds
      BY <2>4 DEF Declined, ScriptEnds, Steps, Quits
    <2> QED
      BY <2>1, <2>2, <2>3, <2>4
  <1> QED
    BY <1>1, <1>2 DEF EnrollInv, ActingInv, TimersHaveTicket, Step

LEMMA ActingStep ==
    EnrollInv /\ (WriteTicket \/ EnableTimers \/ StopTimers \/ RemoveTicket) => EnrollInv'
  <1> SUFFICES ASSUME EnrollInv, WriteTicket \/ EnableTimers \/ StopTimers \/ RemoveTicket
               PROVE  EnrollInv'
    OBVIOUS
  <1> USE DEF EnrollInv
  <1>1. CASE WriteTicket
    <2>1. [owner |-> script.name, keys |-> Keys] \in Tickets
      BY KeysAreOptional DEF EnrollTypeOK, Tickets
    <2>2. [owner |-> script.name, keys |-> Keys] # NoTicket
      BY <2>1, TicketAssumption
    <2>3. CASE SlugIsOurs(script.name)
      BY <1>1, <2>1, <2>2, <2>3
         DEF WriteTicket, Steps, EnrollTypeOK, ActingInv, TimersHaveTicket, Step
    <2>4. CASE ~SlugIsOurs(script.name)
      BY <1>1, <2>4
         DEF WriteTicket, Quits, Steps, EnrollTypeOK, ActingInv, TimersHaveTicket, Step
    <2> QED
      BY <2>3, <2>4
  <1>2. CASE EnableTimers
    <2>1. ticket # NoTicket /\ ticket' = ticket /\ script' = [script EXCEPT !.pc = "none"]
      BY <1>2 DEF EnableTimers, Quits, Steps, ActingInv
    <2> QED
      BY <2>1 DEF EnrollTypeOK, ActingInv, TimersHaveTicket, Step
  <1>3. CASE StopTimers
    <2>1. CASE SlugIsOurs(script.name)
      <3>1. ticket' = ticket /\ timers' \subseteq timers
        BY <1>3, <2>1 DEF StopTimers
      <3>2. \/ stuck' = stuck \cup timers' /\ script' = [script EXCEPT !.pc = "remove"]
            \/ stuck' = stuck /\ script' = [script EXCEPT !.pc = "none"]
        BY <1>3, <2>1 DEF StopTimers, Steps, Quits
      <3>3. /\ EnrollTypeOK' /\ script'.name = script.name
            /\ script'.pc = "none" \/ (script'.pc = "remove" /\ timers' \subseteq stuck')
        BY <3>1, <3>2 DEF EnrollTypeOK
      <3>4. ticket = NoTicket => timers' \subseteq stuck'
        BY <3>1, <3>2 DEF TimersHaveTicket
      <3> QED
        BY <2>1, <3>1, <3>3, <3>4 DEF ActingInv, TimersHaveTicket, Step, SlugIsOurs
    <2>2. CASE ~SlugIsOurs(script.name)
      BY <1>3, <2>2
         DEF StopTimers, Quits, Steps, EnrollTypeOK, ActingInv, TimersHaveTicket, Step
    <2> QED
      BY <2>1, <2>2
  <1>4. CASE RemoveTicket
    BY <1>4 DEF RemoveTicket, Quits, Steps, EnrollTypeOK, ActingInv, TimersHaveTicket, Step
  <1> QED
    BY <1>1, <1>2, <1>3, <1>4

LEMMA EnrollStep == EnrollInv /\ [EnrollNext]_enrollVars => EnrollInv'
  <1>1. EnrollInv /\ UNCHANGED enrollVars => EnrollInv'
    BY DEF EnrollInv, EnrollTypeOK, ActingInv, TimersHaveTicket, Step, SlugIsOurs, enrollVars
  <1> QED
    BY <1>1, OperatorStep, LookingStep, ActingStep DEF EnrollNext

\* A timer is left running without a ticket only if stopping or disabling it failed, for any
\* names of one slug, wherever a script dies and whatever else fails
\* (runner-enroll.sh:459-473).
THEOREM TimersAlwaysHaveTicket == EnrollSpec => []TimersHaveTicket
  BY EnrollInitially, EnrollStep, PTL DEF EnrollSpec, EnrollInv

\* A script takes down and replaces only what is its runner's, although the operator may
\* edit the ticket while it waits for the hub (runner-enroll.sh:104-117, 441-476).
THEOREM OthersTicketSafe == EnrollSpec => OthersTicketStays
  <1>1. EnrollInv =>
            [(WriteTicket \/ StopTimers \/ RemoveTicket)
                 /\ <<ticket, timers>>' # <<ticket, timers>> =>
             ticket = NoTicket \/ OwnedBy(script.name)]_enrollVars
    BY DEF EnrollInv, ActingInv, WriteTicket, StopTimers, RemoveTicket, SlugIsOurs, OwnedBy
  <1> QED
    BY <1>1, EnrollInitially, EnrollStep, PTL DEF EnrollSpec, OthersTicketStays

(***************************************************************************)
(* ImageCycle                                                              *)
(***************************************************************************)

TickInv ==
    /\ tick = [pc |-> tick.pc, exit |-> tick.exit, todo |-> tick.todo]
    /\ ~At("rest") => tick.exit = -1

ImageInv == TickInv /\ ZeroHoldsThePin

LEMMA ImageInitially == ImageInit => ImageInv
  BY DEF ImageInit, ImageInv, TickInv, ZeroHoldsThePin, Resting, At

LEMMA StoreStep == ImageInv /\ (SomebodyAdds \/ SomebodyRemoves) => ImageInv'
  <1> SUFFICES ASSUME ImageInv, SomebodyAdds \/ SomebodyRemoves PROVE ImageInv'
    OBVIOUS
  <1> USE DEF ImageInv, TickInv, ZeroHoldsThePin, At
  <1>1. CASE SomebodyAdds
    <2>1. store \subseteq store' /\ tick' = tick /\ gone' = gone
      BY <1>1 DEF SomebodyAdds
    <2> QED
      BY <2>1 DEF PinHeld
  <1>2. CASE SomebodyRemoves
    <2>1. PICK image \in IdsOf(store) : /\ store' = {row \in store : row.id # image}
                                        /\ gone' = (gone \/ image = Pin)
                                        /\ tick' = tick
      BY <1>2 DEF SomebodyRemoves
    <2>2. PinHeld /\ image # Pin => PinHeld'
      BY <2>1 DEF PinHeld
    <2> QED
      BY <2>1, <2>2
  <1> QED
    BY <1>1, <1>2

LEMMA TickStep ==
    ImageInv /\ (\/ Refuse \/ Begin \/ Pull \/ Verify \/ List
                 \/ \E image \in Images : Reap(image)
                 \/ Recheck \/ TickDies) => ImageInv'
  <1> SUFFICES ASSUME ImageInv,
                      \/ Refuse \/ Begin \/ Pull \/ Verify \/ List
                      \/ \E image \in Images : Reap(image)
                      \/ Recheck \/ TickDies
               PROVE  ImageInv'
    OBVIOUS
  <1> USE DEF ImageInv, TickInv, ZeroHoldsThePin, At, Resting, Exits, Goes
  <1>1. CASE Refuse
    BY <1>1 DEF Refuse
  <1>2. CASE Begin
    BY <1>2 DEF Begin
  <1>3. CASE Pull
    BY <1>3 DEF Pull
  <1>4. CASE Verify
    BY <1>4 DEF Verify, PinHeld
  <1>5. CASE List
    <2>1. PICK todo : tick' = [tick EXCEPT !.pc = "reap", !.todo = todo]
      BY <1>5 DEF List
    <2>2. tick.exit = -1
      BY <1>5 DEF List
    <2>3. tick' = [pc |-> "reap", exit |-> -1, todo |-> todo]
      BY <2>1, <2>2
    <2> QED
      BY <2>3
  <1>6. ASSUME NEW image \in Images, Reap(image) PROVE ImageInv'
    BY <1>6 DEF Reap
  <1>7. CASE Recheck
    BY <1>7 DEF Recheck, PinHeld
  <1>8. CASE TickDies
    BY <1>8 DEF TickDies
  <1> QED
    BY <1>1, <1>2, <1>3, <1>4, <1>5, <1>6, <1>7, <1>8

\* Exit 0 is claimed only over a store that holds the pinned image, until somebody else
\* removes it (runner-image-cycle.sh:222-237).
THEOREM ZeroAlwaysHoldsThePin == ImageSpec => []ZeroHoldsThePin
  <1>1. ImageInv /\ UNCHANGED imageVars => ImageInv'
    BY DEF ImageInv, TickInv, ZeroHoldsThePin, PinHeld, At, imageVars
  <1>2. ImageInv /\ [ImageNext]_imageVars => ImageInv'
    BY <1>1, StoreStep, TickStep DEF ImageNext
  <1> QED
    BY <1>2, ImageInitially, PTL DEF ImageSpec, ImageInv

(***************************************************************************)
(* FleetSweep                                                              *)
(***************************************************************************)

SweepTypeOK ==
    /\ declared \in Seq(FleetRepos)
    /\ sweep \in [pc : {"rest", "scan", "replace", "verdict"}, records : Seq(Records),
                  aborted : BOOLEAN, found : BOOLEAN, unscanned : BOOLEAN, exit : -1..4]
    /\ gate \in Seq(Answers)

\* Every repository so far has its row, and the flags say what the rows say.
RowsInv ==
    ~Is("rest") =>
        /\ Len(gate) = Len(sweep.records) /\ Len(sweep.records) <= Len(declared)
        /\ Len(declared) > 0
        /\ \A n \in 1..Len(sweep.records) :
               /\ sweep.records[n].state = "clean" <=> gate[n] = "clean"
               /\ sweep.records[n].state = "findings" => sweep.found
               /\ sweep.records[n].state \notin {"clean", "findings"} => sweep.unscanned
        /\ sweep.unscanned =>
               \E n \in 1..Len(sweep.records) : sweep.records[n].state # "clean"

\* What has been replaced is what the sweep recorded.
ReplacedInv ==
    /\ Is("replace") \/ Is("verdict") => Len(sweep.records) = Len(declared)
    /\ Is("verdict") => report = [repos |-> sweep.records, declared |-> Len(declared),
                                  gate |-> gate]
    /\ ~Is("rest") => sweep.exit = -1

SweepInv == SweepTypeOK /\ RowsInv /\ ReplacedInv /\ ReportIsWhole /\ ExitIsOfReport

LEMMA EndedIs ==
    ASSUME NEW code \in -1..4
    PROVE  /\ Ended(code) \in [pc : {"rest", "scan", "replace", "verdict"},
                                records : Seq(Records), aborted : BOOLEAN, found : BOOLEAN,
                                unscanned : BOOLEAN, exit : -1..4]
           /\ Ended(code).pc = "rest" /\ Ended(code).exit = code
           /\ Ended(code).records = <<>>
           /\ ~Ended(code).found /\ ~Ended(code).unscanned
  <1>1. <<>> \in Seq(Records)
    BY EmptySeq
  <1> QED
    BY <1>1 DEF Ended

LEMMA SweepInitially == SweepInit => SweepInv
  <1> SUFFICES ASSUME SweepInit PROVE SweepInv
    OBVIOUS
  <1>1. sweep.pc = "rest" /\ sweep.exit = -1 /\ report = NoReport
    BY EndedIs DEF SweepInit
  <1>2. SweepTypeOK
    <2>1. declared \in Seq(FleetRepos)
      BY SweepAssumption DEF SweepInit
    <2>2. gate \in Seq(Answers)
      BY EmptySeq DEF SweepInit
    <2> QED
      BY <2>1, <2>2, EndedIs DEF SweepInit, SweepTypeOK
  <1> QED
    BY <1>1, <1>2 DEF SweepInv, RowsInv, ReplacedInv, ReportIsWhole, ExitIsOfReport, Is

\* A sweep that stops with no verdict leaves the report as it is.
LEMMA StopStep == SweepInv /\ (Declare \/ WriteFails \/ SweepDies) => SweepInv'
  <1> SUFFICES ASSUME SweepInv, Declare \/ WriteFails \/ SweepDies PROVE SweepInv'
    OBVIOUS
  <1>1. PICK code \in {-1, 1} : sweep' = Ended(code)
    BY DEF Declare, WriteFails, SweepDies
  <1>2. report' = report /\ gate' = gate
    BY DEF Declare, WriteFails, SweepDies
  <1>3. declared' \in Seq(FleetRepos)
    BY SweepAssumption DEF Declare, WriteFails, SweepDies, SweepInv, SweepTypeOK
  <1>4. sweep'.pc = "rest" /\ sweep'.exit \in {-1, 1} /\ SweepTypeOK'
    BY <1>1, <1>2, <1>3, EndedIs DEF SweepInv, SweepTypeOK
  <1> QED
    BY <1>2, <1>4
       DEF SweepInv, RowsInv, ReplacedInv, ReportIsWhole, ExitIsOfReport, Is

LEMMA BeginStep == SweepInv /\ BeginSweep => SweepInv'
  <1> SUFFICES ASSUME SweepInv, BeginSweep PROVE SweepInv'
    OBVIOUS
  <1>1. gate' = <<>> /\ declared' = declared /\ report' = report
    BY DEF BeginSweep
  <1>2. gate' \in Seq(Answers) /\ Len(gate') = 0
    BY <1>1, EmptySeq
  <1>3. CASE declared = <<>>
    <2>1. sweep' = Ended(3)
      BY <1>3 DEF BeginSweep
    <2> QED
      BY <1>1, <1>2, <2>1, EndedIs DEF SweepInv, SweepTypeOK, RowsInv, ReplacedInv,
         ReportIsWhole, ExitIsOfReport, Is
  <1>4. CASE declared # <<>>
    <2>1. sweep' = [Ended(-1) EXCEPT !.pc = "scan"]
      BY <1>4 DEF BeginSweep
    <2>2. /\ sweep' \in [pc : {"rest", "scan", "replace", "verdict"},
                          records : Seq(Records), aborted : BOOLEAN, found : BOOLEAN,
                          unscanned : BOOLEAN, exit : -1..4]
          /\ sweep'.pc = "scan" /\ sweep'.exit = -1 /\ sweep'.records = <<>>
          /\ ~sweep'.found /\ ~sweep'.unscanned
      BY <2>1, EndedIs
    <2>3. Len(sweep'.records) = 0
      BY <2>2
    <2>4. Len(declared) > 0
      BY <1>4, EmptySeq, LenProperties DEF SweepInv, SweepTypeOK
    <2>5. SweepTypeOK'
      BY <1>1, <1>2, <2>2 DEF SweepInv, SweepTypeOK
    <2>6. RowsInv'
      BY <1>1, <1>2, <2>2, <2>3, <2>4 DEF RowsInv
    <2> QED
      BY <1>1, <2>2, <2>5, <2>6
         DEF SweepInv, ReplacedInv, ReportIsWhole, ExitIsOfReport, Is
  <1> QED
    BY <1>3, <1>4

\* One more repository recorded: its row, the gate's answer and the flags go together.
RecordedAs(state, rc) ==
    /\ Scanning
    /\ sweep'.pc = "scan" /\ sweep'.exit = sweep.exit
    /\ sweep'.records = Recorded(state)
    /\ sweep'.found = (sweep.found \/ state = "findings")
    /\ sweep'.unscanned = (sweep.unscanned \/ state \notin {"clean", "findings"})
    /\ gate' = Append(gate, rc) /\ declared' = declared /\ report' = report

LEMMA RecordingStep ==
    ASSUME SweepInv,
           NEW state \in {"clean", "findings", "unfetchable", "unscannable"},
           NEW rc \in Answers, state = "clean" <=> rc = "clean",
           RecordedAs(state, rc),
           NEW aborted \in BOOLEAN, NEW found \in BOOLEAN, NEW unscanned \in BOOLEAN,
           sweep' = [sweep EXCEPT !.records = Recorded(state), !.aborted = aborted,
                                  !.found = found, !.unscanned = unscanned]
    PROVE  SweepInv'
  <1> USE DEF SweepInv
  <1> DEFINE row == [repo |-> NextRepo, state |-> state]
  <1>1. /\ Len(sweep.records) \in Nat /\ Len(declared) \in Nat
        /\ Len(sweep.records) < Len(declared) /\ Len(gate) = Len(sweep.records)
        /\ sweep.records \in Seq(Records) /\ gate \in Seq(Answers) /\ sweep.pc = "scan"
    BY LenProperties DEF SweepTypeOK, RecordedAs, Scanning, Is, RowsInv
  <1>2. row \in Records
    <2>1. NextRepo \in FleetRepos
      BY <1>1, ElementOfSeq DEF NextRepo, SweepTypeOK
    <2> QED
      BY <2>1 DEF Records
  <1>3. /\ sweep'.records \in Seq(Records)
        /\ Len(sweep'.records) = Len(sweep.records) + 1
        /\ sweep'.records[Len(sweep.records) + 1] = row
        /\ \A n \in 1..Len(sweep.records) : sweep'.records[n] = sweep.records[n]
    BY <1>1, <1>2, AppendProperties DEF RecordedAs, Recorded
  <1>4. /\ gate' \in Seq(Answers) /\ Len(gate') = Len(gate) + 1
        /\ gate'[Len(gate) + 1] = rc
        /\ \A n \in 1..Len(gate) : gate'[n] = gate[n]
    BY <1>1, AppendProperties DEF RecordedAs
  <1>5. SweepTypeOK'
    <2>1. Recorded(state) \in Seq(Records)
      BY <1>3 DEF RecordedAs
    <2> HIDE DEF SweepInv
    <2> QED
      BY <2>1, <1>4 DEF SweepInv, SweepTypeOK, RecordedAs
  <1>6. RowsInv'
    <2>1. /\ Len(gate') = Len(sweep'.records) /\ Len(sweep'.records) <= Len(declared')
          /\ Len(declared') > 0
      BY <1>1, <1>3, <1>4 DEF RecordedAs
    <2>2. ASSUME NEW n \in 1..Len(sweep'.records)
          PROVE  /\ sweep'.records[n].state = "clean" <=> gate'[n] = "clean"
                 /\ sweep'.records[n].state = "findings" => sweep'.found
                 /\ sweep'.records[n].state \notin {"clean", "findings"} => sweep'.unscanned
      <3>1. CASE n = Len(sweep.records) + 1
        <4>1. sweep'.records[n].state = state
          BY <1>3, <3>1
        <4>2. gate'[n] = rc
          BY <1>1, <1>4, <3>1
        <4> QED
          BY <4>1, <4>2 DEF RecordedAs
      <3>2. CASE n \in 1..Len(sweep.records)
        BY <1>1, <1>3, <1>4, <3>2 DEF RecordedAs, RowsInv, Is
      <3> QED
        BY <1>1, <1>3, <2>2, <3>1, <3>2
    <2>3. sweep'.unscanned =>
              \E n \in 1..Len(sweep'.records) : sweep'.records[n].state # "clean"
      <3>1. CASE sweep.unscanned
        <4>1. PICK n \in 1..Len(sweep.records) : sweep.records[n].state # "clean"
          BY <1>1, <3>1 DEF RowsInv, Is
        <4>2. n \in 1..Len(sweep'.records) /\ sweep'.records[n].state # "clean"
          BY <1>1, <1>3, <4>1
        <4> QED
          BY <4>2
      <3>2. CASE state \notin {"clean", "findings"}
        <4>1. /\ Len(sweep.records) + 1 \in 1..Len(sweep'.records)
              /\ sweep'.records[Len(sweep.records) + 1].state # "clean"
          BY <1>1, <1>3, <3>2
        <4> QED
          BY <4>1
      <3> QED
        BY <3>1, <3>2 DEF RecordedAs
    <2> QED
      BY <2>1, <2>2, <2>3 DEF RowsInv
  <1>7. ReplacedInv'
    BY <1>1 DEF ReplacedInv, RecordedAs, Is
  <1>8. ReportIsWhole' /\ ExitIsOfReport'
    BY <1>1 DEF ReportIsWhole, ExitIsOfReport, RecordedAs, ReplacedInv, Is
  <1> QED
    BY <1>5, <1>6, <1>7, <1>8

LEMMA ScanStep ==
    SweepInv /\ (PassOver \/ Unfetchable \/ Scanned \/ Unusable \/ Refused) => SweepInv'
  <1> SUFFICES ASSUME SweepInv, PassOver \/ Unfetchable \/ Scanned \/ Unusable \/ Refused
               PROVE  SweepInv'
    OBVIOUS
  <1> DEFINE Outcome(state, rc, aborted, found, unscanned) ==
                 /\ Scanning /\ Answered(rc)
                 /\ sweep' = [sweep EXCEPT !.records = Recorded(state), !.aborted = aborted,
                                           !.found = found, !.unscanned = unscanned]
  <1>1. /\ sweep \in [pc : {"rest", "scan", "replace", "verdict"}, records : Seq(Records),
                     aborted : BOOLEAN, found : BOOLEAN, unscanned : BOOLEAN, exit : -1..4]
        /\ Scanning /\ sweep.pc = "scan"
    BY DEF SweepInv, SweepTypeOK, PassOver, Unfetchable, Scanned, Unusable, Refused, Scanning,
           Is
  <1>2. ASSUME NEW state \in {"clean", "findings", "unfetchable", "unscannable"},
               NEW rc \in Answers, state = "clean" <=> rc = "clean",
               NEW aborted \in BOOLEAN,
               Outcome(state, rc, aborted, sweep.found \/ state = "findings",
                       sweep.unscanned \/ state \notin {"clean", "findings"})
        PROVE  SweepInv'
    <2> DEFINE found == sweep.found \/ state = "findings"
               unscanned == sweep.unscanned \/ state \notin {"clean", "findings"}
    <2>1. found \in BOOLEAN /\ unscanned \in BOOLEAN
      OBVIOUS
    <2>2. sweep' = [sweep EXCEPT !.records = Recorded(state), !.aborted = aborted,
                                 !.found = found, !.unscanned = unscanned]
      BY <1>2
    <2> HIDE DEF found, unscanned
    <2>3. /\ sweep'.pc = "scan" /\ sweep'.exit = sweep.exit
          /\ sweep'.records = Recorded(state)
          /\ sweep'.found = found /\ sweep'.unscanned = unscanned
      BY <1>1, <2>2
    <2>4. RecordedAs(state, rc)
      BY <1>1, <1>2, <2>3 DEF RecordedAs, Answered, found, unscanned
    <2> QED
      BY <1>2, <2>1, <2>2, <2>4, RecordingStep
  <1>3. CASE PassOver
    <2>1. Outcome("unscannable", "not asked", sweep.aborted, sweep.found, TRUE)
      BY <1>1, <1>3 DEF PassOver
    <2> QED
      BY <1>1, <1>2, <2>1 DEF Answers
  <1>4. CASE Unfetchable
    <2>1. Outcome("unfetchable", "not asked", sweep.aborted, sweep.found, TRUE)
      BY <1>1, <1>4 DEF Unfetchable
    <2> QED
      BY <1>1, <1>2, <2>1 DEF Answers
  <1>5. CASE Scanned
    <2>1. \/ Outcome("clean", "clean", sweep.aborted, sweep.found, sweep.unscanned)
          \/ Outcome("findings", "findings", sweep.aborted, TRUE, sweep.unscanned)
      BY <1>1, <1>5 DEF Scanned
    <2> QED
      BY <1>1, <1>2, <2>1 DEF Answers
  <1>6. CASE Unusable
    <2>1. Outcome("unscannable", "fault", TRUE, sweep.found, TRUE)
      BY <1>1, <1>6 DEF Unusable
    <2> QED
      BY <1>1, <1>2, <2>1 DEF Answers
  <1>7. CASE Refused
    <2>1. Outcome("unscannable", "refused", sweep.aborted, sweep.found, TRUE)
      BY <1>1, <1>7 DEF Refused
    <2> QED
      BY <1>1, <1>2, <2>1 DEF Answers
  <1> QED
    BY <1>3, <1>4, <1>5, <1>6, <1>7

\* The report is renamed into place, and the verdict is about what it says.
LEMMA ReplaceStep == SweepInv /\ (WriteSibling \/ Replace) => SweepInv'
  <1> SUFFICES ASSUME SweepInv, WriteSibling \/ Replace PROVE SweepInv'
    OBVIOUS
  <1> USE DEF SweepInv
  <1>1. PICK pc \in {"replace", "verdict"} : sweep' = [sweep EXCEPT !.pc = pc]
    BY DEF WriteSibling, Replace
  <1>2. declared' = declared /\ gate' = gate
    BY DEF WriteSibling, Replace
  <1>3. SweepTypeOK'
    BY <1>1, <1>2 DEF SweepTypeOK
  <1>4. /\ sweep'.pc = pc /\ sweep'.records = sweep.records /\ sweep'.exit = sweep.exit
        /\ sweep'.found = sweep.found /\ sweep'.unscanned = sweep.unscanned
        /\ sweep.pc \in {"scan", "replace"} /\ Len(sweep.records) = Len(declared)
    BY <1>1 DEF SweepTypeOK, WriteSibling, Replace, ReplacedInv, Is
  <1>5. RowsInv'
    BY <1>2, <1>4 DEF RowsInv, Is
  <1>6. CASE WriteSibling
    BY <1>2, <1>3, <1>4, <1>5, <1>6
       DEF WriteSibling, ReplacedInv, ReportIsWhole, ExitIsOfReport, Is
  <1>7. CASE Replace
    <2>1. report' = [repos |-> sweep.records, declared |-> Len(declared), gate |-> gate]
      BY <1>7 DEF Replace
    <2>2. ReplacedInv'
      BY <1>2, <1>4, <2>1 DEF ReplacedInv, Is
    <2>3. /\ Len(declared) \in Nat /\ sweep.records \in Seq(Records) /\ gate \in Seq(Answers)
          /\ DOMAIN sweep.records = 1..Len(sweep.records)
      BY LenProperties DEF SweepTypeOK
    <2>4. report' \in Reports
      BY <2>1, <2>3 DEF Reports
    <2>5. report' # Partial
      BY <2>4, SweepAssumption
    <2>6. ReportIsWhole'
      BY <1>4, <2>1, <2>3, <2>5 DEF ReportIsWhole, RowsInv, Is
    <2>7. ExitIsOfReport'
      BY <1>4 DEF ExitIsOfReport, ReplacedInv, Is
    <2> QED
      BY <1>3, <1>5, <2>2, <2>6, <2>7
  <1> QED
    BY <1>6, <1>7

LEMMA VerdictStep == SweepInv /\ Verdict => SweepInv'
  <1> SUFFICES ASSUME SweepInv, Verdict PROVE SweepInv'
    OBVIOUS
  <1> USE DEF SweepInv
  <1>1. PICK code \in {0, 1, 2, 4} :
            /\ sweep' = Ended(code)
            /\ code = 0 => ~sweep.found /\ ~sweep.unscanned
            /\ code = 4 => ~sweep.found /\ sweep.unscanned
    BY DEF Verdict
  <1>2. /\ sweep.pc = "verdict" /\ declared' = declared /\ gate' = gate /\ report' = report
        /\ sweep'.pc = "rest" /\ sweep'.exit = code
    BY <1>1, EndedIs DEF Verdict, Is
  <1>3. SweepTypeOK'
    BY <1>1, <1>2, EndedIs DEF SweepTypeOK
  <1>4. /\ report.repos = sweep.records /\ Len(sweep.records) = Len(declared)
        /\ Len(declared) \in Nat /\ Len(declared) > 0
        /\ DOMAIN sweep.records = 1..Len(sweep.records)
    BY <1>2, LenProperties DEF ReplacedInv, RowsInv, SweepTypeOK, Is
  <1>5. ExitIsOfReport'
    <2> DEFINE states == {report.repos[n].state : n \in DOMAIN report.repos}
    <2>1. ASSUME code = 0 PROVE Len(report.repos) = Len(declared) /\ states = {"clean"}
      <3>1. \A n \in 1..Len(sweep.records) : sweep.records[n].state = "clean"
        BY <1>1, <1>2, <2>1 DEF RowsInv, Is
      <3>2. 1 \in 1..Len(sweep.records)
        BY <1>4
      <3> QED
        BY <1>4, <3>1, <3>2
    <2>2. ASSUME code = 4 PROVE "findings" \notin states /\ states # {"clean"}
      BY <1>1, <1>2, <1>4, <2>2 DEF RowsInv, Is
    <2> QED
      BY <1>2, <2>1, <2>2 DEF ExitIsOfReport
  <1> QED
    BY <1>2, <1>3, <1>5 DEF RowsInv, ReplacedInv, ReportIsWhole, Is

LEMMA SweepStep == SweepInv /\ [SweepNext]_sweepVars => SweepInv'
  <1>1. SweepInv /\ UNCHANGED sweepVars => SweepInv'
    <2>1. SweepTypeOK /\ UNCHANGED sweepVars => SweepTypeOK'
      BY DEF SweepTypeOK, sweepVars
    <2>2. RowsInv /\ UNCHANGED sweepVars => RowsInv'
      BY DEF RowsInv, Is, sweepVars
    <2>3. ReplacedInv /\ UNCHANGED sweepVars => ReplacedInv'
      BY DEF ReplacedInv, Is, sweepVars
    <2>4. ReportIsWhole /\ UNCHANGED sweepVars => ReportIsWhole'
      BY DEF ReportIsWhole, sweepVars
    <2>5. ExitIsOfReport /\ UNCHANGED sweepVars => ExitIsOfReport'
      BY DEF ExitIsOfReport, sweepVars
    <2> QED
      BY <2>1, <2>2, <2>3, <2>4, <2>5 DEF SweepInv
  <1> QED
    BY <1>1, StopStep, BeginStep, ScanStep, ReplaceStep, VerdictStep DEF SweepNext

\* A reader of the report finds none or a whole one, for any declaration and wherever a
\* sweep dies (secret-scan-fleet.sh:36-39, 248-291).
THEOREM ReportAlwaysWhole == SweepSpec => []ReportIsWhole
  BY SweepInitially, SweepStep, PTL DEF SweepSpec, SweepInv

\* Exit 0 means that every declared repository was scanned clean, and exit 4 that there is
\* an unknown and no finding (secret-scan-fleet.sh:301-317).
THEOREM ExitSaysTheReport == SweepSpec => []ExitIsOfReport
  BY SweepInitially, SweepStep, PTL DEF SweepSpec, SweepInv
================================================================================
