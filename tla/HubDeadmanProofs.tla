---------------------------- MODULE HubDeadmanProofs ----------------------------
(***************************************************************************)
(* Proofs about HubDeadman, for any interval, any period of the watchdog   *)
(* and any bound on a live cycle.                                          *)
(***************************************************************************)
EXTENDS HubDeadman, TLAPS

Ages == 0..TooOld

\* The age that the watchdog compares with the grace.
SeenAge == IF hub.last = Never THEN hub.uptime ELSE hub.last

DeadmanTypeOK ==
    /\ hub \in [up : BOOLEAN, polling : BOOLEAN, uptime : Ages, last : Ages \cup {Never},
                loop : {"off", "cycle", "sleep", "wedged"}, spent : Nat]
    /\ due \in 0..Period
    /\ alarm \in {"ok", "warn", "fail"}
    /\ wedged \in Ages
    /\ sick \in BOOLEAN

\* A loop runs only in a hub that is up and polls, and what its step has taken is bounded.
LoopInv ==
    /\ hub.loop # "off" => hub.up /\ hub.polling
    /\ hub.up /\ hub.polling => hub.loop # "off"
    /\ hub.loop = "sleep" => hub.spent <= Interval
    /\ hub.loop = "cycle" => hub.spent <= Slowest

\* A loop has not completed a cycle since it hung, and the last look, Period - due ago,
\* has reported it if that was after the grace.
WedgeInv ==
    /\ hub.loop # "wedged" => wedged = 0
    /\ hub.loop = "wedged" => SeenAge >= wedged
    /\ wedged + due > Grace + Period => alarm = "fail"

\* While no cycle has raised, the age is that of the sleep, or of sleep and cycle.
HealthyInv ==
    ~sick =>
        /\ hub.loop = "sleep" => SeenAge <= hub.spent
        /\ hub.loop = "cycle" => SeenAge <= Interval + hub.spent

DeadmanInv == DeadmanTypeOK /\ LoopInv /\ WedgeInv /\ HealthyInv

-----------------------------------------------------------------------------
LEMMA Numbers ==
    /\ Interval \in Nat /\ Period \in Nat /\ Slowest \in Nat /\ Grace \in Nat
    /\ Interval > 0 /\ Period > 0 /\ Grace > 0
    /\ TooOld \in Nat /\ TooOld = Grace + Period + 1
    /\ Never \notin Ages
    /\ 0 \in Ages /\ Period \in 0..Period
  BY DeadmanAssumption DEF Grace, TooOld, Ages

LEMMA OlderIs ==
    ASSUME NEW age \in Ages
    PROVE  /\ Older(age) \in Ages
           /\ Older(age) >= age /\ Older(age) <= age + 1
           /\ age # TooOld => Older(age) = age + 1
           /\ age = TooOld => Older(age) = TooOld
  BY Numbers DEF Older, Ages

LEMMA StartedIs ==
    ASSUME NEW polling \in BOOLEAN
    PROVE  LET fresh == Started(polling)
           IN  /\ fresh \in [up : BOOLEAN, polling : BOOLEAN, uptime : Ages,
                             last : Ages \cup {Never},
                             loop : {"off", "cycle", "sleep", "wedged"}, spent : Nat]
               /\ fresh.up /\ fresh.polling = polling
               /\ fresh.loop = IF polling THEN "cycle" ELSE "off"
               /\ fresh.uptime = 0 /\ fresh.last = Never /\ fresh.spent = 0
  BY Numbers DEF Started, Ages

-----------------------------------------------------------------------------
LEMMA DeadmanInitially == DeadmanInit => DeadmanInv
  <1> SUFFICES ASSUME DeadmanInit PROVE DeadmanInv
    OBVIOUS
  <1>1. PICK polling \in BOOLEAN : hub = Started(polling)
    BY DEF DeadmanInit
  <1>2. DeadmanTypeOK
    <2>1. hub \in [up : BOOLEAN, polling : BOOLEAN, uptime : Ages, last : Ages \cup {Never},
                   loop : {"off", "cycle", "sleep", "wedged"}, spent : Nat]
      BY <1>1, StartedIs
    <2> QED
      BY <2>1, Numbers DEF DeadmanInit, DeadmanTypeOK
  <1>3. LoopInv
    BY <1>1, StartedIs, Numbers DEF LoopInv
  <1>4. WedgeInv
    BY <1>1, StartedIs, Numbers DEF DeadmanInit, WedgeInv
  <1>5. HealthyInv
    BY <1>1, StartedIs, Numbers DEF HealthyInv, SeenAge
  <1> QED
    BY <1>2, <1>3, <1>4, <1>5 DEF DeadmanInv

\* Time passes alike for the age, the hang and the look that is due.
LEMMA PassStep == DeadmanInv /\ Pass => DeadmanInv'
  <1> SUFFICES ASSUME DeadmanInv, Pass PROVE DeadmanInv'
    OBVIOUS
  <1> USE DEF DeadmanInv
  <1>1. DeadmanTypeOK
    OBVIOUS
  <1>2. /\ hub'.up = hub.up /\ hub'.polling = hub.polling /\ hub'.loop = hub.loop
        /\ hub'.uptime = Older(hub.uptime)
        /\ hub'.last = IF hub.last = Never THEN Never ELSE Older(hub.last)
        /\ hub'.spent = IF hub.loop \in {"sleep", "cycle"} THEN hub.spent + 1 ELSE hub.spent
        /\ hub' \in [up : BOOLEAN, polling : BOOLEAN, uptime : Ages, last : Ages \cup {Never},
                     loop : {"off", "cycle", "sleep", "wedged"}, spent : Nat]
    <2>1. /\ hub.uptime \in Ages /\ hub.last \in Ages \cup {Never} /\ hub.spent \in Nat
          /\ Older(hub.uptime) \in Ages
          /\ hub.last # Never => Older(hub.last) \in Ages
      BY <1>1, OlderIs DEF DeadmanTypeOK
    <2> DEFINE u == Older(hub.uptime)
               l == IF hub.last = Never THEN Never ELSE Older(hub.last)
               n == IF hub.loop \in {"sleep", "cycle"} THEN hub.spent + 1 ELSE hub.spent
    <2>2. u \in Ages /\ l \in Ages \cup {Never} /\ n \in Nat
      BY <2>1
    <2>3. hub' = [hub EXCEPT !.uptime = u, !.last = l, !.spent = n]
      BY DEF Pass
    <2> HIDE DEF u, l, n
    <2>4. hub' \in [up : BOOLEAN, polling : BOOLEAN, uptime : Ages, last : Ages \cup {Never},
                    loop : {"off", "cycle", "sleep", "wedged"}, spent : Nat]
      BY <1>1, <2>2, <2>3 DEF DeadmanTypeOK
    <2>5. /\ hub'.up = hub.up /\ hub'.polling = hub.polling /\ hub'.loop = hub.loop
          /\ hub'.uptime = u /\ hub'.last = l /\ hub'.spent = n
      BY <1>1, <2>3 DEF DeadmanTypeOK
    <2> QED
      BY <2>4, <2>5 DEF u, l, n
  <1>3. /\ due # 0 /\ due' = due - 1
        /\ wedged' = IF hub.loop = "wedged" THEN Older(wedged) ELSE 0
        /\ UNCHANGED <<alarm, sick>>
    BY DEF Pass, Urgent
  <1>4. DeadmanTypeOK'
    BY <1>1, <1>2, <1>3, OlderIs, Numbers DEF DeadmanTypeOK, Ages
  <1>5. LoopInv'
    BY <1>1, <1>2, Numbers DEF LoopInv, DeadmanTypeOK, Pass, Urgent
  <1>6. SeenAge \in Ages /\ SeenAge' = Older(SeenAge)
    <2>1. CASE hub.last = Never
      BY <1>1, <1>2, <2>1 DEF SeenAge, DeadmanTypeOK
    <2>2. CASE hub.last # Never
      <3>1. hub.last \in Ages /\ hub'.last = Older(hub.last)
        BY <1>1, <1>2, <2>2 DEF DeadmanTypeOK
      <3>2. hub'.last # Never
        BY <3>1, OlderIs, Numbers
      <3> QED
        BY <2>2, <3>1, <3>2 DEF SeenAge
    <2> QED
      BY <2>1, <2>2
  <1>7. WedgeInv'
    <2>1. hub.loop = "wedged" => SeenAge' >= wedged'
      BY <1>1, <1>3, <1>6, OlderIs, Numbers DEF WedgeInv, DeadmanTypeOK, Ages
    <2>2. wedged' + due' > Grace + Period => wedged + due > Grace + Period
      BY <1>1, <1>3, OlderIs, Numbers DEF DeadmanTypeOK, Ages
    <2> QED
      BY <1>2, <1>3, <2>1, <2>2 DEF WedgeInv
  <1>8. HealthyInv'
    <2>1. SeenAge' <= SeenAge + 1 /\ SeenAge' \in Ages
      BY <1>6, OlderIs
    <2> QED
      BY <1>1, <1>2, <1>3, <1>6, <2>1, Numbers DEF HealthyInv, DeadmanTypeOK, Ages
  <1> QED
    BY <1>4, <1>5, <1>7, <1>8

\* What a step of the loop can change: its place, the age, and whether a cycle has raised.
LoopMoved ==
    /\ hub' \in [up : BOOLEAN, polling : BOOLEAN, uptime : Ages, last : Ages \cup {Never},
                 loop : {"off", "cycle", "sleep", "wedged"}, spent : Nat]
    /\ hub'.up /\ hub'.polling /\ hub'.uptime = hub.uptime
    /\ due' = due /\ alarm' = alarm /\ wedged' = wedged /\ wedged = 0
    /\ \/ /\ hub.loop = "sleep" /\ hub.spent = Interval
          /\ hub'.loop = "cycle" /\ hub'.spent = 0
          /\ hub'.last = hub.last /\ sick' = sick
       \/ hub'.loop = "sleep" /\ hub'.spent = 0 /\ hub'.last = 0 /\ sick' = FALSE
       \/ hub'.loop = "sleep" /\ hub'.spent = 0 /\ sick' = TRUE
       \/ hub'.loop = "wedged"

LEMMA LoopMoves ==
    DeadmanInv /\ (CycleStarts \/ CycleCompletes \/ CycleRaises \/ Wedges) => LoopMoved
  <1> SUFFICES ASSUME DeadmanInv, CycleStarts \/ CycleCompletes \/ CycleRaises \/ Wedges
               PROVE  LoopMoved
    OBVIOUS
  <1> USE DEF DeadmanInv, DeadmanTypeOK, LoopInv, LoopMoved
  <1>1. wedged = 0 /\ hub.up /\ hub.polling
    BY DEF CycleStarts, CycleCompletes, CycleRaises, Wedges, WedgeInv
  <1>2. CASE CycleStarts
    BY <1>1, <1>2 DEF CycleStarts
  <1>3. CASE CycleCompletes
    BY <1>1, <1>3, Numbers DEF CycleCompletes
  <1>4. CASE CycleRaises
    BY <1>1, <1>4 DEF CycleRaises
  <1>5. CASE Wedges
    BY <1>1, <1>5 DEF Wedges
  <1> QED
    BY <1>2, <1>3, <1>4, <1>5

LEMMA LoopStep ==
    DeadmanInv /\ (CycleStarts \/ CycleCompletes \/ CycleRaises \/ Wedges) => DeadmanInv'
  <1> SUFFICES ASSUME DeadmanInv, LoopMoved,
                      CycleStarts \/ CycleCompletes \/ CycleRaises \/ Wedges
               PROVE  DeadmanInv'
    BY LoopMoves
  <1>1. DeadmanTypeOK'
    <2>1. sick' \in BOOLEAN
      BY DEF LoopMoved, DeadmanInv, DeadmanTypeOK, CycleStarts, CycleCompletes, CycleRaises,
             Wedges
    <2> QED
      BY <2>1 DEF LoopMoved, DeadmanInv, DeadmanTypeOK
  <1>2. LoopInv'
    BY Numbers DEF LoopMoved, LoopInv
  <1>3. SeenAge \in Ages /\ SeenAge' \in Ages
    BY <1>1 DEF DeadmanInv, DeadmanTypeOK, SeenAge
  <1>4. WedgeInv'
    <2>1. due \in 0..Period
      BY DEF DeadmanInv, DeadmanTypeOK
    <2> QED
      BY <1>3, <2>1, Numbers DEF LoopMoved, WedgeInv, Ages
  <1>5. HealthyInv'
    <2>1. hub'.last = hub.last => SeenAge' = SeenAge
      BY DEF LoopMoved, SeenAge
    <2>2. hub'.last = 0 => SeenAge' = 0
      BY Numbers DEF SeenAge
    <2> QED
      BY <1>3, <2>1, <2>2, Numbers DEF LoopMoved, DeadmanInv, HealthyInv, Ages
  <1> QED
    BY <1>1, <1>2, <1>4, <1>5 DEF DeadmanInv

LEMMA DownUpStep == DeadmanInv /\ (Down \/ Up) => DeadmanInv'
  <1> SUFFICES ASSUME DeadmanInv, Down \/ Up PROVE DeadmanInv'
    OBVIOUS
  <1> USE DEF DeadmanInv
  <1>1. CASE Down
    <2>1. DeadmanTypeOK'
      BY <1>1, Numbers DEF DeadmanTypeOK, Down
    <2> QED
      BY <1>1, <2>1, Numbers DEF DeadmanTypeOK, Down, LoopInv, WedgeInv, HealthyInv
  <1>2. CASE Up
    <2>1. PICK polling \in BOOLEAN : hub' = Started(polling)
      BY <1>2 DEF Up
    <2>2. wedged = 0
      BY <1>2 DEF Up, LoopInv, WedgeInv, DeadmanTypeOK
    <2>3. DeadmanTypeOK'
      BY <1>2, <2>1, StartedIs DEF DeadmanTypeOK, Up
    <2>4. LoopInv'
      BY <2>1, StartedIs, Numbers DEF LoopInv
    <2>5. WedgeInv'
      BY <1>2, <2>1, <2>2, StartedIs, Numbers DEF WedgeInv, DeadmanTypeOK, Up
    <2>6. HealthyInv'
      BY <2>1, StartedIs, Numbers DEF HealthyInv, SeenAge
    <2> QED
      BY <2>3, <2>4, <2>5, <2>6
  <1> QED
    BY <1>1, <1>2

\* A look finds what has been hanging for longer than the grace.
LEMMA LookStep == DeadmanInv /\ Look => DeadmanInv'
  <1> SUFFICES ASSUME DeadmanInv, Look PROVE DeadmanInv'
    OBVIOUS
  <1> USE DEF DeadmanInv
  <1>1. Reads \in {"ok", "warn", "fail"}
    BY DEF Reads, DeadmanTypeOK
  <1>2. DeadmanTypeOK'
    BY <1>1, Numbers DEF DeadmanTypeOK, Look
  <1>3. LoopInv' /\ HealthyInv'
    BY DEF LoopInv, HealthyInv, SeenAge, Look
  <1>4. ASSUME wedged > Grace PROVE alarm' = "fail"
    <2>1. hub.loop = "wedged" /\ hub.up /\ hub.polling
      BY <1>4, Numbers DEF WedgeInv, LoopInv, DeadmanTypeOK
    <2>2. SeenAge > Grace
      <3>1. SeenAge \in Ages
        BY DEF SeenAge, DeadmanTypeOK
      <3> QED
        BY <1>4, <2>1, <3>1, Numbers DEF WedgeInv, DeadmanTypeOK, Ages
    <2> QED
      BY <2>1, <2>2 DEF Look, Reads, SeenAge
  <1>5. WedgeInv'
    BY <1>4, Numbers DEF WedgeInv, SeenAge, Look, DeadmanTypeOK, Ages
  <1> QED
    BY <1>2, <1>3, <1>5

LEMMA DeadmanStep == DeadmanInv /\ [DeadmanNext]_deadmanVars => DeadmanInv'
  <1>1. DeadmanInv /\ UNCHANGED deadmanVars => DeadmanInv'
    BY DEF DeadmanInv, DeadmanTypeOK, LoopInv, WedgeInv, HealthyInv, SeenAge, deadmanVars
  <1> QED
    BY <1>1, PassStep, LoopStep, DownUpStep, LookStep DEF DeadmanNext

\* The inductive invariant: types, the loop's bounds, and what age and alarm say of it.
THEOREM DeadmanInvariant == DeadmanSpec => []DeadmanInv
  BY DeadmanInitially, DeadmanStep, PTL DEF DeadmanSpec

\* A hub that hangs is reported by the first look after the grace, whatever the interval
\* and the watchdog's period (hub-watchdog.sh:88-104).
THEOREM EveryWedgeIsFound == DeadmanSpec => []WedgeIsFound
  <1>1. DeadmanInv => WedgeIsFound
    BY Numbers DEF DeadmanInv, DeadmanTypeOK, WedgeInv, WedgeIsFound, Ages
  <1> QED
    BY <1>1, DeadmanInvariant, PTL

\* Nobody is paged for a healthy hub whose cycle and sleep fit into the grace
\* (hub-watchdog.sh:78-80, monitor.py:82-98).
THEOREM NobodyPagedInHealth == DeadmanSpec => NoFalsePage
  <1> DEFINE Page == Interval + Slowest <= Grace /\ due < due' /\ alarm' = "fail"
             Cause == ~hub.up \/ sick \/ hub.loop = "wedged"
  <1>1. DeadmanInv /\ [DeadmanNext]_deadmanVars => [Page => Cause]_deadmanVars
    <2> SUFFICES ASSUME DeadmanInv, DeadmanNext, Page, ~Cause PROVE FALSE
      OBVIOUS
    <2> USE DEF DeadmanInv
    <2>1. Look
      BY Numbers DEF DeadmanNext, Pass, CycleStarts, CycleCompletes, CycleRaises, Wedges,
                     Down, Up, DeadmanTypeOK
    <2>2. hub.up /\ hub.polling /\ SeenAge > Grace
      BY <2>1 DEF Look, Reads, SeenAge, DeadmanTypeOK
    <2>3. hub.loop \in {"sleep", "cycle"} /\ hub.spent \in Nat /\ SeenAge \in Ages
      BY <2>2 DEF LoopInv, DeadmanTypeOK, SeenAge
    <2>4. SeenAge <= Interval + Slowest
      BY <2>2, <2>3, Numbers DEF HealthyInv, LoopInv, Ages
    <2> QED
      BY <2>2, <2>3, <2>4, Numbers DEF Ages
  <1> QED
    BY <1>1, DeadmanInvariant, PTL DEF DeadmanSpec, NoFalsePage
================================================================================
