-------------------------- MODULE RepositoryToolsProofs --------------------------
(***************************************************************************)
(* Proofs about the repository's own tools: RunTests, for any files and    *)
(* any number of workers; MutationCheck, for any number of versions;       *)
(* ReleasePipeline, for any versions and any history; RePin, for any       *)
(* digests and any commits; KnownBugs, for any ids, patterns and writers.  *)
(***************************************************************************)
EXTENDS RunTests, MutationCheck, ReleasePipeline, RePin, KnownBugs, SequenceTheorems, TLAPS

(***************************************************************************)
(* RunTests                                                                *)
(***************************************************************************)

\* A file is on its way in some lane.
Running(name) == \E lane \in Lanes : Busy(lane) /\ run[lane].file = name

TestsTypeOK ==
    /\ found \in Discoveries
    /\ next \in Nat /\ next > 0
    /\ run \in [Lanes -> Processes \cup {Idle}]
    /\ todo \subseteq TestFiles
    /\ \A lane \in Lanes : Busy(lane) => run[lane].file \in TestFiles
    /\ last \in [TestFiles -> {Idle, "sound", "unsound"}]

\* A file launched before is on its way, counted as failed, or was sound at last.
AccountInv ==
    \A n \in 1..Len(Queue) :
        n < next => \/ Running(Queue[n])
                    \/ Queue[n] \in failed
                    \/ last[Queue[n]] = "sound"

\* Green is only given when all is over.
ExitInv ==
    exit = 0 =>
        /\ next > Len(Queue) /\ todo = {} /\ AllIdle
        /\ failed = {} \/ TestFiles = {}

\* Once a serial or a solo run is on, the pool has nothing to launch any more.
LaneInv ==
    \A lane \in Lanes :
        Busy(lane) /\ (run[lane].solo \/ ~InPool(run[lane].file)) =>
            \A n \in next..Len(Queue) : ~InPool(Queue[n])

TestsInv == TestsTypeOK /\ AccountInv /\ ExitInv /\ LaneInv /\ SerialAlone

\* The queue is the pool's files and then the serial ones.
LEMMA QueueIs ==
    ASSUME found \in Discoveries
    PROVE  /\ Queue \in Seq(TestNames) /\ Len(Queue) \in Nat
           /\ DOMAIN Queue = 1..Len(Queue)
           /\ TestFiles = {Queue[n] : n \in 1..Len(Queue)} /\ TestFiles \subseteq TestNames
           /\ \A m, n \in 1..Len(Queue) :
                  m <= n /\ ~InPool(Queue[m]) => ~InPool(Queue[n])
  <1> DEFINE p == Len(found.parallel)
             s == Len(found.serial)
  <1>1. /\ found.parallel \in Seq(TestNames) /\ found.serial \in Seq(TestNames)
        /\ \A m \in DOMAIN found.parallel, n \in DOMAIN found.serial :
               found.parallel[m] # found.serial[n]
    BY TestsAssumption
  <1>2. p \in Nat /\ DOMAIN found.parallel = 1..p /\ s \in Nat /\ DOMAIN found.serial = 1..s
    BY <1>1, LenProperties
  <1>3. /\ Queue \in Seq(TestNames) /\ Len(Queue) = p + s
        /\ \A i \in 1..(p + s) :
               Queue[i] = IF i <= p THEN found.parallel[i] ELSE found.serial[i - p]
    BY <1>1, ConcatProperties DEF Queue
  <1>4. DOMAIN Queue = 1..Len(Queue) /\ Len(Queue) \in Nat
    BY <1>3, LenProperties
  <1>5. TestFiles \subseteq TestNames
    BY <1>3, <1>4, ElementOfSeq DEF TestFiles
  <1> HIDE DEF p, s
  <1>6. ASSUME NEW m \in 1..(p + s), NEW n \in 1..(p + s), m <= n, ~InPool(Queue[m])
        PROVE  ~InPool(Queue[n])
    <2>1. m > p
      <3>1. ASSUME m <= p PROVE FALSE
        <4>1. m \in 1..p
          BY <1>2, <3>1
        <4>2. Queue[m] = found.parallel[m]
          BY <1>3, <3>1
        <4> QED
          BY <1>2, <1>6, <4>1, <4>2 DEF InPool
      <3> QED
        BY <1>2, <3>1
    <2>2. n > p /\ n - p \in 1..s
      BY <1>2, <1>6, <2>1
    <2>3. Queue[n] = found.serial[n - p]
      BY <1>2, <1>3, <2>2
    <2> QED
      BY <1>1, <1>2, <2>2, <2>3 DEF InPool
  <1> QED
    BY <1>3, <1>4, <1>5, <1>6 DEF TestFiles

\* A lane given to a new process is busy with it.
LEMMA ProcessIs ==
    ASSUME NEW name \in TestNames, NEW solo \in BOOLEAN
    PROVE  /\ Process(name, solo) \in Processes /\ Process(name, solo) # Idle
           /\ Process(name, solo).file = name /\ Process(name, solo).solo = solo
  <1>1. Process(name, solo) \in Processes
    BY DEF Process, Processes
  <1> QED
    BY <1>1, TestsAssumption DEF Process

LEMMA TestsInitially == TestsInit => TestsInv
  <1> SUFFICES ASSUME TestsInit PROVE TestsInv
    OBVIOUS
  <1>1. \A lane \in Lanes : ~Busy(lane)
    BY DEF TestsInit, Busy
  <1>2. TestsTypeOK
    BY <1>1 DEF TestsInit, TestsTypeOK
  <1>3. exit # 0
    BY TestsAssumption DEF TestsInit
  <1>4. AccountInv
    BY QueueIs DEF AccountInv, TestsInit
  <1> QED
    BY <1>1, <1>2, <1>3, <1>4 DEF TestsInv, ExitInv, LaneInv, SerialAlone

\* What a process does, or has done to it, changes neither its file nor its kind.
ProcessStep(lane) ==
    /\ Busy(lane)
    /\ run' = [run EXCEPT ![lane] = run'[lane]]
    /\ run'[lane] \in Processes
    /\ run'[lane].file = run[lane].file /\ run'[lane].solo = run[lane].solo
    /\ UNCHANGED <<found, next, failed, todo, exit, last>>

LEMMA ProcessSteps ==
    ASSUME TestsTypeOK, NEW lane \in Lanes,
           Prints(lane) \/ Dies(lane) \/ Releases(lane) \/ Kill(lane) \/ HardCap(lane)
    PROVE  ProcessStep(lane)
  <1>1. Busy(lane) /\ run[lane] \in Processes
    BY DEF TestsTypeOK, Busy, Alive, Prints, Dies, Releases, Kill, HardCap
  <1>2. UNCHANGED <<found, next, failed, todo, exit, last>>
    BY DEF Prints, Dies, Releases, Kill, HardCap
  <1>3. ASSUME NEW process \in Processes, process.file = run[lane].file,
               process.solo = run[lane].solo, run' = [run EXCEPT ![lane] = process]
        PROVE  ProcessStep(lane)
    BY <1>1, <1>2, <1>3 DEF TestsTypeOK, ProcessStep
  <1>4. \E process \in Processes : /\ process.file = run[lane].file
                                   /\ process.solo = run[lane].solo
                                   /\ run' = [run EXCEPT ![lane] = process]
    <2> DEFINE r == run[lane]
    <2> SUFFICES \E process : /\ process \in Processes
                              /\ process.file = r.file /\ process.solo = r.solo
                              /\ run' = [run EXCEPT ![lane] = process]
      OBVIOUS
    <2>1. r \in Processes
      BY <1>1
    <2>2. CASE Prints(lane)
      <3>1. \/ run' = [run EXCEPT ![lane] = [r EXCEPT !.good = TRUE]]
            \/ run' = [run EXCEPT ![lane] = [r EXCEPT !.bad = TRUE]]
            \/ \E summary \in {"clean", "failures"} :
                  run' = [run EXCEPT ![lane] = [r EXCEPT !.summary = summary]]
        BY <2>2 DEF Prints
      <3> HIDE DEF r
      <3> QED
        BY <2>1, <3>1 DEF Processes
    <2>3. CASE Dies(lane)
      <3>1. \E code \in {0, 1}, held \in BOOLEAN :
                run' = [run EXCEPT ![lane] =
                           [r EXCEPT !.alive = FALSE, !.held = held, !.code = code]]
        BY <2>3 DEF Dies
      <3> HIDE DEF r
      <3> QED
        BY <2>1, <3>1 DEF Processes
    <2>4. CASE Releases(lane)
      <3>1. run' = [run EXCEPT ![lane] = [r EXCEPT !.held = FALSE]]
        BY <2>4 DEF Releases
      <3> HIDE DEF r
      <3> QED
        BY <2>1, <3>1 DEF Processes
    <2>5. CASE Kill(lane) \/ HardCap(lane)
      <3>1. \/ \E held \in BOOLEAN, late \in BOOLEAN :
                   run' = [run EXCEPT ![lane] =
                              [r EXCEPT !.alive = FALSE, !.held = held, !.timedOut = late]]
            \/ run' = [run EXCEPT ![lane] = [r EXCEPT !.timedOut = TRUE]]
        BY <2>5 DEF Kill, HardCap, Killed
      <3> HIDE DEF r
      <3> QED
        BY <2>1, <3>1 DEF Processes
    <2> QED
      BY <2>2, <2>3, <2>4, <2>5
  <1> QED
    BY <1>3, <1>4

LEMMA ProcessStepKeeps ==
    ASSUME TestsInv, NEW lane \in Lanes, ProcessStep(lane) PROVE TestsInv'
  <1>1. /\ \A other \in Lanes : other # lane => run'[other] = run[other]
        /\ run' \in [Lanes -> Processes \cup {Idle}]
        /\ run[lane] # Idle /\ run'[lane] # Idle
        /\ run'[lane].file = run[lane].file /\ run'[lane].solo = run[lane].solo
        /\ UNCHANGED <<found, next, failed, todo, exit, last>>
    BY TestsAssumption DEF ProcessStep, TestsInv, TestsTypeOK, Busy
  <1>2. \A other \in Lanes : /\ Busy(other)' <=> Busy(other)
                             /\ Busy(other) => /\ run'[other].file = run[other].file
                                               /\ run'[other].solo = run[other].solo
    BY <1>1 DEF Busy
  <1>3. /\ Queue' = Queue /\ TestFiles' = TestFiles
        /\ \A name : InPool(name)' <=> InPool(name)
    BY <1>1 DEF Queue, TestFiles, InPool
  <1>4. \A name : Running(name)' <=> Running(name)
    BY <1>2 DEF Running
  <1>5. TestsTypeOK'
    BY <1>1, <1>2, <1>3 DEF TestsInv, TestsTypeOK
  <1>6. AccountInv'
    BY <1>1, <1>3, <1>4 DEF TestsInv, AccountInv
  <1>7. ExitInv'
    BY <1>1, <1>2, <1>3 DEF TestsInv, ExitInv, AllIdle, Busy
  <1>8. LaneInv' /\ SerialAlone'
    BY <1>1, <1>2, <1>3 DEF TestsInv, LaneInv, SerialAlone
  <1> QED
    BY <1>5, <1>6, <1>7, <1>8 DEF TestsInv

\* A lane that is given a file of the queue or of todo.
Handed(lane, name, solo) ==
    /\ run' = [run EXCEPT ![lane] = Process(name, solo)]
    /\ UNCHANGED <<found, failed, exit, last>>

LEMMA HandedIs ==
    ASSUME TestsTypeOK, NEW lane \in Lanes, NEW name \in TestFiles, NEW solo \in BOOLEAN,
           Handed(lane, name, solo)
    PROVE  /\ run' \in [Lanes -> Processes \cup {Idle}]
           /\ Busy(lane)' /\ run'[lane].file = name /\ run'[lane].solo = solo
           /\ \A other \in Lanes : other # lane => run'[other] = run[other]
           /\ Queue' = Queue /\ TestFiles' = TestFiles
           /\ \A any : InPool(any)' <=> InPool(any)
  <1>1. name \in TestNames
    BY QueueIs DEF TestsTypeOK
  <1>2. run'[lane] = Process(name, solo)
    BY DEF Handed, TestsTypeOK
  <1>3. /\ run' \in [Lanes -> Processes \cup {Idle}]
        /\ \A other \in Lanes : other # lane => run'[other] = run[other]
    BY <1>1, ProcessIs DEF Handed, TestsTypeOK
  <1>4. Busy(lane)' /\ run'[lane].file = name /\ run'[lane].solo = solo
    BY <1>1, <1>2, ProcessIs DEF Busy
  <1> QED
    BY <1>3, <1>4 DEF Handed, Queue, TestFiles, InPool

LEMMA LaunchStep == ASSUME TestsInv, NEW lane \in Lanes, Launch(lane) PROVE TestsInv'
  <1> DEFINE name == Queue[next]
  <1>1. /\ next \in Nat /\ next \in 1..Len(Queue) /\ Len(Queue) \in Nat
        /\ name \in TestFiles /\ next' = next + 1 /\ todo' = todo
        /\ Handed(lane, name, FALSE)
    BY QueueIs DEF TestsInv, TestsTypeOK, Launch, Handed
  <1>2. ~Busy(lane) /\ (~InPool(name) => AllIdle)
    BY DEF Launch, AllIdle, Busy
  <1> HIDE DEF name
  <1>3. /\ run' \in [Lanes -> Processes \cup {Idle}]
        /\ Busy(lane)' /\ run'[lane].file = name /\ run'[lane].solo = FALSE
        /\ \A other \in Lanes : other # lane => run'[other] = run[other]
        /\ Queue' = Queue /\ TestFiles' = TestFiles
        /\ \A any : InPool(any)' <=> InPool(any)
    BY <1>1, HandedIs DEF TestsInv
  <1>4. UNCHANGED <<found, failed, exit, last>>
    BY <1>1 DEF Handed
  <1>5. TestsTypeOK'
    BY <1>1, <1>3, <1>4 DEF TestsInv, TestsTypeOK, Busy
  <1>6. AccountInv'
    <2>1. \A any : Running(any) => Running(any)'
      BY <1>2, <1>3 DEF Running, Busy
    <2>2. \A any : any = name => Running(any)'
      BY <1>3 DEF Running
    <2>3. ASSUME NEW n \in 1..Len(Queue), n < next'
          PROVE  n < next \/ Queue[n] = name
      BY <1>1, <2>3 DEF name
    <2>4. ASSUME NEW n \in 1..Len(Queue), n < next'
          PROVE  Running(Queue[n])' \/ Queue[n] \in failed \/ last[Queue[n]] = "sound"
      <3>1. Running(Queue[n])' <=> \E any : any = Queue[n] /\ Running(any)'
        BY <1>3
      <3> QED
        BY <2>1, <2>2, <2>3, <2>4, <3>1 DEF TestsInv, AccountInv
    <2> QED
      BY <1>3, <1>4, <2>4 DEF AccountInv
  <1>7. ExitInv'
    BY <1>1, <1>4 DEF TestsInv, ExitInv
  <1>8. LaneInv'
    <2> SUFFICES ASSUME NEW other \in Lanes, Busy(other)',
                        run'[other].solo \/ ~InPool(run'[other].file),
                        NEW n \in next'..Len(Queue)
                 PROVE  ~InPool(Queue[n])
      BY <1>3 DEF LaneInv
    <2>1. n \in next..Len(Queue) /\ n \in 1..Len(Queue) /\ next <= n
      BY <1>1
    <2>2. CASE other = lane
      BY <1>1, <1>3, <2>1, <2>2, QueueIs DEF TestsInv, TestsTypeOK, name
    <2>3. CASE other # lane
      BY <1>3, <2>1, <2>3 DEF TestsInv, LaneInv, Busy
    <2> QED
      BY <2>2, <2>3
  <1>9. SerialAlone'
    <2>1. CASE InPool(name)
      <3>1. ASSUME NEW other \in Lanes, other # lane, Busy(other)
            PROVE  InPool(run[other].file) /\ ~run[other].solo
        BY <1>1, <2>1, <3>1 DEF TestsInv, LaneInv, name
      <3> QED
        BY <1>3, <2>1, <3>1 DEF SerialAlone, Busy
    <2>2. CASE ~InPool(name)
      BY <1>2, <1>3, <2>2 DEF SerialAlone, AllIdle, Busy
    <2> QED
      BY <2>1, <2>2
  <1> QED
    BY <1>5, <1>6, <1>7, <1>8, <1>9 DEF TestsInv

LEMMA AdjudicateStep ==
    ASSUME TestsInv, NEW lane \in Lanes, Adjudicate(lane) PROVE TestsInv'
  <1>1. PICK name \in todo : Handed(lane, name, TRUE) /\ todo' = todo \ {name}
    BY DEF Adjudicate, Handed
  <1>2. next' = next /\ AllIdle /\ next > Len(Queue) /\ name \in TestFiles
    BY <1>1 DEF Adjudicate, TestsInv, TestsTypeOK
  <1>3. /\ run' \in [Lanes -> Processes \cup {Idle}]
        /\ Busy(lane)' /\ run'[lane].file = name /\ run'[lane].solo = TRUE
        /\ \A other \in Lanes : other # lane => run'[other] = run[other]
        /\ Queue' = Queue /\ TestFiles' = TestFiles
        /\ \A any : InPool(any)' <=> InPool(any)
    BY <1>1, <1>2, HandedIs DEF TestsInv
  <1>4. UNCHANGED <<found, failed, exit, last>>
    BY <1>1 DEF Handed
  <1>5. TestsTypeOK'
    BY <1>1, <1>2, <1>3, <1>4 DEF TestsInv, TestsTypeOK, Busy
  <1>6. AccountInv'
    <2>1. \A any : Running(any) => Running(any)'
      BY <1>2, <1>3 DEF Running, Busy, AllIdle
    <2> QED
      BY <1>2, <1>3, <1>4, <2>1 DEF TestsInv, AccountInv
  <1>7. ExitInv'
    BY <1>1, <1>4 DEF TestsInv, ExitInv
  <1>8. LaneInv'
    BY <1>2, <1>3, QueueIs DEF LaneInv, TestsInv, TestsTypeOK
  <1>9. SerialAlone'
    BY <1>2, <1>3 DEF SerialAlone, AllIdle, Busy
  <1> QED
    BY <1>5, <1>6, <1>7, <1>8, <1>9 DEF TestsInv

\* A run that closes has its verdict, and a verdict of "passed" is sound.
LEMMA CloseStep == ASSUME TestsInv, NEW lane \in Lanes, Close(lane) PROVE TestsInv'
  <1> DEFINE r == run[lane]
  <1>1. /\ r # Idle /\ r.file \in TestFiles
        /\ run' = [run EXCEPT ![lane] = Idle]
        /\ failed' = IF Passed(r) THEN failed \ {r.file} ELSE failed \cup {r.file}
        /\ todo' \subseteq todo \cup {r.file}
        /\ last' = [last EXCEPT ![r.file] = IF Sound(r) THEN "sound" ELSE "unsound"]
        /\ UNCHANGED <<found, next, exit>>
    BY DEF Close, Busy, TestsInv, TestsTypeOK
  <1>2. Passed(r) => Sound(r)
    BY DEF Passed, Sound
  <1> HIDE DEF r
  <1>3. /\ run'[lane] = Idle
        /\ \A other \in Lanes : other # lane => run'[other] = run[other]
        /\ run' \in [Lanes -> Processes \cup {Idle}]
    BY <1>1 DEF TestsInv, TestsTypeOK
  <1>4. /\ Queue' = Queue /\ TestFiles' = TestFiles
        /\ \A any : InPool(any)' <=> InPool(any)
    BY <1>1 DEF Queue, TestFiles, InPool
  <1>5. TestsTypeOK'
    BY <1>1, <1>3, <1>4 DEF TestsInv, TestsTypeOK, Busy
  <1>6. AccountInv'
    <2> SUFFICES ASSUME NEW n \in 1..Len(Queue), n < next
                 PROVE  Running(Queue[n])' \/ Queue[n] \in failed' \/ last'[Queue[n]] = "sound"
      BY <1>1, <1>4 DEF AccountInv
    <2>1. Queue[n] \in TestFiles
      BY QueueIs DEF TestsInv, TestsTypeOK
    <2>2. CASE Queue[n] = r.file
      BY <1>1, <1>2, <2>1, <2>2 DEF TestsInv, TestsTypeOK
    <2>3. CASE Queue[n] # r.file
      <3>1. Running(Queue[n]) => Running(Queue[n])'
        BY <1>3, <1>4, <2>3 DEF Running, Busy, r
      <3>2. Queue[n] \in failed => Queue[n] \in failed'
        BY <1>1, <2>3
      <3>3. last'[Queue[n]] = last[Queue[n]]
        BY <1>1, <2>1, <2>3 DEF TestsInv, TestsTypeOK
      <3> QED
        BY <3>1, <3>2, <3>3 DEF TestsInv, AccountInv
    <2> QED
      BY <2>2, <2>3
  <1>7. ExitInv'
    BY <1>1 DEF TestsInv, ExitInv, AllIdle, r
  <1>8. LaneInv' /\ SerialAlone'
    BY <1>1, <1>3, <1>4 DEF TestsInv, LaneInv, SerialAlone, Busy
  <1> QED
    BY <1>5, <1>6, <1>7, <1>8 DEF TestsInv

\* The exit code is no part of the other conjuncts.
LEMMA NothingRuns ==
    ASSUME TestsInv, UNCHANGED <<found, next, run, failed, todo, last>>
    PROVE  /\ TestsTypeOK' /\ AccountInv' /\ LaneInv' /\ SerialAlone'
           /\ AllIdle' = AllIdle /\ Queue' = Queue /\ TestFiles' = TestFiles
  <1>1. /\ Queue' = Queue /\ TestFiles' = TestFiles
        /\ \A any : InPool(any)' <=> InPool(any)
        /\ \A lane \in Lanes : Busy(lane)' <=> Busy(lane)
    BY DEF Queue, TestFiles, InPool, Busy
  <1>2. \A any : Running(any)' <=> Running(any)
    BY DEF Running, Busy
  <1>3. TestsTypeOK'
    BY <1>1 DEF TestsInv, TestsTypeOK
  <1>4. AccountInv'
    BY <1>1, <1>2 DEF TestsInv, AccountInv
  <1>5. LaneInv' /\ SerialAlone'
    BY <1>1 DEF TestsInv, LaneInv, SerialAlone
  <1> QED
    BY <1>1, <1>3, <1>4, <1>5 DEF AllIdle

LEMMA ExitStep == TestsInv /\ Exit => TestsInv'
  <1> SUFFICES ASSUME TestsInv, Exit PROVE TestsInv'
    OBVIOUS
  <1>1. UNCHANGED <<found, next, run, failed, todo, last>>
    BY DEF Exit
  <1>2. ExitInv'
    BY <1>1, NothingRuns DEF Exit, ExitInv
  <1> QED
    BY <1>1, <1>2, NothingRuns DEF TestsInv

\* The inductive invariant: every file launched is accounted for, and lanes are shared
\* by the pool only.
THEOREM TestsInvariant == TestsSpec => []TestsInv
  <1>1. TestsInv /\ UNCHANGED testVars => TestsInv'
    BY NothingRuns DEF TestsInv, ExitInv, testVars
  <1>2. TestsInv /\ [TestsNext]_testVars => TestsInv'
    BY <1>1, ProcessSteps, ProcessStepKeeps, LaunchStep, AdjudicateStep, CloseStep, ExitStep
       DEF TestsNext, RunnerStep, TestsInv
  <1> QED
    BY <1>2, TestsInitially, PTL DEF TestsSpec

\* Green means that each file ran and was sound at last, for any files and any pool
\* (run-tests.mjs:231-277).
THEOREM GreenIsAlwaysSound == TestsSpec => []GreenIsSound
  <1>1. TestsInv => GreenIsSound
    <2> SUFFICES ASSUME TestsInv, exit = 0, NEW name \in TestFiles
                 PROVE  last[name] = "sound"
      BY DEF GreenIsSound
    <2>1. PICK n \in 1..Len(Queue) : Queue[n] = name
      BY QueueIs DEF TestsInv, TestsTypeOK
    <2>2. n < next
      BY <2>1, QueueIs DEF TestsInv, TestsTypeOK, ExitInv
    <2>3. failed = {} /\ ~Running(name)
      BY DEF TestsInv, ExitInv, AllIdle, Busy, Running
    <2> QED
      BY <2>1, <2>2, <2>3 DEF TestsInv, AccountInv
  <1> QED
    BY <1>1, TestsInvariant, PTL

\* A serial file and a solo run share the machine with no other test
\* (run-tests.mjs:224-225, 245-260).
THEOREM SerialRunsAlone == TestsSpec => []SerialAlone
  BY TestsInvariant, PTL DEF TestsInv

(***************************************************************************)
(* MutationCheck                                                           *)
(***************************************************************************)

MutationTypeOK ==
    /\ spoilt \in BOOLEAN /\ committed \in Nat
    /\ mutator = [pc |-> mutator.pc, original |-> mutator.original, exit |-> mutator.exit]

\* Where the original is, at each place of a run that no bad sidecar preceded.
OriginalInv ==
    /\ sidecar \in {NoSidecar, committed}
    /\ In("forget") \/ In("read") \/ In("enter") \/ In("unlink") => file = committed
    /\ In("recover") \/ In("forget") \/ In("mutate") => sidecar = committed
    /\ In("enter") \/ In("mutate") => mutator.original = committed
    /\ file # committed => sidecar = committed

MutationInv == MutationTypeOK /\ (spoilt = FALSE => OriginalInv)

LEMMA MutationInitially == MutationInit => MutationInv
  <1> SUFFICES ASSUME MutationInit PROVE MutationInv
    OBVIOUS
  <1>1. mutator.pc = "none" /\ MutationTypeOK
    BY DEF MutationInit, MutationTypeOK
  <1>2. OriginalInv
    BY <1>1 DEF MutationInit, OriginalInv, In
  <1> QED
    BY <1>1, <1>2 DEF MutationInv

\* What the developer does decides whether a sidecar that lies there is a bad one.
LEMMA DeveloperStep == MutationInv /\ (Develop \/ Checkout) => MutationInv'
  <1> SUFFICES ASSUME MutationInv, Develop \/ Checkout PROVE MutationInv'
    OBVIOUS
  <1> USE DEF MutationInv, MutationTypeOK, OriginalInv, In
  <1>1. CASE Develop
    <2>1. spoilt' \in BOOLEAN /\ committed' \in Nat /\ file' = committed'
          /\ UNCHANGED <<sidecar, mutator>> /\ mutator.pc = "none"
      BY <1>1 DEF Develop
    <2>2. spoilt' = FALSE => sidecar = NoSidecar
      BY <1>1 DEF Develop
    <2> QED
      BY <2>1, <2>2
  <1>2. CASE Checkout
    BY <1>2 DEF Checkout
  <1> QED
    BY <1>1, <1>2

\* A run that begins with no sidecar finds the original in place.
LEMMA StartsStep == MutationInv /\ (RefuseDirty \/ Commence) => MutationInv'
  <1> SUFFICES ASSUME MutationInv, RefuseDirty \/ Commence PROVE MutationInv'
    OBVIOUS
  <1> USE DEF MutationInv, MutationTypeOK, OriginalInv, In
  <1>1. CASE RefuseDirty
    BY <1>1 DEF RefuseDirty, Gone
  <1>2. CASE Commence
    <2>1. /\ mutator' = [pc |-> IF sidecar = NoSidecar THEN "read" ELSE "recover",
                         original |-> mutator.original, exit |-> mutator.exit]
          /\ UNCHANGED <<file, committed, sidecar, spoilt>>
      BY <1>2 DEF Commence, To
    <2>2. CASE sidecar = NoSidecar
      <3>1. mutator' = [pc |-> "read", original |-> mutator.original, exit |-> mutator.exit]
        BY <2>1, <2>2
      <3>2. spoilt = FALSE => file = committed
        BY <2>2, MutationAssumption
      <3> QED
        BY <2>1, <2>2, <3>1, <3>2
    <2>3. CASE sidecar # NoSidecar
      <3>1. mutator'.pc = "recover"
        BY <2>1, <2>3
      <3> QED
        BY <2>1, <2>3, <3>1
    <2> QED
      BY <2>2, <2>3
  <1> QED
    BY <1>1, <1>2

LEMMA RecoveryStep ==
    MutationInv /\ (RecoverFile \/ ForgetSidecar \/ ReadOriginal \/ WriteSidecar) => MutationInv'
  <1> SUFFICES ASSUME MutationInv,
                      RecoverFile \/ ForgetSidecar \/ ReadOriginal \/ WriteSidecar
               PROVE  MutationInv'
    OBVIOUS
  <1> USE DEF MutationInv, MutationTypeOK, OriginalInv, In, To
  <1>1. CASE RecoverFile
    BY <1>1 DEF RecoverFile
  <1>2. CASE ForgetSidecar
    BY <1>2 DEF ForgetSidecar
  <1>3. CASE ReadOriginal
    <2>1. /\ mutator' = [pc |-> "enter", original |-> file, exit |-> mutator.exit]
          /\ UNCHANGED <<file, committed, sidecar, spoilt>>
      BY <1>3 DEF ReadOriginal
    <2> QED
      BY <1>3, <2>1 DEF ReadOriginal
  <1>4. CASE WriteSidecar
    <2>1. /\ mutator' = [pc |-> "mutate", original |-> mutator.original,
                         exit |-> mutator.exit]
          /\ sidecar' = mutator.original /\ UNCHANGED <<file, committed, spoilt>>
      BY <1>4 DEF WriteSidecar
    <2> QED
      BY <1>4, <2>1 DEF WriteSidecar
  <1> QED
    BY <1>1, <1>2, <1>3, <1>4

LEMMA MutantStep == MutationInv /\ (Mutate \/ Restore \/ Unlink \/ Slain) => MutationInv'
  <1> SUFFICES ASSUME MutationInv, Mutate \/ Restore \/ Unlink \/ Slain PROVE MutationInv'
    OBVIOUS
  <1> USE DEF MutationInv, MutationTypeOK, OriginalInv, In, To, Gone
  <1>1. CASE Mutate
    BY <1>1 DEF Mutate
  <1>2. CASE Restore
    <2>1. /\ mutator' = [pc |-> "unlink", original |-> mutator.original,
                         exit |-> mutator.exit]
          /\ file' = mutator.original /\ UNCHANGED <<committed, sidecar, spoilt>>
      BY <1>2 DEF Restore
    <2> QED
      BY <1>2, <2>1 DEF Restore
  <1>3. CASE Unlink
    BY <1>3 DEF Unlink
  <1>4. CASE Slain
    BY <1>4 DEF Slain
  <1> QED
    BY <1>1, <1>2, <1>3, <1>4

\* What the developer last wrote is in the file or, whole, in the sidecar, whichever run is
\* killed and wherever, recovering runs included, as long as no sidecar was torn and none was
\* left while the developer went on (mutation_check.py:147-192).
THEOREM OriginalAlwaysKept == MutationSpec => []OriginalSurvives
  <1>1. MutationInv /\ UNCHANGED mutationVars => MutationInv'
    BY DEF MutationInv, MutationTypeOK, OriginalInv, In, mutationVars
  <1>2. MutationInv /\ [MutationNext]_mutationVars => MutationInv'
    BY <1>1, DeveloperStep, StartsStep, RecoveryStep, MutantStep DEF MutationNext
  <1>3. MutationInv => OriginalSurvives
    BY DEF MutationInv, OriginalInv, OriginalSurvives
  <1> QED
    BY <1>2, <1>3, MutationInitially, PTL DEF MutationSpec

(***************************************************************************)
(* ReleasePipeline                                                         *)
(***************************************************************************)

Places == {"none", "gate", "bump", "commit", "tag", "push", "prove tag", "verify",
           "publish", "build", "again", "release"}
Trees == [code : Nat, version : Numbers, stray : BOOLEAN]
TagStates == [at : Nat, annotated : BOOLEAN]
Shelved == [tree : Trees, run : Versions, own : BOOLEAN, gated : Nat, exact : BOOLEAN]
Runs == [pc : Places, version : Numbers, gated : Nat, touched : BOOLEAN, exact : BOOLEAN,
         built : SUBSET Numbers]

ReleaseTypeOK ==
    /\ kind \in Kinds
    /\ tree \in Trees
    /\ history \in Seq(Trees) /\ Newest > 0
    /\ tags \in [Versions -> TagStates]
    /\ upstream \in [tip : Nat, tags : [Versions -> TagStates]] /\ upstream.tip \in 1..Newest
    /\ dist \in [Numbers -> Trees \cup {NoArtifact}]
    /\ shelf \in [Numbers -> Shelved \cup {Unpublished}]
    /\ deploy \in Runs
    /\ ~Stage("none") => deploy.version \in Versions

\* The places of a run from the commit on, from the push on, and from the artifact on.
Committed == {"tag", "push", "prove tag", "verify", "publish", "build", "again"}
Sent == {"prove tag", "verify", "publish", "build", "again"}
Packed == {"publish", "build", "again"}

\* Of this run's making: what the gate passed, under the run's version unless that is set
\* by hand, and the newest commit but for untracked files.
Made(artifact, n) ==
    /\ artifact.code = deploy.gated
    /\ kind # "setup" => n = deploy.version
    /\ artifact \in PlusStray(history[Newest])

\* What an undisturbed run has behind it: the gate was about this code; the tree is what
\* the gate passed, under its version; it is the newest commit; that one is upstream; the
\* tag is on it if it was exact; and what this run has built in dist is of its making.
TreeInv ==
    ~deploy.touched =>
        /\ Stage("gate") => ~Dirty
        /\ Stage("bump") => deploy.gated = tree.code
        /\ deploy.pc \in {"commit"} \cup Committed =>
               /\ tree.code = deploy.gated
               /\ kind \in {"npm", "cargo", "pyproject"} => tree.version = deploy.version
        /\ deploy.pc \in Committed => ~Dirty
        /\ deploy.pc \in Sent => upstream.tip = Newest
        /\ deploy.pc \in {"push"} \cup Sent =>
               (deploy.exact => tags[deploy.version].at = Newest)
        /\ deploy.pc \in Packed =>
               \A n \in deploy.built : Made(dist[n], n)

\* What any run has behind it: its tag is there, and then it is on the remote.
TagInv ==
    /\ deploy.pc \in {"push"} \cup Sent => tags[deploy.version] # NoTag
    /\ deploy.pc \in {"verify"} \cup Packed => upstream.tags[deploy.version] # NoTag
    /\ \A v \in Versions : upstream.tags[v] \in {NoTag, tags[v]}
    /\ deploy.pc \notin Packed => deploy.built = {} \/ Stage("release")

\* PublishedIsBacked, of one thing that is out.
Backed(out, n) ==
    /\ upstream.tags[out.run] # NoTag
    /\ out.own =>
          /\ out.tree.code = out.gated
          /\ kind # "setup" => n = out.run
          /\ \E m \in 1..upstream.tip : /\ out.tree \in PlusStray(history[m])
                                        /\ out.exact => upstream.tags[out.run].at = m

ReleaseInv == ReleaseTypeOK /\ TreeInv /\ TagInv /\ PublishedIsBacked

LEMMA BackedIs ==
    PublishedIsBacked <=> \A n \in Numbers : shelf[n] # Unpublished => Backed(shelf[n], n)
  BY DEF PublishedIsBacked, Backed

\* A commit stays where it is when another is added.
LEMMA HistoryGrows ==
    ASSUME ReleaseTypeOK, NEW new \in Trees, history' = Append(history, new)
    PROVE  /\ history' \in Seq(Trees) /\ Newest' = Newest + 1
           /\ history'[Newest'] = new
           /\ \A n \in 1..Newest : history'[n] = history[n]
  BY DEF ReleaseTypeOK, Newest

\* What is published stays backed as long as commits and tags stay and the remote only
\* gains.
LEMMA StaysBacked ==
    ASSUME ReleaseTypeOK, PublishedIsBacked, UNCHANGED <<shelf, kind>>,
           \A n \in 1..Newest : history'[n] = history[n],
           upstream'.tip \in Nat, upstream'.tip >= upstream.tip,
           \A v \in Versions : upstream.tags[v] # NoTag => upstream'.tags[v] = upstream.tags[v]
    PROVE  PublishedIsBacked'
  <1> SUFFICES ASSUME NEW n \in Numbers, shelf'[n] # Unpublished
               PROVE  Backed(shelf[n], n)'
    BY DEF PublishedIsBacked, Backed
  <1> DEFINE out == shelf[n]
  <1>2. out' = out /\ Backed(out, n) /\ out \in Shelved
    BY BackedIs DEF ReleaseTypeOK
  <1>3. out.run \in Versions /\ upstream.tags[out.run] # NoTag
    BY <1>2 DEF Shelved, Backed
  <1>4. upstream'.tags[out.run] = upstream.tags[out.run]
    BY <1>3
  <1>5. ASSUME out.own
        PROVE  \E m \in 1..upstream'.tip : /\ out.tree \in PlusStray(history'[m])
                                           /\ out.exact => upstream'.tags[out.run].at = m
    <2>1. PICK m \in 1..upstream.tip : /\ out.tree \in PlusStray(history[m])
                                       /\ out.exact => upstream.tags[out.run].at = m
      BY <1>2, <1>5 DEF Backed
    <2>2. m \in 1..Newest /\ m \in 1..upstream'.tip
      BY DEF ReleaseTypeOK, Newest
    <2>3. history'[m] = history[m]
      BY <2>2
    <2> QED
      BY <1>4, <2>1, <2>2, <2>3
  <1>6. kind' = kind
    OBVIOUS
  <1> HIDE DEF out
  <1>7. Backed(out, n)'
    BY <1>2, <1>3, <1>4, <1>5, <1>6 DEF Backed, PlusStray, NoTag
  <1> QED
    BY <1>7 DEF out

LEMMA LitterIs ==
    ASSUME tree \in Trees, Litter
    PROVE  /\ tree' \in Trees /\ tree'.code = tree.code /\ tree'.version = tree.version
           /\ \A commit \in Trees : tree \in PlusStray(commit) => tree' \in PlusStray(commit)
  <1>1. tree' \in {tree, [code |-> tree.code, version |-> tree.version, stray |-> TRUE]}
    BY DEF Litter, PlusStray, Trees
  <1>2. ASSUME NEW commit \in Trees, tree \in PlusStray(commit)
        PROVE  tree' \in PlusStray(commit)
    <2>1. PlusStray(commit) =
              {commit, [code |-> commit.code, version |-> commit.version, stray |-> TRUE]}
      BY DEF PlusStray, Trees
    <2> QED
      BY <1>1, <1>2, <2>1
  <1>3. [code |-> tree.code, version |-> tree.version, stray |-> TRUE] \in Trees
    BY DEF Trees
  <1>4. tree' \in Trees /\ tree'.code = tree.code /\ tree'.version = tree.version
    <2>1. CASE tree' = tree
      BY <2>1
    <2>2. CASE tree' = [code |-> tree.code, version |-> tree.version, stray |-> TRUE]
      BY <2>2, <1>3
    <2> QED
      BY <1>1, <2>1, <2>2
  <1> QED
    BY <1>2, <1>4

\* A run that is not on its way has nothing behind it.
LEMMA RestIs ==
    /\ Rest \in Runs /\ Rest.pc = "none"
    /\ \A v \in Versions :
          /\ [Rest EXCEPT !.pc = "gate", !.version = v] \in Runs
          /\ [Rest EXCEPT !.pc = "gate", !.version = v].pc = "gate"
          /\ [Rest EXCEPT !.pc = "gate", !.version = v].version = v
          /\ [Rest EXCEPT !.pc = "gate", !.version = v].built = {}
    /\ Rest.built = {}
  BY DEF Rest, Runs, Places, Numbers

LEMMA ReleaseInitially == ReleaseInit => ReleaseInv
  <1> SUFFICES ASSUME ReleaseInit PROVE ReleaseInv
    OBVIOUS
  <1>1. NoTag \in TagStates
    BY DEF NoTag, TagStates
  <1>2. tree \in Trees
    <2> DEFINE first == IF kind = "setup" THEN Numbers ELSE {0}
    <2>1. first \subseteq Numbers /\ 1 \in Nat /\ FALSE \in BOOLEAN
      BY DEF Numbers
    <2>2. tree \in [code : {1}, version : first, stray : {FALSE}]
      BY DEF ReleaseInit
    <2> HIDE DEF first
    <2> QED
      BY <2>1, <2>2 DEF Trees
  <1>3. history \in Seq(Trees) /\ Newest = 1
    BY <1>2 DEF ReleaseInit, Newest
  <1>4. deploy \in Runs /\ deploy.pc = "none" /\ deploy.built = {}
    BY RestIs DEF ReleaseInit
  <1>5. dist \in [Numbers -> Trees \cup {NoArtifact}]
    BY <1>2 DEF ReleaseInit
  <1>6. ReleaseTypeOK
    BY <1>1, <1>2, <1>3, <1>4, <1>5 DEF ReleaseInit, ReleaseTypeOK, Stage
  <1>7. TreeInv /\ TagInv
    BY <1>4 DEF ReleaseInit, TreeInv, TagInv, Stage, Committed, Sent, Packed
  <1>8. PublishedIsBacked
    BY DEF ReleaseInit, PublishedIsBacked
  <1> QED
    BY <1>6, <1>7, <1>8 DEF ReleaseInv

\* What people do disturbs the run under way, or nothing it relies on.
LEMMA EditStep == ASSUME ReleaseInv, Edit \/ SettleTree \/ EmptyDist PROVE ReleaseInv'
  <1> USE DEF ReleaseInv
  <1>1. UNCHANGED <<kind, tags, upstream, shelf>>
    BY DEF Edit, SettleTree, EmptyDist
  <1>2. \/ deploy' = deploy /\ Stage("none")
        \/ deploy' = [deploy EXCEPT !.touched = ~Stage("none")]
    BY DEF Edit, SettleTree, EmptyDist
  <1>3. /\ tree' \in Trees
        /\ history' = history \/ \E new \in Trees : history' = Append(history, new)
    <2>1. CASE Edit
      <3>1. PICK stray \in {TRUE, tree.stray} :
                tree' = [tree EXCEPT !.code = tree.code + 1, !.stray = stray]
        BY <2>1 DEF Edit
      <3>2. stray \in BOOLEAN /\ tree.code + 1 \in Nat /\ tree.version \in Numbers
        <4>1. tree.stray \in BOOLEAN
          BY DEF ReleaseTypeOK, Trees
        <4>2. stray \in BOOLEAN
          BY <4>1
        <4> QED
          BY <4>2 DEF ReleaseTypeOK, Trees
      <3>3. tree' \in Trees
        BY <3>1, <3>2 DEF ReleaseTypeOK, Trees
      <3>4. [tree' EXCEPT !.stray = FALSE] \in Trees
        BY <3>3 DEF Trees
      <3> QED
        BY <2>1, <3>3, <3>4 DEF Edit
    <2>2. CASE SettleTree
      BY <2>2 DEF SettleTree, ReleaseTypeOK, Newest
    <2>3. CASE EmptyDist
      BY <2>3 DEF EmptyDist, ReleaseTypeOK
    <2> QED
      BY <2>1, <2>2, <2>3
  <1>4. /\ history' \in Seq(Trees) /\ upstream.tip \in 1..Newest' /\ Newest' > 0
        /\ \A n \in 1..Newest : history'[n] = history[n]
    BY <1>3, HistoryGrows DEF ReleaseTypeOK, Newest
  <1>5. dist' \in [Numbers -> Trees \cup {NoArtifact}]
    BY DEF Edit, SettleTree, EmptyDist, ReleaseTypeOK
  <1>6. deploy' \in Runs /\ deploy'.pc = deploy.pc /\ deploy'.version = deploy.version
        /\ deploy'.built = deploy.built /\ (deploy.pc # "none" => deploy'.touched)
    BY <1>2 DEF ReleaseTypeOK, Runs, Stage
  <1>7. ReleaseTypeOK'
    BY <1>1, <1>3, <1>4, <1>5, <1>6 DEF ReleaseTypeOK, Stage
  <1>8. TreeInv'
    BY <1>6 DEF TreeInv, Stage, Committed, Sent, Packed
  <1>9. TagInv'
    BY <1>1, <1>6 DEF TagInv, Stage, Sent, Packed, NoTag
  <1>10. PublishedIsBacked'
    BY <1>1, <1>4, StaysBacked DEF ReleaseTypeOK
  <1> QED
    BY <1>7, <1>8, <1>9, <1>10

LEMMA HandTagStep == ASSUME ReleaseInv, NEW v \in Versions, HandTag(v) PROVE ReleaseInv'
  <1> USE DEF ReleaseInv
  <1>1. /\ tags' = [tags EXCEPT ![v] = [at |-> Newest, annotated |-> FALSE]]
        /\ tags[v] = NoTag
        /\ UNCHANGED <<kind, tree, history, upstream, dist, shelf, deploy>>
    BY DEF HandTag
  <1>2. [at |-> Newest, annotated |-> FALSE] \in TagStates \ {NoTag}
    BY DEF ReleaseTypeOK, TagStates, Newest, NoTag
  <1>3. /\ tags' \in [Versions -> TagStates] /\ tags'[v] # NoTag
        /\ \A w \in Versions : tags[w] # NoTag => tags'[w] = tags[w]
    BY <1>1, <1>2 DEF ReleaseTypeOK
  <1>4. ReleaseTypeOK'
    BY <1>1, <1>3 DEF ReleaseTypeOK, Newest, Stage
  <1>5. TagInv'
    BY <1>1, <1>3 DEF TagInv, ReleaseTypeOK, NoTag, Stage, Sent, Packed
  <1>6. TreeInv'
    <2>1. deploy.pc \in {"push"} \cup Sent => tags'[deploy.version] = tags[deploy.version]
      BY <1>1, <1>3 DEF TagInv, ReleaseTypeOK, Stage, Sent
    <2> QED
      BY <1>1, <2>1 DEF TreeInv, Stage, Dirty, Newest, Committed, Made, PlusStray
  <1>7. PublishedIsBacked'
    BY <1>1, StaysBacked DEF ReleaseTypeOK, Newest
  <1> QED
    BY <1>4, <1>5, <1>6, <1>7

\* The steps before anything leaves the checkout.
LEMMA BeginStep ==
    ASSUME ReleaseInv, (\E v \in Versions : StartDeploy(v)) \/ PassGate \/ Bump
    PROVE  ReleaseInv'
  <1> USE DEF ReleaseInv
  <1>1. UNCHANGED <<kind, history, tags, upstream, dist, shelf>>
    BY DEF StartDeploy, PassGate, Bump
  <1>2. PublishedIsBacked'
    BY <1>1, StaysBacked DEF ReleaseTypeOK, Newest
  <1>3. ASSUME NEW v \in Versions, StartDeploy(v) PROVE ReleaseInv'
    <2>1. /\ deploy' \in Runs /\ deploy'.pc = "gate" /\ deploy'.version = v
          /\ deploy'.built = {} /\ ~Dirty /\ tree' = tree
      BY <1>3, RestIs DEF StartDeploy
    <2>2. ReleaseTypeOK'
      BY <1>1, <2>1 DEF ReleaseTypeOK, Newest, Stage
    <2>3. TreeInv' /\ TagInv'
      BY <1>1, <2>1 DEF TreeInv, TagInv, Stage, Dirty, Newest, Committed, Sent, Packed, NoTag
    <2> QED
      BY <1>2, <2>2, <2>3
  <1>4. CASE PassGate
    <2>1. /\ Stage("gate") /\ deploy' = [deploy EXCEPT !.pc = "bump", !.gated = tree.code]
          /\ Litter
      BY <1>4 DEF PassGate
    <2>2. tree' \in Trees /\ tree'.code = tree.code
      BY <2>1, LitterIs DEF ReleaseTypeOK
    <2>3. /\ deploy' \in Runs /\ deploy'.pc = "bump" /\ deploy'.gated = tree.code
          /\ deploy'.built = deploy.built /\ deploy'.version = deploy.version
      BY <2>1 DEF ReleaseTypeOK, Runs, Places, Trees
    <2>4. ReleaseTypeOK'
      BY <1>1, <2>1, <2>2, <2>3 DEF ReleaseTypeOK, Newest, Stage
    <2>5. TreeInv' /\ TagInv'
      BY <1>1, <2>1, <2>2, <2>3 DEF TreeInv, TagInv, Stage, Committed, Sent, Packed, NoTag
    <2> QED
      BY <1>2, <2>4, <2>5
  <1>5. CASE Bump
    <2>1. /\ Stage("bump") /\ deploy' = [deploy EXCEPT !.pc = "commit"]
          /\ tree' = IF kind \in {"npm", "cargo", "pyproject"}
                     THEN [tree EXCEPT !.version = deploy.version] ELSE tree
      BY <1>5 DEF Bump, Moves
    <2>2. /\ tree' \in Trees /\ tree'.code = tree.code
          /\ kind \in {"npm", "cargo", "pyproject"} => tree'.version = deploy.version
      BY <2>1 DEF ReleaseTypeOK, Trees, Runs
    <2>3. /\ deploy' \in Runs /\ deploy'.pc = "commit" /\ deploy'.gated = deploy.gated
          /\ deploy'.built = deploy.built /\ deploy'.version = deploy.version
          /\ deploy'.touched = deploy.touched
      BY <2>1 DEF ReleaseTypeOK, Runs, Places
    <2>4. ReleaseTypeOK'
      BY <1>1, <2>1, <2>2, <2>3 DEF ReleaseTypeOK, Newest, Stage
    <2>5. TreeInv'
      BY <1>1, <2>1, <2>2, <2>3 DEF TreeInv, Stage, Committed, Sent, Packed
    <2>6. TagInv'
      BY <1>1, <2>1, <2>3 DEF TagInv, Stage, Sent, Packed, NoTag
    <2> QED
      BY <1>2, <2>4, <2>5, <2>6
  <1> QED
    BY <1>3, <1>4, <1>5

LEMMA CommitStep == ASSUME ReleaseInv, CommitBump PROVE ReleaseInv'
  <1> USE DEF ReleaseInv
  <1>1. /\ Stage("commit") /\ deploy' = [deploy EXCEPT !.pc = "tag"]
        /\ \/ (~Dirty \/ deploy.touched) /\ history' = history
           \/ history' = Append(history, tree)
        /\ UNCHANGED <<kind, tree, tags, upstream, dist, shelf>>
    BY DEF CommitBump, Moves
  <1>2. /\ history' \in Seq(Trees) /\ upstream.tip \in 1..Newest' /\ Newest' > 0
        /\ ~deploy.touched => tree \in PlusStray(history'[Newest'])
        /\ \A n \in 1..Newest : history'[n] = history[n]
    <2>1. CASE history' = history
      BY <1>1, <2>1 DEF ReleaseTypeOK, Newest, Dirty, PlusStray
    <2>2. CASE history' = Append(history, tree)
      BY <2>2, HistoryGrows DEF ReleaseTypeOK, Newest, PlusStray
    <2> QED
      BY <1>1, <2>1, <2>2
  <1>3. /\ deploy' \in Runs /\ deploy'.pc = "tag" /\ deploy'.gated = deploy.gated
        /\ deploy'.built = deploy.built /\ deploy'.version = deploy.version
        /\ deploy'.touched = deploy.touched
    BY <1>1 DEF ReleaseTypeOK, Runs, Places
  <1>4. ReleaseTypeOK'
    BY <1>1, <1>2, <1>3 DEF ReleaseTypeOK, Stage
  <1>5. TreeInv'
    BY <1>1, <1>2, <1>3 DEF TreeInv, Stage, Dirty, Committed, Sent, Packed, PlusStray
  <1>6. TagInv'
    BY <1>1, <1>3 DEF TagInv, Stage, Sent, Packed, NoTag
  <1>7. PublishedIsBacked'
    BY <1>1, <1>2, StaysBacked DEF ReleaseTypeOK
  <1> QED
    BY <1>4, <1>5, <1>6, <1>7

LEMMA TagStep == ASSUME ReleaseInv, MakeTag PROVE ReleaseInv'
  <1> USE DEF ReleaseInv
  <1> DEFINE v == deploy.version
             exact == tags'[v].at = Newest
  <1>1. /\ Stage("tag") /\ v \in Versions
        /\ deploy' = [deploy EXCEPT !.pc = "push", !.exact = exact]
        /\ tags' = IF tags[v] = NoTag
                   THEN [tags EXCEPT ![v] = [at |-> Newest, annotated |-> TRUE]] ELSE tags
        /\ UNCHANGED <<kind, tree, history, upstream, dist, shelf>>
    BY DEF MakeTag, ReleaseTypeOK, Stage
  <1>2. [at |-> Newest, annotated |-> TRUE] \in TagStates \ {NoTag}
    BY DEF ReleaseTypeOK, TagStates, Newest, NoTag
  <1>3. /\ tags' \in [Versions -> TagStates] /\ tags'[v] # NoTag
        /\ \A w \in Versions : tags[w] # NoTag => tags'[w] = tags[w]
    BY <1>1, <1>2 DEF ReleaseTypeOK
  <1>4. exact \in BOOLEAN
    OBVIOUS
  <1> HIDE DEF exact
  <1>5. /\ deploy' \in Runs /\ deploy'.pc = "push" /\ deploy'.gated = deploy.gated
        /\ deploy'.built = deploy.built /\ deploy'.version = v
        /\ deploy'.touched = deploy.touched /\ deploy'.exact = exact
    BY <1>1, <1>4 DEF ReleaseTypeOK, Runs, Places
  <1>6. ReleaseTypeOK'
    BY <1>1, <1>3, <1>5 DEF ReleaseTypeOK, Newest, Stage
  <1>7. TagInv'
    BY <1>1, <1>3, <1>5 DEF TagInv, Stage, Sent, Packed, NoTag
  <1>8. TreeInv'
    <2>1. deploy'.exact => tags'[deploy'.version].at = Newest
      BY <1>5 DEF exact
    <2> QED
      BY <1>1, <1>5, <2>1
         DEF TreeInv, Stage, Dirty, Committed, Sent, Packed, Newest, PlusStray
  <1>9. PublishedIsBacked'
    BY <1>1, StaysBacked DEF ReleaseTypeOK, Newest
  <1> QED
    BY <1>6, <1>7, <1>8, <1>9

\* Push and proof of the tag take nothing from the remote, and move no tag there.
LEMMA RemoteStep == ASSUME ReleaseInv, Push \/ ProveTag PROVE ReleaseInv'
  <1> USE DEF ReleaseInv
  <1> DEFINE v == deploy.version
  <1>1. /\ UNCHANGED <<kind, tree, history, tags, dist, shelf>> /\ v \in Versions
        /\ \/ Stage("push") /\ deploy' = [deploy EXCEPT !.pc = "prove tag"]
           \/ Stage("prove tag") /\ deploy' = [deploy EXCEPT !.pc = "verify"]
    BY DEF Push, ProveTag, Moves, ReleaseTypeOK, Stage
  <1>2. /\ deploy' \in Runs /\ deploy'.gated = deploy.gated
        /\ deploy'.built = deploy.built /\ deploy'.version = v
        /\ deploy'.touched = deploy.touched /\ deploy'.exact = deploy.exact
        /\ \/ deploy.pc = "push" /\ deploy'.pc = "prove tag"
           \/ deploy.pc = "prove tag" /\ deploy'.pc = "verify"
    BY <1>1 DEF ReleaseTypeOK, Runs, Places, Stage
  <1>3. /\ upstream' \in [tip : Nat, tags : [Versions -> TagStates]]
        /\ upstream'.tip \in 1..Newest /\ upstream'.tip >= upstream.tip
        /\ Stage("push") => upstream'.tip = Newest
        /\ Stage("prove tag") => upstream'.tags[v] # NoTag /\ upstream'.tip = upstream.tip
        /\ \A w \in Versions : /\ upstream'.tags[w] \in {NoTag, tags[w]}
                               /\ upstream.tags[w] # NoTag =>
                                      upstream'.tags[w] = upstream.tags[w]
    <2>1. CASE Push
      <3> DEFINE pushed == [w \in Versions |->
                               IF upstream.tags[w] = NoTag /\ tags[w].annotated
                               THEN tags[w] ELSE upstream.tags[w]]
      <3>1. upstream' = [tip |-> Newest, tags |-> pushed] /\ Stage("push")
        BY <2>1 DEF Push, Pushed
      <3>2. pushed \in [Versions -> TagStates]
        BY DEF ReleaseTypeOK
      <3>3. \A w \in Versions : /\ pushed[w] \in {NoTag, tags[w]}
                                /\ upstream.tags[w] # NoTag => pushed[w] = upstream.tags[w]
        BY DEF TagInv
      <3> HIDE DEF pushed
      <3> QED
        BY <3>1, <3>2, <3>3 DEF ReleaseTypeOK, Newest, Stage
    <2>2. CASE ProveTag
      <3>1. /\ upstream' = IF upstream.tags[v] = NoTag
                           THEN [upstream EXCEPT !.tags[v] = tags[v]] ELSE upstream
            /\ Stage("prove tag")
        BY <2>2 DEF ProveTag
      <3>2. tags[v] # NoTag
        BY <3>1 DEF TagInv, Stage, Sent
      <3> DEFINE proved == IF upstream.tags[v] = NoTag
                           THEN [upstream.tags EXCEPT ![v] = tags[v]] ELSE upstream.tags
      <3>3. upstream' = [tip |-> upstream.tip, tags |-> proved]
        BY <3>1 DEF ReleaseTypeOK
      <3>4. /\ proved \in [Versions -> TagStates] /\ proved[v] # NoTag
            /\ \A w \in Versions : /\ proved[w] \in {NoTag, tags[w]}
                                   /\ upstream.tags[w] # NoTag => proved[w] = upstream.tags[w]
        BY <3>2, <1>1 DEF ReleaseTypeOK, TagInv
      <3>5. /\ upstream.tip \in Nat /\ upstream.tip \in 1..Newest
            /\ Stage("push") => FALSE
        BY <3>1 DEF ReleaseTypeOK, Stage
      <3> HIDE DEF proved
      <3>6. upstream'.tip = upstream.tip /\ upstream'.tags = proved
        BY <3>3
      <3>7. upstream' \in [tip : Nat, tags : [Versions -> TagStates]]
        BY <3>3, <3>4, <3>5
      <3>8. upstream'.tip \in 1..Newest /\ upstream'.tip >= upstream.tip
        BY <3>5, <3>6
      <3> QED
        BY <3>4, <3>5, <3>6, <3>7, <3>8
    <2> QED
      BY <2>1, <2>2
  <1>4. ReleaseTypeOK'
    BY <1>1, <1>2, <1>3 DEF ReleaseTypeOK, Newest, Stage
  <1>5. TreeInv'
    BY <1>1, <1>2, <1>3
       DEF TreeInv, Stage, Dirty, Committed, Sent, Packed, Newest, ReleaseTypeOK, PlusStray
  <1>6. TagInv'
    BY <1>1, <1>2, <1>3 DEF TagInv, Stage, Sent, Packed, NoTag
  <1>7. PublishedIsBacked'
    <2>1. upstream'.tip \in Nat
      BY <1>3
    <2> QED
      BY <1>1, <1>3, <2>1, StaysBacked DEF Newest
  <1> QED
    BY <1>4, <1>5, <1>6, <1>7

\* What the tree makes once the commit is upstream is of the run's making, and stays so.
LEMMA BuildIs ==
    ASSUME ReleaseInv, Litter, Python, UNCHANGED <<kind, history, tags, upstream>>,
           NEW then \in Packed, Builds(then), Stage("verify") \/ Stage("build")
    PROVE  /\ deploy' \in Runs /\ deploy'.pc = then /\ deploy'.version = deploy.version
           /\ deploy'.gated = deploy.gated /\ deploy'.touched = deploy.touched
           /\ deploy'.exact = deploy.exact
           /\ dist' \in [Numbers -> Trees \cup {NoArtifact}]
           /\ ~deploy.touched => \A n \in deploy'.built : Made(dist[n], n)'
  <1> USE DEF ReleaseInv
  <1> DEFINE made == deploy.built \cup {tree.version}
  <1>1. /\ dist' = [dist EXCEPT ![tree.version] = tree]
        /\ deploy' = [deploy EXCEPT !.pc = then, !.built = made]
    BY DEF Builds
  <1>2. tree \in Trees /\ tree.version \in Numbers /\ made \in SUBSET Numbers
    BY DEF ReleaseTypeOK, Trees, Runs
  <1>3. then \in Places
    BY DEF Packed, Places
  <1>4. /\ deploy' \in Runs /\ deploy'.pc = then /\ deploy'.version = deploy.version
        /\ deploy'.gated = deploy.gated /\ deploy'.touched = deploy.touched
        /\ deploy'.exact = deploy.exact /\ deploy'.built = made
    <2> HIDE DEF made
    <2> QED
      BY <1>1, <1>2, <1>3 DEF ReleaseTypeOK, Runs
  <1>5. dist' \in [Numbers -> Trees \cup {NoArtifact}]
    BY <1>1, <1>2 DEF ReleaseTypeOK
  <1>6. ASSUME ~deploy.touched, NEW n \in made
        PROVE  Made(dist[n], n)'
    <2>1. dist'[n] = IF n = tree.version THEN tree ELSE dist[n]
      BY <1>1, <1>2 DEF ReleaseTypeOK
    <2>2. Made(tree, tree.version)
      <3>1. tree.code = deploy.gated
        BY <1>6 DEF TreeInv, Stage, Committed
      <3>2. kind \in {"npm", "cargo", "pyproject"} => tree.version = deploy.version
        BY <1>6 DEF TreeInv, Stage, Committed
      <3>3. tree \in PlusStray(history[Newest])
        BY <1>6 DEF TreeInv, Stage, Committed, Dirty
      <3> QED
        BY <3>1, <3>2, <3>3 DEF Made, Python
    <2>3. n # tree.version => Made(dist[n], n)
      <3>1. n # tree.version => n \in deploy.built
        OBVIOUS
      <3>2. Stage("verify") => deploy.built = {}
        BY DEF TagInv, Stage, Packed
      <3> QED
        BY <1>6, <3>1, <3>2 DEF TreeInv, Stage, Packed
    <2>4. Made(dist'[n], n)
      BY <2>1, <2>2, <2>3
    <2> QED
      BY <1>4, <2>4 DEF Made, PlusStray, Newest
  <1> QED
    BY <1>4, <1>5, <1>6

\* Packing and building: the tree is the newest commit still, but for untracked files.
LEMMA PackStep == ASSUME ReleaseInv, VerifyArtifact \/ BuildDist PROVE ReleaseInv'
  <1> USE DEF ReleaseInv
  <1>1. /\ Litter /\ UNCHANGED <<kind, history, tags, upstream, shelf>>
        /\ Stage("verify") \/ Stage("build")
    BY DEF VerifyArtifact, BuildDist
  <1>2. /\ tree' \in Trees /\ tree'.code = tree.code /\ tree'.version = tree.version
        /\ tree \in PlusStray(history[Newest]) => tree' \in PlusStray(history[Newest])
    BY <1>1, LitterIs DEF ReleaseTypeOK, Newest
  <1>3. \/ \E then \in Packed : Python /\ Builds(then)
        \/ deploy' = [deploy EXCEPT !.pc = "publish"] /\ Stage("verify") /\ UNCHANGED dist
    BY DEF VerifyArtifact, BuildDist, Moves, Packed
  <1>4. /\ deploy' \in Runs /\ deploy'.pc \in Packed /\ deploy'.version = deploy.version
        /\ deploy'.gated = deploy.gated /\ deploy'.touched = deploy.touched
        /\ deploy'.exact = deploy.exact
        /\ dist' \in [Numbers -> Trees \cup {NoArtifact}]
        /\ ~deploy.touched => \A n \in deploy'.built : Made(dist[n], n)'
    <2>1. CASE \E then \in Packed : Python /\ Builds(then)
      BY <1>1, <2>1, BuildIs
    <2>2. CASE deploy' = [deploy EXCEPT !.pc = "publish"] /\ Stage("verify") /\ UNCHANGED dist
      <3>1. deploy.built = {}
        BY <2>2 DEF TagInv, Stage, Packed
      <3> QED
        BY <2>2, <3>1 DEF ReleaseTypeOK, Runs, Places, Packed
    <2> QED
      BY <1>3, <2>1, <2>2
  <1>5. ReleaseTypeOK'
    BY <1>1, <1>2, <1>4 DEF ReleaseTypeOK, Newest, Stage
  <1>6. TreeInv'
    <2> SUFFICES ASSUME ~deploy.touched PROVE TreeInv'
      BY <1>4 DEF TreeInv
    <2>1. /\ tree.code = deploy.gated
          /\ kind \in {"npm", "cargo", "pyproject"} => tree.version = deploy.version
          /\ tree \in PlusStray(history[Newest])
          /\ upstream.tip = Newest
          /\ deploy.exact => tags[deploy.version].at = Newest
      BY <1>1 DEF TreeInv, Stage, Committed, Sent, Dirty
    <2>2. ~Dirty'
      BY <1>1, <1>2, <2>1 DEF Dirty, Newest, PlusStray
    <2> QED
      BY <1>1, <1>2, <1>4, <2>1, <2>2 DEF TreeInv, Stage, Packed, Newest
  <1>7. TagInv'
    BY <1>1, <1>4 DEF TagInv, Stage, Sent, Packed, NoTag
  <1>8. PublishedIsBacked'
    BY <1>1, StaysBacked DEF ReleaseTypeOK, Newest
  <1> QED
    BY <1>5, <1>6, <1>7, <1>8

\* What a run puts out is backed: its own making by its commit and tag.
LEMMA OutIs ==
    ASSUME ReleaseInv, deploy.pc \in Packed, NEW artifact \in Trees, NEW n \in Numbers,
           NEW built \in BOOLEAN, built /\ ~deploy.touched => Made(artifact, n)
    PROVE  Out(artifact, built) \in Shelved /\ Backed(Out(artifact, built), n)
  <1> USE DEF ReleaseInv
  <1> DEFINE own == built /\ ~deploy.touched
             gated == IF own THEN deploy.gated ELSE 0
             exact == own /\ deploy.exact
             v == deploy.version
  <1>1. Out(artifact, built) =
            [tree |-> artifact, run |-> v, own |-> own, gated |-> gated, exact |-> exact]
    BY DEF Out
  <1>2. v \in Versions /\ deploy.gated \in Nat
    BY DEF ReleaseTypeOK, Runs, Stage, Packed
  <1>3. gated \in Nat
    BY <1>2
  <1>4. own \in BOOLEAN /\ exact \in BOOLEAN
    OBVIOUS
  <1>5. Out(artifact, built) \in Shelved
    <2> HIDE DEF own, gated, exact
    <2> QED
      BY <1>1, <1>2, <1>3, <1>4 DEF Shelved
  <1>6. upstream.tags[v] # NoTag /\ upstream.tags[v] = tags[v]
    BY <1>2 DEF TagInv
  <1>7. ASSUME own
        PROVE  /\ artifact.code = gated
               /\ kind # "setup" => n = v
               /\ Newest \in 1..upstream.tip
               /\ artifact \in PlusStray(history[Newest])
               /\ exact => upstream.tags[v].at = Newest
    <2>1. Made(artifact, n) /\ ~deploy.touched
      BY <1>7
    <2>2. upstream.tip = Newest
      BY <2>1 DEF TreeInv, Packed, Sent
    <2>3. deploy.exact => tags[v].at = Newest
      BY <2>1 DEF TreeInv, Packed, Sent
    <2>4. Newest \in 1..upstream.tip
      BY <2>2 DEF ReleaseTypeOK
    <2> QED
      BY <1>6, <1>7, <2>1, <2>3, <2>4 DEF Made
  <1> HIDE DEF own, gated, exact
  <1> QED
    BY <1>1, <1>5, <1>6, <1>7 DEF Backed

LEMMA PublishStep == ASSUME ReleaseInv, PublishTree PROVE ReleaseInv'
  <1> USE DEF ReleaseInv
  <1> DEFINE out == Out(tree, TRUE)
             n == tree.version
  <1>1. /\ Stage("publish") /\ kind \in {"npm", "cargo"}
        /\ shelf' = [shelf EXCEPT ![n] = out]
        /\ deploy' = [deploy EXCEPT !.pc = "release"]
        /\ UNCHANGED <<kind, tree, history, tags, upstream, dist>>
    BY DEF PublishTree, Moves
  <1>2. tree \in Trees /\ n \in Numbers
    BY DEF ReleaseTypeOK, Trees
  <1>3. ~deploy.touched => Made(tree, n)
    BY <1>1 DEF TreeInv, Stage, Committed, Dirty, Made
  <1>4. out \in Shelved /\ Backed(out, n)
    BY <1>1, <1>2, <1>3, OutIs DEF Stage, Packed
  <1> HIDE DEF out
  <1>5. /\ deploy' \in Runs /\ deploy'.pc = "release" /\ deploy'.version = deploy.version
        /\ deploy.version \in Versions
    BY <1>1 DEF ReleaseTypeOK, Runs, Places, Stage
  <1>6. /\ shelf' \in [Numbers -> Shelved \cup {Unpublished}]
        /\ \A k \in Numbers : shelf'[k] = IF k = n THEN out ELSE shelf[k]
    BY <1>1, <1>2, <1>4 DEF ReleaseTypeOK
  <1>7. ReleaseTypeOK'
    BY <1>1, <1>5, <1>6 DEF ReleaseTypeOK, Newest, Stage
  <1>8. TreeInv' /\ TagInv'
    BY <1>1, <1>5 DEF TreeInv, TagInv, Stage, Committed, Sent, Packed, NoTag
  <1>9. PublishedIsBacked'
    <2> SUFFICES ASSUME NEW k \in Numbers, shelf'[k] # Unpublished
                 PROVE  Backed(shelf[k], k)'
      BY DEF PublishedIsBacked, Backed
    <2>1. Backed(shelf'[k], k)
      BY <1>4, <1>6, BackedIs
    <2> QED
      BY <1>1, <2>1 DEF Backed, NoTag, PlusStray
  <1> QED
    BY <1>7, <1>8, <1>9

LEMMA UploadStep == ASSUME ReleaseInv, UploadDist PROVE ReleaseInv'
  <1> USE DEF ReleaseInv
  <1>1. PICK out \in SUBSET {n \in InDist : shelf[n] = Unpublished} :
            /\ shelf' = [n \in Numbers |->
                            IF n \in out THEN Out(dist[n], n \in deploy.built) ELSE shelf[n]]
            /\ \/ deploy' = [deploy EXCEPT !.pc = IF Stage("publish") THEN "again" ELSE "release"]
               \/ Stage("publish") /\ deploy' = [deploy EXCEPT !.pc = "build"]
               \/ deploy' = Rest
    BY DEF UploadDist, Moves, Stops
  <1>2. /\ Stage("publish") \/ Stage("again")
        /\ UNCHANGED <<kind, tree, history, tags, upstream, dist>>
    BY DEF UploadDist
  <1>3. ASSUME NEW n \in out
        PROVE  /\ Out(dist[n], n \in deploy.built) \in Shelved
               /\ Backed(Out(dist[n], n \in deploy.built), n)
    <2>1. n \in Numbers /\ dist[n] \in Trees
      BY DEF InDist, ReleaseTypeOK
    <2>2. deploy.pc \in Packed
      BY <1>2 DEF Stage, Packed
    <2>3. n \in deploy.built /\ ~deploy.touched => Made(dist[n], n)
      BY <2>2 DEF TreeInv
    <2> DEFINE built == n \in deploy.built
    <2>4. built \in BOOLEAN
      OBVIOUS
    <2>5. built /\ ~deploy.touched => Made(dist[n], n)
      BY <2>3
    <2> HIDE DEF built
    <2>6. Out(dist[n], built) \in Shelved /\ Backed(Out(dist[n], built), n)
      BY <2>1, <2>2, <2>4, <2>5, OutIs
    <2> QED
      BY <2>6 DEF built
  <1>4. out \subseteq Numbers
    BY DEF InDist
  <1>5. /\ shelf' \in [Numbers -> Shelved \cup {Unpublished}]
        /\ \A k \in Numbers : shelf'[k] =
               IF k \in out THEN Out(dist[k], k \in deploy.built) ELSE shelf[k]
    BY <1>1, <1>3 DEF ReleaseTypeOK
  <1>6. \/ /\ deploy' \in Runs /\ deploy'.version = deploy.version
           /\ deploy'.gated = deploy.gated /\ deploy'.touched = deploy.touched
           /\ deploy'.exact = deploy.exact /\ deploy'.built = deploy.built
           /\ deploy'.pc \in {"again", "build", "release"}
        \/ deploy' = Rest
    BY <1>1 DEF ReleaseTypeOK, Runs, Places
  <1>7. deploy.version \in Versions /\ deploy.pc \in Packed
    BY <1>2 DEF ReleaseTypeOK, Stage, Packed
  <1>8. ReleaseTypeOK'
    BY <1>2, <1>5, <1>6, <1>7, RestIs DEF ReleaseTypeOK, Newest, Stage
  <1>9. TreeInv'
    <2>1. CASE deploy' = Rest
      BY <2>1, RestIs DEF TreeInv, Stage, Committed, Sent, Packed
    <2>2. CASE deploy' # Rest
      BY <1>2, <1>6, <1>7, <2>2
         DEF TreeInv, Stage, Committed, Sent, Packed, Dirty, Made, PlusStray, Newest
    <2> QED
      BY <2>1, <2>2
  <1>10. TagInv'
    <2>1. CASE deploy' = Rest
      BY <1>2, <2>1, RestIs DEF TagInv, Stage, Sent, Packed, NoTag
    <2>2. CASE deploy' # Rest
      BY <1>2, <1>6, <1>7, <2>2 DEF TagInv, Stage, Sent, Packed, NoTag
    <2> QED
      BY <2>1, <2>2
  <1>11. PublishedIsBacked'
    <2> SUFFICES ASSUME NEW k \in Numbers, shelf'[k] # Unpublished
                 PROVE  Backed(shelf[k], k)'
      BY DEF PublishedIsBacked, Backed
    <2>1. Backed(shelf'[k], k)
      BY <1>3, <1>5, BackedIs
    <2> QED
      BY <1>2, <2>1 DEF Backed, NoTag, PlusStray
  <1> QED
    BY <1>8, <1>9, <1>10, <1>11

\* A build that failed: nothing more is published.
LEMMA BuildFailsStep == ASSUME ReleaseInv, BuildFails PROVE ReleaseInv'
  <1> USE DEF ReleaseInv
  <1>1. /\ Litter /\ Stage("build") /\ UNCHANGED <<kind, history, tags, upstream, shelf>>
        /\ dist' \in {dist, [dist EXCEPT ![tree.version] = tree]}
        /\ deploy' = [deploy EXCEPT !.pc = "release"]
    BY DEF BuildFails, Moves
  <1>2. tree' \in Trees /\ tree \in Trees /\ tree.version \in Numbers
    BY <1>1, LitterIs DEF ReleaseTypeOK, Trees
  <1>3. dist' \in [Numbers -> Trees \cup {NoArtifact}]
    BY <1>1, <1>2 DEF ReleaseTypeOK
  <1>4. /\ deploy' \in Runs /\ deploy'.pc = "release" /\ deploy'.version = deploy.version
        /\ deploy.version \in Versions
    BY <1>1 DEF ReleaseTypeOK, Runs, Places, Stage
  <1>5. ReleaseTypeOK'
    BY <1>1, <1>2, <1>3, <1>4 DEF ReleaseTypeOK, Newest, Stage
  <1>6. TreeInv' /\ TagInv'
    BY <1>1, <1>4 DEF TreeInv, TagInv, Stage, Committed, Sent, Packed, NoTag
  <1>7. PublishedIsBacked'
    BY <1>1, StaysBacked DEF ReleaseTypeOK, Newest
  <1> QED
    BY <1>5, <1>6, <1>7

LEMMA EndStep == ASSUME ReleaseInv, PublishNothing \/ DeployEnds PROVE ReleaseInv'
  <1> USE DEF ReleaseInv
  <1>1. UNCHANGED <<kind, tree, history, tags, upstream, dist, shelf>>
    BY DEF PublishNothing, DeployEnds
  <1>2. /\ deploy' \in Runs /\ deploy'.pc \in {"none", "release"}
        /\ deploy'.pc = "release" => deploy'.version \in Versions
        /\ deploy'.built = {} \/ deploy'.pc = "release"
    <2>1. CASE PublishNothing
      BY <2>1 DEF PublishNothing, Moves, ReleaseTypeOK, Runs, Places, Stage
    <2>2. CASE DeployEnds
      BY <2>2, RestIs DEF DeployEnds, Stops
    <2> QED
      BY <2>1, <2>2
  <1>3. ReleaseTypeOK'
    BY <1>1, <1>2 DEF ReleaseTypeOK, Newest, Stage
  <1>4. TreeInv' /\ TagInv'
    BY <1>1, <1>2 DEF TreeInv, TagInv, Stage, Committed, Sent, Packed, NoTag
  <1>5. PublishedIsBacked'
    BY <1>1, StaysBacked DEF ReleaseTypeOK, Newest
  <1> QED
    BY <1>3, <1>4, <1>5

\* What a run has behind it at each place: the gate, the version, the commit, the branch
\* and the tag on the remote, and what it built, for every version and however long the
\* history (scripts/deploy.sh:32-377).
THEOREM ReleaseInvariant == ReleaseSpec => []ReleaseInv
  <1>1. ReleaseInit => ReleaseInv
    BY ReleaseInitially
  <1>2. ReleaseInv /\ [ReleaseNext]_releaseVars => ReleaseInv'
    <2> SUFFICES ASSUME ReleaseInv, [ReleaseNext]_releaseVars PROVE ReleaseInv'
      OBVIOUS
    <2>1. CASE UNCHANGED releaseVars
      <3>1. ReleaseTypeOK'
        BY <2>1 DEF releaseVars, ReleaseInv, ReleaseTypeOK, Newest, Stage
      <3>2. TreeInv' /\ TagInv'
        BY <2>1 DEF releaseVars, ReleaseInv, TreeInv, TagInv, Dirty, Newest, Stage, Committed,
                    Sent, Packed, NoTag, Made, PlusStray
      <3>3. PublishedIsBacked'
        BY <2>1, StaysBacked DEF releaseVars, ReleaseInv, ReleaseTypeOK, Newest
      <3> QED
        BY <3>1, <3>2, <3>3 DEF ReleaseInv
    <2> QED
      BY <2>1, EditStep, HandTagStep, BeginStep, CommitStep, TagStep, RemoteStep, PackStep,
         PublishStep, UploadStep, BuildFailsStep, EndStep DEF ReleaseNext
  <1> QED
    BY <1>1, <1>2, PTL DEF ReleaseSpec

\* Whatever a run publishes has the run's tag on the remote, and what it made itself is
\* what the gate passed and a commit of the remote branch, the tagged one if the tag was
\* the run's to make or there already (scripts/deploy.sh:139-192, 339-352).
THEOREM PublishedAlwaysBacked == ReleaseSpec => []PublishedIsBacked
  <1>1. ReleaseInv => PublishedIsBacked
    BY DEF ReleaseInv
  <1> QED
    BY <1>1, ReleaseInvariant, PTL

(***************************************************************************)
(* RePin                                                                   *)
(***************************************************************************)

Steps == {"record", "commit record", "template", "commit template", "guard"}
RepinTrees ==
    [record : [digest : Digests, built : Nat], template : [digest : Digests, pin : Nat]]

Ops == [pc : Steps \cup {"none"}, exit : Int, orig : Seq(Nat), digest : Digests \cup {0},
        built : Nat, pin : Nat]

GitTypeOK ==
    /\ commits \in Seq(RepinTrees)
    /\ branch \in Seq(Nat) /\ Len(branch) > 0
    /\ \A n \in 1..Len(branch) : branch[n] \in 1..Len(commits)

RepinTypeOK ==
    /\ served \in Digests /\ day \in Nat
    /\ GitTypeOK
    /\ work \in RepinTrees
    /\ op \in Ops

\* The operation only adds to the branch it began on.
LineInv ==
    /\ op.digest \in Digests
    /\ Len(op.orig) > 0 /\ Len(op.orig) <= Len(branch)
    /\ \A n \in 1..Len(op.orig) : op.orig[n] = branch[n]

\* How far the move has come: the record, the pin that carries it, the template.
MoveInv ==
    /\ op.exit = -1
    /\ op.pc # "record" => work.record.digest = op.digest
    /\ op.pc \in {"template", "commit template", "guard"} => Carries(op.pin, op.digest)
    /\ op.pc \in {"commit template", "guard"} =>
           work.template = [digest |-> op.digest, pin |-> op.pin]

RepinInv == RepinTypeOK /\ (~Doing("none") => LineInv /\ MoveInv) /\ MoveHeals

LEMMA TipIs ==
    GitTypeOK => Tip \in 1..Len(commits) /\ commits[Tip] \in RepinTrees /\ OnBranch(Tip)
  BY DEF GitTypeOK, Tip, OnBranch

\* An operation under way has no exit code, and so not that of the guard.
LEMMA NoExit == -1 # 4
  OBVIOUS

LEMMA NoOpIs ==
    /\ NoOp \in Ops
    /\ NoOp.pc = "none" /\ NoOp.exit = -1
  <1>1. <<>> \in Seq(Nat) /\ -1 \in Int
    OBVIOUS
  <1> QED
    BY <1>1 DEF NoOp, Ops

\* A step of the operation: its place, and what else it sets.
LEMMA OpMoves ==
    ASSUME op \in Ops, NEW pc \in Steps \cup {"none"}, NEW code \in Int, NEW pin \in Nat,
           \/ op' = [op EXCEPT !.pc = pc] /\ code = op.exit /\ pin = op.pin
           \/ op' = [op EXCEPT !.pc = pc, !.exit = code] /\ pin = op.pin
           \/ op' = [op EXCEPT !.pc = pc, !.pin = pin] /\ code = op.exit
    PROVE  /\ op' \in Ops /\ op'.pc = pc /\ op'.exit = code /\ op'.pin = pin
           /\ op'.orig = op.orig /\ op'.digest = op.digest /\ op'.built = op.built
  BY DEF Ops

\* Another commit leaves those before it, and a line of commits stays one.
LEMMA CommitsGrow ==
    ASSUME GitTypeOK, NEW new \in RepinTrees, commits' = Append(commits, new),
           \/ branch' = Append(branch, Len(commits) + 1)
           \/ branch' = [branch EXCEPT ![Len(branch)] = Len(commits) + 1]
    PROVE  /\ GitTypeOK'
           /\ Len(commits) + 1 \in 1..Len(commits') /\ commits'[Len(commits) + 1] = new
           /\ \A c \in 1..Len(commits) : c \in 1..Len(commits') /\ commits'[c] = commits[c]
  <1>1. /\ commits' \in Seq(RepinTrees) /\ Len(commits') = Len(commits) + 1
        /\ commits'[Len(commits) + 1] = new
        /\ \A c \in 1..Len(commits) : commits'[c] = commits[c]
    BY DEF GitTypeOK
  <1>2. Len(commits) \in Nat /\ Len(branch) \in Nat
    BY DEF GitTypeOK
  <1> DEFINE fresh == Len(commits) + 1
  <1>3. fresh \in Nat /\ fresh \in 1..fresh
    BY <1>2
  <1>4. /\ branch \in Seq(Nat) /\ Len(branch) > 0
        /\ \A n \in 1..Len(branch) : branch[n] \in 1..fresh
    BY <1>2 DEF GitTypeOK
  <1> HIDE DEF fresh
  <1>5. /\ branch' \in Seq(Nat) /\ Len(branch') > 0
        /\ \A n \in 1..Len(branch') : branch'[n] \in 1..fresh
    <2>1. CASE branch' = Append(branch, fresh)
      BY <1>3, <1>4, <2>1
    <2>2. CASE branch' = [branch EXCEPT ![Len(branch)] = fresh]
      BY <1>3, <1>4, <2>2
    <2> QED
      BY <2>1, <2>2 DEF fresh
  <1> QED
    BY <1>1, <1>2, <1>5 DEF GitTypeOK, fresh

LEMMA RepinInitially == RepinInit => RepinInv
  <1> SUFFICES ASSUME RepinInit PROVE RepinInv
    OBVIOUS
  <1>1. PICK digest \in Digests : work = Tree(digest, 0, digest, 1) /\ commits = <<work, work>>
    BY DEF RepinInit
  <1>2. work \in RepinTrees
    BY <1>1 DEF Tree, RepinTrees
  <1>3. /\ commits \in Seq(RepinTrees) /\ Len(commits) = 2
        /\ branch \in Seq(Nat) /\ Len(branch) = 2 /\ branch[1] = 1 /\ branch[2] = 2
    BY <1>1, <1>2 DEF RepinInit
  <1>4. RepinTypeOK
    BY <1>2, <1>3, NoOpIs DEF RepinInit, RepinTypeOK, GitTypeOK
  <1> QED
    BY <1>4, NoOpIs DEF RepinInit, RepinInv, Doing, MoveHeals

\* Others change the checkout only between operations.
LEMMA OthersStep ==
    ASSUME RepinInv, NewDay \/ Publish \/ HandMove \/ Rewrite \/ CleanUp PROVE RepinInv'
  <1> USE DEF RepinInv
  <1>1. CASE NewDay \/ Publish
    <2>1. /\ UNCHANGED <<commits, branch, work, op>>
          /\ served' \in Digests /\ day' \in Nat
      BY <1>1 DEF NewDay, Publish, RepinTypeOK
    <2> QED
      BY <2>1 DEF RepinTypeOK, GitTypeOK, LineInv, MoveInv, MoveHeals, Doing, Carries, OnBranch
  <1>2. CASE HandMove \/ Rewrite \/ CleanUp
    <2>1. op' = NoOp /\ UNCHANGED <<served, day>>
      BY <1>2 DEF HandMove, Rewrite, CleanUp
    <2>2. work' \in RepinTrees /\ GitTypeOK'
      <3>1. CASE HandMove
        <4>1. ASSUME NEW digest \in Digests
              PROVE  [work EXCEPT !.record.digest = digest] \in RepinTrees
          <5>1. [work.record EXCEPT !.digest = digest] \in [digest : Digests, built : Nat]
            BY DEF RepinTypeOK, RepinTrees
          <5> QED
            BY <5>1 DEF RepinTypeOK, RepinTrees
        <4>2. ASSUME NEW digest \in Digests, NEW pin \in DOMAIN commits
              PROVE  [work EXCEPT !.template = [digest |-> digest, pin |-> pin]] \in RepinTrees
          <5>1. pin \in Nat
            BY DEF RepinTypeOK, GitTypeOK
          <5> QED
            BY <5>1 DEF RepinTypeOK, RepinTrees
        <4>3. work' \in RepinTrees /\ commits' = Append(commits, work')
              /\ branch' = Append(branch, Len(commits) + 1)
          BY <3>1, <4>1, <4>2 DEF HandMove, RepinTypeOK
        <4> QED
          BY <4>3, CommitsGrow DEF RepinTypeOK
      <3>2. CASE Rewrite
        BY <3>2, CommitsGrow DEF Rewrite, RepinTypeOK
      <3>3. CASE CleanUp
        BY <3>3, TipIs DEF CleanUp, RepinTypeOK, GitTypeOK
      <3> QED
        BY <1>2, <3>1, <3>2, <3>3
    <2>3. RepinTypeOK'
      BY <2>1, <2>2, NoOpIs DEF RepinTypeOK
    <2> QED
      BY <2>1, <2>3, NoOpIs DEF Doing, MoveHeals
  <1> QED
    BY <1>1, <1>2

\* An operation that begins, refuses or dies.
LEMMA EdgesStep == ASSUME RepinInv, RefuseMove \/ ResolveDigest \/ OperationDies PROVE RepinInv'
  <1> USE DEF RepinInv
  <1>1. UNCHANGED <<served, day, commits, branch, work>>
    BY DEF RefuseMove, ResolveDigest, OperationDies
  <1>2. GitTypeOK'
    BY <1>1 DEF RepinTypeOK, GitTypeOK
  <1>3. CASE RefuseMove \/ OperationDies
    <2>1. op' = NoOp \/ op' = [NoOp EXCEPT !.exit = 3] \/ op' = [NoOp EXCEPT !.exit = 5]
      BY <1>3 DEF RefuseMove, OperationDies
    <2>2. op' \in Ops /\ op'.pc = "none" /\ op'.exit # 4
      BY <2>1, NoOpIs DEF Ops
    <2> QED
      BY <1>1, <1>2, <2>2 DEF RepinTypeOK, Doing, MoveHeals
  <1>4. CASE ResolveDigest
    <2>1. op' = [NoOp EXCEPT !.pc = "record", !.orig = branch, !.digest = served, !.built = day]
      BY <1>4 DEF ResolveDigest
    <2>2. op' = [pc |-> "record", exit |-> -1, orig |-> branch, digest |-> served,
                 built |-> day, pin |-> 0]
      BY <2>1 DEF NoOp
    <2>3. /\ branch \in Seq(Nat) /\ served \in Digests /\ day \in Nat /\ -1 \in Int
          /\ Len(branch) \in Nat /\ Len(branch) > 0
      BY DEF RepinTypeOK, GitTypeOK
    <2>4. op' \in Ops
      BY <2>2, <2>3 DEF Ops, Steps
    <2>5. op'.pc = "record" /\ op'.exit = -1 /\ op'.orig = branch /\ op'.digest = served
      BY <2>2
    <2>6. LineInv'
      BY <1>1, <2>3, <2>5 DEF LineInv
    <2>7. MoveInv'
      BY <2>5 DEF MoveInv
    <2>8. MoveHeals'
      BY <2>5 DEF MoveHeals
    <2> QED
      BY <1>1, <1>2, <2>4, <2>6, <2>7, <2>8 DEF RepinTypeOK
  <1> QED
    BY <1>3, <1>4

\* A commit of the operation, or none because nothing has changed.
Adds == IF Clean THEN UNCHANGED <<commits, branch>> ELSE Commit

\* Commits stay, and the branch goes on from where it was.
Kept ==
    /\ \A c \in 1..Len(commits) : c \in 1..Len(commits') /\ commits'[c] = commits[c]
    /\ Len(branch') >= Len(branch)
    /\ \A n \in 1..Len(branch) : branch'[n] = branch[n]

LEMMA AddsIs ==
    ASSUME RepinTypeOK, Adds
    PROVE  /\ GitTypeOK' /\ Kept
           /\ ~Clean => /\ Len(commits) + 1 \in 1..Len(commits')
                        /\ commits'[Len(commits) + 1] = work
  <1>1. CASE Clean
    BY <1>1 DEF Adds, RepinTypeOK, GitTypeOK, Kept
  <1>2. CASE ~Clean
    <2>1. commits' = Append(commits, work) /\ branch' = Append(branch, Len(commits) + 1)
      BY <1>2 DEF Adds, Commit
    <2>2. /\ Len(branch') >= Len(branch)
          /\ \A n \in 1..Len(branch) : branch'[n] = branch[n]
      BY <2>1 DEF RepinTypeOK, GitTypeOK
    <2> QED
      BY <2>1, <2>2, CommitsGrow DEF RepinTypeOK, Kept
  <1> QED
    BY <1>1, <1>2

\* The pin carries the digest, whichever of its three rules chose it.
LEMMA PinCarries ==
    ASSUME RepinTypeOK, work.record.digest = op.digest, Adds
    PROVE  /\ PinFor(~Clean) \in 1..Len(commits')
           /\ commits'[PinFor(~Clean)].record.digest = op.digest
  <1>1. CASE ~Clean
    BY <1>1, AddsIs DEF PinFor
  <1>2. CASE Clean /\ Carries(work.template.pin, op.digest)
    <2>1. work.template.pin \in 1..Len(commits)
      BY <1>2 DEF Carries, RepinTypeOK, GitTypeOK
    <2> QED
      BY <1>2, <2>1, AddsIs DEF PinFor, Carries, Kept
  <1>3. CASE Clean /\ ~Carries(work.template.pin, op.digest)
    BY <1>3, TipIs, AddsIs DEF PinFor, Clean, RepinTypeOK, Kept
  <1> QED
    BY <1>1, <1>2, <1>3

\* What an operation carries stays carried, and the line it began on goes on.
LEMMA KeptIs ==
    ASSUME RepinTypeOK, Kept, GitTypeOK', LineInv, op'.orig = op.orig, op'.digest = op.digest
    PROVE  /\ LineInv'
           /\ \A pin : Carries(pin, op.digest) => Carries(pin, op.digest)'
  <1>1. /\ DOMAIN commits = 1..Len(commits) /\ DOMAIN commits' = 1..Len(commits')
        /\ Len(branch) \in Nat /\ Len(branch') \in Nat /\ Len(op.orig) \in Nat
    BY DEF RepinTypeOK, GitTypeOK, Ops
  <1>2. LineInv'
    BY <1>1 DEF LineInv, Kept
  <1>3. ASSUME NEW pin, Carries(pin, op.digest)
        PROVE  pin \in DOMAIN commits' /\ commits'[pin].record.digest = op.digest
    BY <1>1, <1>3 DEF Kept, Carries
  <1> QED
    BY <1>2, <1>3 DEF Carries

\* The two commits of the operation.
LEMMA CommitsStep == ASSUME RepinInv, CommitRecord \/ CommitTemplate PROVE RepinInv'
  <1> USE DEF RepinInv
  <1>1. /\ UNCHANGED <<served, day, work>> /\ Adds /\ ~Doing("none") /\ LineInv /\ MoveInv
    BY DEF CommitRecord, CommitTemplate, Adds, Doing
  <1>2. GitTypeOK' /\ Kept
    BY <1>1, AddsIs
  <1>3. op \in Ops /\ op.pin \in Nat /\ op.exit \in Int
    BY DEF RepinTypeOK, Ops
  <1>4. CASE CommitRecord
    <2> DEFINE pin == PinFor(~Clean)
    <2>1. op' = [op EXCEPT !.pc = "template", !.pin = pin] /\ op.pc = "commit record"
      BY <1>4 DEF CommitRecord, Doing
    <2>2. work.record.digest = op.digest
      BY <1>1, <2>1 DEF MoveInv
    <2>3. pin \in 1..Len(commits') /\ commits'[pin].record.digest = op.digest
      BY <1>1, <2>2, PinCarries
    <2>4. pin \in Nat /\ pin \in DOMAIN commits'
      BY <2>3, <1>2 DEF GitTypeOK
    <2> HIDE DEF pin
    <2>5. /\ op' \in Ops /\ op'.pc = "template" /\ op'.exit = op.exit /\ op'.pin = pin
          /\ op'.orig = op.orig /\ op'.digest = op.digest
      BY <1>3, <2>1, <2>4, OpMoves DEF Steps
    <2>6. LineInv'
      BY <1>1, <1>2, <2>5, KeptIs
    <2>7. MoveInv' /\ op'.exit = -1
      BY <1>1, <2>2, <2>3, <2>4, <2>5 DEF MoveInv, Carries
    <2> QED
      BY <1>1, <1>2, <2>5, <2>6, <2>7 DEF RepinTypeOK, MoveHeals
  <1>5. CASE CommitTemplate
    <2>1. op' = [op EXCEPT !.pc = "guard"] /\ op.pc = "commit template"
      BY <1>5 DEF CommitTemplate, Doing
    <2>2. /\ op' \in Ops /\ op'.pc = "guard" /\ op'.exit = op.exit /\ op'.pin = op.pin
          /\ op'.orig = op.orig /\ op'.digest = op.digest
      BY <1>3, <2>1, OpMoves DEF Steps
    <2>3. /\ LineInv'
          /\ \A pin : Carries(pin, op.digest) => Carries(pin, op.digest)'
      BY <1>1, <1>2, <2>2, KeptIs
    <2>4. /\ op.exit = -1 /\ work.record.digest = op.digest /\ Carries(op.pin, op.digest)
          /\ work.template = [digest |-> op.digest, pin |-> op.pin]
      BY <1>1, <2>1 DEF MoveInv
    <2>5. Carries(op.pin, op.digest)'
      BY <2>2, <2>3, <2>4 DEF Carries
    <2>6. MoveInv' /\ op'.exit = -1
      BY <1>1, <2>2, <2>4, <2>5 DEF MoveInv
    <2> QED
      BY <1>1, <1>2, <2>2, <2>3, <2>6 DEF RepinTypeOK, MoveHeals
  <1> QED
    BY <1>4, <1>5

\* The two writes to the working tree.
LEMMA WritesStep == ASSUME RepinInv, WriteRecord \/ WriteTemplate PROVE RepinInv'
  <1> USE DEF RepinInv
  <1>1. UNCHANGED <<served, day, commits, branch>> /\ LineInv /\ MoveInv
    BY DEF WriteRecord, WriteTemplate, Doing
  <1>2. op \in Ops /\ op.pin \in Nat /\ op.exit \in Int /\ op.digest \in Digests
        /\ op.built \in Nat
    BY <1>1 DEF RepinTypeOK, Ops, LineInv
  <1>3. PICK pc \in {"commit record", "commit template"} : op' = [op EXCEPT !.pc = pc]
    BY DEF WriteRecord, WriteTemplate
  <1>4. /\ op' \in Ops /\ op'.pc = pc /\ op'.exit = op.exit /\ op'.pin = op.pin
        /\ op'.orig = op.orig /\ op'.digest = op.digest
    BY <1>2, <1>3, OpMoves DEF Steps
  <1>5. GitTypeOK' /\ LineInv' /\ MoveHeals'
    <2>1. GitTypeOK'
      BY <1>1 DEF RepinTypeOK, GitTypeOK
    <2>2. LineInv'
      BY <1>1, <1>4 DEF LineInv
    <2>3. op'.exit = -1
      BY <1>1, <1>4 DEF MoveInv
    <2>4. op'.exit # 4
      BY <2>3, NoExit
    <2>5. MoveHeals'
      BY <2>4 DEF MoveHeals
    <2> QED
      BY <2>1, <2>2, <2>5
  <1>6. CASE WriteRecord
    <2>1. /\ work' = [work EXCEPT !.record = [digest |-> op.digest, built |-> op.built]]
          /\ pc = "commit record"
      BY <1>3, <1>4, <1>6 DEF WriteRecord, RepinTypeOK, Ops
    <2>2. work' \in RepinTrees /\ work'.record.digest = op.digest
      BY <1>2, <2>1 DEF RepinTypeOK, RepinTrees
    <2> QED
      BY <1>1, <1>4, <1>5, <2>1, <2>2 DEF RepinTypeOK, MoveInv
  <1>7. CASE WriteTemplate
    <2>1. /\ work' = [work EXCEPT !.template = [digest |-> op.digest, pin |-> op.pin]]
          /\ pc = "commit template" /\ op.pc = "template"
      BY <1>3, <1>4, <1>7 DEF WriteTemplate, RepinTypeOK, Ops, Doing
    <2>2. /\ work' \in RepinTrees /\ work'.record = work.record
          /\ work'.template = [digest |-> op.digest, pin |-> op.pin]
      BY <1>2, <2>1 DEF RepinTypeOK, RepinTrees
    <2> QED
      BY <1>1, <1>4, <1>5, <2>1, <2>2 DEF RepinTypeOK, MoveInv, Carries
  <1> QED
    BY <1>6, <1>7

\* The ends: back to where the operation began, or in agreement.
LEMMA EndsStep == ASSUME RepinInv, CommitFails \/ Guard PROVE RepinInv'
  <1> USE DEF RepinInv
  <1>1. UNCHANGED <<served, day, commits>> /\ LineInv /\ MoveInv
    BY DEF CommitFails, Guard, Doing
  <1>2. /\ op.orig \in Seq(Nat) /\ Len(op.orig) \in 1..Len(branch) /\ Len(branch) \in Nat
        /\ \A n \in 1..Len(op.orig) : op.orig[n] = branch[n] /\ n \in 1..Len(branch)
    BY <1>1 DEF LineInv, RepinTypeOK, GitTypeOK, Ops
  <1>3. Reset => work' \in RepinTrees /\ GitTypeOK'
    <2> SUFFICES ASSUME Reset PROVE work' \in RepinTrees /\ GitTypeOK'
      OBVIOUS
    <2>1. branch' = op.orig /\ work' = commits[op.orig[Len(op.orig)]]
      BY DEF Reset
    <2>2. \A n \in 1..Len(op.orig) : op.orig[n] \in 1..Len(commits)
      BY <1>2 DEF RepinTypeOK, GitTypeOK
    <2>3. op.orig[Len(op.orig)] \in 1..Len(commits)
      BY <1>2, <2>2
    <2> QED
      BY <1>1, <1>2, <2>1, <2>2, <2>3 DEF RepinTypeOK, GitTypeOK
  <1>4. PICK code \in {0, 4, 6} :
            /\ op' = [op EXCEPT !.pc = "none", !.exit = code]
            /\ Reset \/ UNCHANGED <<branch, work>>
            /\ code = 4 => Doing("guard") /\ ~Agrees /\ Reset
    <2>1. CASE CommitFails
      <3>1. op' = [op EXCEPT !.pc = "none", !.exit = 6] /\ Reset
        BY <2>1 DEF CommitFails, Finish
      <3> QED
        BY <3>1
    <2>2. CASE Guard
      <3>1. \/ op' = [op EXCEPT !.pc = "none", !.exit = 0] /\ UNCHANGED <<branch, work>>
            \/ /\ op' = [op EXCEPT !.pc = "none", !.exit = 4]
               /\ Doing("guard") /\ ~Agrees /\ Reset
        BY <2>2 DEF Guard, Finish
      <3> QED
        BY <3>1
    <2> QED
      BY <2>1, <2>2
  <1>5. /\ op' \in Ops /\ op'.pc = "none" /\ op'.exit = code
        /\ op'.digest = op.digest /\ op'.pin = op.pin
    <2>1. op \in Ops /\ op.pin \in Nat /\ code \in Int /\ "none" \in Steps \cup {"none"}
      BY DEF RepinTypeOK, Ops
    <2>2. op' = [op EXCEPT !.pc = "none", !.exit = code]
      BY <1>4
    <2>3. /\ op' \in Ops /\ op'.pc = "none" /\ op'.exit = code /\ op'.pin = op.pin
          /\ op'.orig = op.orig /\ op'.digest = op.digest /\ op'.built = op.built
      BY <2>1, <2>2, OpMoves
    <2> QED
      BY <2>3
  <1>6. RepinTypeOK'
    <2>1. work' \in RepinTrees /\ GitTypeOK'
      BY <1>1, <1>3, <1>4 DEF RepinTypeOK, GitTypeOK
    <2> QED
      BY <1>1, <1>5, <2>1 DEF RepinTypeOK
  <1>7. ASSUME code = 4
        PROVE  /\ Carries(op.pin, op.digest) /\ branch' = op.orig
               /\ \A n \in 1..Len(op.orig) : op.orig[n] # op.pin
    <2>1. op.pc = "guard" /\ ~Agrees /\ branch' = op.orig
      BY <1>4, <1>7 DEF Doing, Reset
    <2>2. /\ Carries(op.pin, op.digest) /\ work.record.digest = op.digest
          /\ work.template = [digest |-> op.digest, pin |-> op.pin]
      BY <1>1, <2>1 DEF MoveInv
    <2>3. work.template.pin = op.pin /\ work.template.digest = op.digest
      BY <2>2
    <2>4. ~OnBranch(op.pin)
      BY <2>1, <2>2, <2>3 DEF Agrees
    <2>5. \A n \in 1..Len(branch) : branch[n] # op.pin
      BY <2>4 DEF OnBranch, RepinTypeOK, GitTypeOK
    <2> QED
      BY <1>2, <2>1, <2>2, <2>5
  <1>8. MoveHeals'
    <2> SUFFICES ASSUME code = 4 PROVE Carries(op.pin, op.digest)' /\ ~OnBranch(op.pin)'
      BY <1>5 DEF MoveHeals
    <2>1. Carries(op.pin, op.digest)'
      BY <1>1, <1>5, <1>7 DEF Carries
    <2>2. ~OnBranch(op.pin)'
      BY <1>2, <1>5, <1>7 DEF OnBranch
    <2> QED
      BY <2>1, <2>2
  <1> QED
    BY <1>5, <1>6, <1>8 DEF Doing

\* The inductive invariant: how far a move has come, over a branch it only adds to.
THEOREM RepinInvariant == RepinSpec => []RepinInv
  <1>1. RepinInv /\ UNCHANGED repinVars => RepinInv'
    BY DEF repinVars, RepinInv, RepinTypeOK, GitTypeOK, LineInv, MoveInv, MoveHeals, Doing,
           Carries, OnBranch
  <1>2. RepinInv /\ [RepinNext]_repinVars => RepinInv'
    BY <1>1, OthersStep, EdgesStep, CommitsStep, WritesStep, EndsStep DEF RepinNext
  <1> QED
    BY RepinInitially, <1>2, PTL DEF RepinSpec

\* A move that gets as far as its guard repairs what dead runs and hands have left, for
\* any digests and any history of commits (re-pin:341-368).
THEOREM MoveAlwaysHeals == RepinSpec => []MoveHeals
  BY RepinInvariant, PTL DEF RepinInv

-----------------------------------------------------------------------------
(***************************************************************************)
(* The memory of fixed bugs                                                *)
(*                                                                         *)
(* That a logged bug stays out is kept only if its entry is still read.    *)
(* KeptIn says what writers that race or tear can do to an entry: it is in *)
(* its registry, or that registry has a line that cannot be parsed, which  *)
(* the hygiene gate does not let pass.                                     *)
(***************************************************************************)
Lines == Entry \cup {Broken, Blank}
Records == [file : Files, entry : Entry]
KeptIn(files, record) ==
    \E n \in DOMAIN files[record.file] : files[record.file][n] \in {record.entry, Broken}
Remembered(files, records) ==
    \A record \in records :
        record \in Records /\ record.entry.status # "deprecated" /\ KeptIn(files, record)

LedgersOK ==
    /\ ledgers \in [Files -> Seq(Lines)]
    /\ \A f \in open : f \in Files /\ ledgers[f] # <<>>
WorkOK == \A l \in Loggers :
    loggers[l].busy => loggers[l].file \in Files /\ loggers[l].entry \in Entry
JobOK(push) ==
    /\ DOMAIN push = {"base", "tree", "logged", "files", "known", "verdict"}
    /\ push.files \in [Files -> Seq(Lines)]
    /\ Remembered(push.files, push.known)
    /\ push.verdict = "green" => PassesGate(push) /\ Hygienic(push.files)
JobInv == JobOK(job)
BugsInv == LedgersOK /\ WorkOK /\ Remembered(ledgers, known) /\ JobInv

LEMMA BugsInitially == BugsInit => BugsInv
<1> SUFFICES ASSUME BugsInit PROVE BugsInv
  OBVIOUS
<1>1. LedgersOK
  BY DEF BugsInit, LedgersOK
<1>2. WorkOK
  BY DEF BugsInit, WorkOK, NotLogging
<1>3. Remembered(ledgers, known)
  BY DEF BugsInit, Remembered
<1>4. JobInv
  BY <1>1 DEF BugsInit, JobInv, JobOK, Remembered, LedgersOK
<1> QED
  BY <1>1, <1>2, <1>3, <1>4 DEF BugsInv

\* A line at the end of a registry, new or gone on with: what was kept still is.
LEMMA AppendKeeps ==
    ASSUME LedgersOK, NEW f \in Files, NEW line \in Lines,
           \/ ledgers' = [ledgers EXCEPT ![f] = Append(@, line)]
           \/ f \in open /\ ledgers' = [ledgers EXCEPT ![f] = [@ EXCEPT ![Len(@)] = Broken]]
    PROVE  /\ ledgers' \in [Files -> Seq(Lines)]
           /\ ledgers'[f] # <<>>
           /\ \A g \in Files : ledgers[g] # <<>> => ledgers'[g] # <<>>
           /\ \A record \in Records : KeptIn(ledgers, record) => KeptIn(ledgers', record)
           /\ ledgers'[f][Len(ledgers'[f])] \in {line, Broken}
<1> DEFINE s == ledgers[f]
<1>1. s \in Seq(Lines)
  BY DEF LedgersOK
<1>2. CASE ledgers' = [ledgers EXCEPT ![f] = Append(@, line)]
  <2> DEFINE t == Append(s, line)
  <2>1. /\ t \in Seq(Lines) /\ t # <<>> /\ t[Len(t)] = line
        /\ \A n \in DOMAIN s : n \in DOMAIN t /\ t[n] = s[n]
    BY <1>1
  <2>2. /\ ledgers'[f] = t
        /\ \A g \in Files : g # f => ledgers'[g] = ledgers[g]
        /\ ledgers' \in [Files -> Seq(Lines)]
    BY <1>2, <2>1 DEF LedgersOK
  <2> HIDE DEF t
  <2>3. \A record \in Records : KeptIn(ledgers, record) => KeptIn(ledgers', record)
    BY <2>1, <2>2 DEF KeptIn, Records
  <2> QED
    BY <2>1, <2>2, <2>3
<1>3. CASE f \in open /\ ledgers' = [ledgers EXCEPT ![f] = [@ EXCEPT ![Len(@)] = Broken]]
  <2> DEFINE t == [s EXCEPT ![Len(s)] = Broken]
  <2>1. s # <<>> /\ Len(s) \in DOMAIN s
    BY <1>1, <1>3 DEF LedgersOK
  <2>2. t \in Seq(Lines) /\ DOMAIN t = DOMAIN s /\ Len(t) = Len(s) /\ t[Len(s)] = Broken
    BY <1>1, <2>1 DEF Lines
  <2>3. /\ ledgers'[f] = t
        /\ \A g \in Files : g # f => ledgers'[g] = ledgers[g]
        /\ ledgers' \in [Files -> Seq(Lines)]
    BY <1>3, <2>2 DEF LedgersOK
  <2> HIDE DEF t
  <2>4. \A record \in Records : KeptIn(ledgers, record) => KeptIn(ledgers', record)
    BY <2>1, <2>2, <2>3 DEF KeptIn, Records
  <2> QED
    BY <2>1, <2>2, <2>3, <2>4
<1> QED
  BY <1>2, <1>3

\* One more confirmed entry is kept, as the last line is this entry or cannot be parsed.
LEMMA LearnsKept ==
    ASSUME Remembered(ledgers, known), NEW f \in Files, NEW entry \in Entry,
           Learns(f, entry),
           ledgers' \in [Files -> Seq(Lines)], ledgers'[f] # <<>>,
           ledgers'[f][Len(ledgers'[f])] \in {entry, Broken},
           \A record \in Records : KeptIn(ledgers, record) => KeptIn(ledgers', record)
    PROVE  Remembered(ledgers', known')
<1>1. Len(ledgers'[f]) \in DOMAIN ledgers'[f]
  OBVIOUS
<1>2. Record(f, entry) \in Records /\ Record(f, entry).file = f /\ Record(f, entry).entry = entry
  BY DEF Records, Record
<1>3. KeptIn(ledgers', Record(f, entry))
  BY <1>1, <1>2 DEF KeptIn
<1> QED
  BY <1>2, <1>3 DEF Learns, Remembered

LEMMA LogStep ==
    ASSUME BugsInv, NEW l \in Loggers,
           \/ \E f \in Files, entry \in Logged : BeginLog(l, f, entry)
           \/ AppendEntry(l) \/ AppendFails(l)
    PROVE  BugsInv'
<1> USE KnownBugsAssumption
<1>0. LedgersOK /\ WorkOK /\ Remembered(ledgers, known) /\ JobInv
  BY DEF BugsInv
<1>1. ASSUME NEW f \in Files, NEW entry \in Logged, BeginLog(l, f, entry)
      PROVE  BugsInv'
  <2>1. WorkOK'
    BY <1>0, <1>1 DEF BeginLog, WorkOK
  <2>2. LedgersOK' /\ Remembered(ledgers, known)' /\ JobInv'
    BY <1>0, <1>1 DEF BeginLog, LedgersOK, Remembered, KeptIn, JobInv
  <2> QED
    BY <2>1, <2>2 DEF BugsInv
<1>2. ASSUME AppendEntry(l) \/ AppendFails(l)
      PROVE  WorkOK' /\ JobInv'
  <2>1. loggers' = [loggers EXCEPT ![l] = NotLogging] /\ job' = job
    BY <1>2 DEF AppendEntry, AppendFails
  <2>2. \A m \in Loggers : loggers'[m].busy => loggers[m].busy /\ loggers'[m] = loggers[m]
    BY <2>1 DEF NotLogging
  <2> QED
    BY <1>0, <2>1, <2>2 DEF WorkOK, JobInv
<1>3. ASSUME AppendEntry(l)
      PROVE  LedgersOK' /\ Remembered(ledgers, known)'
  <2> DEFINE f == loggers[l].file  entry == loggers[l].entry
  <2>1. f \in Files /\ entry \in Entry /\ entry \in Lines
    BY <1>0, <1>3 DEF AppendEntry, WorkOK, Lines
  <2>2. \/ ledgers' = [ledgers EXCEPT ![f] = Append(@, entry)]
        \/ f \in open /\ ledgers' = [ledgers EXCEPT ![f] = [@ EXCEPT ![Len(@)] = Broken]]
    BY <1>3 DEF AppendEntry, Appends
  <2>3. open' = open \ {f} /\ Learns(f, entry)
    BY <1>3 DEF AppendEntry
  <2> HIDE DEF f, entry
  <2>4. LedgersOK'
    BY <1>0, <2>1, <2>2, <2>3, AppendKeeps DEF LedgersOK
  <2> QED
    BY <1>0, <2>1, <2>2, <2>3, <2>4, AppendKeeps, LearnsKept
<1>4. ASSUME AppendFails(l)
      PROVE  LedgersOK' /\ Remembered(ledgers, known)'
  <2>1. known' = known
    BY <1>4 DEF AppendFails
  <2>2. CASE UNCHANGED ledgers /\ open' \subseteq open
    BY <1>0, <2>1, <2>2 DEF LedgersOK, Remembered, KeptIn
  <2>3. ASSUME NEW line \in {Broken, loggers[l].entry}, Appends(loggers[l], line),
               open' = open \cup {loggers[l].file}
        PROVE  LedgersOK' /\ Remembered(ledgers, known)'
    <3> DEFINE f == loggers[l].file
    <3>1. f \in Files /\ line \in Lines
      BY <1>0, <1>4 DEF AppendFails, WorkOK, Lines
    <3>2. \/ ledgers' = [ledgers EXCEPT ![f] = Append(@, line)]
          \/ f \in open /\ ledgers' = [ledgers EXCEPT ![f] = [@ EXCEPT ![Len(@)] = Broken]]
      BY <2>3 DEF Appends
    <3> HIDE DEF f
    <3>3. LedgersOK'
      BY <1>0, <2>3, <3>1, <3>2, AppendKeeps DEF LedgersOK, f
    <3> QED
      BY <1>0, <2>1, <3>1, <3>2, <3>3, AppendKeeps DEF Remembered
  <2> QED
    BY <1>4, <2>2, <2>3 DEF AppendFails
<1> QED
  BY <1>1, <1>2, <1>3, <1>4 DEF BugsInv

LEMMA HandStep ==
    ASSUME BugsInv, NEW f \in Files,
           \/ \E entry \in Logged : HandEntry(f, entry)
           \/ RetireEntry(f) \/ MendLedger(f)
    PROVE  BugsInv'
<1> USE KnownBugsAssumption
<1>0. LedgersOK /\ WorkOK /\ Remembered(ledgers, known) /\ JobInv
  BY DEF BugsInv
<1>1. WorkOK' /\ JobInv'
  BY <1>0 DEF HandEntry, RetireEntry, MendLedger, WorkOK, JobInv
<1>2. ASSUME NEW entry \in Logged, HandEntry(f, entry)
      PROVE  LedgersOK' /\ Remembered(ledgers, known)'
  <2>1. entry \in Entry /\ entry \in Lines
    BY DEF Lines
  <2>2. ledgers' = [ledgers EXCEPT ![f] = Append(@, entry)] /\ Learns(f, entry)
        /\ open' \subseteq open \cup {f}
    BY <1>2 DEF HandEntry
  <2>3. LedgersOK'
    BY <1>0, <2>1, <2>2, AppendKeeps DEF LedgersOK
  <2> QED
    BY <1>0, <2>1, <2>2, <2>3, AppendKeeps, LearnsKept
<1>3. ASSUME RetireEntry(f)
      PROVE  LedgersOK' /\ Remembered(ledgers, known)'
  <2>1. PICK n \in Intact(ledgers[f]) :
           /\ ledgers' = [ledgers EXCEPT ![f][n].status = "deprecated"]
           /\ known' = known \ {Record(f, ledgers[f][n])}
    BY <1>3 DEF RetireEntry
  <2> DEFINE s == ledgers[f]  old == s[n]  new == [old EXCEPT !.status = "deprecated"]
  <2>2. s \in Seq(Lines) /\ n \in DOMAIN s /\ old \in Entry
    BY <1>0 DEF Intact, LedgersOK
  <2>3. new \in Lines
    BY <2>2 DEF Entry, Lines
  <2>4. [s EXCEPT ![n] = new] \in Seq(Lines) /\ [s EXCEPT ![n] = new] # <<>>
    BY <2>2, <2>3
  <2>5. ledgers' = [ledgers EXCEPT ![f] = [s EXCEPT ![n] = new]] /\ open' = open
    BY <1>3, <2>1 DEF RetireEntry
  <2>6. LedgersOK'
    BY <1>0, <2>4, <2>5 DEF LedgersOK
  <2>7. ASSUME NEW record \in known' PROVE KeptIn(ledgers', record)
    <3>1. record \in Records /\ KeptIn(ledgers, record) /\ record # Record(f, old)
      BY <1>0, <2>1, <2>7 DEF Remembered
    <3>2. CASE record.file # f
      BY <1>0, <2>5, <3>1, <3>2 DEF KeptIn, LedgersOK, Records
    <3>3. CASE record.file = f
      <4>1. record.entry # old
        BY <3>1, <3>3 DEF Records, Record
      <4>2. PICK m \in DOMAIN s : s[m] \in {record.entry, Broken}
        BY <3>1, <3>3 DEF KeptIn
      <4>3. m # n
        BY <2>2, <4>1, <4>2
      <4>4. m \in DOMAIN ledgers'[f] /\ ledgers'[f][m] = s[m]
        BY <1>0, <2>2, <2>5, <4>3 DEF LedgersOK
      <4> QED
        BY <3>3, <4>2, <4>4 DEF KeptIn
    <3> QED
      BY <3>2, <3>3
  <2> QED
    BY <1>0, <2>1, <2>6, <2>7 DEF Remembered
<1>4. ASSUME MendLedger(f)
      PROVE  LedgersOK' /\ Remembered(ledgers, known)'
  <2> DEFINE s == ledgers[f]
             t == [n \in DOMAIN s |-> IF s[n] = Broken THEN Blank ELSE s[n]]
  <2>1. s \in Seq(Lines)
    BY <1>0 DEF LedgersOK
  <2>2. t \in Seq(Lines) /\ DOMAIN t = DOMAIN s /\ (s # <<>> => t # <<>>)
    BY <2>1 DEF Lines
  <2>3. ledgers' = [ledgers EXCEPT ![f] = t] /\ open' = open \ {f}
    BY <1>4 DEF MendLedger
  <2>4. LedgersOK'
    BY <1>0, <2>2, <2>3 DEF LedgersOK
  <2>5. ASSUME NEW record \in known' PROVE record \in known /\ KeptIn(ledgers', record)
    <3>1. record \in known /\ (record.file = f => \E n \in DOMAIN s : s[n] = record.entry)
      BY <1>4, <2>5 DEF MendLedger
    <3>2. record \in Records /\ KeptIn(ledgers, record)
      BY <1>0, <3>1 DEF Remembered
    <3>3. CASE record.file # f
      BY <1>0, <2>3, <3>1, <3>2, <3>3 DEF KeptIn, LedgersOK, Records
    <3>4. CASE record.file = f
      <4>1. PICK n \in DOMAIN s : s[n] = record.entry
        BY <3>1, <3>4
      <4>2. record.entry # Broken
        BY <3>2 DEF Records
      <4>3. n \in DOMAIN t /\ t[n] = record.entry
        BY <2>2, <4>1, <4>2
      <4>4. ledgers'[f] = t
        BY <1>0, <2>3 DEF LedgersOK
      <4> HIDE DEF t
      <4>5. n \in DOMAIN ledgers'[record.file] /\ ledgers'[record.file][n] = record.entry
        BY <3>4, <4>3, <4>4
      <4> QED
        BY <3>1, <4>5 DEF KeptIn
    <3> QED
      BY <3>1, <3>3, <3>4
  <2> QED
    BY <1>0, <2>4, <2>5 DEF Remembered
<1> QED
  BY <1>1, <1>2, <1>3, <1>4 DEF BugsInv

LEMMA PushStep ==
    ASSUME BugsInv, \/ \E after \in SUBSET Sources : LandPush(after)
                    \/ \E verdict \in {"green", "red"} : JobEnds(verdict)
    PROVE  BugsInv'
<1>0. LedgersOK /\ WorkOK /\ Remembered(ledgers, known) /\ JobInv
  BY DEF BugsInv
<1>1. UNCHANGED <<ledgers, open, loggers, known>>
  BY DEF LandPush, JobEnds
<1>2. LedgersOK' /\ WorkOK' /\ Remembered(ledgers, known)'
  BY <1>0, <1>1 DEF LedgersOK, WorkOK, Remembered, KeptIn
<1>3. ASSUME NEW after \in SUBSET Sources, LandPush(after) PROVE JobInv'
  <2> DEFINE push == [base |-> mainline, tree |-> after, logged |-> ledgers # job.files,
                      files |-> ledgers, known |-> known, verdict |-> "running"]
  <2>1. job' = push
    BY <1>3 DEF LandPush
  <2>2. /\ DOMAIN push = {"base", "tree", "logged", "files", "known", "verdict"}
        /\ push.files = ledgers /\ push.known = known /\ push.verdict = "running"
    OBVIOUS
  <2> HIDE DEF push
  <2>3. JobOK(push)
    BY <1>0, <2>2 DEF JobOK, LedgersOK
  <2> QED
    BY <2>1, <2>3 DEF JobInv
<1>4. ASSUME NEW verdict \in {"green", "red"}, JobEnds(verdict) PROVE JobInv'
  <2> DEFINE push == [job EXCEPT !.verdict = verdict]
  <2>1. job' = push /\ (verdict = "green" => PassesGate(job) /\ Hygienic(job.files))
    BY <1>4 DEF JobEnds
  <2>2. DOMAIN job = {"base", "tree", "logged", "files", "known", "verdict"}
    BY <1>0 DEF JobInv, JobOK
  <2>3. /\ DOMAIN push = DOMAIN job /\ push.verdict = verdict /\ push.logged = job.logged
        /\ push.base = job.base /\ push.tree = job.tree
        /\ push.files = job.files /\ push.known = job.known
    BY <2>2
  <2> HIDE DEF push
  <2>4. PassesGate(push) <=> PassesGate(job)
    BY <2>3 DEF PassesGate
  <2>5. JobOK(push)
    BY <1>0, <2>1, <2>3, <2>4 DEF JobInv, JobOK
  <2> QED
    BY <2>1, <2>5 DEF JobInv
<1> QED
  BY <1>2, <1>3, <1>4 DEF BugsInv

\* The inductive invariant: what was logged is kept, here and in what a job reads.
THEOREM BugsInvariant == BugsSpec => []BugsInv
<1>1. BugsInv /\ [BugsNext]_bugVars => BugsInv'
  <2> SUFFICES ASSUME BugsInv, [BugsNext]_bugVars PROVE BugsInv'
    OBVIOUS
  <2>1. CASE UNCHANGED bugVars
    BY <2>1 DEF bugVars, BugsInv, LedgersOK, WorkOK, Remembered, KeptIn, JobInv
  <2> QED
    BY <2>1, LogStep, HandStep, PushStep DEF BugsNext
<1> QED
  BY BugsInitially, <1>1, PTL DEF BugsSpec

\* A push whose job is green brings back no bug whose logging was confirmed before it,
\* however many log at a time, tear lines or edit by hand, for any ids, patterns and code
\* (log_failure.py:127-150, gate_overlay.py:66-85, failure_registry_check.py:115-232).
THEOREM KnownBugsAlwaysStayOut == BugsSpec => []KnownBugsStayOut
<1>1. BugsInv => KnownBugsStayOut
  <2> SUFFICES ASSUME BugsInv, job.verdict = "green",
                      NEW record \in job.known, NEW source \in job.tree \ job.base,
                      Reintroduces(source, record.entry),
                      record.file = "bundled" =>
                          ~Named(job.files["overlay"], record.entry.id)
               PROVE  FALSE
    BY DEF KnownBugsStayOut
  <2> DEFINE files == job.files  f == record.file  lines == files[f]  entry == record.entry
  <2>1. /\ files \in [Files -> Seq(Lines)] /\ KeptIn(files, record)
        /\ f \in Files /\ entry \in Entry /\ entry.status # "deprecated"
        /\ PassesGate(job) /\ Hygienic(files)
    BY DEF BugsInv, JobInv, JobOK, Remembered, Records
  <2>2. PICK n \in DOMAIN lines : lines[n] = entry
    BY <2>1 DEF KeptIn, Hygienic
  <2>3. n \in Intact(lines) /\ IsLast(lines, n)
    <3>1. n \in Intact(lines)
      BY <2>1, <2>2 DEF Intact
    <3>2. \A m \in Intact(lines) : lines[m].id = lines[n].id => m = n
      BY <2>1, <3>1 DEF Hygienic, OneLinePerId
    <3>3. n \in Nat
      BY <2>1, <2>2
    <3> QED
      BY <3>1, <3>2, <3>3 DEF IsLast
  <2>4. entry \in Merged(files)
    <3>1. CASE f = "overlay"
      BY <2>2, <2>3, <3>1 DEF Merged
    <3>2. CASE f = "bundled"
      BY <2>2, <2>3, <3>2 DEF Merged
    <3> QED
      BY <2>1, <3>1, <3>2 DEF Files
  <2>5. entry \in Enforced(files)
    BY <2>1, <2>4 DEF Enforced, Entry
  <2> QED
    BY <2>1, <2>5 DEF PassesGate, Window
<1> QED
  BY <1>1, BugsInvariant, PTL
=================================================================================
