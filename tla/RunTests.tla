-------------------------------- MODULE RunTests --------------------------------
(***************************************************************************)
(* The test runner (scripts/run-tests.mjs): every test file in a process   *)
(* of its own, the parallel ones by a pool of workers, then the serial     *)
(* ones, then once more and alone those that failed.                       *)
(*                                                                         *)
(* What a process prints is kept as far as the runner reads it: whether it *)
(* has shown a result that is ok, one that is not, and its summary.  A     *)
(* process that is dead may have left a descendant that holds its pipe; a  *)
(* run is over when the pipe is closed.  last is history.                  *)
(***************************************************************************)
EXTENDS Integers, Sequences

CONSTANTS
    TestNames,
    Discoveries,  \* what the walk may find: the files of the pool and the serial ones
    Lanes,        \* the workers; the serial lane and the solo runs use one of them
    Idle, Signal

Processes ==
    [file : TestNames, solo : BOOLEAN, alive : BOOLEAN, held : BOOLEAN, good : BOOLEAN,
     bad : BOOLEAN, summary : {"none", "clean", "failures"}, code : {0, 1, Signal},
     timedOut : BOOLEAN]

ASSUME TestsAssumption ==
    /\ Discoveries \subseteq [parallel : Seq(TestNames), serial : Seq(TestNames)]
    /\ \A files \in Discoveries : \A m \in DOMAIN files.parallel, n \in DOMAIN files.serial :
           files.parallel[m] # files.serial[n]
    /\ Idle \notin Processes \cup {0, 1}

VARIABLES found, next, run, failed, todo, exit, last

testVars == <<found, next, run, failed, todo, exit, last>>

Queue == found.parallel \o found.serial
TestFiles == {Queue[n] : n \in DOMAIN Queue}
InPool(file) == \E n \in DOMAIN found.parallel : found.parallel[n] = file

AllIdle == \A lane \in Lanes : run[lane] = Idle
Busy(lane) == run[lane] # Idle
Alive(lane) == Busy(lane) /\ run[lane].alive

Process(file, solo) ==
    [file |-> file, solo |-> solo, alive |-> TRUE, held |-> FALSE, good |-> FALSE,
     bad |-> FALSE, summary |-> "none", code |-> Signal, timedOut |-> FALSE]

-----------------------------------------------------------------------------
TestsInit ==
    /\ found \in Discoveries
    /\ next = 1
    /\ run = [lane \in Lanes |-> Idle]
    /\ failed = {} /\ todo = {}
    /\ exit = Idle
    /\ last = [file \in TestFiles |-> Idle]

(* The processes *)

Prints(lane) ==
    /\ Alive(lane)
    /\ run[lane].summary = "none"
    /\ \/ run' = [run EXCEPT ![lane] = [@ EXCEPT !.good = TRUE]]
       \/ run' = [run EXCEPT ![lane] = [@ EXCEPT !.bad = TRUE]]
       \/ \E summary \in {"clean", "failures"} :
             run' = [run EXCEPT ![lane] = [@ EXCEPT !.summary = summary]]
    /\ UNCHANGED <<found, next, failed, todo, exit, last>>

\* A process exits 0 only after a clean summary; not even then if a test was cancelled.
Dies(lane) ==
    /\ Alive(lane)
    /\ \E code \in {0, 1}, held \in BOOLEAN :
          /\ code = 0 => run[lane].summary = "clean" /\ ~run[lane].bad
          /\ run' = [run EXCEPT ![lane] =
                        [@ EXCEPT !.alive = FALSE, !.held = held, !.code = code]]
    /\ UNCHANGED <<found, next, failed, todo, exit, last>>

\* The last descendant that holds the pipe ends.
Releases(lane) ==
    /\ Busy(lane)
    /\ run[lane].held
    /\ run' = [run EXCEPT ![lane] = [@ EXCEPT !.held = FALSE]]
    /\ UNCHANGED <<found, next, failed, todo, exit, last>>

(* runOne *)

Killed(lane, late) ==
    \E held \in BOOLEAN :
        run' = [run EXCEPT ![lane] =
                   [@ EXCEPT !.alive = FALSE, !.held = held, !.timedOut = late]]

\* Silence after results and before the summary, or 1.5 s past the summary.
Kill(lane) ==
    /\ Alive(lane)
    /\ run[lane].good \/ run[lane].bad \/ run[lane].summary # "none"
    /\ Killed(lane, FALSE)
    /\ UNCHANGED <<found, next, failed, todo, exit, last>>

\* Defect: the cap waits for some sign of life.
CapOnceItTalks(lane) ==
    /\ Alive(lane)
    /\ run[lane].good \/ run[lane].bad \/ run[lane].summary # "none"
    /\ Killed(lane, TRUE)
    /\ UNCHANGED <<found, next, failed, todo, exit, last>>

\* The hard cap also ends the run of a process that is gone and whose pipe is not.
HardCap(lane) ==
    /\ Busy(lane)
    /\ ~run[lane].timedOut
    /\ \/ Alive(lane) /\ Killed(lane, TRUE)
       \/ ~Alive(lane) /\ run' = [run EXCEPT ![lane] = [@ EXCEPT !.timedOut = TRUE]]
    /\ UNCHANGED <<found, next, failed, todo, exit, last>>

\* What is counted as failed: what the summary says, or else what was shown.
CountsFailure(r) == r.summary = "failures" \/ (r.summary = "none" /\ r.bad)

CrashedBeforeTests(r) == r.code # 0 /\ r.summary = "none" /\ ~r.good

\* Defect: a file that shows no failure when it runs alone was flaky.
PassedUnlessShown(r) ==
    IF r.solo THEN ~CountsFailure(r) /\ ~r.timedOut
              ELSE ~r.timedOut /\ ~CountsFailure(r) /\ ~CrashedBeforeTests(r)

Passed(r) ==
    IF r.solo THEN ~CountsFailure(r) /\ r.code = 0 /\ ~r.timedOut
              ELSE ~r.timedOut /\ ~CountsFailure(r) /\ ~CrashedBeforeTests(r)

\* What green is to mean of a file's last run: an end in time, no failure counted, and if
\* an earlier run had failed, a clean exit of its own.
Sound(r) == ~r.timedOut /\ ~CountsFailure(r) /\ (r.solo => r.code = 0)

\* The pipe is closed: the result, its verdict, and the adjudication of a solo run.
Close(lane) ==
    /\ Busy(lane)
    /\ ~run[lane].alive /\ ~run[lane].held
    /\ LET r == run[lane]
       IN  /\ failed' = IF Passed(r) THEN failed \ {r.file} ELSE failed \cup {r.file}
           /\ todo' = IF ~Passed(r) /\ ~r.solo THEN todo \cup {r.file} ELSE todo
           /\ last' = [last EXCEPT ![r.file] = IF Sound(r) THEN "sound" ELSE "unsound"]
    /\ run' = [run EXCEPT ![lane] = Idle]
    /\ UNCHANGED <<found, next, exit>>

(* main *)

\* A worker takes the next file; the serial lane starts when the last worker has ended.
Launch(lane) ==
    /\ next <= Len(Queue)
    /\ IF InPool(Queue[next]) THEN ~Busy(lane) ELSE AllIdle
    /\ run' = [run EXCEPT ![lane] = Process(Queue[next], FALSE)]
    /\ next' = next + 1
    /\ UNCHANGED <<found, failed, todo, exit, last>>

Adjudicate(lane) ==
    /\ next > Len(Queue)
    /\ AllIdle
    /\ \E file \in todo :
          /\ run' = [run EXCEPT ![lane] = Process(file, TRUE)]
          /\ todo' = todo \ {file}
    /\ UNCHANGED <<found, next, failed, exit, last>>

\* No file at all is an error, unless it was declared.
Exit ==
    /\ exit = Idle
    /\ next > Len(Queue) /\ todo = {} /\ AllIdle
    /\ IF TestFiles = {} THEN exit' \in {0, 1} ELSE exit' = IF failed = {} THEN 0 ELSE 1
    /\ UNCHANGED <<found, next, run, failed, todo, last>>

RunnerStep ==
    \/ \E lane \in Lanes : Launch(lane) \/ Adjudicate(lane) \/ HardCap(lane) \/ Close(lane)
    \/ Exit

TestsNext ==
    \/ RunnerStep
    \/ \E lane \in Lanes : Prints(lane) \/ Dies(lane) \/ Releases(lane) \/ Kill(lane)

\* The event loop of the runner runs and its timers fire; the processes owe nothing.
TestsSpec == TestsInit /\ [][TestsNext]_testVars /\ WF_testVars(RunnerStep)

-----------------------------------------------------------------------------
\* Green means that each file found was run, and that its last run was sound: one cut by
\* the cap, one with a counted failure, and an adjudication that did not exit cleanly are
\* never passed over, in whichever lane they ran (run-tests.mjs:231-277).
GreenIsSound == exit = 0 => \A file \in TestFiles : last[file] = "sound"

\* A serial file shares the machine with no other test, and an adjudication is a solo
\* run, however the pool's files end (run-tests.mjs:245-260).
SerialAlone ==
    \A lane, other \in Lanes :
        lane # other /\ Busy(lane) /\ Busy(other) =>
            InPool(run[lane].file) /\ ~run[lane].solo

\* The runner exits however its processes hang, provided that nothing they leave behind
\* holds a pipe for ever (run-tests.mjs:137-181).
RunnerEnds ==
    (\A lane \in Lanes : []<>(Busy(lane) => ~run[lane].held)) => <>(exit # Idle)
================================================================================
