----------------------------- MODULE ContainerRelay -----------------------------
(***************************************************************************)
(* The host side of a containerized run (container_exec.py, launcher.py).  *)
(* The job of CoherenceRun runs inside the container and writes to the     *)
(* output directory the host bound; the host waits for it under a time and *)
(* an output limit, then reads the exit code and result.json and relays    *)
(* the code only if the two agree.                                         *)
(*                                                                         *)
(* The kill at a limit reaches the process the launcher started, podman's  *)
(* client; whether the container dies with it is podman's affair, so it    *)
(* may linger and go on writing.  No launch starts beside a lingering      *)
(* container.                                                              *)
(***************************************************************************)
EXTENDS CoherenceRun

VARIABLE host   \* the launch under way, or the last one

hvars == <<vars, host>>

NoLaunch == [pc |-> "exited", status |-> None, exit |-> None, read |-> None, code |-> None]

Alive == job.pc \notin {"exited", "dead"}

\* _DECISION_FOR_CODE.
DecisionFor(code) ==
    CASE code = 0 -> "PASS"
      [] code = 10 -> "ADVISORY"
      [] code = 20 -> "FAIL"
      [] OTHER -> "ERROR"

DecisionIn(result) == IF result = None THEN None ELSE result.decision

\* _fail of the host, with the same fallback as that of the container.
HostFails(class) ==
    /\ host' = [host EXCEPT !.pc = "exited", !.code = ErrorCode(class)]
    /\ \/ Put("result", ErrorResult(class))
       \/ NoPut
    /\ UNCHANGED <<world, job>>
    /\ NoSeal

HInit == Init /\ host = NoLaunch

\* run_containerized up to the launch: the configuration is validated against the
\* registry, the request staged.
Launch ==
    /\ host.pc = "exited"
    /\ Start
    /\ host' = [NoLaunch EXCEPT !.pc = "waiting"]

\* A malformed request or configuration, an image that is not the pinned one, an output
\* directory inside a mount, a root no mount covers, podman that cannot be started.
LaunchRejected ==
    /\ host.pc = "exited"
    /\ runs < MaxRuns
    /\ ~Alive
    /\ runs' = runs + 1
    /\ \E class \in {"invalid-input", "execution"} :
          /\ host' = [NoLaunch EXCEPT !.code = ErrorCode(class)]
          /\ Put("result", ErrorResult(class)) \/ NoPut
    /\ job' = Idle
    /\ UNCHANGED world
    /\ NoSeal

\* Defect: the deadline is looked at only while the pipe is silent, and it never is.
KillAfterExit ==
    /\ host.pc = "waiting"
    /\ ~Alive
    /\ \E status \in {"timeout", "output-overflow"} :
          host' = [host EXCEPT !.pc = "read", !.status = status]
    /\ UNCHANGED vars

\* launcher.run: a limit is exhausted, perhaps just after the container has exited.
Kill ==
    /\ host.pc = "waiting"
    /\ \E status \in {"timeout", "output-overflow"} :
          host' = [host EXCEPT !.pc = "read", !.status = status]
    /\ \/ UNCHANGED job
       \/ Alive /\ job' = [job EXCEPT !.pc = "dead"]
    /\ UNCHANGED <<world, runs, out, attested, sealed>>

\* The output ends: the container is gone, with the code of the run or one that is not
\* in the contract.
Collect ==
    /\ host.pc = "waiting"
    /\ ~Alive
    /\ host' = [host EXCEPT !.pc = "read", !.status = "completed",
                            !.exit = IF job.pc = "exited" THEN job.code ELSE None]
    /\ UNCHANGED vars

KilledIsError ==
    /\ host.pc = "read"
    /\ host.status # "completed"
    /\ HostFails("execution")
    /\ UNCHANGED runs

\* The host reads result.json once.
ReadResult ==
    /\ host.pc = "read"
    /\ host.status = "completed"
    /\ host' = [host EXCEPT !.pc = "compare", !.read = out["result"]]
    /\ UNCHANGED vars

\* Defect: any code of the contract is passed on.
AgreesOnCode == host.exit # None

Agrees == host.exit # None /\ DecisionIn(host.read) = DecisionFor(host.exit)

Disagrees ==
    /\ host.pc = "compare"
    /\ ~Agrees
    /\ HostFails("execution")
    /\ UNCHANGED runs

Relay ==
    /\ host.pc = "compare"
    /\ Agrees
    /\ host' = [host EXCEPT !.pc = "exited", !.code = host.exit]
    /\ UNCHANGED vars

\* What run_containerized does once it has been called.
HostStep == Kill \/ Collect \/ KilledIsError \/ ReadResult \/ Disagrees \/ Relay

HNext ==
    \/ Launch \/ LaunchRejected \/ HostStep
    \/ (RunStep \/ Environment) /\ UNCHANGED host

\* The host is one process that is not interrupted, and its clock runs; nothing makes
\* the container end.
HSpec == HInit /\ [][HNext]_hvars /\ WF_hvars(HostStep)

-----------------------------------------------------------------------------
\* A code that promises a decision is relayed only from a container that ended by itself
\* with this code, and only over a result.json of that decision; a killed run is never
\* reported as completed (container_exec.py:165-208).
RelayHonest ==
    host.pc = "exited" /\ host.code \notin Errors \cup {None} =>
        /\ host.status = "completed"
        /\ job.code = host.code
        /\ DecisionIn(host.read) = DecisionFor(host.code)
        /\ job.kept => host.read = job.result

\* The host always gets its answer, however long the container runs (launcher.py:283-302).
LaunchEnds == host.pc = "waiting" ~> host.pc = "exited"

\* "A coherent completed run relays the container's own exit code and canonical result
\* untouched" (container_exec.py:26-27).
RelayedIsThisRuns ==
    host.pc = "exited" /\ host.code \notin Errors \cup {None} => host.read = job.result
================================================================================
