------------------------------ MODULE MCStandalone ------------------------------
(***************************************************************************)
(* The parts that share no state with each other, side by side: a run      *)
(* steps one of them, chosen at the start, and the others stay at one of   *)
(* their initial states, so that every state that one can reach is reached *)
(* and the product of all is not.                                          *)
(***************************************************************************)
EXTENDS VerificationClaim, PolicyAuthority, RunTests, HubDeadman, ImageCycle, FleetSweep,
        RePin, ReleasePipeline, MutationCheck, SpokeEnroll, KnownBugs, ResultReuse

VARIABLE focus

\* Two bundles, each the floor of its own time; a set issued, withheld, issued empty.
Bundle(epoch) == [epoch |-> epoch, floor |-> epoch]
MCBundles == {Bundle(1), Bundle(2)}
Order(baseline, exceptions, until) ==
    [sets |-> [baseline |-> baseline, exceptions |-> exceptions],
     old |-> Bundle(1), until |-> until]
MCOrders == {Order("debt", "waiver", 0), Order("empty", "empty", 1),
             Order(None, "waiver", 0)}

\* No test file, or two for the pool of two and one for the serial lane.
MCDiscoveries == {[parallel |-> <<>>, serial |-> <<>>],
                  [parallel |-> <<"a", "b">>, serial |-> <<"c">>]}

\* A repository declared twice is swept twice.
MCDeclarations == {<<>>, <<"a">>, <<"a", "b">>, <<"a", "b", "a">>}

\* A bug, and an entry of the same id that asks for nothing.
Bug(id, pattern, status, fixed) ==
    [id |-> id, pattern |-> pattern, status |-> status, fixed |-> fixed]
MCLogged == {Bug(1, "p", "resolved", TRUE), Bug(1, NoPattern, "active", TRUE)}
MCSources == {[pattern |-> "p", excused |-> {2}]}

\* Signed or not, from a retained bundle or not.
Computed(identity, at, signed, refs) ==
    [identity |-> identity, at |-> at, signed |-> signed, refs |-> refs]
MCResults == {Computed("k", 1, TRUE, {"r"}), Computed("k", 0, TRUE, {}),
              Computed("l", 0, FALSE, {"r"})}
MCGrants == {[ref |-> "r", until |-> 1]}

Init ==
    /\ focus \in {"claim", "policy", "tests", "deadman", "image", "sweep", "repin",
                  "release", "mutation", "enroll", "bugs", "reuse"}
    /\ ClaimInit /\ AuthInit /\ TestsInit /\ DeadmanInit /\ ImageInit /\ SweepInit
    /\ RepinInit /\ ReleaseInit /\ MutationInit /\ EnrollInit /\ BugsInit /\ ReuseInit
    /\ focus # "claim" => reality = CHOOSE contents \in [Roles -> Contents] : TRUE
    /\ focus # "policy" => bundle = Bundle(1)
    /\ focus # "tests" => Queue = <<>>
    /\ focus # "deadman" => hub.polling
    /\ focus # "image" => store = {}
    /\ focus # "sweep" => declared = <<>>
    /\ focus # "repin" => served = 1 /\ work.record.digest = 1
    /\ focus # "release" => kind = "npm"
    /\ focus # "mutation" => inGit

Next ==
    /\ UNCHANGED focus
    /\ IF focus = "claim" THEN ClaimNext ELSE UNCHANGED claimVars
    /\ IF focus = "policy" THEN AuthNext ELSE UNCHANGED authVars
    /\ IF focus = "tests" THEN TestsNext ELSE UNCHANGED testVars
    /\ IF focus = "deadman" THEN DeadmanNext ELSE UNCHANGED deadmanVars
    /\ IF focus = "image" THEN ImageNext ELSE UNCHANGED imageVars
    /\ IF focus = "sweep" THEN SweepNext ELSE UNCHANGED sweepVars
    /\ IF focus = "repin" THEN RepinNext ELSE UNCHANGED repinVars
    /\ IF focus = "release" THEN ReleaseNext ELSE UNCHANGED releaseVars
    /\ IF focus = "mutation" THEN MutationNext ELSE UNCHANGED mutationVars
    /\ IF focus = "enroll" THEN EnrollNext ELSE UNCHANGED enrollVars
    /\ IF focus = "bugs" THEN BugsNext ELSE UNCHANGED bugVars
    /\ IF focus = "reuse" THEN ReuseNext ELSE UNCHANGED reuseVars

vars == <<focus, claimVars, authVars, testVars, deadmanVars, imageVars, sweepVars,
          repinVars, releaseVars, mutationVars, enrollVars, bugVars, reuseVars>>

\* The fairness of RunTests is that of its event loop; the other parts are owed nothing.
Spec == Init /\ [][Next]_vars /\ WF_testVars(focus = "tests" /\ RunnerStep)

\* RunnerEnds, of the runs that step the test runner (run-tests.mjs:137-181).
TestRunnerEnds == focus = "tests" => RunnerEnds
================================================================================
