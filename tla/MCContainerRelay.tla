---------------------------- MODULE MCContainerRelay ----------------------------
(***************************************************************************)
(* Two assertions, the second of which depends on the first; a package     *)
(* that plans both and after an edit only the first; a tree edited once;   *)
(* two launches into one output directory.                                 *)
(***************************************************************************)
EXTENDS ContainerRelay, TLC

MCAssertions == {"core", "lint"}
MCPlanOf == 0 :> <<"core", "lint">> @@ 1 :> <<"core">>
MCDependsOn == [core |-> {}, lint |-> {"core"}]

\* What the evaluators say before and after the edit.
Both(before, after) == 0 :> before @@ 1 :> after
Holds == Both("SATISFIED", "SATISFIED")

MCVerdicts ==
    {[core |-> Both("SATISFIED", "VIOLATED"), lint |-> Both("UNRESOLVED", "SATISFIED")],
     [core |-> Both("VIOLATED", "SATISFIED"), lint |-> Holds],
     [core |-> Holds, lint |-> Both("VIOLATED", "crash")]}

\* Observation, the ratchet with its signing key, a replay under the enforced core.
On(stage, key, fresh, approved) ==
    [ladder |-> [stage |-> stage, open |-> {"core"}, raised |-> {}, live |-> {},
                 expired |-> {}, core |-> {"core"}, capped |-> FALSE],
     approved |-> approved, key |-> key, fresh |-> fresh]

MCSettings == {On(0, FALSE, TRUE, {"core"}), On(2, TRUE, TRUE, MCAssertions),
               On(3, TRUE, FALSE, MCAssertions)}
================================================================================
