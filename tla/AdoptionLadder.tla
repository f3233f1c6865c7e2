----------------------------- MODULE AdoptionLadder -----------------------------
(***************************************************************************)
(* The adoption ladder (hub/coherence/adoption.py) and the decision matrix *)
(* (result.py), as functions of what a run has found and of what central   *)
(* policy lets it forgive.                                                 *)
(*                                                                         *)
(* A ladder is a record: the stage of the repository, the assertions whose *)
(* debt its baseline names (open), those of them whose severity central    *)
(* policy has raised since (raised), the assertions an exception covers    *)
(* that has not expired (live) or has (expired), the core assertions, and  *)
(* whether the advisory age cap has been exceeded (capped).  An assertion  *)
(* has one finding at most here, so it stands for its fingerprint too.     *)
(***************************************************************************)
EXTENDS Integers

CONSTANT Assertions

Outcomes == {"SATISFIED", "VIOLATED", "UNRESOLVED"}

Ladders == [stage : 0..4, open : SUBSET Assertions, raised : SUBSET Assertions,
            live : SUBSET Assertions, expired : SUBSET Assertions,
            core : SUBSET Assertions, capped : BOOLEAN]

\* Defect: enforced-full forgets to end the shelter.
ShelterEndsAtCore(ladder, a) == ladder.stage = 3 /\ a \in ladder.core

\* _shelter_ends: for the core at stage 3, for everything at stage 4.
ShelterEnds(ladder, a) ==
    \/ ladder.stage >= 4
    \/ ladder.stage = 3 /\ a \in ladder.core

\* Named debt that nothing has called in.
Sheltered(ladder, a) ==
    /\ a \in ladder.open \ ladder.raised
    /\ ~ladder.capped
    /\ ~ShelterEnds(ladder, a)

\* evaluate, the loop over findings: an expired exception counts before a live one.
Enforcement(ladder, a) ==
    CASE ladder.stage < 2        -> "ADVISORY"
      [] a \in ladder.expired    -> "BLOCK"
      [] a \in ladder.live       -> "EXCEPTION-ADVISORY"
      [] Sheltered(ladder, a)    -> "ADVISORY"
      [] OTHER                   -> "BLOCK"

\* evaluate, the loop over the ledger: what is unresolved blocks from stage 2 on.
Blocked(ladder, rows) ==
    \E a \in DOMAIN rows :
        \/ rows[a] = "VIOLATED" /\ Enforcement(ladder, a) = "BLOCK"
        \/ rows[a] = "UNRESOLVED" /\ ladder.stage >= 2

\* result.decide without an error class.
Decide(blocked, rows) ==
    CASE blocked                                          -> "FAIL"
      [] \E a \in DOMAIN rows : rows[a] # "SATISFIED"      -> "ADVISORY"
      [] OTHER                                            -> "PASS"

\* The exit codes of result.py: one per decision, and one per class of error.
CodeOf(decision) ==
    CASE decision = "PASS" -> 0
      [] decision = "ADVISORY" -> 10
      [] decision = "FAIL" -> 20

ErrorCode(class) ==
    CASE class = "invalid-input" -> 30
      [] class = "policy-resolution" -> 31
      [] class = "execution" -> 32
      [] class \in {"evidence", "attestation"} -> 33
      [] class = "protocol" -> 40

Errors == {30, 31, 32, 33, 40}
Codes == {0, 10, 20} \cup Errors
================================================================================
