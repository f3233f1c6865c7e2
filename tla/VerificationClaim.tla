--------------------------- MODULE VerificationClaim ---------------------------
(***************************************************************************)
(* A verification claim (hub/coherence/verification.py): the actor binds   *)
(* the contents its truth depends on and walks it up the ladder; only an   *)
(* independent verifier takes it to VERIFIED.  The verifier is a callback, *)
(* so while it runs the actor goes on with the same claim and the contents *)
(* change, there and back.  The caller passes no digests, a copy of them,  *)
(* or a dictionary it keeps up to date.                                    *)
(*                                                                         *)
(* yes is history: what was so when the last verifier agreed.              *)
(***************************************************************************)
EXTENDS Integers, Sequences

CONSTANTS Roles, Contents, Unset

Given == {"none", "copy", "live"}

Bindings == [Roles -> Contents \cup {Unset}]
Agreements == [given : Given, bound : Bindings, at : [Roles -> Contents]]

ASSUME ClaimAssumption == Unset \notin Contents \cup Agreements

VARIABLES
    claim,     \* its state, the content bound in each role, the verifier's verdict
    reality,   \* the content in each role
    check,     \* the call of the verifier under way
    yes

claimVars == <<claim, reality, check, yes>>

LADDER == <<"REQUESTED", "PLANNED", "ATTEMPTED", "EXECUTED", "COMPLETED", "TESTED",
            "OBSERVED", "VERIFIED">>
Rungs == {LADDER[n] : n \in DOMAIN LADDER}
Terminal == {"BLOCKED", "FAILED", "UNKNOWN"}

Forward(current, target) ==
    \/ \E n \in 1..Len(LADDER) - 1 : current = LADDER[n] /\ target = LADDER[n + 1]
    \/ current = "REQUESTED" /\ target = "ATTEMPTED"

\* Defect: a verifier may certify a claim in any state.
CertifiesAnything(current, target) ==
    current = target \/ target \in Terminal \/ target = "VERIFIED" \/ Forward(current, target)

can_transition(current, target) ==
    \/ current = target
    \/ target \in Terminal
    \/ target = "VERIFIED" /\ current \in Rungs
    \/ Forward(current, target)

\* Is some bound content not the observed one?
Stale(observed) ==
    \E role \in Roles : claim.bound[role] \notin {Unset, observed[role]}

\* revalidate.
Effective == IF Stale(reality) THEN "UNKNOWN" ELSE claim.state

NotAsked == [pc |-> "idle", given |-> "none", seen |-> Unset]

-----------------------------------------------------------------------------
ClaimInit ==
    /\ claim = [state |-> "REQUESTED", bound |-> [role \in Roles |-> Unset], ok |-> Unset]
    /\ reality \in [Roles -> Contents]
    /\ check = NotAsked
    /\ yes = Unset

Change(role) ==
    /\ \E content \in Contents \ {reality[role]} :
          reality' = [reality EXCEPT ![role] = content]
    /\ UNCHANGED <<claim, check, yes>>

\* bind: again, if the actor likes, and whatever the state.
Bind(role) ==
    /\ claim' = [claim EXCEPT !.bound[role] = reality[role]]
    /\ UNCHANGED <<reality, check, yes>>

\* Defect: the actor certifies itself.
SelfCertify(target) ==
    /\ can_transition(claim.state, target)
    /\ claim' = [claim EXCEPT !.state = target]
    /\ UNCHANGED <<reality, check, yes>>

\* transition, called by the actor.
Transition(target) ==
    /\ target = "VERIFIED" => claim.state = "VERIFIED"
    /\ can_transition(claim.state, target)
    /\ claim' = [claim EXCEPT !.state = target]
    /\ UNCHANGED <<reality, check, yes>>

\* verify_independently up to the call; a stale claim is refused with nothing recorded.
Ask(given) ==
    /\ check.pc = "idle"
    /\ given # "none" => ~Stale(reality)
    /\ check' = [pc |-> "asked", given |-> given, seen |-> reality]
    /\ UNCHANGED <<claim, reality, yes>>

Refute ==
    /\ check.pc = "asked"
    /\ claim' = [claim EXCEPT !.ok = FALSE, !.state = "FAILED"]
    /\ check' = NotAsked
    /\ UNCHANGED <<reality, yes>>

\* The digests as the caller's dictionary has them after the call.
Observed == IF check.given = "live" THEN reality ELSE check.seen

\* Defect: the digests are not compared again after the verifier.
LastLookSkipped == FALSE

\* The second look at the digests finds a bound content gone.
LastLookFails == check.given # "none" /\ Stale(Observed)

\* The verdict is recorded first.  A claim that became terminal under the verifier makes
\* the last transition raise, and keeps its state beside a verdict of yes.
Confirm ==
    /\ check.pc = "asked"
    /\ claim' =
        [claim EXCEPT !.ok = TRUE,
                      !.state = CASE LastLookFails -> "UNKNOWN"
                                  [] ~LastLookFails /\ can_transition(@, "VERIFIED") -> "VERIFIED"
                                  [] OTHER -> @]
    /\ yes' = [given |-> check.given, bound |-> claim.bound, at |-> reality]
    /\ check' = NotAsked
    /\ UNCHANGED reality

\* The verifier raises.
NoAnswer ==
    /\ check.pc = "asked"
    /\ check' = NotAsked
    /\ UNCHANGED <<claim, reality, yes>>

ClaimNext ==
    \/ \E role \in Roles : Change(role) \/ Bind(role)
    \/ \E target \in Rungs \cup Terminal : Transition(target)
    \/ \E given \in Given : Ask(given)
    \/ Refute \/ Confirm \/ NoAnswer

ClaimSpec == ClaimInit /\ [][ClaimNext]_claimVars

-----------------------------------------------------------------------------
ClaimTypeOK ==
    /\ claim \in [state : Rungs \cup Terminal, bound : Bindings, ok : {Unset, TRUE, FALSE}]
    /\ reality \in [Roles -> Contents]
    /\ check \in [pc : {"idle", "asked"}, given : Given, seen : [Roles -> Contents] \cup {Unset}]
    /\ yes \in Agreements \cup {Unset}

\* A claim that says VERIFIED carries the yes of a verifier, the last one asked; an actor
\* cannot certify itself, not by any order of calls (verification.py:93-116, 186-221).
VerifiedIsIndependent ==
    claim.state = "VERIFIED" => claim.ok = TRUE /\ yes # Unset

\* "a recovery is a new claim referencing the old one, never an edit of a FAILED claim
\* into VERIFIED", not even by a verifier that was asked before the claim failed
\* (verification.py:52-53).
TerminalIsFinal == [][claim.state \in Terminal => claim'.state \in Terminal]_claimVars

\* A claim that revalidates as VERIFIED, of a verifier whose caller kept the digests up to
\* date, and not rebound since: every bound content is now what it was when the verifier
\* agreed (verification.py:160-221).
ReliedOnIsCurrent ==
    Effective = "VERIFIED" /\ yes.given = "live" /\ claim.bound = yes.bound =>
        \A role \in Roles : claim.bound[role] # Unset => reality[role] = yes.at[role]
================================================================================
