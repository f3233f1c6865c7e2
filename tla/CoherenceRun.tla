------------------------------ MODULE CoherenceRun ------------------------------
(***************************************************************************)
(* One run of the coherence service (hub/coherence/__main__.py, run) after *)
(* another over the same output directory, while people edit the tree and  *)
(* the specification.  A run goes through its gates in a fixed order, each *)
(* of which can refuse; evaluates its assertions one by one; and then      *)
(* writes its files one by one.  It can die between any two steps, and any *)
(* write can fail.                                                         *)
(*                                                                         *)
(* A digest is the content it is of.  A tree never returns to an earlier   *)
(* content.  attested and sealed are history: no guard reads them.         *)
(***************************************************************************)
EXTENDS AdoptionLadder, Sequences

CONSTANTS
    Edits,        \* bound: how often the subject, and the package, is edited
    PlanOf,       \* the assertions each content of the package plans, in order
    DependsOn,    \* the assertions an assertion depends on
    Verdicts,     \* per assertion and tree, what its evaluator would say
    Settings,     \* what is fixed for the repository and the host
    MaxRuns,      \* bound: how many runs start
    None

\* Contents of the subject and of the openspec package: each edit makes the next one.
Trees == 0..Edits
Specs == 0..Edits

Verdict == Outcomes \cup {"crash"}

ASSUME CoherenceAssumption ==
    /\ Edits \in Nat
    /\ PlanOf \in [Specs -> Seq(Assertions)]
    /\ DependsOn \in [Assertions -> SUBSET Assertions]
    /\ Verdicts \subseteq [Assertions -> [Trees -> Verdict]]
    /\ Settings \subseteq [ladder : Ladders, approved : SUBSET Assertions,
                            fresh : BOOLEAN, key : BOOLEAN]
    /\ MaxRuns \in Nat
    /\ None \notin Trees

VARIABLES
    tree, spec,   \* what is on disk
    verdict,      \* what an evaluator finds in a tree
    setting,      \* ladder, approved evaluators, semantics, signing key
    job,          \* the run under way, or the last one
    runs,         \* how many were started
    out,          \* the output directory: what each file says
    attested,     \* history: the decisions that were signed
    sealed        \* history: the decisions seal_run completed

world == <<tree, spec, verdict, setting>>
vars == <<world, job, runs, out, attested, sealed>>

-----------------------------------------------------------------------------
\* The gates before evaluation, and the class of a refusal at each.
Gates == <<"protocol", "request", "subject", "package", "context", "policy",
           "evaluator", "assertions", "overlay", "planning">>

Class(gate) ==
    CASE gate = "protocol" -> "protocol"
      [] gate \in {"context", "policy", "overlay"} -> "policy-resolution"
      [] OTHER -> "invalid-input"

After(gate) ==
    LET n == CHOOSE k \in DOMAIN Gates : Gates[k] = gate
    IN  IF n = Len(Gates) THEN "evaluation" ELSE Gates[n + 1]

Files == {"manifest", "result", "attestation", "envelope", "claim", "digest"}
Steps == {Gates[n] : n \in DOMAIN Gates}
         \cup {"evaluation", "adoption", "manifest", "result", "attestation",
               "envelope", "claim", "digest", "exited", "dead"}

\* No run so far.
Idle == [pc |-> "dead", tree |-> None, spec |-> None, plan |-> None, todo |-> <<>>,
         seen |-> None, rows |-> <<>>, error |-> FALSE, result |-> None,
         kept |-> TRUE, code |-> None]

Empty == [f \in Files |-> None]

Ladder == setting.ladder

\* attest.required.
SigningRequired == Ladder.stage >= 2 /\ setting.fresh

\* What evidence.seal writes: one object for each violated assertion.
Evidence == {a \in DOMAIN job.rows : job.rows[a] = "VIOLATED"}

ErrorResult(class) == [decision |-> "ERROR", class |-> class]

\* result.build.
Result ==
    [decision |-> Decide(Blocked(Ladder, job.rows), job.rows),
     tree |-> job.tree, spec |-> job.spec, plan |-> job.plan,
     rows |-> job.rows, evidence |-> Evidence]

Put(file, content) == out' = [out EXCEPT ![file] = content]

NoPut == UNCHANGED out
NoSeal == UNCHANGED <<attested, sealed>>

\* _fail: the error envelope goes to the output directory or, if that cannot be
\* written, elsewhere; the exit code is that of the class.
Fail(class) ==
    /\ \/ /\ Put("result", ErrorResult(class))
          /\ job' = [job EXCEPT !.pc = "exited", !.code = ErrorCode(class), !.kept = TRUE]
       \/ /\ NoPut
          /\ job' = [job EXCEPT !.pc = "exited", !.code = ErrorCode(class), !.kept = FALSE]
    /\ UNCHANGED <<world, runs>>
    /\ NoSeal

-----------------------------------------------------------------------------
Init ==
    /\ tree = 0
    /\ spec = 0
    /\ verdict \in Verdicts
    /\ setting \in Settings
    /\ job = Idle
    /\ runs = 0
    /\ out = Empty
    /\ attested = {} /\ sealed = {}

(* The world *)

EditTree ==
    /\ tree + 1 \in Trees
    /\ tree' = tree + 1
    /\ UNCHANGED <<spec, verdict, setting, job, runs, out, attested, sealed>>

EditSpec ==
    /\ spec + 1 \in Specs
    /\ spec' = spec + 1
    /\ UNCHANGED <<tree, verdict, setting, job, runs, out, attested, sealed>>

\* The process is killed, or the machine goes down.
Die ==
    /\ job.pc \notin {"exited", "dead"}
    /\ job' = [job EXCEPT !.pc = "dead"]
    /\ UNCHANGED <<world, runs, out, attested, sealed>>

(* A run *)

Start ==
    /\ job.pc \in {"exited", "dead"}
    /\ runs < MaxRuns
    /\ runs' = runs + 1
    /\ job' = [Idle EXCEPT !.pc = Gates[1]]
    /\ UNCHANGED <<world, out, attested, sealed>>

\* Each gate may refuse: a request of another version or shape, a digest that is not
\* the expected one, an untrusted context, a rolled-back policy, ...
Refuse ==
    /\ job.pc \in {Gates[n] : n \in DOMAIN Gates}
    /\ Fail(Class(job.pc))

\* The subject and the package are digested as they are read; the assertions
\* are read from disk once more, three gates later.
Pass ==
    /\ job.pc \in {Gates[n] : n \in DOMAIN Gates}
    /\ job' =
        [job EXCEPT !.pc = After(job.pc),
                    !.tree = IF job.pc = "subject" THEN tree ELSE @,
                    !.spec = IF job.pc = "package" THEN spec ELSE @,
                    !.plan = IF job.pc = "assertions" THEN spec ELSE @,
                    !.todo = IF job.pc = "planning" THEN PlanOf[job.plan] ELSE @]
    /\ UNCHANGED <<world, runs>>
    /\ NoPut /\ NoSeal

(* evaluate.run *)

This == Head(job.todo)

\* The verdict goes to the ledger; some verdicts are errors of the execution.
Record(outcome, isError) ==
    job' = [job EXCEPT !.rows = [a \in DOMAIN job.rows \cup {This} |->
                                    IF a = This THEN outcome ELSE job.rows[a]],
                       !.error = @ \/ isError,
                       !.todo = Tail(@),
                       !.seen = None]

Runnable ==
    \A b \in DependsOn[This] : b \in DOMAIN job.rows /\ job.rows[b] = "SATISFIED"

Evaluating == job.pc = "evaluation" /\ job.todo # <<>>

\* No evaluator is approved for it, or a captured fact it declares is missing.
Unapproved ==
    /\ Evaluating
    /\ This \notin setting.approved
    /\ job.seen = None
    /\ Record("UNRESOLVED", FALSE)
    /\ UNCHANGED <<world, runs>>
    /\ NoPut /\ NoSeal

DependencyBlocked ==
    /\ Evaluating
    /\ job.seen = None
    /\ This \in setting.approved
    /\ ~Runnable
    /\ Record("UNRESOLVED", TRUE)
    /\ UNCHANGED <<world, runs>>
    /\ NoPut /\ NoSeal

\* _mediated_call: the evaluator reads the tree as it is.
Evaluate ==
    /\ Evaluating
    /\ job.seen = None
    /\ This \in setting.approved
    /\ Runnable
    /\ job' = [job EXCEPT !.seen = tree]
    /\ UNCHANGED <<world, runs>>
    /\ NoPut /\ NoSeal

\* Defect: the tree is not looked at again after the evaluator.
TrustRow ==
    /\ Evaluating
    /\ job.seen # None
    /\ LET found == verdict[This][job.seen]
       IN  IF found = "crash" THEN Record("UNRESOLVED", TRUE) ELSE Record(found, FALSE)
    /\ UNCHANGED <<world, runs>>
    /\ NoPut /\ NoSeal

\* manifest.first_mutation: a tree that changed since it was digested takes the verdict
\* away, as a crash does.
CheckRow ==
    /\ Evaluating
    /\ job.seen # None
    /\ LET found == verdict[This][job.seen]
       IN  IF tree # job.tree \/ found = "crash"
           THEN Record("UNRESOLVED", TRUE)
           ELSE Record(found, FALSE)
    /\ UNCHANGED <<world, runs>>
    /\ NoPut /\ NoSeal

\* An error of the execution ends the run before the ladder.
EvaluationFails ==
    /\ job.pc = "evaluation"
    /\ job.todo = <<>>
    /\ job.error
    /\ Fail("execution")

EvaluationEnds ==
    /\ job.pc = "evaluation"
    /\ job.todo = <<>>
    /\ ~job.error
    /\ job' = [job EXCEPT !.pc = "adoption"]
    /\ UNCHANGED <<world, runs>>
    /\ NoPut /\ NoSeal

\* The adoption sets may be malformed, or not those bound in the context.
AdoptionRefused ==
    /\ job.pc = "adoption"
    /\ Fail("policy-resolution")

Adopt ==
    /\ job.pc = "adoption"
    /\ job' = [job EXCEPT !.pc = "manifest"]
    /\ UNCHANGED <<world, runs>>
    /\ NoPut /\ NoSeal

(* Sealing *)

\* evidence.seal: an object per finding, then the manifest that names them.
SealEvidence ==
    /\ job.pc = "manifest"
    /\ Put("manifest", Evidence)
    /\ job' = [job EXCEPT !.pc = "result", !.result = Result]
    /\ UNCHANGED <<world, runs>>
    /\ NoSeal

SealEvidenceFails ==
    /\ job.pc = "manifest"
    /\ Fail("evidence")

\* seal_run begins with the decision; where it landed makes no difference to it.
EmitResult ==
    /\ job.pc = "result"
    /\ \/ /\ Put("result", job.result)
          /\ job' = [job EXCEPT !.pc = "attestation", !.kept = TRUE]
       \/ /\ NoPut
          /\ job' = [job EXCEPT !.pc = "attestation", !.kept = FALSE]
    /\ UNCHANGED <<world, runs>>
    /\ NoSeal

\* Defect: an attestation that cannot be written is passed over.
AttestLeniently ==
    /\ job.pc = "attestation"
    /\ job' = [job EXCEPT !.pc = "envelope"]
    /\ \/ /\ SigningRequired
          /\ Put("attestation", [states |-> job.result])
          /\ attested' = attested \cup {job.result}
       \/ NoPut /\ UNCHANGED attested
    /\ UNCHANGED <<world, runs, sealed>>

\* Defect: the claim is written before the envelope.
ClaimEarly ==
    /\ job.pc = "attestation"
    /\ ~SigningRequired
    /\ Put("claim", job.result)
    /\ job' = [job EXCEPT !.pc = "envelope"]
    /\ UNCHANGED <<world, runs>>
    /\ NoSeal

\* sign and emit the attestation, where it is required.
Attest ==
    /\ job.pc = "attestation"
    /\ job' = [job EXCEPT !.pc = "envelope"]
    /\ \/ /\ SigningRequired
          /\ setting.key
          /\ Put("attestation", [states |-> job.result])
          /\ attested' = attested \cup {job.result}
       \/ /\ ~SigningRequired
          /\ NoPut
          /\ UNCHANGED attested
    /\ UNCHANGED <<world, runs, sealed>>

\* No key, no image digest, or a write that failed; also of the envelope.
AttestFails ==
    /\ \/ job.pc = "attestation" /\ SigningRequired
       \/ job.pc = "envelope"
    /\ Fail("attestation")

EmitEnvelope ==
    /\ job.pc = "envelope"
    /\ Put("envelope", [decision |-> job.result.decision, signed |-> SigningRequired])
    /\ sealed' = sealed \cup {job.result}
    /\ job' = [job EXCEPT !.pc = "claim", !.code = CodeOf(job.result.decision)]
    /\ UNCHANGED <<world, runs, attested>>

\* _emit_decision_claim: the claim, then its digest; a failure is only a warning.
EmitClaim ==
    /\ job.pc = "claim"
    /\ Put("claim", job.result)
    /\ job' = [job EXCEPT !.pc = "digest"]
    /\ UNCHANGED <<world, runs>>
    /\ NoSeal

EmitClaimDigest ==
    /\ job.pc = "digest"
    /\ Put("digest", job.result)
    /\ job' = [job EXCEPT !.pc = "exited"]
    /\ UNCHANGED <<world, runs>>
    /\ NoSeal

EmitClaimFails ==
    /\ job.pc \in {"claim", "digest"}
    /\ job' = [job EXCEPT !.pc = "exited"]
    /\ UNCHANGED <<world, runs>>
    /\ NoPut /\ NoSeal

RunStep ==
    \/ Refuse \/ Pass
    \/ Unapproved \/ DependencyBlocked \/ Evaluate \/ CheckRow
    \/ EvaluationFails \/ EvaluationEnds
    \/ AdoptionRefused \/ Adopt
    \/ SealEvidence \/ SealEvidenceFails
    \/ EmitResult \/ Attest \/ AttestFails \/ EmitEnvelope
    \/ EmitClaim \/ EmitClaimDigest \/ EmitClaimFails

Environment == EditTree \/ EditSpec \/ Die

-----------------------------------------------------------------------------
(* What consumers accept *)

\* Defect: the attestation is not compared with the decision.
AcceptedUncompared ==
    /\ \A f \in {"result", "attestation", "manifest"} : out[f] # None
    /\ out["manifest"] = out["attestation"].states.evidence

\* attest.verify, for an approved signer: the attestation states this very decision,
\* and the evidence is what it bound.
Accepted ==
    /\ \A f \in {"result", "attestation", "manifest"} : out[f] # None
    /\ out["attestation"].states = out["result"]
    /\ out["manifest"] = out["attestation"].states.evidence

\* attest.verify_promotion.
Promotable(candidate) == Accepted /\ out["attestation"].states.tree = candidate

-----------------------------------------------------------------------------
Decisions == {r \in {out["result"]} : r # None /\ r.decision # "ERROR"}

\* Types.  A run in the sealing steps has a result; its rows are of planned assertions.
TypeOK ==
    /\ tree \in Trees /\ spec \in Specs
    /\ verdict \in Verdicts /\ setting \in Settings
    /\ runs \in 0..MaxRuns
    /\ job.pc \in Steps
    /\ job.tree \in Trees \cup {None} /\ job.seen \in Trees \cup {None}
    /\ {job.spec, job.plan} \subseteq Specs \cup {None}
    /\ job.code \in Codes \cup {None}
    /\ DOMAIN job.rows \subseteq Assertions
    /\ job.pc \in {"result", "attestation", "envelope", "claim", "digest"} => job.result # None
    /\ DOMAIN out = Files

\* Moving a repository up the ladder never unblocks what blocked, whatever was found:
\* the stages only take shelter away (adoption.py:37-52, 138-172).
LadderMonotone ==
    \A rows \in [Assertions -> Outcomes], t \in Ladder.stage..4 :
        Blocked(Ladder, rows) => Blocked([Ladder EXCEPT !.stage = t], rows)

\* Every row a decision calls satisfied is so in the very tree the decision names, and
\* every planned assertion has its row, though the tree may change at any moment of the
\* run: "mutation mid-run is ERROR, never a mixed-content pass" (evaluate.py:30, 117-132).
NeverMixed ==
    \A r \in attested \cup sealed \cup Decisions :
        /\ DOMAIN r.rows = {PlanOf[r.plan][n] : n \in DOMAIN PlanOf[r.plan]}
        /\ \A a \in DOMAIN r.rows :
               r.rows[a] = "SATISFIED" => verdict[a][r.tree] = "SATISFIED"
        /\ \A a \in r.evidence : verdict[a][r.tree] = "VIOLATED"

\* A run that exits 0, 10 or 20 leaves all it owes: manifest, envelope and, where it is
\* required, the attestation of this very decision (attest.seal_run, _fail).
SuccessIsSealed ==
    job.pc = "exited" /\ job.code \notin Errors =>
        /\ job.result \in sealed
        /\ out["manifest"] = job.result.evidence
        /\ out["envelope"].decision = job.result.decision
        /\ SigningRequired => out["attestation"] = [states |-> job.result]

\* A claim in the directory describes a decision that was sealed, whichever run left it
\* and wherever that run or a later one died (__main__.py:296-303).
ClaimsAreOfSealed == out["claim"] # None => out["claim"] \in sealed

\* Whatever mixture of the files of several runs the directory holds, what verify
\* accepts is one decision that was signed under a ladder that required it, and the
\* candidate it may promote is the tree whose satisfied rows it lists (attest.verify).
AcceptedWasDecided ==
    /\ Accepted => out["result"] \in attested /\ SigningRequired
    /\ \A candidate \in Trees :
           Promotable(candidate) =>
               \A a \in DOMAIN out["result"].rows :
                   out["result"].rows[a] = "SATISFIED" => verdict[a][candidate] = "SATISFIED"
================================================================================
