----------------------------- MODULE CoherenceProofs -----------------------------
(***************************************************************************)
(* Proofs about CoherenceRun and ContainerRelay, for any assertions,       *)
(* plans, dependencies, verdicts and settings, and any number of edits and *)
(* runs.                                                                   *)
(***************************************************************************)
EXTENDS ContainerRelay, TLAPS

\* The fields of the records, and the files of the directory.
ShapeInv ==
    /\ job = [pc |-> job.pc, tree |-> job.tree, spec |-> job.spec, plan |-> job.plan,
              todo |-> job.todo, seen |-> job.seen, rows |-> job.rows, error |-> job.error,
              result |-> job.result, kept |-> job.kept, code |-> job.code]
    /\ out = [f \in Files |-> out[f]]
    /\ host = [pc |-> host.pc, status |-> host.status, exit |-> host.exit,
               read |-> host.read, code |-> host.code]

GateNames == {"protocol", "request", "subject", "package", "context", "policy",
              "evaluator", "assertions", "overlay", "planning"}
Sealing == {"attestation", "envelope", "claim", "digest"}

Planned(plan) == {PlanOf[plan][n] : n \in DOMAIN PlanOf[plan]}

\* The rows are true of the tree that was digested.
RowsTrue ==
    \A a \in DOMAIN job.rows :
        job.rows[a] \in {"SATISFIED", "VIOLATED"} => verdict[a][job.tree] = job.rows[a]

\* A decision that mixes nothing.
Good(r) ==
    /\ DOMAIN r.rows = Planned(r.plan)
    /\ \A a \in DOMAIN r.rows :
           r.rows[a] = "SATISFIED" => verdict[a][r.tree] = "SATISFIED"
    /\ \A a \in r.evidence : verdict[a][r.tree] = "VIOLATED"

\* What a run has read by each step.  The tree an evaluator saw lies between the one
\* that was digested and the one on disk, so that it is both if they are one.
ReadInv ==
    /\ tree \in Trees /\ spec \in Specs /\ verdict \in Verdicts /\ setting \in Settings
    /\ job.pc \in GateNames => DOMAIN job.rows = {} /\ job.seen = None
    /\ job.pc \in (GateNames \ {"protocol", "request", "subject"}) \cup {"evaluation"} =>
           job.tree \in 0..tree
    /\ job.pc \in {"overlay", "planning"} => job.plan \in Specs
    /\ job.pc = "evaluation" => job.seen = None \/ job.seen \in job.tree..tree

\* The rows of a run, from the plan to the result.
RowsInv ==
    /\ job.pc = "evaluation" =>
           /\ job.todo \in Seq(Assertions)
           /\ DOMAIN job.rows \cup {job.todo[n] : n \in DOMAIN job.todo} = Planned(job.plan)
    /\ job.pc \in {"adoption", "manifest"} => DOMAIN job.rows = Planned(job.plan)
    /\ job.pc \in {"evaluation", "adoption", "manifest"} => RowsTrue
    /\ job.pc \in {"result"} \cup Sealing => Good(job.result)

\* The decisions that left the run.
DecidedInv ==
    /\ \A r \in attested \cup sealed : Good(r)
    /\ out["result"] # None /\ out["result"].decision # "ERROR" => Good(out["result"])

\* What a run owes the directory at each step.
Owed(pc) ==
    /\ pc \in {"result"} \cup Sealing \cup {"exited"} =>
           out["manifest"] = job.result.evidence
    /\ pc \in {"envelope", "claim", "digest", "exited"} /\ SigningRequired =>
           out["attestation"] = [states |-> job.result]
    /\ pc \in {"claim", "digest", "exited"} =>
           /\ job.result \in sealed
           /\ out["envelope"].decision = job.result.decision

SealInv ==
    /\ (job.pc = "exited" /\ job.code \in Errors) \/ Owed(job.pc)
    /\ out["claim"] # None => out["claim"] \in sealed
    /\ out["attestation"] # None =>
           out["attestation"].states \in attested /\ SigningRequired

\* What the host knows of the container.
HostInv ==
    /\ host.pc \in {"exited", "waiting", "read", "compare"}
    /\ host.pc = "compare" => host.status = "completed"
    /\ host.pc \in {"read", "compare"} /\ host.status = "completed" =>
           /\ ~Alive
           /\ host.exit # None => job.pc = "exited" /\ job.code = host.exit
    /\ /\ host.pc = "waiting" \/ (host.pc = "read" /\ host.status = "completed")
       /\ job.pc \in Sealing \/ (job.pc = "exited" /\ job.code \notin Errors)
       /\ job.kept
       => out["result"] = job.result
    /\ host.pc = "compare" /\ host.exit \notin Errors \cup {None} /\ job.kept =>
           host.read = job.result
    /\ host.pc = "exited" /\ host.code \notin Errors \cup {None} => job.pc = "exited"
    /\ RelayHonest

RunInv == ShapeInv /\ ReadInv /\ RowsInv /\ DecidedInv /\ SealInv /\ HostInv

-----------------------------------------------------------------------------
LEMMA RunInitially == HInit => RunInv
  <1> SUFFICES ASSUME HInit PROVE RunInv
    OBVIOUS
  <1>1. ShapeInv
    BY DEF HInit, Init, Idle, Empty, NoLaunch, ShapeInv, Files
  <1>2. job.pc = "dead" /\ host.pc = "exited" /\ host.code = None
        /\ out = [f \in Files |-> None] /\ attested = {} /\ sealed = {}
    BY DEF HInit, Init, Idle, Empty, NoLaunch
  <1>3. ReadInv
    BY <1>2, CoherenceAssumption DEF HInit, Init, ReadInv, GateNames, Specs, Trees
  <1>4. RowsInv /\ DecidedInv /\ SealInv /\ HostInv
    BY <1>2 DEF RowsInv, DecidedInv, SealInv, HostInv, Owed, Sealing, RelayHonest, Files
  <1> QED
    BY <1>1, <1>3, <1>4 DEF RunInv

LEMMA ErrorCodeIs ==
    ASSUME NEW class \in {"protocol", "policy-resolution", "invalid-input",
                          "execution", "evidence", "attestation"}
    PROVE  ErrorCode(class) \in Errors
  BY DEF ErrorCode, Errors

LEMMA GateOrder ==
    /\ \A gate \in GateNames : After(gate) \in GateNames \cup {"evaluation"}
    /\ After("protocol") = "request" /\ After("request") = "subject"
    /\ After("assertions") = "overlay" /\ After("overlay") = "planning"
    /\ After("planning") = "evaluation"
    /\ \A gate \in GateNames \ {"planning"} : After(gate) # "evaluation"
    /\ \A gate \in GateNames \ {"assertions", "overlay"} : After(gate) \notin {"overlay", "planning"}
    /\ \A gate \in GateNames \ {"protocol", "request"} :
           After(gate) \notin {"protocol", "request", "subject"}
    /\ GateNames = {Gates[n] : n \in DOMAIN Gates}
  <1>1. Len(Gates) = 10 /\ DOMAIN Gates = 1..10
    BY DEF Gates
  <1>2. /\ Gates[1] = "protocol" /\ Gates[2] = "request" /\ Gates[3] = "subject"
        /\ Gates[4] = "package" /\ Gates[5] = "context" /\ Gates[6] = "policy"
        /\ Gates[7] = "evaluator" /\ Gates[8] = "assertions" /\ Gates[9] = "overlay"
        /\ Gates[10] = "planning"
    BY DEF Gates
  <1>3. ASSUME NEW n \in 1..10, NEW m \in 1..10, Gates[n] = Gates[m]
        PROVE  n = m
    BY <1>2, <1>3
  <1>4. ASSUME NEW n \in 1..10
        PROVE  After(Gates[n]) = IF n = 10 THEN "evaluation" ELSE Gates[n + 1]
    <2>1. (CHOOSE k \in DOMAIN Gates : Gates[k] = Gates[n]) = n
      BY <1>1, <1>3
    <2> QED
      BY <2>1, <1>1 DEF After
  <1>5. GateNames = {Gates[n] : n \in DOMAIN Gates}
    BY <1>1, <1>2 DEF GateNames
  <1>6. /\ After("protocol") = "request" /\ After("request") = "subject"
        /\ After("subject") = "package" /\ After("package") = "context"
        /\ After("context") = "policy" /\ After("policy") = "evaluator"
        /\ After("evaluator") = "assertions" /\ After("assertions") = "overlay"
        /\ After("overlay") = "planning" /\ After("planning") = "evaluation"
    BY <1>2, <1>4
  <1> QED
    BY <1>5, <1>6 DEF GateNames

\* A run that fails leaves the error, or nothing, in place of the result.
LEMMA FailStep ==
    ASSUME RunInv, UNCHANGED host,
           NEW class \in {"protocol", "policy-resolution", "invalid-input",
                          "execution", "evidence", "attestation"},
           job.pc \in GateNames \cup {"evaluation", "adoption", "manifest"} \cup Sealing,
           Fail(class)
    PROVE  RunInv'
  <1> USE DEF RunInv, Fail, ErrorResult, Put, NoPut, NoSeal, world, vars
  <1>1. ShapeInv'
    BY DEF ShapeInv, Files
  <1>2. ReadInv'
    BY DEF ReadInv, ShapeInv, GateNames, Trees, Specs
  <1>3. RowsInv'
    <2>1. job'.pc = "exited"
      BY DEF ShapeInv
    <2> QED
      BY <2>1 DEF RowsInv, Sealing
  <1>4. DecidedInv'
    BY DEF DecidedInv, RowsInv, ShapeInv, Good, Sealing, Files
  <1>5. SealInv'
    BY ErrorCodeIs DEF SealInv, Owed, ShapeInv, Files, Sealing, SigningRequired, Ladder, GateNames
  <1>6. HostInv'
    BY ErrorCodeIs DEF HostInv, ShapeInv, Alive, Sealing, RelayHonest, GateNames, Files
  <1> QED
    BY <1>1, <1>2, <1>3, <1>4, <1>5, <1>6

\* The tree moves on; what a run has read of it stays behind.
LEMMA EditTreeStep ==
    ASSUME RunInv, EditTree, UNCHANGED host
    PROVE  RunInv'
  <1> USE DEF RunInv, EditTree
  <1>1. ShapeInv'
    BY DEF ShapeInv
  <1>2. ReadInv'
    BY CoherenceAssumption DEF ReadInv, GateNames, Trees, Specs
  <1>3. RowsInv'
    BY DEF RowsInv, ShapeInv, RowsTrue, Good, Sealing, GateNames
  <1>4. DecidedInv'
    BY DEF DecidedInv, RowsInv, ShapeInv, Good, Sealing
  <1>5. SealInv'
    BY DEF SealInv, Owed, ShapeInv, Files, Sealing, SigningRequired, Ladder, GateNames
  <1>6. HostInv'
    BY DEF HostInv, ShapeInv, Alive, Sealing, RelayHonest, GateNames
  <1> QED
    BY <1>1, <1>2, <1>3, <1>4, <1>5, <1>6

\* The package moves on.
LEMMA EditSpecStep ==
    ASSUME RunInv, EditSpec, UNCHANGED host
    PROVE  RunInv'
  <1> USE DEF RunInv, EditSpec
  <1>1. ShapeInv'
    BY DEF ShapeInv
  <1>2. ReadInv'
    BY CoherenceAssumption DEF ReadInv, GateNames, Trees, Specs
  <1>3. RowsInv'
    BY DEF RowsInv, ShapeInv, RowsTrue, Good, Sealing, GateNames
  <1>4. DecidedInv'
    BY DEF DecidedInv, RowsInv, ShapeInv, Good, Sealing
  <1>5. SealInv'
    BY DEF SealInv, Owed, ShapeInv, Files, Sealing, SigningRequired, Ladder, GateNames
  <1>6. HostInv'
    BY DEF HostInv, ShapeInv, Alive, Sealing, RelayHonest, GateNames
  <1> QED
    BY <1>1, <1>2, <1>3, <1>4, <1>5, <1>6

\* A run that dies leaves its files where they are.
LEMMA DieStep ==
    ASSUME RunInv, Die, UNCHANGED host
    PROVE  RunInv'
  <1> USE DEF RunInv, Die, world
  <1>1. ShapeInv'
    BY DEF ShapeInv
  <1>2. ReadInv'
    BY DEF ReadInv, ShapeInv, GateNames
  <1>3. RowsInv'
    BY DEF RowsInv, ShapeInv, RowsTrue, Good, Sealing, GateNames
  <1>4. DecidedInv'
    BY DEF DecidedInv, RowsInv, ShapeInv, Good, Sealing
  <1>5. SealInv'
    BY DEF SealInv, Owed, ShapeInv, Files, Sealing, SigningRequired, Ladder, GateNames
  <1>6. HostInv'
    BY DEF HostInv, ShapeInv, Alive, Sealing, RelayHonest, GateNames
  <1> QED
    BY <1>1, <1>2, <1>3, <1>4, <1>5, <1>6

\* A gate passes: the digests of tree and package are taken, the plan is made.
LEMMA PassStep ==
    ASSUME RunInv, Pass, UNCHANGED host
    PROVE  RunInv'
  <1> USE DEF RunInv
  <1>1. /\ job.pc \in GateNames
        /\ job'.pc = After(job.pc)
        /\ job'.tree = IF job.pc = "subject" THEN tree ELSE job.tree
        /\ job'.plan = IF job.pc = "assertions" THEN spec ELSE job.plan
        /\ job'.todo = IF job.pc = "planning" THEN PlanOf[job.plan] ELSE job.todo
        /\ job'.seen = job.seen /\ job'.rows = job.rows
        /\ UNCHANGED <<tree, spec, verdict, setting, out, attested, sealed, host>>
    BY GateOrder DEF Pass, ShapeInv, NoPut, NoSeal, world
  <1>2. job'.pc \in GateNames \cup {"evaluation"}
    BY <1>1, GateOrder
  <1>3. ShapeInv'
    BY DEF Pass, ShapeInv, Files, NoPut
  <1>4. ReadInv'
    <2>1. /\ tree' \in Trees /\ spec' \in Specs /\ verdict' \in Verdicts
          /\ setting' \in Settings
          /\ DOMAIN job'.rows = {} /\ job'.seen = None
      BY <1>1 DEF ReadInv
    <2>2. ASSUME job'.pc \in (GateNames \ {"protocol", "request", "subject"}) \cup {"evaluation"}
          PROVE  job'.tree \in 0..tree'
      <3>1. CASE job.pc = "subject"
        BY <1>1, <3>1, CoherenceAssumption DEF ReadInv, Trees
      <3>2. CASE job.pc \in {"protocol", "request"}
        BY <1>1, <2>2, <3>2, GateOrder DEF GateNames
      <3>3. CASE job.pc \notin {"protocol", "request", "subject"}
        BY <1>1, <3>3 DEF ReadInv
      <3> QED
        BY <3>1, <3>2, <3>3
    <2>3. ASSUME job'.pc \in {"overlay", "planning"} PROVE job'.plan \in Specs
      <3>1. job.pc \in {"assertions", "overlay"}
        BY <1>1, <2>3, GateOrder
      <3> QED
        BY <1>1, <3>1 DEF ReadInv
    <2> QED
      BY <2>1, <2>2, <2>3 DEF ReadInv
  <1>5. RowsInv'
    <2>1. ASSUME job'.pc = "evaluation"
          PROVE  /\ job'.todo \in Seq(Assertions) /\ DOMAIN job'.rows = {}
                 /\ {job'.todo[n] : n \in DOMAIN job'.todo} = Planned(job'.plan)
      <3>1. job.pc = "planning"
        BY <1>1, <2>1, GateOrder
      <3>2. job.plan \in Specs
        BY <3>1 DEF ReadInv
      <3> QED
        BY <1>1, <3>1, <3>2, CoherenceAssumption DEF ReadInv, Planned
    <2> QED
      BY <1>2, <2>1 DEF RowsInv, RowsTrue, GateNames, Sealing
  <1>6. DecidedInv'
    BY <1>1 DEF DecidedInv, Good
  <1>7. SealInv' /\ HostInv'
    BY <1>1, <1>2 DEF SealInv, Owed, SigningRequired, Ladder, HostInv, RelayHonest, Alive,
                      Sealing, GateNames
  <1> QED
    BY <1>3, <1>4, <1>5, <1>6, <1>7

\* The evaluator reads the tree on disk, which is the digested one or a later.
LEMMA EvaluateStep ==
    ASSUME RunInv, Evaluate, UNCHANGED host
    PROVE  RunInv'
  <1> USE DEF RunInv, Evaluate, Evaluating, NoPut, NoSeal, world
  <1>1. ShapeInv'
    BY DEF ShapeInv
  <1>2. ReadInv'
    BY CoherenceAssumption DEF ReadInv, ShapeInv, GateNames, Trees
  <1>3. RowsInv'
    BY DEF RowsInv, ShapeInv, RowsTrue, Good, Sealing, GateNames
  <1>4. DecidedInv'
    BY DEF DecidedInv, RowsInv, ShapeInv, Good, Sealing
  <1>5. SealInv'
    BY DEF SealInv, Owed, ShapeInv, Files, Sealing, SigningRequired, Ladder, GateNames
  <1>6. HostInv'
    BY DEF HostInv, ShapeInv, Alive, Sealing, RelayHonest, GateNames
  <1> QED
    BY <1>1, <1>2, <1>3, <1>4, <1>5, <1>6

\* Evaluation and adoption end: the rows are those of the plan.
LEMMA PhaseStep ==
    ASSUME RunInv, EvaluationEnds \/ Adopt, UNCHANGED host
    PROVE  RunInv'
  <1> USE DEF RunInv, EvaluationEnds, Adopt, NoPut, NoSeal, world
  <1>1. ShapeInv'
    BY DEF ShapeInv
  <1>2. ReadInv'
    BY DEF ReadInv, ShapeInv, GateNames
  <1>3. RowsInv'
    <2>1. /\ job.pc = "evaluation" => job'.pc = "adoption" /\ job.todo = <<>>
          /\ job.pc = "adoption" => job'.pc = "manifest"
          /\ job.pc \in {"evaluation", "adoption"}
          /\ job'.rows = job.rows /\ job'.plan = job.plan /\ job'.tree = job.tree
          /\ UNCHANGED verdict
      BY DEF ShapeInv
    <2>2. DOMAIN job.rows = Planned(job.plan)
      <3>1. CASE job.pc = "evaluation"
        <4>1. {job.todo[n] : n \in DOMAIN job.todo} = {}
          BY <2>1, <3>1
        <4> QED
          BY <3>1, <4>1 DEF RowsInv
      <3> QED
        BY <2>1, <3>1 DEF RowsInv
    <2>3. RowsTrue'
      BY <2>1 DEF RowsInv, RowsTrue
    <2> QED
      BY <2>1, <2>2, <2>3 DEF RowsInv, Planned, Sealing
  <1>4. DecidedInv'
    BY DEF DecidedInv, ShapeInv, Good
  <1>5. SealInv'
    BY DEF SealInv, Owed, SigningRequired, Ladder, ShapeInv, Sealing
  <1>6. HostInv'
    BY DEF HostInv, ShapeInv, Alive, Sealing, RelayHonest
  <1> QED
    BY <1>1, <1>2, <1>3, <1>4, <1>5, <1>6

\* A row is added: of a verdict on the digested tree, or unresolved.
LEMMA RecordStep ==
    ASSUME RunInv, Evaluating, UNCHANGED <<world, out, attested, sealed, host>>,
           NEW outcome \in Outcomes, NEW isError \in BOOLEAN, Record(outcome, isError),
           outcome # "UNRESOLVED" => verdict[This][job.tree] = outcome
    PROVE  RunInv'
  <1> USE DEF RunInv
  <1>1. /\ job.pc = "evaluation" /\ job.todo # <<>> /\ job'.pc = "evaluation"
        /\ job'.rows = [a \in DOMAIN job.rows \cup {This} |->
                           IF a = This THEN outcome ELSE job.rows[a]]
        /\ job'.todo = Tail(job.todo)
        /\ job'.seen = None
        /\ job'.plan = job.plan /\ job'.tree = job.tree
        /\ UNCHANGED <<tree, spec, verdict, setting>>
    BY DEF Evaluating, Record, ShapeInv, world
  <1>2. ShapeInv'
    BY DEF Record, ShapeInv, Files
  <1>3. ReadInv'
    BY <1>1 DEF ReadInv, GateNames
  <1>4. RowsInv'
    <2>1. job.todo \in Seq(Assertions) /\ job'.todo \in Seq(Assertions)
      BY <1>1 DEF RowsInv
    <2>2. {job.todo[n] : n \in DOMAIN job.todo}
            = {This} \cup {job'.todo[n] : n \in DOMAIN job'.todo}
      <3> DEFINE s == job.todo
      <3>1. /\ s \in Seq(Assertions) /\ s # <<>> /\ This = s[1] /\ job'.todo = Tail(s)
            /\ DOMAIN s = 1..Len(s) /\ Len(s) \in Nat /\ Len(s) > 0
            /\ DOMAIN Tail(s) = 1..(Len(s) - 1)
            /\ \A n \in 1..(Len(s) - 1) : Tail(s)[n] = s[n + 1]
        BY <1>1, <2>1 DEF This
      <3>2. ASSUME NEW n \in 1..Len(s), n # 1 PROVE \E m \in 1..(Len(s) - 1) : s[n] = Tail(s)[m]
        <4>1. n - 1 \in 1..(Len(s) - 1) /\ (n - 1) + 1 = n
          BY <3>1, <3>2
        <4> QED
          BY <3>1, <4>1
      <3>3. \A m \in 1..(Len(s) - 1) : m + 1 \in 1..Len(s)
        BY <3>1
      <3> HIDE DEF s
      <3>4. {s[n] : n \in 1..Len(s)} = {s[1]} \cup {Tail(s)[m] : m \in 1..(Len(s) - 1)}
        BY <3>1, <3>2, <3>3
      <3>5. {s[n] : n \in DOMAIN s} = {This} \cup {Tail(s)[m] : m \in DOMAIN Tail(s)}
        BY <3>1, <3>4
      <3>6. job'.todo = Tail(s)
        BY <3>1
      <3> QED
        BY <3>5, <3>6 DEF s
    <2>3. RowsTrue'
      BY <1>1 DEF RowsInv, RowsTrue, Outcomes
    <2>4. DOMAIN job'.rows = DOMAIN job.rows \cup {This}
      BY <1>1
    <2>5. DOMAIN job.rows \cup {job.todo[n] : n \in DOMAIN job.todo} = Planned(job.plan)
      BY <1>1 DEF RowsInv
    <2>6. DOMAIN job'.rows \cup {job'.todo[n] : n \in DOMAIN job'.todo} = Planned(job'.plan)
      BY <1>1, <2>2, <2>4, <2>5
    <2> QED
      BY <1>1, <2>1, <2>3, <2>6 DEF RowsInv, Planned, Sealing
  <1>5. DecidedInv'
    BY <1>1 DEF DecidedInv, Good
  <1>6. SealInv'
    BY <1>1 DEF SealInv, Owed, SigningRequired, Ladder, Sealing
  <1>7. HostInv'
    BY <1>1 DEF HostInv, Alive, Sealing, RelayHonest
  <1> QED
    BY <1>2, <1>3, <1>4, <1>5, <1>6, <1>7

LEMMA SeenTypes ==
    ASSUME RunInv, Evaluating
    PROVE  /\ This \in Assertions
           /\ tree \in Trees /\ tree \in Nat
           /\ job.tree \in 0..tree
           /\ job.seen # None => job.seen \in job.tree..tree
           /\ \A a \in Assertions, t \in Trees : verdict[a][t] \in Verdict
  <1>1. job.todo \in Seq(Assertions) /\ job.todo # <<>>
    BY DEF Evaluating, RunInv, RowsInv
  <1>2. This \in Assertions
    BY <1>1 DEF This
  <1>3. verdict \in [Assertions -> [Trees -> Verdict]]
    BY CoherenceAssumption DEF RunInv, ReadInv
  <1>4. \A a \in Assertions, t \in Trees : verdict[a][t] \in Verdict
    BY <1>3
  <1>5. tree \in Trees /\ Trees \subseteq Nat
    BY CoherenceAssumption DEF RunInv, ReadInv, Trees
  <1>6. job.pc = "evaluation"
    BY DEF Evaluating
  <1>7. job.tree \in 0..tree
    BY <1>6 DEF RunInv, ReadInv
  <1>8. job.seen # None => job.seen \in job.tree..tree
    BY <1>6 DEF RunInv, ReadInv
  <1> QED
    BY <1>2, <1>4, <1>5, <1>7, <1>8

\* An evaluator's verdict counts if the tree is still the one that was digested: the one
\* it saw lies between the two.
LEMMA RowStep ==
    ASSUME RunInv, Unapproved \/ DependencyBlocked \/ CheckRow, UNCHANGED host
    PROVE  RunInv'
  <1>1. CASE Unapproved
    BY <1>1, RecordStep DEF Unapproved, Outcomes, NoPut, NoSeal
  <1>2. CASE DependencyBlocked
    BY <1>2, RecordStep DEF DependencyBlocked, Outcomes, NoPut, NoSeal
  <1>3. CASE CheckRow
    <2> DEFINE found == verdict[This][job.seen]
               refused == tree # job.tree \/ found = "crash"
    <2>1. /\ Evaluating /\ job.seen # None /\ UNCHANGED <<world, out, attested, sealed, host>>
          /\ IF refused THEN Record("UNRESOLVED", TRUE) ELSE Record(found, FALSE)
      BY <1>3 DEF CheckRow, NoPut, NoSeal
    <2>2. CASE refused
      BY <2>1, <2>2, RecordStep DEF Outcomes
    <2>3. CASE ~refused
      <3>1. job.pc = "evaluation" /\ This \in Assertions /\ tree \in Trees
        BY <2>1, SeenTypes DEF Evaluating
      <3>2. job.seen = tree /\ job.tree = tree
        BY <2>1, <2>3, <3>1, SeenTypes
      <3>3. found \in Outcomes
        <4>1. verdict[This][job.seen] \in Verdict
          BY <2>1, <3>1, <3>2, SeenTypes
        <4> QED
          BY <2>3, <4>1 DEF Verdict
      <3> QED
        BY <2>1, <2>3, <3>2, <3>3, RecordStep
    <2> QED
      BY <2>2, <2>3
  <1> QED
    BY <1>1, <1>2, <1>3

\* The result is built of the rows, and the manifest of its evidence.
LEMMA SealEvidenceStep ==
    ASSUME RunInv, SealEvidence, UNCHANGED host
    PROVE  RunInv'
  <1> USE DEF RunInv, SealEvidence, Evidence, Result, Ladder, Put, NoSeal, world
  <1>1. ShapeInv'
    BY DEF ShapeInv, Files
  <1>2. ReadInv'
    BY DEF ReadInv, ShapeInv, GateNames
  <1>3. RowsInv'
    BY DEF RowsInv, ShapeInv, RowsTrue, Good, Sealing, GateNames
  <1>4. DecidedInv'
    BY DEF DecidedInv, RowsInv, ShapeInv, Good, Sealing, Files
  <1>5. SealInv'
    BY DEF SealInv, Owed, ShapeInv, Files, Sealing, SigningRequired, Ladder, GateNames
  <1>6. HostInv'
    BY DEF HostInv, ShapeInv, Alive, Sealing, RelayHonest, GateNames, Files
  <1> QED
    BY <1>1, <1>2, <1>3, <1>4, <1>5, <1>6

\* From here the directory holds the decision, or the run knows that it does not.
LEMMA EmitResultStep ==
    ASSUME RunInv, EmitResult, UNCHANGED host
    PROVE  RunInv'
  <1> USE DEF RunInv, EmitResult, Put, NoPut, NoSeal, world
  <1>1. ShapeInv'
    BY DEF ShapeInv, Files
  <1>2. ReadInv'
    BY DEF ReadInv, ShapeInv, GateNames
  <1>3. RowsInv'
    BY DEF RowsInv, ShapeInv, RowsTrue, Good, Sealing, GateNames
  <1>4. DecidedInv'
    BY DEF DecidedInv, RowsInv, ShapeInv, Good, Sealing, Files
  <1>5. SealInv'
    BY DEF SealInv, Owed, ShapeInv, Files, Sealing, SigningRequired, Ladder, GateNames
  <1>6. HostInv'
    <2>1. Alive /\ host.pc # "compare" /\ (host.pc = "read" => host.status # "completed")
      BY DEF HostInv, Alive
    <2>2. job'.pc = "attestation" /\ job'.result = job.result
      BY DEF ShapeInv
    <2>3. job'.kept => out'["result"] = job'.result
      BY <2>2 DEF ShapeInv, Files
    <2>4. host.pc = "exited" => host.code \in Errors \cup {None}
      BY DEF HostInv
    <2>5. RelayHonest'
      BY <2>4 DEF RelayHonest
    <2> QED
      BY <2>1, <2>2, <2>3, <2>4, <2>5 DEF HostInv
  <1> QED
    BY <1>1, <1>2, <1>3, <1>4, <1>5, <1>6

\* Where it is required, the decision is signed.
LEMMA AttestStep ==
    ASSUME RunInv, Attest, UNCHANGED host
    PROVE  RunInv'
  <1> USE DEF RunInv, Attest, Put, NoPut, world
  <1>1. ShapeInv'
    BY DEF ShapeInv, Files
  <1>2. ReadInv'
    BY DEF ReadInv, ShapeInv, GateNames
  <1>3. RowsInv'
    BY DEF RowsInv, ShapeInv, RowsTrue, Good, Sealing, GateNames
  <1>4. DecidedInv'
    BY DEF DecidedInv, RowsInv, ShapeInv, Good, Sealing, Files
  <1>5. SealInv'
    BY DEF SealInv, Owed, ShapeInv, Files, Sealing, SigningRequired, Ladder, GateNames
  <1>6. HostInv'
    BY DEF HostInv, ShapeInv, Alive, Sealing, RelayHonest, GateNames, Files
  <1> QED
    BY <1>1, <1>2, <1>3, <1>4, <1>5, <1>6

\* The decision is sealed.
LEMMA EnvelopeStep ==
    ASSUME RunInv, EmitEnvelope, UNCHANGED host
    PROVE  RunInv'
  <1> USE DEF RunInv, EmitEnvelope, Put, world
  <1>1. ShapeInv'
    BY DEF ShapeInv, Files
  <1>2. ReadInv'
    BY DEF ReadInv, ShapeInv, GateNames
  <1>3. RowsInv'
    BY DEF RowsInv, ShapeInv, RowsTrue, Good, Sealing, GateNames
  <1>4. DecidedInv'
    BY DEF DecidedInv, RowsInv, ShapeInv, Good, Sealing, Files
  <1>5. SealInv'
    BY DEF SealInv, Owed, ShapeInv, Files, Sealing, SigningRequired, Ladder, GateNames
  <1>6. HostInv'
    BY DEF HostInv, ShapeInv, Alive, Sealing, RelayHonest, GateNames, Files
  <1> QED
    BY <1>1, <1>2, <1>3, <1>4, <1>5, <1>6

\* The claim describes the sealed decision, or is not written.
LEMMA ClaimStep ==
    ASSUME RunInv, EmitClaim \/ EmitClaimDigest \/ EmitClaimFails, UNCHANGED host
    PROVE  RunInv'
  <1> USE DEF RunInv, EmitClaim, EmitClaimDigest, EmitClaimFails, Put, NoPut, NoSeal, world
  <1>1. ShapeInv'
    BY DEF ShapeInv, Files
  <1>2. ReadInv'
    BY DEF ReadInv, ShapeInv, GateNames
  <1>3. RowsInv'
    BY DEF RowsInv, ShapeInv, RowsTrue, Good, Sealing, GateNames
  <1>4. DecidedInv'
    BY DEF DecidedInv, RowsInv, ShapeInv, Good, Sealing, Files
  <1>5. SealInv'
    BY DEF SealInv, Owed, ShapeInv, Files, Sealing, SigningRequired, Ladder, GateNames
  <1>6. HostInv'
    BY DEF HostInv, ShapeInv, Alive, Sealing, RelayHonest, GateNames, Files
  <1> QED
    BY <1>1, <1>2, <1>3, <1>4, <1>5, <1>6

\* A new run owes nothing yet.
LEMMA LaunchStep ==
    ASSUME RunInv, Launch
    PROVE  RunInv'
  <1> USE DEF RunInv, Launch, Start, NoLaunch, Idle, Gates, world
  <1>1. ShapeInv'
    BY DEF ShapeInv
  <1>2. ReadInv'
    BY DEF ReadInv, ShapeInv, GateNames
  <1>3. RowsInv'
    BY DEF RowsInv, ShapeInv, RowsTrue, Good, Sealing, GateNames
  <1>4. DecidedInv'
    BY DEF DecidedInv, RowsInv, ShapeInv, Good, Sealing
  <1>5. SealInv'
    BY DEF SealInv, Owed, ShapeInv, Files, Sealing, SigningRequired, Ladder, GateNames
  <1>6. HostInv'
    BY DEF HostInv, ShapeInv, Alive, Sealing, RelayHonest, GateNames
  <1> QED
    BY <1>1, <1>2, <1>3, <1>4, <1>5, <1>6

\* No run was started.
LEMMA RejectedStep ==
    ASSUME RunInv, LaunchRejected
    PROVE  RunInv'
  <1> USE DEF RunInv, LaunchRejected, Idle, NoLaunch, ErrorResult, Put, NoPut, NoSeal, world
  <1>1. ShapeInv'
    BY DEF ShapeInv, Files
  <1>2. ReadInv'
    BY DEF ReadInv, ShapeInv, GateNames
  <1>3. RowsInv'
    BY DEF RowsInv, ShapeInv, RowsTrue, Good, Sealing, GateNames
  <1>4. DecidedInv'
    BY DEF DecidedInv, RowsInv, ShapeInv, Good, Sealing, Files
  <1>5. SealInv'
    BY ErrorCodeIs DEF SealInv, Owed, ShapeInv, Files, Sealing, SigningRequired, Ladder, GateNames
  <1>6. HostInv'
    BY ErrorCodeIs DEF HostInv, ShapeInv, Alive, Sealing, RelayHonest, GateNames, Files
  <1> QED
    BY <1>1, <1>2, <1>3, <1>4, <1>5, <1>6

\* The launch is over for the host, though the container may live on.
LEMMA KillStep ==
    ASSUME RunInv, Kill
    PROVE  RunInv'
  <1> USE DEF RunInv, Kill, world
  <1>1. ShapeInv'
    BY DEF ShapeInv
  <1>2. ReadInv'
    BY DEF ReadInv, ShapeInv, GateNames
  <1>3. RowsInv'
    BY DEF RowsInv, ShapeInv, RowsTrue, Good, Sealing, GateNames
  <1>4. DecidedInv'
    BY DEF DecidedInv, RowsInv, ShapeInv, Good, Sealing
  <1>5. SealInv'
    BY DEF SealInv, Owed, ShapeInv, Files, Sealing, SigningRequired, Ladder, GateNames
  <1>6. HostInv'
    BY DEF HostInv, ShapeInv, Alive, Sealing, RelayHonest, GateNames
  <1> QED
    BY <1>1, <1>2, <1>3, <1>4, <1>5, <1>6

\* The container is gone and its code known.
LEMMA CollectStep ==
    ASSUME RunInv, Collect
    PROVE  RunInv'
  <1> USE DEF RunInv, Collect, world, vars
  <1>1. ShapeInv'
    BY DEF ShapeInv
  <1>2. ReadInv'
    BY DEF ReadInv, ShapeInv, GateNames
  <1>3. RowsInv'
    BY DEF RowsInv, ShapeInv, RowsTrue, Good, Sealing, GateNames
  <1>4. DecidedInv'
    BY DEF DecidedInv, RowsInv, ShapeInv, Good, Sealing
  <1>5. SealInv'
    BY DEF SealInv, Owed, ShapeInv, Files, Sealing, SigningRequired, Ladder, GateNames
  <1>6. HostInv'
    BY DEF HostInv, ShapeInv, Alive, Sealing, RelayHonest, GateNames
  <1> QED
    BY <1>1, <1>2, <1>3, <1>4, <1>5, <1>6

\* The host reports an error over whatever the container wrote.
LEMMA HostFailsStep ==
    ASSUME RunInv, KilledIsError \/ Disagrees
    PROVE  RunInv'
  <1> USE DEF RunInv, KilledIsError, Disagrees, HostFails, ErrorResult, Put, NoPut, NoSeal, world
  <1>1. ShapeInv'
    BY DEF ShapeInv, Files
  <1>2. ReadInv'
    BY DEF ReadInv, ShapeInv, GateNames
  <1>3. RowsInv'
    BY DEF RowsInv, ShapeInv, RowsTrue, Good, Sealing, GateNames
  <1>4. DecidedInv'
    BY DEF DecidedInv, RowsInv, ShapeInv, Good, Sealing, Files
  <1>5. SealInv'
    BY ErrorCodeIs DEF SealInv, Owed, ShapeInv, Files, Sealing, SigningRequired, Ladder, GateNames
  <1>6. HostInv'
    BY ErrorCodeIs DEF HostInv, ShapeInv, Alive, Sealing, RelayHonest, GateNames, Files
  <1> QED
    BY <1>1, <1>2, <1>3, <1>4, <1>5, <1>6

\* What the host reads is what the run wrote, if it wrote it here.
LEMMA ReadStep ==
    ASSUME RunInv, ReadResult
    PROVE  RunInv'
  <1> USE DEF RunInv, ReadResult, world, vars
  <1>1. ShapeInv'
    BY DEF ShapeInv
  <1>2. ReadInv'
    BY DEF ReadInv, ShapeInv, GateNames
  <1>3. RowsInv'
    BY DEF RowsInv, ShapeInv, RowsTrue, Good, Sealing, GateNames
  <1>4. DecidedInv'
    BY DEF DecidedInv, RowsInv, ShapeInv, Good, Sealing
  <1>5. SealInv'
    BY DEF SealInv, Owed, ShapeInv, Files, Sealing, SigningRequired, Ladder, GateNames
  <1>6. HostInv'
    BY DEF HostInv, ShapeInv, Alive, Sealing, RelayHonest, GateNames
  <1> QED
    BY <1>1, <1>2, <1>3, <1>4, <1>5, <1>6

\* The code is passed on.
LEMMA RelayStep ==
    ASSUME RunInv, Relay
    PROVE  RunInv'
  <1> USE DEF RunInv, Relay, Agrees, world, vars
  <1>1. ShapeInv'
    BY DEF ShapeInv
  <1>2. ReadInv'
    BY DEF ReadInv, ShapeInv, GateNames
  <1>3. RowsInv'
    BY DEF RowsInv, ShapeInv, RowsTrue, Good, Sealing, GateNames
  <1>4. DecidedInv'
    BY DEF DecidedInv, RowsInv, ShapeInv, Good, Sealing
  <1>5. SealInv'
    BY DEF SealInv, Owed, ShapeInv, Files, Sealing, SigningRequired, Ladder, GateNames
  <1>6. HostInv'
    BY DEF HostInv, ShapeInv, Alive, Sealing, RelayHonest, GateNames
  <1> QED
    BY <1>1, <1>2, <1>3, <1>4, <1>5, <1>6

-----------------------------------------------------------------------------
LEMMA StutterStep == RunInv /\ UNCHANGED hvars => RunInv'
  BY DEF hvars, vars, world, RunInv, ShapeInv, ReadInv, RowsInv, RowsTrue, Good, DecidedInv,
         SealInv, Owed, SigningRequired, Ladder, HostInv, Alive, RelayHonest

LEMMA RunStepKeeps ==
    ASSUME RunInv, RunStep, UNCHANGED host
    PROVE  RunInv'
  <1>1. CASE Refuse
    <2>1. job.pc \in GateNames /\ Fail(Class(job.pc))
      BY <1>1, GateOrder DEF Refuse
    <2>2. Class(job.pc) \in {"protocol", "policy-resolution", "invalid-input"}
      BY DEF Class
    <2> QED
      BY <2>1, <2>2, FailStep
  <1>2. CASE EvaluationFails \/ AdoptionRefused \/ SealEvidenceFails \/ AttestFails
    BY <1>2, FailStep
       DEF EvaluationFails, AdoptionRefused, SealEvidenceFails, AttestFails, Sealing
  <1>3. CASE Pass
    BY <1>3, PassStep
  <1>4. CASE Unapproved \/ DependencyBlocked \/ CheckRow
    BY <1>4, RowStep
  <1>5. CASE Evaluate
    BY <1>5, EvaluateStep
  <1>6. CASE EvaluationEnds \/ Adopt
    BY <1>6, PhaseStep
  <1>7. CASE SealEvidence
    BY <1>7, SealEvidenceStep
  <1>8. CASE EmitResult
    BY <1>8, EmitResultStep
  <1>9. CASE Attest
    BY <1>9, AttestStep
  <1>10. CASE EmitEnvelope
    BY <1>10, EnvelopeStep
  <1>11. CASE EmitClaim \/ EmitClaimDigest \/ EmitClaimFails
    BY <1>11, ClaimStep
  <1> QED
    BY <1>1, <1>2, <1>3, <1>4, <1>5, <1>6, <1>7, <1>8, <1>9, <1>10, <1>11 DEF RunStep

LEMMA NextKeeps == RunInv /\ [HNext]_hvars => RunInv'
  <1> SUFFICES ASSUME RunInv, [HNext]_hvars PROVE RunInv'
    OBVIOUS
  <1>1. CASE RunStep /\ UNCHANGED host
    BY <1>1, RunStepKeeps
  <1>2. CASE Environment /\ UNCHANGED host
    BY <1>2, EditTreeStep, EditSpecStep, DieStep DEF Environment
  <1>3. CASE Launch \/ LaunchRejected
    BY <1>3, LaunchStep, RejectedStep
  <1>4. CASE HostStep
    BY <1>4, KillStep, CollectStep, HostFailsStep, ReadStep, RelayStep DEF HostStep
  <1>5. CASE UNCHANGED hvars
    BY <1>5, StutterStep
  <1> QED
    BY <1>1, <1>2, <1>3, <1>4, <1>5 DEF HNext

\* The invariant of a run and its host, through edits, failed writes, deaths, limits and
\* containers that outlive their launch (__main__.run, container_exec.run_containerized).
THEOREM CoherenceInvariant == HSpec => []RunInv
  BY RunInitially, NextKeeps, PTL DEF HSpec

\* No decision that is signed, sealed or left in the directory mixes two contents of the
\* tree, for any dependencies and verdicts (evaluate.py:117-132).
THEOREM DecisionsNeverMix == HSpec => []NeverMixed
  <1>1. RunInv => NeverMixed
    BY DEF RunInv, DecidedInv, Good, Planned, NeverMixed, Decisions
  <1> QED
    BY <1>1, CoherenceInvariant, PTL

\* A run that exits with the code of a decision has left all it owes (attest.seal_run).
THEOREM SuccessAlwaysSealed == HSpec => []SuccessIsSealed
  <1>1. RunInv => SuccessIsSealed
    BY DEF RunInv, SealInv, Owed, SuccessIsSealed
  <1> QED
    BY <1>1, CoherenceInvariant, PTL

\* A claim in the directory is of a sealed decision (__main__._emit_decision_claim).
THEOREM ClaimsAlwaysSealed == HSpec => []ClaimsAreOfSealed
  <1>1. RunInv => ClaimsAreOfSealed
    BY DEF RunInv, SealInv, ClaimsAreOfSealed
  <1> QED
    BY <1>1, CoherenceInvariant, PTL

\* What verify accepts out of any mixture of files is a decision that was signed, and
\* what it may promote is the tree whose satisfied rows it lists (attest.verify).
THEOREM AcceptedAlwaysDecided == HSpec => []AcceptedWasDecided
  <1>1. ASSUME RunInv, Accepted
        PROVE  /\ out["result"] \in attested /\ SigningRequired
               /\ out["attestation"].states = out["result"]
               /\ Good(out["result"])
    <2>1. out["result"] \in attested /\ SigningRequired
      BY <1>1 DEF RunInv, SealInv, Accepted
    <2> QED
      BY <1>1, <2>1 DEF RunInv, DecidedInv, Accepted
  <1>2. RunInv => AcceptedWasDecided
    BY <1>1 DEF AcceptedWasDecided, Promotable, Good
  <1> QED
    BY <1>2, CoherenceInvariant, PTL

\* The host relays a decision's code only from a container that ended by itself with this
\* code, over a result.json of this decision (container_exec.py:165-208).
THEOREM RelayAlwaysHonest == HSpec => []RelayHonest
  BY CoherenceInvariant, PTL DEF RunInv, HostInv

\* Moving up the ladder never unblocks what blocked, for any baseline, exceptions and
\* core (adoption.evaluate, _shelter_ends).
THEOREM LadderAlwaysMonotone == HSpec => []LadderMonotone
  <1>1. RunInv => LadderMonotone
    <2> SUFFICES ASSUME RunInv, NEW rows \in [Assertions -> Outcomes],
                        NEW t \in Ladder.stage..4, Blocked(Ladder, rows)
                 PROVE  Blocked([Ladder EXCEPT !.stage = t], rows)
      BY DEF LadderMonotone
    <2> DEFINE higher == [Ladder EXCEPT !.stage = t]
    <2>1. Ladder \in Ladders
      BY CoherenceAssumption DEF RunInv, ReadInv, Ladder
    <2>2. /\ Ladder.stage \in 0..4 /\ higher.stage = t /\ t >= Ladder.stage /\ t \in 0..4
          /\ higher.open = Ladder.open /\ higher.raised = Ladder.raised
          /\ higher.live = Ladder.live /\ higher.expired = Ladder.expired
          /\ higher.core = Ladder.core /\ higher.capped = Ladder.capped
      BY <2>1 DEF Ladders
    <2> HIDE DEF higher
    <2>3. ASSUME NEW a, ShelterEnds(Ladder, a) PROVE ShelterEnds(higher, a)
      BY <2>2, <2>3 DEF ShelterEnds
    <2>4. ASSUME NEW a, Enforcement(Ladder, a) = "BLOCK" PROVE Enforcement(higher, a) = "BLOCK"
      BY <2>2, <2>3, <2>4 DEF Enforcement, Sheltered
    <2>5. Blocked(higher, rows)
      BY <2>2, <2>4 DEF Blocked
    <2> QED
      BY <2>5 DEF higher
  <1> QED
    BY <1>1, CoherenceInvariant, PTL
==================================================================================
