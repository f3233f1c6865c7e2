------------------------- MODULE ClaimPolicyProofs -------------------------
(***************************************************************************)
(* Proofs about what others may rely on: VerificationClaim, for any roles  *)
(* and contents; PolicyAuthority, for any bundles, sets and orders, and    *)
(* any number of issuances; ResultReuse, for any identities and windows.   *)
(***************************************************************************)
EXTENDS VerificationClaim, PolicyAuthority, ResultReuse, SequenceTheorems, TLAPS

-----------------------------------------------------------------------------
(* VerificationClaim *)


\* The ladder and the terminal states have nothing in common.
LEMMA LadderIsNotTerminal ==
    /\ Rungs \cap Terminal = {}
    /\ "VERIFIED" \in Rungs /\ "REQUESTED" \in Rungs
    /\ \A current, target : Forward(current, target) =>
           current \in Rungs /\ target \in Rungs
  <1>1. DOMAIN LADDER = 1..8 /\ Len(LADDER) = 8
    BY DEF LADDER
  <1>2. Rungs = {"REQUESTED", "PLANNED", "ATTEMPTED", "EXECUTED", "COMPLETED", "TESTED",
                 "OBSERVED", "VERIFIED"}
    BY <1>1 DEF Rungs, LADDER
  <1>3. ASSUME NEW n \in 1..7 PROVE LADDER[n] \in Rungs /\ LADDER[n + 1] \in Rungs
    BY <1>1 DEF Rungs
  <1>4. ASSUME NEW current, NEW target, Forward(current, target)
        PROVE current \in Rungs /\ target \in Rungs
    BY <1>1, <1>2, <1>3, <1>4 DEF Forward
  <1> QED
    BY <1>2, <1>4 DEF Terminal

\* What a legal transition can do: stay, stop, or move on the ladder.
LEMMA LegalTransition ==
    ASSUME NEW current \in Rungs \cup Terminal, NEW target, can_transition(current, target)
    PROVE  /\ target \in Rungs \cup Terminal
           /\ current \in Terminal => target \in Terminal
  BY LadderIsNotTerminal DEF can_transition

-----------------------------------------------------------------------------
LEMMA TypeInit == ClaimInit => ClaimTypeOK
  BY LadderIsNotTerminal DEF ClaimInit, ClaimTypeOK, Bindings, NotAsked, Given

LEMMA TypeStep == ClaimTypeOK /\ [ClaimNext]_claimVars => ClaimTypeOK'
  <1> SUFFICES ASSUME ClaimTypeOK, [ClaimNext]_claimVars PROVE ClaimTypeOK'
    OBVIOUS
  <1> USE DEF ClaimTypeOK
  <1>1. ASSUME NEW role \in Roles, Change(role) PROVE ClaimTypeOK'
    BY <1>1 DEF Change
  <1>2. ASSUME NEW role \in Roles, Bind(role) PROVE ClaimTypeOK'
    BY <1>2 DEF Bind, Bindings
  <1>3. ASSUME NEW target \in Rungs \cup Terminal, Transition(target) PROVE ClaimTypeOK'
    BY <1>3 DEF Transition
  <1>4. ASSUME NEW given \in Given, Ask(given) PROVE ClaimTypeOK'
    BY <1>4 DEF Ask
  <1>5. CASE Refute
    BY <1>5 DEF Refute, Terminal, NotAsked, Given
  <1>6. CASE Confirm
    <2>1. claim' \in [state : Rungs \cup Terminal, bound : Bindings, ok : {Unset, TRUE, FALSE}]
      BY <1>6, LadderIsNotTerminal DEF Confirm, Terminal
    <2>2. yes' \in Agreements
      BY <1>6 DEF Confirm, Agreements
    <2> QED
      BY <1>6, <2>1, <2>2 DEF Confirm, NotAsked, Given
  <1>7. CASE NoAnswer
    BY <1>7 DEF NoAnswer, NotAsked, Given
  <1>8. CASE UNCHANGED claimVars
    BY <1>8 DEF claimVars
  <1> QED
    BY <1>1, <1>2, <1>3, <1>4, <1>5, <1>6, <1>7, <1>8 DEF ClaimNext

\* The record of a claim stays well formed, whatever the order of its calls
\* (verification.py:119-133).
THEOREM ClaimTypeCorrect == ClaimSpec => []ClaimTypeOK
  BY TypeInit, TypeStep, PTL DEF ClaimSpec

-----------------------------------------------------------------------------
LEMMA IndependentStep ==
    ClaimTypeOK /\ VerifiedIsIndependent /\ [ClaimNext]_claimVars => VerifiedIsIndependent'
  <1> SUFFICES ASSUME ClaimTypeOK, VerifiedIsIndependent, [ClaimNext]_claimVars
               PROVE  VerifiedIsIndependent'
    OBVIOUS
  <1> USE DEF ClaimTypeOK, VerifiedIsIndependent
  <1>1. ASSUME NEW role \in Roles, Change(role) \/ Bind(role) PROVE VerifiedIsIndependent'
    BY <1>1 DEF Change, Bind
  <1>2. ASSUME NEW target \in Rungs \cup Terminal, Transition(target)
        PROVE VerifiedIsIndependent'
    BY <1>2 DEF Transition
  <1>3. ASSUME NEW given \in Given, Ask(given) PROVE VerifiedIsIndependent'
    BY <1>3 DEF Ask
  <1>4. CASE Refute
    BY <1>4 DEF Refute
  <1>5. CASE Confirm
    <2>1. yes' \in Agreements /\ claim'.ok = TRUE
      BY <1>5 DEF Confirm, Agreements
    <2> QED
      BY <2>1, ClaimAssumption
  <1>6. CASE NoAnswer \/ UNCHANGED claimVars
    BY <1>6 DEF NoAnswer, claimVars
  <1> QED
    BY <1>1, <1>2, <1>3, <1>4, <1>5, <1>6 DEF ClaimNext

\* An actor cannot certify itself, not by any order of its own calls around the call of a
\* verifier (verification.py:93-116, 186-221).
THEOREM NoSelfCertification == ClaimSpec => []VerifiedIsIndependent
  <1>1. ClaimInit => VerifiedIsIndependent
    BY DEF ClaimInit, VerifiedIsIndependent
  <1> QED
    BY <1>1, IndependentStep, ClaimTypeCorrect, PTL DEF ClaimSpec

-----------------------------------------------------------------------------
\* Nothing takes a claim out of BLOCKED, FAILED or UNKNOWN, not even a verifier that was
\* asked before (verification.py:50-62, 219).
THEOREM NoWayBack == ClaimSpec => TerminalIsFinal
  <1>1. ClaimTypeOK /\ [ClaimNext]_claimVars =>
            [claim.state \in Terminal => claim'.state \in Terminal]_claimVars
    <2> SUFFICES ASSUME ClaimTypeOK, ClaimNext, claim.state \in Terminal
                 PROVE  claim'.state \in Terminal
      OBVIOUS
    <2> USE DEF ClaimTypeOK
    <2>1. ASSUME NEW role \in Roles, Change(role) \/ Bind(role) PROVE claim'.state \in Terminal
      BY <2>1 DEF Change, Bind
    <2>2. ASSUME NEW target \in Rungs \cup Terminal, Transition(target)
          PROVE claim'.state \in Terminal
      BY <2>2, LegalTransition DEF Transition
    <2>3. ASSUME NEW given \in Given, Ask(given) PROVE claim'.state \in Terminal
      BY <2>3 DEF Ask
    <2>4. CASE Refute
      BY <2>4 DEF Refute, Terminal
    <2>5. CASE Confirm
      <3>1. ~can_transition(claim.state, "VERIFIED")
        BY LegalTransition, LadderIsNotTerminal
      <3> QED
        BY <2>5, <3>1 DEF Confirm, Terminal
    <2>6. CASE NoAnswer
      BY <2>6 DEF NoAnswer
    <2> QED
      BY <2>1, <2>2, <2>3, <2>4, <2>5, <2>6 DEF ClaimNext
  <1> QED
    BY <1>1, ClaimTypeCorrect, PTL DEF ClaimSpec, TerminalIsFinal

-----------------------------------------------------------------------------
\* What the second look at the digests leaves behind: a verified claim agreed with what
\* its verifier's caller saw after the verifier had answered.
AgreedOnBound ==
    claim.state = "VERIFIED" /\ yes.given = "live" =>
        \A role \in Roles : yes.bound[role] \in {Unset, yes.at[role]}

LEMMA AgreedStep ==
    ClaimTypeOK /\ AgreedOnBound /\ [ClaimNext]_claimVars => AgreedOnBound'
  <1> SUFFICES ASSUME ClaimTypeOK, AgreedOnBound, [ClaimNext]_claimVars
               PROVE  AgreedOnBound'
    OBVIOUS
  <1> USE DEF ClaimTypeOK, AgreedOnBound
  <1>1. ASSUME NEW role \in Roles, Change(role) \/ Bind(role) PROVE AgreedOnBound'
    BY <1>1 DEF Change, Bind
  <1>2. ASSUME NEW target \in Rungs \cup Terminal, Transition(target) PROVE AgreedOnBound'
    BY <1>2 DEF Transition
  <1>3. ASSUME NEW given \in Given, Ask(given) PROVE AgreedOnBound'
    BY <1>3 DEF Ask
  <1>4. CASE Refute
    BY <1>4 DEF Refute
  <1>5. CASE Confirm
    <2> SUFFICES ASSUME claim'.state = "VERIFIED", yes'.given = "live", NEW role \in Roles
                 PROVE  yes'.bound[role] \in {Unset, yes'.at[role]}
      OBVIOUS
    <2>1. yes' = [given |-> check.given, bound |-> claim.bound, at |-> reality]
      BY <1>5 DEF Confirm
    <2>2. ~LastLookFails
      BY <1>5 DEF Confirm
    <2>3. ~Stale(reality)
      BY <2>1, <2>2 DEF LastLookFails, Observed
    <2> QED
      BY <2>1, <2>3 DEF Stale
  <1>6. CASE NoAnswer \/ UNCHANGED claimVars
    BY <1>6 DEF NoAnswer, claimVars
  <1> QED
    BY <1>1, <1>2, <1>3, <1>4, <1>5, <1>6 DEF ClaimNext

\* Who revalidates a claim and reads VERIFIED relies on contents that are those the
\* verifier's yes was about, if the verifier's caller kept its digests up to date
\* (verification.py:160-221).
THEOREM ReliedOnHolds == ClaimSpec => []ReliedOnIsCurrent
  <1>1. ClaimInit => AgreedOnBound
    <2>1. ClaimInit => claim.state = "REQUESTED"
      BY DEF ClaimInit
    <2> QED
      BY <2>1 DEF AgreedOnBound
  <1>2. ClaimTypeOK /\ AgreedOnBound => ReliedOnIsCurrent
    BY DEF ClaimTypeOK, AgreedOnBound, ReliedOnIsCurrent, Effective, Stale
  <1> QED
    BY <1>1, <1>2, AgreedStep, ClaimTypeCorrect, PTL DEF ClaimSpec

-----------------------------------------------------------------------------
(* PolicyAuthority *)


IsIssued(ctx) == \E n \in DOMAIN issued : ctx = issued[n]

AuthTypeOK ==
    /\ now \in Nat
    /\ bundle \in Bundles
    /\ sets \in [SetNames -> Sets \cup {Torn, None}]
    /\ issued \in Seq(Contexts)
    /\ issuing \in Issuances \cup {None}
    /\ whole \in BOOLEAN

\* Every context in use was issued.
IssuedInv ==
    /\ context \notin {None, Torn} => IsIssued(context)
    /\ issuing # None => IsIssued(issuing.context)
    /\ judging # None => IsIssued(judging.context)

\* How far an issuance that nothing has disturbed has come with the sets.
WrittenInv ==
    whole =>
        IF issuing = None
        THEN \A name \in SetNames : context.bound[name] \in {None, sets[name]}
        ELSE \A name \in SetNames \ issuing.todo :
                 issuing.context.bound[name] \in {None, sets[name]}

\* The bundle of the run under way, and of the last one, was authorized by its context.
AuthorizedInv ==
    /\ judging # None => Authorized(judging.bundle, judging.context)
    /\ judged # None => Authorized(judged.bundle, judged.context)

AuthInv == AuthTypeOK /\ IssuedInv /\ WrittenInv /\ JudgedByIssuedSets /\ AuthorizedInv

-----------------------------------------------------------------------------
LEMMA AuthInitially == AuthInit => AuthInv
  <1> SUFFICES ASSUME AuthInit PROVE AuthInv
    OBVIOUS
  <1>1. AuthTypeOK
    <2>1. <<>> \in Seq(Contexts)
      BY EmptySeq
    <2>2. sets \in [SetNames -> Sets \cup {Torn, None}]
      BY AuthorityAssumption DEF AuthInit
    <2> QED
      BY <2>1, <2>2 DEF AuthInit, AuthTypeOK
  <1> QED
    BY <1>1 DEF AuthInit, AuthInv, IssuedInv, WrittenInv, JudgedByIssuedSets, AuthorizedInv

\* An order becomes a context, and the contexts issued before stay.
LEMMA Starting ==
    ASSUME AuthTypeOK, StartIssue
    PROVE  /\ issued' \in Seq(Contexts)
           /\ issuing' \in Issuances
           /\ issuing'.context \in Contexts
           /\ \A name \in SetNames \ issuing'.todo : issuing'.context.bound[name] = None
           /\ \E n \in DOMAIN issued' : issuing'.context = issued'[n]
           /\ \A ctx : IsIssued(ctx) => \E n \in DOMAIN issued' : ctx = issued'[n]
  <1> DEFINE ctx(order) == [expected |-> bundle, floor |-> bundle.floor, old |-> order.old,
                            until |-> order.until, time |-> now, bound |-> order.sets]
  <1>0. PICK order \in Orders :
            /\ issuing' = [todo |-> {name \in SetNames : order.sets[name] # None},
                            context |-> ctx(order)]
            /\ issued' = Append(issued, ctx(order))
    BY DEF StartIssue
  <1>1. /\ issuing'.todo = {name \in SetNames : order.sets[name] # None}
        /\ issuing'.context = ctx(order)
        /\ issued' = Append(issued, issuing'.context)
        /\ issuing' = [todo |-> issuing'.todo, context |-> issuing'.context]
    BY <1>0
  <1>2. /\ order.sets \in [SetNames -> Sets \cup {None}]
        /\ order.old \in Bundles /\ order.until \in Nat
    BY AuthorityAssumption
  <1>3. bundle.floor \in Nat /\ now \in Nat /\ bundle \in Bundles
    BY AuthorityAssumption DEF AuthTypeOK
  <1>4. issuing'.context \in Contexts /\ issuing' \in Issuances
    BY <1>1, <1>2, <1>3 DEF Contexts, Issuances
  <1>5. /\ issued' \in Seq(Contexts)
        /\ Len(issued') = Len(issued) + 1
        /\ issued'[Len(issued) + 1] = issuing'.context
        /\ \A n \in 1..Len(issued) : issued'[n] = issued[n]
    BY <1>1, <1>4, AppendProperties DEF AuthTypeOK
  <1>6. /\ DOMAIN issued = 1..Len(issued) /\ DOMAIN issued' = 1..Len(issued')
        /\ Len(issued) \in Nat
    BY <1>5, LenProperties DEF AuthTypeOK
  <1>7. \A name \in SetNames \ issuing'.todo : issuing'.context.bound[name] = None
    BY <1>1
  <1> QED
    BY <1>4, <1>5, <1>6, <1>7 DEF IsIssued

\* The set that is written next is one that is still to be written.
LEMMA NextIsDue ==
    ASSUME AuthTypeOK, issuing # None, issuing.todo # {}
    PROVE  NextSet \in issuing.todo /\ NextSet \in SetNames
  BY DEF AuthTypeOK, Issuances, NextSet, SetNames

\* Of a set that is written, what was there of the others stays.
LEMMA Writing ==
    ASSUME AuthTypeOK, NEW name \in SetNames, NEW content \in Sets \cup {Torn, None},
           Write(name, content)
    PROVE  /\ sets' \in [SetNames -> Sets \cup {Torn, None}]
           /\ sets'[name] = content
           /\ \A other \in SetNames \ {name} : sets'[other] = sets[other]
  BY DEF AuthTypeOK, Write

-----------------------------------------------------------------------------
\* Putting things into the policy directory, and time.
LEMMA OthersStep == AuthInv /\ (Tick \/ PlaceBundle \/ PlaceSet) => AuthInv'
  <1> SUFFICES ASSUME AuthInv, Tick \/ PlaceBundle \/ PlaceSet PROVE AuthInv'
    OBVIOUS
  <1> USE DEF AuthInv
  <1>1. CASE Tick
    BY <1>1 DEF Tick, disk, AuthTypeOK, IssuedInv, IsIssued, WrittenInv, JudgedByIssuedSets,
                AuthorizedInv, Authorized
  <1>2. CASE PlaceBundle
    BY <1>2 DEF PlaceBundle, AuthTypeOK, IssuedInv, IsIssued, WrittenInv, JudgedByIssuedSets,
                AuthorizedInv, Authorized
  <1>3. CASE PlaceSet
    <2>1. sets' \in [SetNames -> Sets \cup {Torn, None}]
      BY <1>3 DEF PlaceSet, AuthTypeOK
    <2> QED
      BY <1>3, <2>1 DEF PlaceSet, AuthTypeOK, IssuedInv, IsIssued, WrittenInv,
                        JudgedByIssuedSets, AuthorizedInv, Authorized
  <1> QED
    BY <1>1, <1>2, <1>3

LEMMA StartStep == AuthInv /\ StartIssue => AuthInv'
  <1> SUFFICES ASSUME AuthInv, StartIssue PROVE AuthInv'
    OBVIOUS
  <1> USE DEF AuthInv
  <1>1. AuthTypeOK'
    BY Starting DEF AuthTypeOK, StartIssue, disk
  <1>2. IssuedInv'
    BY Starting DEF IssuedInv, IsIssued, StartIssue, disk
  <1>3. WrittenInv'
    <2>1. issuing' # None
      BY Starting, AuthorityAssumption
    <2> QED
      BY <2>1, Starting DEF WrittenInv
  <1>4. JudgedByIssuedSets'
    BY Starting DEF JudgedByIssuedSets, IsIssued, StartIssue
  <1>5. AuthorizedInv'
    BY DEF AuthorizedInv, Authorized, StartIssue
  <1> QED
    BY <1>1, <1>2, <1>3, <1>4, <1>5

LEMMA WriteSetStep == AuthInv /\ WriteSet => AuthInv'
  <1> SUFFICES ASSUME AuthInv, WriteSet PROVE AuthInv'
    OBVIOUS
  <1> USE DEF AuthInv
  <1> DEFINE content == issuing.context.bound[NextSet]
  <1>1. /\ issuing # None /\ issuing \in Issuances
        /\ NextSet \in issuing.todo /\ NextSet \in SetNames
        /\ Write(NextSet, content)
        /\ issuing' = [issuing EXCEPT !.todo = @ \ {NextSet}]
        /\ UNCHANGED <<now, bundle, context, judging, issued, whole, judged>>
    BY NextIsDue DEF WriteSet, AuthTypeOK
  <1>2. content \in Sets \cup {Torn, None}
    BY <1>1 DEF Issuances, Contexts
  <1>3. /\ issuing' \in Issuances
        /\ issuing'.context = issuing.context
        /\ issuing'.todo = issuing.todo \ {NextSet}
    BY <1>1 DEF Issuances
  <1>4. issuing' # None
    BY <1>3, AuthorityAssumption
  <1>5. /\ sets' \in [SetNames -> Sets \cup {Torn, None}]
        /\ sets'[NextSet] = content
        /\ \A other \in SetNames \ {NextSet} : sets'[other] = sets[other]
    BY <1>1, <1>2, Writing
  <1>6. AuthTypeOK'
    BY <1>1, <1>3, <1>5 DEF AuthTypeOK
  <1>7. IssuedInv'
    BY <1>1, <1>3 DEF IssuedInv, IsIssued
  <1>8. WrittenInv'
    BY <1>1, <1>3, <1>4, <1>5 DEF WrittenInv
  <1>9. JudgedByIssuedSets' /\ AuthorizedInv'
    BY <1>1 DEF JudgedByIssuedSets, AuthorizedInv, Authorized
  <1> QED
    BY <1>6, <1>7, <1>8, <1>9

LEMMA WriteContextStep == AuthInv /\ WriteContext => AuthInv'
  <1> SUFFICES ASSUME AuthInv, WriteContext PROVE AuthInv'
    OBVIOUS
  <1> USE DEF AuthInv, WriteContext
  <1>1. AuthTypeOK'
    BY DEF AuthTypeOK
  <1>2. IssuedInv'
    BY DEF IssuedInv, IsIssued
  <1>3. WrittenInv'
    BY DEF WrittenInv
  <1>4. JudgedByIssuedSets' /\ AuthorizedInv'
    BY DEF JudgedByIssuedSets, AuthorizedInv, Authorized
  <1> QED
    BY <1>1, <1>2, <1>3, <1>4

LEMMA DeathStep == AuthInv /\ IssuerDies => AuthInv'
  <1> SUFFICES ASSUME AuthInv, IssuerDies PROVE AuthInv'
    OBVIOUS
  <1> USE DEF AuthInv
  <1>1. sets' \in [SetNames -> Sets \cup {Torn, None}]
    <2>1. CASE UNCHANGED sets
      BY <2>1 DEF AuthTypeOK
    <2>2. CASE issuing.todo # {} /\ Write(NextSet, Torn)
      BY <2>2, Writing, NextIsDue DEF IssuerDies
    <2> QED
      BY <2>1, <2>2 DEF IssuerDies
  <1>2. /\ issuing' = None /\ whole' = FALSE
        /\ context' \in {context, Torn}
        /\ UNCHANGED <<now, bundle, judging, issued, judged>>
    BY DEF IssuerDies
  <1>3. AuthTypeOK'
    BY <1>1, <1>2 DEF AuthTypeOK
  <1>4. IssuedInv'
    BY <1>2 DEF IssuedInv, IsIssued
  <1>5. WrittenInv' /\ JudgedByIssuedSets' /\ AuthorizedInv'
    BY <1>2 DEF WrittenInv, JudgedByIssuedSets, AuthorizedInv, Authorized
  <1> QED
    BY <1>3, <1>4, <1>5

LEMMA RunStep == AuthInv /\ (Resolve \/ Judge \/ GiveUp) => AuthInv'
  <1> SUFFICES ASSUME AuthInv, Resolve \/ Judge \/ GiveUp PROVE AuthInv'
    OBVIOUS
  <1> USE DEF AuthInv, disk
  <1>1. AuthTypeOK' /\ WrittenInv'
    BY DEF Resolve, Judge, GiveUp, AuthTypeOK, WrittenInv
  <1>2. CASE Resolve
    BY <1>1, <1>2 DEF Resolve, IssuedInv, IsIssued, JudgedByIssuedSets, AuthorizedInv,
                      Authorized
  <1>3. CASE Judge
    <2>1. /\ judging # None /\ IsIssued(judging.context)
          /\ judged' = [context |-> judging.context, bundle |-> judging.bundle,
                        sets |-> sets]
          /\ \A name \in SetNames : judging.context.bound[name] \in {None, sets[name]}
          /\ judging' = None /\ UNCHANGED <<context, issuing, issued>>
      BY <1>3 DEF Judge, BoundSets, IssuedInv
    <2>2. JudgedByIssuedSets'
      BY <2>1 DEF JudgedByIssuedSets, IsIssued
    <2>3. IssuedInv' /\ AuthorizedInv'
      BY <2>1 DEF IssuedInv, IsIssued, AuthorizedInv, Authorized
    <2> QED
      BY <1>1, <2>2, <2>3
  <1>4. CASE GiveUp
    BY <1>1, <1>4 DEF GiveUp, IssuedInv, IsIssued, JudgedByIssuedSets, AuthorizedInv,
                      Authorized
  <1> QED
    BY <1>2, <1>3, <1>4

\* The inductive invariant: contexts in use were issued, an undisturbed issuance has
\* written the sets it no longer has to write, and runs went by an authorized bundle.
THEOREM AuthInvariant == AuthSpec => []AuthInv
  <1>1. AuthInv /\ UNCHANGED authVars => AuthInv'
    BY DEF authVars, disk, AuthInv, AuthTypeOK, IssuedInv, IsIssued, WrittenInv,
           JudgedByIssuedSets, AuthorizedInv, Authorized
  <1>2. AuthInv /\ [AuthNext]_authVars => AuthInv'
    BY <1>1, OthersStep, StartStep, WriteSetStep, WriteContextStep, DeathStep, RunStep
       DEF AuthNext
  <1> QED
    BY AuthInitially, <1>2, PTL DEF AuthSpec

\* Whatever is put into the policy directory, and wherever an issuance is cut short, a run
\* judges under an issued context, by the sets that context binds (context.py:117-132,
\* issue.py:182-216).
THEOREM OnlyIssuedSetsJudge == AuthSpec => []JudgedByIssuedSets
  BY AuthInvariant, PTL DEF AuthInv

\* An older bundle judges nobody whose context has no window for it (policy.py:75-143).
THEOREM NoRollbackHolds == AuthSpec => []NoRollback
  <1>1. AuthInv => NoRollback
    <2> SUFFICES ASSUME AuthInv, judged # None,
                        judged.context.until <= judged.context.time
                 PROVE  \E n \in DOMAIN issued :
                            issued[n] = judged.context /\
                            judged.bundle.epoch >= issued[n].expected.epoch
      BY DEF NoRollback
    <2>1. PICK n \in DOMAIN issued : judged.context = issued[n]
      BY DEF AuthInv, JudgedByIssuedSets
    <2>2. issued[n] \in Contexts
      BY ElementOfSeq, LenProperties DEF AuthInv, AuthTypeOK
    <2>3. judged.context \in Contexts /\ judged.context.expected.epoch \in Nat
      BY <2>1, <2>2, AuthorityAssumption DEF Contexts
    <2>4. ~(judged.context.until > judged.context.time)
      BY <2>3 DEF Contexts
    <2>5. judged.bundle = judged.context.expected
      BY <2>4 DEF AuthInv, AuthorizedInv, Authorized
    <2> QED
      BY <2>1, <2>3, <2>5
  <1> QED
    BY <1>1, AuthInvariant, PTL

\* An issuance that ends has put in place the sets its context binds, whatever earlier ones
\* left (issue.py:182-216).
THEOREM ReissueHealsAll == AuthSpec => []ReissueHeals
  <1>1. AuthInv => ReissueHeals
    BY DEF AuthInv, WrittenInv, ReissueHeals
  <1> QED
    BY <1>1, AuthInvariant, PTL

-----------------------------------------------------------------------------
(***************************************************************************)
(* Reuse of a result                                                       *)
(*                                                                         *)
(* A hit is the end of a lookup whose steps looked at files that others    *)
(* replaced meanwhile, so LookupInv says what each step has settled for    *)
(* good: the result was put for this identity and is in force, its signer  *)
(* was valid at first, and the bundles looked at are in a window.          *)
(***************************************************************************)
Granted(r, time) == \E grant \in grants : grant.ref = r /\ time <= grant.until

LookupFields == {"at", "identity", "time", "ttl", "checks", "result", "left", "valid"}
Settled(l) ==
    /\ DOMAIN l = LookupFields /\ l.identity \in Identities
    /\ l.at # "entry" =>
          /\ l.result \in results /\ l.result.identity = l.identity
          /\ InForce(l.result, l.time, l.ttl)
          /\ \A r \in l.result.refs : r \in l.left \/ Granted(r, l.time)
    /\ l.at \in {"retention", "hit"} => (l.result.signed => l.valid)
    /\ l.at = "hit" => l.left = {}
    /\ ~revoked => l.valid
StoreInv ==
    /\ revoked \in BOOLEAN
    /\ \A k \in Identities : cached[k] \in results \cup {Missing, Damaged}
    /\ DOMAIN cached = Identities /\ DOMAIN records = Bundled
    /\ \A r \in Bundled : records[r] \notin {Missing, Damaged} =>
           records[r] \in grants /\ records[r].ref = r
LookupInv ==
    /\ lookup.at # "none" => Settled(lookup)
    /\ \A result \in results : result \in Result
ReuseInv == StoreInv /\ LookupInv

LEMMA ReuseInitially == ReuseInit => ReuseInv
<1> SUFFICES ASSUME ReuseInit PROVE ReuseInv
  OBVIOUS
<1>1. \A r \in Bundled : records[r] = Missing
  BY DEF ReuseInit
<1>2. revoked \in BOOLEAN
  BY DEF ReuseInit
<1>3. StoreInv
  BY <1>1, <1>2 DEF ReuseInit, StoreInv
<1>4. LookupInv
  BY DEF ReuseInit, LookupInv, NoLookup
<1> QED
  BY <1>3, <1>4 DEF ReuseInv

\* What others do leaves what a lookup has settled.
LEMMA LookupKept ==
    ASSUME ReuseInv, lookup' = lookup, results \subseteq results', grants \subseteq grants',
           revoked => revoked', \A result \in results' : result \in Result
    PROVE  LookupInv'
<1>1. lookup.at # "none" => Settled(lookup)
  BY DEF ReuseInv, LookupInv
<1>2. ASSUME lookup.at # "none" PROVE Settled(lookup)'
  <2>1. ASSUME lookup.at # "entry"
        PROVE  \A r \in lookup.result.refs : r \in lookup.left \/ Granted(r, lookup.time)'
    BY <1>1, <1>2, <2>1 DEF Settled, Granted
  <2> QED
    BY <1>1, <1>2, <2>1 DEF Settled, InForce
<1> QED
  BY <1>2 DEF LookupInv

LEMMA StoreStep ==
    ASSUME ReuseInv,
           \/ \E result \in Results : Put(result)
           \/ \E k \in Identities : PutTears(k) \/ \E to \in Identities : Misplace(k, to)
           \/ \E grant \in Grants : RetainRecord(grant)
           \/ \E r \in Bundled : RetainBytes(r) \/ RecordTears(r) \/ Alter(r)
           \/ Revoke
    PROVE  ReuseInv'
<1> USE ReuseAssumption
<1>0. StoreInv /\ LookupInv
  BY DEF ReuseInv
<1>1. ASSUME NEW result \in Results, Put(result) PROVE ReuseInv'
  <2>1. StoreInv'
    BY <1>0, <1>1 DEF Put, StoreInv
  <2>2. LookupInv'
    BY <1>0, <1>1, LookupKept DEF Put, LookupInv
  <2> QED
    BY <2>1, <2>2 DEF ReuseInv
<1>2. ASSUME NEW k \in Identities, PutTears(k) \/ \E to \in Identities : Misplace(k, to)
      PROVE  ReuseInv'
  <2>1. StoreInv'
    BY <1>0, <1>2 DEF PutTears, Misplace, StoreInv
  <2>2. LookupInv'
    BY <1>0, <1>2, LookupKept DEF PutTears, Misplace, LookupInv
  <2> QED
    BY <2>1, <2>2 DEF ReuseInv
<1>3. ASSUME NEW grant \in Grants, RetainRecord(grant) PROVE ReuseInv'
  <2>1. grant.ref \in Bundled /\ grant \in Grant
    BY DEF Grant
  <2>2. StoreInv'
    BY <1>0, <1>3, <2>1 DEF RetainRecord, StoreInv
  <2>3. LookupInv'
    BY <1>0, <1>3, LookupKept DEF RetainRecord, LookupInv
  <2> QED
    BY <2>2, <2>3 DEF ReuseInv
<1>4. ASSUME NEW r \in Bundled, RetainBytes(r) \/ RecordTears(r) \/ Alter(r) PROVE ReuseInv'
  <2>1. StoreInv'
    BY <1>0, <1>4 DEF RetainBytes, RecordTears, Alter, StoreInv
  <2>2. LookupInv'
    BY <1>0, <1>4, LookupKept DEF RetainBytes, RecordTears, Alter, LookupInv
  <2> QED
    BY <2>1, <2>2 DEF ReuseInv
<1>5. ASSUME Revoke PROVE ReuseInv'
  <2>1. StoreInv'
    BY <1>0, <1>5 DEF Revoke, StoreInv
  <2>2. LookupInv'
    BY <1>0, <1>5, LookupKept DEF Revoke, LookupInv
  <2> QED
    BY <2>1, <2>2 DEF ReuseInv
<1> QED
  BY <1>1, <1>2, <1>3, <1>4, <1>5

LEMMA LookupStep ==
    ASSUME ReuseInv,
           \/ \E k \in Identities, time \in Times, ttl \in Ttls, checks \in SUBSET Checks :
                  LookUp(k, time, ttl, checks)
           \/ \E r \in Bundled : CheckRetained(r)
           \/ ReadEntry \/ CheckSigner \/ Hit
    PROVE  ReuseInv'
<1>0. StoreInv /\ LookupInv
  BY DEF ReuseInv
<1>1. UNCHANGED <<cached, bytes, records, revoked, results, grants>>
  BY DEF LookUp, CheckRetained, ReadEntry, CheckSigner, Hit
<1>2. StoreInv'
  BY <1>0, <1>1 DEF StoreInv
<1>3. SUFFICES lookup'.at # "none" => Settled(lookup')
  <2>1. ASSUME lookup'.at # "none" => Settled(lookup') PROVE LookupInv'
    BY <1>0, <1>1, <2>1 DEF LookupInv, Settled, Granted, InForce
  <2> QED
    BY <1>2, <2>1 DEF ReuseInv
<1>4. CASE lookup' = NoLookup
  BY <1>4 DEF NoLookup
<1>5. ASSUME NEW k \in Identities, NEW time \in Times, NEW ttl \in Ttls,
             NEW checks \in SUBSET Checks, LookUp(k, time, ttl, checks)
      PROVE  Settled(lookup')
  BY <1>5 DEF LookUp, Settled, LookupFields
<1>6. CASE ReadEntry /\ lookup' # NoLookup
  <2> DEFINE found == cached[lookup.identity]
  <2>1. /\ lookup.at = "entry" /\ Reusable(found) /\ Settled(lookup)
        /\ lookup' = [lookup EXCEPT !.at = "signer", !.result = found, !.left = found.refs]
    BY <1>0, <1>6 DEF ReadEntry, LookupInv
  <2>2. found \in results
    BY <1>0, <2>1 DEF StoreInv, Reusable, Settled
  <2> QED
    BY <2>1, <2>2 DEF Settled, LookupFields, Reusable
<1>7. CASE CheckSigner /\ lookup' # NoLookup
  <2>1. /\ lookup.at = "signer" /\ Settled(lookup)
        /\ lookup' = [lookup EXCEPT !.at = "retention"]
        /\ lookup.result.signed => ~revoked
    BY <1>0, <1>7 DEF CheckSigner, LookupInv
  <2> QED
    BY <2>1 DEF Settled, LookupFields
<1>8. ASSUME NEW r \in Bundled, CheckRetained(r), lookup' # NoLookup
      PROVE  Settled(lookup')
  <2>1. /\ lookup.at = "retention" /\ Settled(lookup)
        /\ lookup' = [lookup EXCEPT !.left = @ \ {r}]
        /\ Readable(r, lookup.time)
    BY <1>0, <1>8 DEF CheckRetained, LookupInv
  <2>2. Granted(r, lookup.time)
    BY <1>0, <2>1 DEF Readable, StoreInv, Granted
  <2> QED
    BY <2>1, <2>2 DEF Settled, LookupFields
<1>9. CASE Hit
  <2>1. /\ lookup.at = "retention" /\ lookup.left = {} /\ Settled(lookup)
        /\ lookup' = [lookup EXCEPT !.at = "hit"]
    BY <1>0, <1>9 DEF Hit, LookupInv
  <2> QED
    BY <2>1 DEF Settled, LookupFields
<1> QED
  BY <1>4, <1>5, <1>6, <1>7, <1>8, <1>9

\* The inductive invariant: what a lookup has settled at each of its steps.
THEOREM ReuseInvariant == ReuseSpec => []ReuseInv
<1>1. ReuseInv /\ [ReuseNext]_reuseVars => ReuseInv'
  <2> SUFFICES ASSUME ReuseInv, [ReuseNext]_reuseVars PROVE ReuseInv'
    OBVIOUS
  <2>1. CASE UNCHANGED reuseVars
    BY <2>1 DEF reuseVars, ReuseInv, StoreInv, LookupInv, Settled, Granted, InForce
  <2> QED
    BY <2>1, StoreStep, LookupStep DEF ReuseNext
<1> QED
  BY ReuseInitially, <1>1, PTL DEF ReuseSpec

\* A hit is of this identity, in the policy's window, of a signer that was valid and of
\* inputs in a window, for any identities, times and windows and any files
\* (cache.py:138-181, retention.py:112-143).
THEOREM ReuseAlwaysSound == ReuseSpec => []ReuseIsSound
<1>1. ReuseInv => ReuseIsSound
  BY DEF ReuseInv, LookupInv, Settled, ReuseIsSound, InForce, Granted
<1> QED
  BY <1>1, ReuseInvariant, PTL
=============================================================================
