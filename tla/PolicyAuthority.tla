---------------------------- MODULE PolicyAuthority ----------------------------
(***************************************************************************)
(* Who decides what a run forgives.  The control plane issues a context    *)
(* (issue.py): it binds the policy bundle it finds and the adoption sets   *)
(* it is given, writes the sets to the policy directory, then the context; *)
(* each write can be cut short.  Whoever owns the repository can put any   *)
(* bundle and any set into the policy directory, at any time.  A run       *)
(* (policy.py, context.py) loads context and bundle first and the sets     *)
(* after its evaluation, and judges by them if the context accepts them.   *)
(*                                                                         *)
(* A bundle is a record of its epoch and of the floor it demands.  A       *)
(* digest is the content it is of.  issued, whole and judged are history.  *)
(***************************************************************************)
EXTENDS Integers, Sequences

CONSTANTS
    Bundles,    \* policy bundles: [epoch, floor]
    Sets,       \* contents of an adoption set; an absent file reads as Empty
    Empty, Torn, None,
    Orders,     \* what an issuance is given: sets, and a window for an older bundle
    MaxTime,    \* bound: how far evaluation times go
    MaxIssues   \* bound: how many issuances start

SetNames == {"baseline", "exceptions"}
Contexts == [expected : Bundles, floor : Nat, old : Bundles, until : Nat, time : Nat,
             bound : [SetNames -> Sets \cup {None}]]
Issuances == [todo : SUBSET SetNames, context : Contexts]

ASSUME AuthorityAssumption ==
    /\ Bundles \subseteq [epoch : Nat, floor : Nat]
    /\ Empty \in Sets /\ Torn \notin Sets /\ None \notin Sets \cup Issuances
    /\ Orders \subseteq [sets : [SetNames -> Sets \cup {None}],
                          old : Bundles, until : Nat]
    /\ MaxTime \in Nat /\ MaxIssues \in Nat

VARIABLES
    now,        \* the evaluation time the control plane gives out
    bundle,     \* policy.json
    sets,       \* baseline.json and exceptions.json
    context,    \* context.json
    issuing,    \* the issuance under way
    judging,    \* the run under way: the context and the bundle it has loaded
    issued,     \* history: the contexts issued, in order of their start
    whole,      \* history: the last issuance did not die, nothing was placed since
    judged      \* history: the context, bundle and sets the last run went by

disk == <<bundle, sets, context>>
authVars == <<now, disk, issuing, judging, issued, whole, judged>>

-----------------------------------------------------------------------------
AuthInit ==
    /\ now = 0
    /\ bundle \in Bundles
    /\ sets = [name \in SetNames |-> Empty]
    /\ context = None
    /\ issuing = None /\ judging = None
    /\ issued = <<>> /\ whole = FALSE /\ judged = None

Tick ==
    /\ now < MaxTime
    /\ now' = now + 1
    /\ UNCHANGED <<disk, issuing, judging, issued, whole, judged>>

\* Central publishes a bundle, or the repository puts another one back.
PlaceBundle ==
    /\ bundle' \in Bundles \ {bundle}
    /\ whole' = FALSE
    /\ UNCHANGED <<now, sets, context, issuing, judging, issued, judged>>

PlaceSet ==
    /\ \E name \in SetNames, content \in Sets : sets' = [sets EXCEPT ![name] = content]
    /\ whole' = FALSE
    /\ UNCHANGED <<now, bundle, context, issuing, judging, issued, judged>>

(* issue_context *)

\* The binding is made of the bundle as it is now; a set that is not given is not bound.
\* A window may let an older bundle live on for a while.
StartIssue ==
    /\ issuing = None
    /\ Len(issued) < MaxIssues
    /\ \E order \in Orders :
          LET ctx == [expected |-> bundle, floor |-> bundle.floor, old |-> order.old,
                      until |-> order.until, time |-> now, bound |-> order.sets]
          IN  /\ issuing' = [todo |-> {name \in SetNames : order.sets[name] # None},
                             context |-> ctx]
              /\ issued' = Append(issued, ctx)
    /\ whole' = TRUE
    /\ UNCHANGED <<now, disk, judging, judged>>

Write(name, content) == sets' = [sets EXCEPT ![name] = content]

\* The baseline first.
NextSet == IF "baseline" \in issuing.todo THEN "baseline" ELSE "exceptions"

\* Defect: a set that is already there is left as it is.
KeepSet ==
    /\ issuing # None
    /\ issuing.todo # {}
    /\ IF sets[NextSet] = Empty THEN Write(NextSet, issuing.context.bound[NextSet])
                                ELSE UNCHANGED sets
    /\ issuing' = [issuing EXCEPT !.todo = @ \ {NextSet}]
    /\ UNCHANGED <<now, bundle, context, judging, issued, whole, judged>>

WriteSet ==
    /\ issuing # None
    /\ issuing.todo # {}
    /\ Write(NextSet, issuing.context.bound[NextSet])
    /\ issuing' = [issuing EXCEPT !.todo = @ \ {NextSet}]
    /\ UNCHANGED <<now, bundle, context, judging, issued, whole, judged>>

\* Defect: the context does not say which sets it was issued with.
WriteUnboundContext ==
    /\ issuing # None
    /\ issuing.todo = {}
    /\ context' = [issuing.context EXCEPT !.bound.exceptions = None]
    /\ issuing' = None
    /\ UNCHANGED <<now, bundle, sets, judging, issued, whole, judged>>

WriteContext ==
    /\ issuing # None
    /\ issuing.todo = {}
    /\ context' = issuing.context
    /\ issuing' = None
    /\ UNCHANGED <<now, bundle, sets, judging, issued, whole, judged>>

\* The issuer dies, between two writes or within one; or it raises at a later set, or at the
\* signer's, that is not valid.
IssuerDies ==
    /\ issuing # None
    /\ issuing' = None
    /\ \/ UNCHANGED <<sets, context>>
       \/ issuing.todo # {} /\ Write(NextSet, Torn) /\ UNCHANGED context
       \/ issuing.todo = {} /\ context' = Torn /\ UNCHANGED sets
    /\ whole' = FALSE
    /\ UNCHANGED <<now, bundle, judging, issued, judged>>

(* A run *)

\* check_anti_rollback: the bound bundle at or above the bound floor, or an older one
\* within its window at the time of the context.
Authorized(b, ctx) ==
    \/ b = ctx.expected /\ b.epoch >= ctx.floor
    \/ b # ctx.expected /\ b = ctx.old /\ ctx.until > ctx.time

\* context.load, then policy.resolve.
Resolve ==
    /\ judging = None
    /\ context \notin {None, Torn}
    /\ Authorized(bundle, context)
    /\ judging' = [context |-> context, bundle |-> bundle]
    /\ UNCHANGED <<now, disk, issuing, issued, whole, judged>>

\* verify_bound_sets, of the context as it was loaded.
BoundSets ==
    \A name \in SetNames : judging.context.bound[name] \in {None, sets[name]}

\* load_adoption_sets, after the evaluation.
Judge ==
    /\ judging # None
    /\ \A name \in SetNames : sets[name] # Torn
    /\ BoundSets
    /\ judged' = [context |-> judging.context, bundle |-> judging.bundle, sets |-> sets]
    /\ judging' = None
    /\ UNCHANGED <<now, disk, issuing, issued, whole>>

\* Refused, or dead.
GiveUp ==
    /\ judging # None
    /\ judging' = None
    /\ UNCHANGED <<now, disk, issuing, issued, whole, judged>>

AuthNext ==
    \/ Tick \/ PlaceBundle \/ PlaceSet
    \/ StartIssue \/ WriteSet \/ WriteContext \/ IssuerDies
    \/ Resolve \/ Judge \/ GiveUp

AuthSpec == AuthInit /\ [][AuthNext]_authVars

-----------------------------------------------------------------------------
\* Whatever was put into the policy directory while a run was on its way, and wherever an
\* issuance was cut short: it judges under a context the control plane issued, by exactly
\* the sets it was issued with if it was issued with any (context.py:117-132).
JudgedByIssuedSets ==
    judged # None =>
        /\ \E n \in DOMAIN issued : judged.context = issued[n]
        /\ \A name \in SetNames : judged.context.bound[name] \in {None, judged.sets[name]}

\* Putting an older bundle back, at any moment of a run or between runs, gets nobody judged
\* by it under a context that issued no window for it: the bundle's epoch is at least that
\* of the one the context was issued for (policy.py:75-143).
NoRollback ==
    judged # None /\ judged.context.until <= judged.context.time =>
        \E n \in DOMAIN issued :
            issued[n] = judged.context /\ judged.bundle.epoch >= issued[n].expected.epoch

\* An issuance that ends heals whatever earlier ones and others left in the sets it was
\* given: those on disk are those its context binds (issue.py:182-216).
ReissueHeals ==
    whole /\ issuing = None =>
        \A name \in SetNames : context.bound[name] \in {None, sets[name]}
================================================================================
