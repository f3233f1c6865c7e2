------------------------------- MODULE ResultReuse -------------------------------
(***************************************************************************)
(* Reuse of a sealed result: cache.py keeps results under the identity     *)
(* they were computed for, retention.py the input bytes, and a lookup asks *)
(* both, file by file, while others put, retain, rename and revoke.  No    *)
(* writing is atomic.  The times are those of the callers' contexts, which *)
(* do not agree on an order.                                               *)
(*                                                                         *)
(* A result stands for its payload; the name of its file is its identity,  *)
(* as all seven components go into the key.  A bundle is named after its   *)
(* bytes.  results and grants are history.                                 *)
(***************************************************************************)
EXTENDS Naturals

CONSTANTS
    Identities, Bundled,
    Results,     \* bound: what is put
    Grants,      \* bound: windows of retention
    Times,       \* bound: at which a lookup is made
    Ttls,        \* bound: of policies
    Undeclared,
    Missing, Damaged   \* no file; one that is torn or altered

\* signed: with a key whose validity may end.  refs: the bundles it was computed from.
Result == [identity : Identities, at : Nat, signed : BOOLEAN, refs : SUBSET Bundled]
Grant == [ref : Bundled, until : Nat]
Checks == {"signer", "retention"}

ASSUME ReuseAssumption ==
    /\ Results \subseteq Result /\ Grants \subseteq Grant
    /\ Times \subseteq Nat /\ Ttls \subseteq Nat \cup {Undeclared} /\ Undeclared \notin Nat
    /\ {Missing, Damaged} \cap (Result \cup Grant) = {}

VARIABLES
    cached,     \* by file name
    bytes,      \* of each bundle
    records,    \* of each bundle
    revoked,    \* the signing key is no longer valid
    lookup,
    results, grants

reuseVars == <<cached, bytes, records, revoked, lookup, results, grants>>

NoLookup == [at |-> "none"]

ReuseInit ==
    /\ cached = [k \in Identities |-> Missing]
    /\ bytes = [r \in Bundled |-> Missing]
    /\ records = [r \in Bundled |-> Missing]
    /\ revoked = FALSE
    /\ lookup = NoLookup
    /\ results = {} /\ grants = {}

-----------------------------------------------------------------------------
(* cache.put; one that has torn has died, or is still under way *)

Put(result) ==
    /\ cached' = [cached EXCEPT ![result.identity] = result]
    /\ results' = results \cup {result}
    /\ UNCHANGED <<bytes, records, revoked, lookup, grants>>

PutTears(k) ==
    /\ cached' = [cached EXCEPT ![k] = Damaged]
    /\ UNCHANGED <<bytes, records, revoked, lookup, results, grants>>

(* retention.retain: the bytes, unless they are there; then the record, whatever it was *)

RetainBytes(r) ==
    /\ bytes[r] = Missing
    /\ bytes' \in {[bytes EXCEPT ![r] = state] : state \in {"whole", Damaged}}
    /\ UNCHANGED <<cached, records, revoked, lookup, results, grants>>

\* Bytes that differ are taken for a collision of digests, also those that have torn.
RetainRecord(grant) ==
    /\ bytes[grant.ref] = "whole"
    /\ records' = [records EXCEPT ![grant.ref] = grant]
    /\ grants' = grants \cup {grant}
    /\ UNCHANGED <<cached, bytes, revoked, lookup, results>>

RecordTears(r) ==
    /\ bytes[r] = "whole"
    /\ records' = [records EXCEPT ![r] = Damaged]
    /\ UNCHANGED <<cached, bytes, revoked, lookup, results, grants>>

(* The world *)

\* A file of the cache is renamed or removed; a bundle is altered.
Misplace(from, to) ==
    /\ cached' = [cached EXCEPT ![to] = cached[from], ![from] = Missing]
    /\ UNCHANGED <<bytes, records, revoked, lookup, results, grants>>

Alter(r) ==
    /\ bytes[r] # Missing
    /\ bytes' = [bytes EXCEPT ![r] = Damaged]
    /\ UNCHANGED <<cached, records, revoked, lookup, results, grants>>

Revoke ==
    /\ revoked' = TRUE
    /\ UNCHANGED <<cached, bytes, records, lookup, results, grants>>

-----------------------------------------------------------------------------
(* cache.get *)

LookUp(k, time, ttl, checks) ==
    /\ lookup.at \in {"none", "hit"}
    /\ lookup' = [at |-> "entry", identity |-> k, time |-> time, ttl |-> ttl, checks |-> checks,
                  result |-> Missing, left |-> {}, valid |-> ~revoked]
    /\ UNCHANGED <<cached, bytes, records, revoked, results, grants>>

\* An age below zero is of two times that contradict each other.
InForce(result, time, ttl) ==
    /\ ttl # Undeclared
    /\ result.at <= time /\ time <= result.at + ttl

\* Defect: what is in a file is taken for what its name says.
ReusableByName(result) ==
    /\ result \notin {Missing, Damaged}
    /\ InForce(result, lookup.time, lookup.ttl)

Reusable(result) ==
    /\ result \notin {Missing, Damaged}
    /\ result.identity = lookup.identity
    /\ InForce(result, lookup.time, lookup.ttl)

ReadEntry ==
    /\ lookup.at = "entry"
    /\ LET result == cached[lookup.identity]
       IN  lookup' = IF Reusable(result)
                     THEN [lookup EXCEPT !.at = "signer", !.result = result, !.left = result.refs]
                     ELSE NoLookup
    /\ UNCHANGED <<cached, bytes, records, revoked, results, grants>>

\* The caller's predicate, if it has one, is asked now.
CheckSigner ==
    /\ lookup.at = "signer"
    /\ lookup' = IF lookup.result.signed => "signer" \in lookup.checks /\ ~revoked
                 THEN [lookup EXCEPT !.at = "retention"] ELSE NoLookup
    /\ UNCHANGED <<cached, bytes, records, revoked, results, grants>>

\* retention.read, with the capability that the predicate holds.
Readable(r, time) ==
    /\ bytes[r] = "whole"
    /\ records[r] \notin {Missing, Damaged}
    /\ time <= records[r].until

CheckRetained(r) ==
    /\ lookup.at = "retention" /\ r \in lookup.left
    /\ lookup' = IF "retention" \in lookup.checks /\ Readable(r, lookup.time)
                 THEN [lookup EXCEPT !.left = @ \ {r}] ELSE NoLookup
    /\ UNCHANGED <<cached, bytes, records, revoked, results, grants>>

Hit ==
    /\ lookup.at = "retention" /\ lookup.left = {}
    /\ lookup' = [lookup EXCEPT !.at = "hit"]
    /\ UNCHANGED <<cached, bytes, records, revoked, results, grants>>

ReuseNext ==
    \/ \E result \in Results : Put(result)
    \/ \E k \in Identities : \/ PutTears(k)
                             \/ \E to \in Identities : Misplace(k, to)
                             \/ \E time \in Times, ttl \in Ttls, checks \in SUBSET Checks :
                                    LookUp(k, time, ttl, checks)
    \/ \E grant \in Grants : RetainRecord(grant)
    \/ \E r \in Bundled : RetainBytes(r) \/ RecordTears(r) \/ Alter(r) \/ CheckRetained(r)
    \/ Revoke \/ ReadEntry \/ CheckSigner \/ Hit

ReuseSpec == ReuseInit /\ [][ReuseNext]_reuseVars

-----------------------------------------------------------------------------
\* What a hit returns was put for this very identity, at a time the policy's window spans;
\* its signer was valid when it was asked for; and each bundle it was computed from is in a
\* window that somebody granted, however files tore, moved and were replaced in between
\* (cache.py:138-181, retention.py:112-143).
ReuseIsSound ==
    lookup.at = "hit" =>
        LET result == lookup.result
        IN  /\ result \in results /\ result.identity = lookup.identity
            /\ lookup.ttl # Undeclared
            /\ result.at <= lookup.time /\ lookup.time <= result.at + lookup.ttl
            /\ result.signed => lookup.valid
            /\ \A r \in result.refs : \E grant \in grants :
                   grant.ref = r /\ lookup.time <= grant.until
=================================================================================
