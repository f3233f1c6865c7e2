---------------------------- MODULE EnrollmentLedger ----------------------------
(***************************************************************************)
(* What the hub promises about enrollment, with no threads, locks, memory  *)
(* or files: a ledger of paid entries that only grows and only ages, and a *)
(* pool of open tokens.  One commit may carry the work of several requests *)
(* (a save writes whatever earlier, unanswered requests left in memory).   *)
(***************************************************************************)
EXTENDS Integers, Sequences

CONSTANTS
    Names,       \* runner names
    Tokens,      \* enrollment tokens
    MintShaped,  \* the tokens a start-up may keep
    Mints        \* heartbeat tokens

VARIABLES
    entries,     \* the ledger: who was admitted, paid with which token
    open         \* the tokens that can still pay

vars == <<entries, open>>

Entry == [name : Names, tok : Tokens, hb : Mints, enrolled : BOOLEAN]

Init == entries = <<>> /\ open \in SUBSET Tokens

\* An entry keeps its place and identity; unenrolled is for ever.
Ages(before, after) ==
    \A i \in DOMAIN before :
        /\ i \in DOMAIN after
        /\ after[i] = [before[i] EXCEPT !.enrolled = after[i].enrolled]
        /\ after[i].enrolled => before[i].enrolled

Added == DOMAIN entries' \ DOMAIN entries

\* Entries are added, each paid by an open token of its own; every token that
\* closes bought an entry.
Commit ==
    /\ Ages(entries, entries')
    /\ open' \subseteq open
    /\ {entries'[i].tok : i \in Added} = open \ open'
    /\ \A i, j \in Added : entries'[i].tok = entries'[j].tok => i = j

\* A start-up: the ledger is untouched, the pool drops what is not mint-shaped
\* and may gain whatever the environment lists.
Restock ==
    /\ entries' = entries
    /\ open \cap MintShaped \subseteq open'
    /\ open' \subseteq MintShaped

Next == Commit \/ Restock

Spec == Init /\ [][Next]_vars
================================================================================
