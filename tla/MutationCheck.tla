----------------------------- MODULE MutationCheck -----------------------------
(***************************************************************************)
(* The mutation tool (scripts/mutation_check.py) on one source file: it    *)
(* puts mutants on disk, and a sidecar copy is to bring the original back  *)
(* from any death, of this run or of an earlier one.                       *)
(*                                                                         *)
(* A content is a version of the developer's, a mutant, or Cut, what a     *)
(* write that did not end leaves.  The original is committed, what the     *)
(* developer last wrote.  spoilt is history, which no guard reads: a       *)
(* sidecar that is not the original, torn or left from before the          *)
(* developer went on, lies there or has been put in place of the file.     *)
(***************************************************************************)
EXTENDS Integers

CONSTANTS
    MaxVersion,   \* bound: versions
    Mutant, Cut, NoSidecar

ASSUME MutationAssumption ==
    /\ MaxVersion \in Nat
    /\ Mutant \notin Nat \cup {Cut, NoSidecar}
    /\ NoSidecar \notin Nat \cup {Cut}

VARIABLES file, committed, inGit, sidecar, mutator, spoilt

mutationVars == <<file, committed, inGit, sidecar, mutator, spoilt>>

In(pc) == mutator.pc = pc
To(pc) == mutator' = [mutator EXCEPT !.pc = pc]
Gone(exit) == mutator' = [pc |-> "none", original |-> 0, exit |-> exit]

-----------------------------------------------------------------------------
MutationInit ==
    /\ file = 1 /\ committed = 1
    /\ inGit \in BOOLEAN
    /\ sidecar = NoSidecar
    /\ mutator = [pc |-> "none", original |-> 0, exit |-> -1]
    /\ spoilt = FALSE

\* The developer writes the next version and commits it.
Develop ==
    /\ In("none")
    /\ committed < MaxVersion
    /\ file' = committed + 1
    /\ committed' = committed + 1
    /\ spoilt' = (sidecar # NoSidecar)
    /\ UNCHANGED <<inGit, sidecar, mutator>>

Checkout ==
    /\ In("none")
    /\ file # committed
    /\ file' = committed
    /\ spoilt' = (sidecar \notin {NoSidecar, committed})
    /\ UNCHANGED <<committed, inGit, sidecar, mutator>>

\* main: in a git tree a file with uncommitted changes is refused, before anything else.
RefuseDirty ==
    /\ In("none")
    /\ inGit /\ file # committed
    /\ Gone(30)
    /\ UNCHANGED <<file, committed, inGit, sidecar, spoilt>>

Commence ==
    /\ In("none")
    /\ inGit => file = committed
    /\ To(IF sidecar = NoSidecar THEN "read" ELSE "recover")
    /\ UNCHANGED <<file, committed, inGit, sidecar, spoilt>>

\* recover
RecoverFile ==
    /\ In("recover")
    /\ file' = sidecar
    /\ To("forget")
    /\ UNCHANGED <<committed, inGit, sidecar, spoilt>>

ForgetSidecar ==
    /\ In("forget")
    /\ sidecar' = NoSidecar
    /\ To("read")
    /\ UNCHANGED <<file, committed, inGit, spoilt>>

ReadOriginal ==
    /\ In("read")
    /\ mutator' = [mutator EXCEPT !.pc = "enter", !.original = file]
    /\ UNCHANGED <<file, committed, inGit, sidecar, spoilt>>

WriteSidecar ==
    /\ In("enter")
    /\ sidecar' = mutator.original
    /\ To("mutate")
    /\ UNCHANGED <<file, committed, inGit, spoilt>>

\* The tests of a mutant end, or are ended, before the next is written.
Mutate ==
    /\ In("mutate")
    /\ file' = Mutant
    /\ UNCHANGED <<committed, inGit, sidecar, mutator, spoilt>>

\* Defect: the sidecar goes first.
RestoreAfterUnlink ==
    /\ In("mutate")
    /\ sidecar' = NoSidecar
    /\ To("unlink")
    /\ UNCHANGED <<file, committed, inGit, spoilt>>

\* __exit__, after the last mutant or on an exception.
Restore ==
    /\ In("mutate")
    /\ file' = mutator.original
    /\ To("unlink")
    /\ UNCHANGED <<committed, inGit, sidecar, spoilt>>

Unlink ==
    /\ In("unlink")
    /\ sidecar' = NoSidecar
    /\ \E exit \in {0, 1, 2} : Gone(exit)
    /\ UNCHANGED <<file, committed, inGit, spoilt>>

\* Killed: between two steps, or within the write of the sidecar or of the file.
Slain ==
    /\ ~In("none")
    /\ Gone(-1)
    /\ \/ UNCHANGED <<file, sidecar, spoilt>>
       \/ In("enter") /\ sidecar' = Cut /\ spoilt' = TRUE /\ UNCHANGED file
       \/ (In("recover") \/ In("mutate")) /\ file' = Cut /\ UNCHANGED <<sidecar, spoilt>>
    /\ UNCHANGED <<committed, inGit>>

MutationNext ==
    \/ Develop \/ Checkout
    \/ RefuseDirty \/ Commence \/ RecoverFile \/ ForgetSidecar \/ ReadOriginal
    \/ WriteSidecar \/ Mutate \/ Restore \/ Unlink \/ Slain

MutationSpec == MutationInit /\ [][MutationNext]_mutationVars

-----------------------------------------------------------------------------
\* "Guarantees the original bytes come back -- even across SIGKILL": a file that is not
\* what the developer last wrote, a mutant or cut short by a kill, has it in the sidecar,
\* whole, whichever run is killed and wherever, unless a sidecar was torn or has been left
\* behind by the developer, whom the tool then betrays (mutation_check.py:147-192).
OriginalSurvives == file # committed /\ ~spoilt => sidecar = committed
================================================================================
