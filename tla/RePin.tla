---------------------------------- MODULE RePin ----------------------------------
(***************************************************************************)
(* Moving the pinned evaluator identity (re-pin-evaluator-identity.sh):    *)
(* the record and the template are two files, the template also names the  *)
(* commit whose tree is to carry the record, and so they move in two       *)
(* commits.  People commit such moves by hand too, and rewrite the branch. *)
(*                                                                         *)
(* A tree is the record, a digest and the day it was built on, and the     *)
(* template, a digest and a pin.  A commit is a number; the image of the   *)
(* identity moves with its digest and is left out, and so is its profile.  *)
(***************************************************************************)
EXTENDS Integers, Sequences

CONSTANTS
    Digests,
    MaxDay,      \* bound: how many days
    MaxCommits   \* bound: how many commits

VARIABLES
    served,   \* the digest the registry serves
    day,
    commits,  \* the trees of all commits of this clone
    branch,   \* the commits of the branch, in order
    work,     \* the working tree
    op        \* the operation under way, or the last one

repinVars == <<served, day, commits, branch, work, op>>

Tree(digest, built, named, pin) ==
    [record |-> [digest |-> digest, built |-> built], template |-> [digest |-> named, pin |-> pin]]

Tip == branch[Len(branch)]
OnBranch(commit) == \E n \in DOMAIN branch : branch[n] = commit
Clean == work = commits[Tip]

Carries(commit, digest) == commit \in DOMAIN commits /\ commits[commit].record.digest = digest

Doing(pc) == op.pc = pc
NoOp == [pc |-> "none", exit |-> -1, orig |-> <<>>, digest |-> 0, built |-> 0, pin |-> 0]
Finish(code) == op' = [op EXCEPT !.pc = "none", !.exit = code]

Commit == /\ commits' = Append(commits, work)
          /\ branch' = Append(branch, Len(commits) + 1)

\* verify_pinned_identity.
Agrees ==
    /\ OnBranch(work.template.pin)
    /\ Carries(work.template.pin, work.template.digest)
    /\ work.record.digest = work.template.digest

-----------------------------------------------------------------------------
RepinInit ==
    /\ served \in Digests
    /\ day = 0
    /\ \E digest \in Digests :
          /\ work = Tree(digest, 0, digest, 1)
          /\ commits = <<work, work>>
    /\ branch = <<1, 2>>
    /\ op = NoOp

(* Others *)

NewDay == day < MaxDay /\ day' = day + 1 /\ UNCHANGED <<served, commits, branch, work, op>>

Publish ==
    /\ served' \in Digests \ {served}
    /\ UNCHANGED <<day, commits, branch, work, op>>

\* A commit by hand, of one file, or of what a dead run has left.
HandMove ==
    /\ Doing("none")
    /\ Len(commits) < MaxCommits
    /\ \E tree \in {work} \cup
              {[work EXCEPT !.record.digest = digest] : digest \in Digests} \cup
              {[work EXCEPT !.template = [digest |-> digest, pin |-> pin]] :
                   digest \in Digests, pin \in DOMAIN commits} :
          /\ tree # commits[Tip]
          /\ work' = tree
          /\ commits' = Append(commits, tree)
    /\ branch' = Append(branch, Len(commits) + 1)
    /\ op' = NoOp
    /\ UNCHANGED <<served, day>>

\* The last commit is amended or rebased: the same tree as another commit.
Rewrite ==
    /\ Doing("none")
    /\ Clean
    /\ Len(commits) < MaxCommits
    /\ commits' = Append(commits, work)
    /\ branch' = [branch EXCEPT ![Len(branch)] = Len(commits) + 1]
    /\ op' = NoOp
    /\ UNCHANGED <<served, day, work>>

CleanUp ==
    /\ Doing("none")
    /\ ~Clean
    /\ work' = commits[Tip]
    /\ op' = NoOp
    /\ UNCHANGED <<served, day, commits, branch>>

(* The operation *)

\* A dirty tree; also a registry that does not serve the bytes to anybody.
RefuseMove ==
    /\ Doing("none")
    /\ op' = [NoOp EXCEPT !.exit = IF Clean THEN 3 ELSE 5]
    /\ UNCHANGED <<served, day, commits, branch, work>>

\* The digest is what the registry serves now, and can be pulled.
ResolveDigest ==
    /\ Doing("none")
    /\ Clean
    /\ Len(commits) + 2 <= MaxCommits
    /\ op' = [NoOp EXCEPT !.pc = "record", !.orig = branch, !.digest = served,
                          !.built = day]
    /\ UNCHANGED <<served, day, commits, branch, work>>

WriteRecord ==
    /\ Doing("record")
    /\ work' = [work EXCEPT !.record = [digest |-> op.digest, built |-> op.built]]
    /\ op' = [op EXCEPT !.pc = "commit record"]
    /\ UNCHANGED <<served, day, commits, branch>>

\* Defect: a record that has not moved leaves the pin where it is.
PinUnlessMoved(changed) == IF changed THEN Len(commits) + 1 ELSE work.template.pin

\* The commit of the record; else the pin stays if its tree carries the record; else HEAD.
PinFor(changed) ==
    IF changed THEN Len(commits) + 1
    ELSE IF Carries(work.template.pin, op.digest) THEN work.template.pin ELSE Tip

CommitRecord ==
    /\ Doing("commit record")
    /\ op' = [op EXCEPT !.pc = "template", !.pin = PinFor(~Clean)]
    /\ IF Clean THEN UNCHANGED <<commits, branch>> ELSE Commit
    /\ UNCHANGED <<served, day, work>>

WriteTemplate ==
    /\ Doing("template")
    /\ work' = [work EXCEPT !.template = [digest |-> op.digest, pin |-> op.pin]]
    /\ op' = [op EXCEPT !.pc = "commit template"]
    /\ UNCHANGED <<served, day, commits, branch>>

CommitTemplate ==
    /\ Doing("commit template")
    /\ op' = [op EXCEPT !.pc = "guard"]
    /\ IF Clean THEN UNCHANGED <<commits, branch>> ELSE Commit
    /\ UNCHANGED <<served, day, work>>

\* git reset --hard ORIG; that the reset fails too, which the code passes over, is left out.
Reset ==
    /\ branch' = op.orig
    /\ work' = commits[op.orig[Len(op.orig)]]

CommitFails ==
    /\ Doing("commit record") \/ Doing("commit template")
    /\ ~Clean
    /\ Reset
    /\ Finish(6)
    /\ UNCHANGED <<served, day, commits>>

Guard ==
    /\ Doing("guard")
    /\ \/ Agrees /\ Finish(0) /\ UNCHANGED <<branch, work>>
       \/ ~Agrees /\ Finish(4) /\ Reset
    /\ UNCHANGED <<served, day, commits>>

OperationDies ==
    /\ ~Doing("none")
    /\ op' = NoOp
    /\ UNCHANGED <<served, day, commits, branch, work>>

RepinNext ==
    \/ NewDay \/ Publish \/ HandMove \/ Rewrite \/ CleanUp
    \/ RefuseMove \/ ResolveDigest
    \/ WriteRecord \/ CommitRecord \/ WriteTemplate \/ CommitTemplate
    \/ CommitFails \/ Guard \/ OperationDies

RepinSpec == RepinInit /\ [][RepinNext]_repinVars

-----------------------------------------------------------------------------
\* Whatever a run that died, or somebody's hand, has left of a move, a run that gets as
\* far as its guard repairs it, except where the pin it keeps has left the branch
\* (re-pin:341-368).
MoveHeals ==
    op.exit = 4 => Carries(op.pin, op.digest) /\ ~OnBranch(op.pin)
================================================================================
