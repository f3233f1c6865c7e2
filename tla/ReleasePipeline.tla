---------------------------- MODULE ReleasePipeline ----------------------------
(***************************************************************************)
(* The gated publish pipeline (scripts/deploy.sh): gate, bump, commit,     *)
(* tag, push, prove the tag upstream, verify the artifact, publish.  A run *)
(* can fail or die at each step and be started again; people edit, commit  *)
(* and tag the same checkout meanwhile.                                    *)
(*                                                                         *)
(* A tree is a revision of the code, the version its manifest names, and   *)
(* whether files are there that git does not track (in a commit: that they *)
(* were taken in).  A Python project publishes what lies in dist, any      *)
(* other the working tree.  gated, touched, exact and built of a run are   *)
(* history, which no guard reads but where a comment says so: the revision *)
(* the gate passed, an edit since, whether the tag was free or at the      *)
(* commit it is to name, and the versions this run built into dist.        *)
(***************************************************************************)
EXTENDS Integers, Sequences

CONSTANTS
    Versions,
    Unpublished, NoArtifact,
    MaxCode,     \* bound: revisions
    MaxHistory   \* bound: commits

Kinds == {"npm", "cargo", "pyproject", "setup", "other"}
Numbers == Versions \cup {0}

VARIABLES kind, tree, history, tags, upstream, dist, shelf, deploy

releaseVars == <<kind, tree, history, tags, upstream, dist, shelf, deploy>>

Newest == Len(history)
NoTag == [at |-> 0, annotated |-> FALSE]
Stage(pc) == deploy.pc = pc
Moves(pc) == deploy' = [deploy EXCEPT !.pc = pc]
Rest == [pc |-> "none", version |-> 0, gated |-> 0, touched |-> FALSE, exact |-> FALSE,
         built |-> {}]
Stops == deploy' = Rest

Python == kind \in {"pyproject", "setup"}

\* A commit as it is checked out, with or without files that git does not track.
PlusStray(commit) == {commit, [commit EXCEPT !.stray = TRUE]}

\* What git diff sees: not an untracked file.
Dirty == tree \notin PlusStray(history[Newest])

\* A tool that is run in the checkout may leave files behind.
Litter == tree' \in PlusStray(tree)

-----------------------------------------------------------------------------
ReleaseInit ==
    /\ kind \in Kinds
    /\ tree \in [code : {1}, version : IF kind = "setup" THEN Numbers ELSE {0},
                stray : {FALSE}]
    /\ history = <<tree>>
    /\ tags = [v \in Versions |-> NoTag]
    /\ upstream = [tip |-> 1, tags |-> tags]
    /\ dist = [n \in Numbers |-> IF Python /\ n = tree.version THEN tree ELSE NoArtifact]
    /\ shelf = [n \in Numbers |-> Unpublished]
    /\ deploy = Rest

(* People *)

\* The next revision, committed or not, with or without files that git does not know.
Edit ==
    /\ tree.code < MaxCode
    /\ \E stray \in {TRUE, tree.stray} :
          tree' = [tree EXCEPT !.code = @ + 1, !.stray = stray]
    /\ \/ Newest < MaxHistory /\ \E commit \in {tree', [tree' EXCEPT !.stray = FALSE]} :
             history' = Append(history, commit)
       \/ UNCHANGED history
    /\ deploy' = [deploy EXCEPT !.touched = ~Stage("none")]
    /\ UNCHANGED <<kind, tags, upstream, dist, shelf>>

\* What a run that died has left is thrown away or committed.
SettleTree ==
    /\ Stage("none")
    /\ tree # history[Newest]
    /\ \/ tree' = history[Newest] /\ UNCHANGED history
       \/ Newest < MaxHistory /\ history' = Append(history, tree) /\ UNCHANGED tree
    /\ UNCHANGED <<kind, tags, upstream, dist, shelf, deploy>>

EmptyDist ==
    /\ Python
    /\ Stage("none")
    /\ dist' = [n \in Numbers |-> NoArtifact]
    /\ UNCHANGED <<kind, tree, history, tags, upstream, shelf, deploy>>

\* By hand, a lightweight tag.
HandTag(v) ==
    /\ tags[v] = NoTag
    /\ tags' = [tags EXCEPT ![v] = [at |-> Newest, annotated |-> FALSE]]
    /\ UNCHANGED <<kind, tree, history, upstream, dist, shelf, deploy>>

(* The pipeline *)

StartDeploy(v) ==
    /\ Stage("none")
    /\ ~Dirty
    /\ deploy' = [Rest EXCEPT !.pc = "gate", !.version = v]
    /\ UNCHANGED <<kind, tree, history, tags, upstream, dist, shelf>>

\* Regression check, scan, and the project's own build and tests.
PassGate ==
    /\ Stage("gate")
    /\ deploy' = [deploy EXCEPT !.pc = "bump", !.gated = tree.code]
    /\ Litter
    /\ UNCHANGED <<kind, history, tags, upstream, dist, shelf>>

\* Where no manifest is known the version is left to be set by hand.
Bump ==
    /\ Stage("bump")
    /\ tree' = IF kind \in {"npm", "cargo", "pyproject"}
               THEN [tree EXCEPT !.version = deploy.version] ELSE tree
    /\ Moves("commit")
    /\ UNCHANGED <<kind, history, tags, upstream, dist, shelf>>

\* git add -A takes whatever is there, if git diff sees a change: not one that somebody
\* has staged since the run began.
CommitBump ==
    /\ Stage("commit")
    /\ \/ (~Dirty \/ deploy.touched) /\ UNCHANGED history
       \/ Dirty /\ Newest < MaxHistory /\ history' = Append(history, tree)
    /\ Moves("tag")
    /\ UNCHANGED <<kind, tree, tags, upstream, dist, shelf>>

\* A tag that is there is taken as it is, wherever it points.
MakeTag ==
    /\ Stage("tag")
    /\ LET v == deploy.version
       IN  /\ tags' = IF tags[v] = NoTag
                      THEN [tags EXCEPT ![v] = [at |-> Newest, annotated |-> TRUE]] ELSE tags
           /\ deploy' = [deploy EXCEPT !.pc = "push", !.exact = tags'[v].at = Newest]
    /\ UNCHANGED <<kind, tree, history, upstream, dist, shelf>>

\* The branch, and the annotated tags that the remote does not have.
Pushed == [tip |-> Newest, tags |-> [v \in Versions |->
              IF upstream.tags[v] = NoTag /\ tags[v].annotated
              THEN tags[v] ELSE upstream.tags[v]]]

\* Defect: a push that fails is only reported.
PushLeniently ==
    /\ Stage("push")
    /\ upstream' \in {Pushed, upstream}
    /\ Moves("prove tag")
    /\ UNCHANGED <<kind, tree, history, tags, dist, shelf>>

\* git push --follow-tags, with or without an upstream.
Push ==
    /\ Stage("push")
    /\ upstream' = Pushed
    /\ Moves("prove tag")
    /\ UNCHANGED <<kind, tree, history, tags, dist, shelf>>

\* The tag is looked for by its name, pushed if it is missing, and looked for again.
ProveTag ==
    /\ Stage("prove tag")
    /\ LET v == deploy.version
       IN  upstream' = IF upstream.tags[v] = NoTag
                       THEN [upstream EXCEPT !.tags[v] = tags[v]] ELSE upstream
    /\ Moves("verify")
    /\ UNCHANGED <<kind, tree, history, tags, dist, shelf>>

\* python3 -m build adds to dist what the tree makes, under the tree's own version.
Builds(then) ==
    /\ dist' = [dist EXCEPT ![tree.version] = tree]
    /\ deploy' = [deploy EXCEPT !.pc = then, !.built = @ \cup {tree.version}]

\* With a contract the artifact is packed first and then looked into.
VerifyArtifact ==
    /\ Stage("verify")
    /\ Litter
    /\ IF Python THEN Builds("publish") \/ (Moves("publish") /\ UNCHANGED dist)
                 ELSE Moves("publish") /\ UNCHANGED dist
    /\ UNCHANGED <<kind, history, tags, upstream, shelf>>

\* own: made by the run that published it, in a checkout nobody edited under it.
Out(artifact, built) ==
    LET own == built /\ ~deploy.touched
    IN  [tree |-> artifact, run |-> deploy.version, own |-> own,
         gated |-> IF own THEN deploy.gated ELSE 0, exact |-> own /\ deploy.exact]

\* npm and cargo publish the tree under its own version, once; cargo no untracked file.
PublishTree ==
    /\ Stage("publish")
    /\ kind \in {"npm", "cargo"}
    /\ kind = "cargo" => tree = history[Newest]
    /\ shelf[tree.version] = Unpublished
    /\ shelf' = [shelf EXCEPT ![tree.version] = Out(tree, TRUE)]
    /\ Moves("release")
    /\ UNCHANGED <<kind, tree, history, tags, upstream, dist>>

PublishNothing ==
    /\ Stage("publish")
    /\ kind = "other"
    /\ Moves("release")
    /\ UNCHANGED <<kind, tree, history, tags, upstream, dist, shelf>>

InDist == {n \in Numbers : dist[n] # NoArtifact}

\* twine uploads all that is in dist, and stops at what the registry has or refuses.  By
\* "A || B && C" a first upload that succeeds is followed by a second.
UploadDist ==
    /\ Python
    /\ Stage("publish") \/ Stage("again")
    /\ \E out \in SUBSET {n \in InDist : shelf[n] = Unpublished} :
          /\ shelf' = [n \in Numbers |->
                          IF n \in out THEN Out(dist[n], n \in deploy.built) ELSE shelf[n]]
          /\ \/ /\ out = InDist /\ out # {}
                /\ Moves(IF Stage("publish") THEN "again" ELSE "release")
             \/ IF Stage("publish") THEN Moves("build") ELSE Stops
    /\ UNCHANGED <<kind, tree, history, tags, upstream, dist>>

BuildDist ==
    /\ Python
    /\ Stage("build")
    /\ Builds("again")
    /\ Litter
    /\ UNCHANGED <<kind, history, tags, upstream, shelf>>

\* Left of "&&" a failure does not end the script, which goes on as if it had published.
BuildFails ==
    /\ Python
    /\ Stage("build")
    /\ dist' \in {dist, [dist EXCEPT ![tree.version] = tree]}
    /\ Moves("release")
    /\ Litter
    /\ UNCHANGED <<kind, history, tags, upstream, shelf>>

\* The last step, whose failure is a warning; or a failure of any step, or a death.
DeployEnds ==
    /\ ~Stage("none")
    /\ Stops
    /\ UNCHANGED <<kind, tree, history, tags, upstream, dist, shelf>>

ReleaseNext ==
    \/ Edit \/ SettleTree \/ EmptyDist
    \/ \E v \in Versions : HandTag(v) \/ StartDeploy(v)
    \/ PassGate \/ Bump \/ CommitBump \/ MakeTag \/ Push \/ ProveTag
    \/ VerifyArtifact \/ PublishTree \/ PublishNothing \/ UploadDist \/ BuildDist \/ BuildFails
    \/ DeployEnds

ReleaseSpec == ReleaseInit /\ [][ReleaseNext]_releaseVars

-----------------------------------------------------------------------------
\* "A published version is immutable": whatever a run publishes, its own tag is on the
\* remote.  What it made itself, in a checkout nobody edited under it, is the revision the
\* gate passed, carries the run's version unless only a setup.py names one, and is but for
\* untracked files a commit of the remote branch: the one the remote tag names, unless the
\* run found a tag of that name elsewhere.  However many runs and failures it took, and
\* whatever they left behind (deploy.sh:55-60, 139-192, 194-200, 339-352).
PublishedIsBacked ==
    \A n \in Numbers : shelf[n] # Unpublished =>
        LET out == shelf[n]
        IN  /\ upstream.tags[out.run] # NoTag
            /\ out.own =>
                  /\ out.tree.code = out.gated
                  /\ kind # "setup" => n = out.run
                  /\ \E m \in 1..upstream.tip :
                        /\ out.tree \in PlusStray(history[m])
                        /\ out.exact => upstream.tags[out.run].at = m
================================================================================
