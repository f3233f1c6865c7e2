# Verification of the DevGate hub and coherence service

DevGate is a self-hosted quality gate for repositories. Three programs carry its
logic, and this project models them one component at a time:

* the **runner-monitor hub** (`hub/*.py`): a daemon that enrolls runner hosts
  ("spokes"), takes their heartbeats, polls GitHub and files alerts;
* the **spec-coherence service** (`hub/coherence/*.py`): a batch pipeline that
  decides whether a source tree satisfies its specification, under a central
  policy, and seals and signs the decision;
* the **operation scripts** (`scripts/*`): what spokes and CI run.

## Inventory

### Runner-monitor hub

| component | state it keeps | operations | hard behaviour | what makes it correct |
|---|---|---|---|---|
| registry, server, start-up (`registry.py`, `server.py`, `main.py`, `tokens.py`) | `runners.json` and its copy in memory, the state lock, one request per thread, the token list in the environment drop-in | start-up, `/enroll`, `/heartbeat`, `/revoke`, `save` | requests race on threads; `save` can raise after memory changed; the process can die between any two steps; replies get lost | what a reply promised is on the volume for good; a token pays once; a revocation is final; the lock is always released |
| alert delivery (`alerts.py`) | a per-process map of open issues, a comment cooldown per key, a JSONL log per day; the issues are on GitHub | `raise_alert` | search, filing and commenting fail independently; people close issues; restarts forget the maps | one open issue per alert key, a failing check is always visible, the log has everything that was sent |
| monitor loop (`monitor.py`, `github_client.py`, `config.py`) | the time of the last completed poll | `poll_cycle` and its seven checks per repository | the registry changes under the poll; every API call can fail or raise, and ends or skips different checks | a failing check alerts, no failure of one repository or channel hides another, a dead loop shows in `/health` |
| health readings (`registry.py:51-124`, `scan_view.py`) | none | `image_missing`, `scan_state_unknown`, `scan_alerts` | absent, null and malformed reports differ | unknown never reads as healthy |
| watchdog (`scripts/hub-watchdog.sh`) | none | one probe of `/health` per timer tick | polling off, never polled and wedged look alike | a wedged hub fails the unit |

### Spec-coherence service

| component | state it keeps | operations | hard behaviour | what makes it correct |
|---|---|---|---|---|
| verification claims (`verification.py`) | a claim record: state, bound digests, evidence, transitions | `transition`, `bind`, `attach_evidence`, `verify_independently`, `revalidate` | the world changes between collection, verification and use; the verifier runs in the middle | only an independent check reaches VERIFIED, terminal states are terminal, a stale claim never reads VERIFIED |
| adoption ladder (`adoption.py`) | none | `evaluate` over ledger, findings, baseline, exceptions, stage | expiry, budgets, severity floors and escalation interact | nothing shelters a core class or a new finding beyond its window |
| policy and issuance (`policy.py`, `issue.py`, `context.py`) | policy bundle, stage registry, issued context, sets on disk | `resolve`, `issue_context`, `load`, `verify_bound_sets` | issuance writes several files one after the other; older bundles are grandfathered | no rollback of the bundle, no swap of a set after issuance |
| coherence run (`__main__.py`, `evaluate.py`, `plan.py`, `evidence.py`, `result.py`, `attest.py`) | the output directory: result, evidence, attestation, claim | one ordered pipeline with an exit code per stage | the directory is reused; a crash leaves some of the files | the files that are there belong together; a success code has a sealed decision |
| container relay (`container_exec.py`, `launcher.py`, `resource_limits.py`) | the staged request, the container's output | stage, run, kill, relay the code | a stale bundle of an earlier run; kills at the time or output limit | a killed run is never a pass, code and bundle agree |
| cache, retention, store (`cache.py`, `retention.py`, `store.py`) | cached results, retained bundles and their records | `put`, `get`, `retain`, `read`, `upload` | a lookup reads several files while others write them, and depends on three windows | a result is reused only for its own identity and while every window holds |

### Operation scripts

| component | state it keeps | hard behaviour | what makes it correct |
|---|---|---|---|
| `re-pin-evaluator-identity.sh` | record and template, in two dependent commits | death between the commits, people who commit by hand or rewrite the branch | a rerun repairs the move |
| `runner-image-cycle.sh` | the image store of the host | others pull, tag and remove between any two calls | exit 0 means that the pinned image is there |
| `runner-enroll.sh`, `lib/runner-units.sh` | ticket file and timers of a slug | two names on one slug, lost answers of the hub, deaths | nobody's ticket is overwritten, a timer outlives its ticket only if it could not be stopped |
| `secret-scan-fleet.sh` | the report that the heartbeat reads | deaths and failed writes, a declaration that changes | a report is whole, and clean only where the gate has looked |
| `run-tests.mjs` | the children it runs | hung and crashed tests, descendants that hold a pipe | green means that every file was run and was sound; the runner ends |
| failure registry (`log_failure.py`, `gate_overlay.py`, `regression_check.py`, `regression_diff.py`, `failure_registry_check.py`) | two registries of fixed bugs | writers race and tear lines, people edit by hand, two gates read the merge by two rules | a logged bug does not come back through a green push |
| `mutation_check.py` | a sidecar beside the mutated file | a kill with a mutant on disk or in the middle of a write, developers who go on | the original is in the file or in the sidecar; not after a torn or an old sidecar was recovered (Findings) |
| `deploy.sh` | working tree, `dist`, tags, remote, published versions | failure and rerun at each step, people in the same checkout, untracked files and old artifacts | a version that is out has its tag upstream, and what the run itself made is what was gated and pushed |

Some fifteen other gates read files once and return an exit code.

Interactions: the spoke agents call the hub over HTTP; the monitor thread shares
the registry with the request threads and calls the notifier; the watchdog reads
`/health`; the coherence run calls policy, plan, evaluation, adoption, evidence,
result and attestation in order, and the container relay runs it in a container
and reads its output directory.

## Plan and state

1. **HubRegistry** with the abstract **EnrollmentLedger**: model-checked and proved.
2. **HubAlerts**: model-checked and proved, liveness model-checked.
3. **HubMonitor** over **HealthReadings**, and **HubDeadman**: model-checked and proved.
4. **AdoptionLadder**, **CoherenceRun** and **ContainerRelay**, which compose into one
   system of a host and the run in its container: model-checked and proved.
5. **VerificationClaim**, **PolicyAuthority** and **ResultReuse**: model-checked and
   proved.
6. The operation scripts, one module each: **ImageCycle**, **FleetSweep**,
   **SpokeEnroll**, **RunTests**, **MutationCheck**, **RePin**, **ReleasePipeline** and
   **KnownBugs**: model-checked and proved.

What could follow: the heartbeat's own state on the host, the upload of a sealed bundle,
and what single gates decide.

## Modules

### HubRegistry

The hub as its spokes see it. `ThreadingHTTPServer` gives each request a thread;
`thread[th]` is the request a thread is serving and how far it is:

    idle -> probed -> dirty -> written -> saved -> idle      (/enroll)
    idle ----------> dirty -> written -> saved -> idle      (/heartbeat, /revoke)

| state | code |
|---|---|
| `mem`, `disk`, `tmp` | `Registry._data`, `runners.json`, the `.runners-*.tmp` file of `save` |
| `lock` | `HubState._lock` |
| `env` | `HUB_ENROLLMENT_TOKENS` in the drop-in; only `Startup` reads it |
| `minted`, `clock` | number of `mint_token` calls so far (a heartbeat token is its number), `_now_iso` |
| `creds`, `revokedAck`, `beatAck`, `reissued`, and `tok` in a row | history, in no guard, except that a spoke presents credentials it was given |

| action | code |
|---|---|
| `Startup` | `create_server`, `load_enrollment_tokens`, `registry.save()` of `main` |
| `Crash` | death of the process at any point |
| `EnrollProbe`, `EnrollRefused`, `EnrollApply` | `_handle_enroll`: the probe outside the lock, then `do_enroll` under it |
| `HeartbeatApply`, `RevokeApply` | `do_heartbeat`, `do_revoke` under the lock |
| `SaveWrite`, `SaveReplace`, `SaveFail` | the two halves of `save`, and its `except` |
| `Reply`, `ReplyLost` | `_send`, which reaches the spoke or not |

Requests answered 400, 401 or 409 change nothing: only the 401 of `/enroll` is an
action, because it takes a step from a state (`probed`) that has already read the
registry. Names, labels and repositories are model values. Two abstractions of the
environment are deliberate. A spoke presents only a credential that some reply gave
it; an unknown one is refused without effect. The clock does not go back.

**EnrollmentLedger** is the abstract specification: a list of paid entries that
only grows and ages, and a pool of open tokens. `ImplementsLedger` says the volume
implements it.

**HubRegistryProofs** holds the theorems, **MCHubRegistry** the symmetry for TLC.

### HubAlerts

`raise_alert`, which the poll thread calls for every failing check, again and
again. One call is in progress at a time (`call`), and each of its requests to
GitHub is a step, because each can end in several ways:

    idle -> logged -> filing -> idle                 (no open issue known)
                   -> commenting -> idle             (known, cooldown over)
                   -> idle                           (known, cooldown running)

| state | code |
|---|---|
| `cache` | `_open_issues` |
| `cool` | per key, what is left of `comment_cooldown_sec` after `_last_comment` |
| `elapsed` | the time since `now_mono` was read for the comment being sent |
| `channel` | `HUB_ALERT_CHANNEL`; "null" also stands for an empty `GITHUB_TOKEN` |
| `logged` | the keys with a line in the JSONL log |
| `filed`, `open`, `index` | GitHub: the issues ever filed, those open, those its search lists (external) |
| `failing` | the checks that fail at the moment, chosen freely |
| `blind`, `since`, `shaken`, `tooSoon` | history, in no guard |

| action | code |
|---|---|
| `Log` | `_append_log`, and the end of the call without a token or with `NullNotifier` |
| `CacheHit`, `SearchHit`, `SearchMiss`, `SearchRefused` | the ways `_find_open_issue` ends; a hit goes on to the cooldown test |
| `FileOk`, `FileLost` | `_file_issue` answered, or in effect without an answer |
| `CommentOk`, `CommentRefused`, `CommentLost` | the same for `_comment_on_issue` |
| `CallFails` | any failure before effect: the `except` of `raise_alert`, or no number |
| `Restart` | a new process, with either notifier of `build_notifier` |
| `Close`, `Reindex`, `Flip`, `Tick` | people, GitHub's index, the checks, time |

An issue is the pair of its key and its number among the issues of that key. A
search returns any indexed issue whose title contains the title searched for:
`InTitle` says which titles contain which. An HTTP error that GitHub sends after
the request took effect is `FileLost`, or `CommentOk` (the code treats a refused
comment as posted).

**HubAlertsProofs** holds the theorems, **MCHubAlerts** the titles and the symmetry.

### HealthReadings and HubMonitor

**HealthReadings** has no state: what a row or an answer of GitHub earns in alerts
(`RepoAlerts`, `StatusAlerts`, `DriftAlerts`, `CoherenceAlerts`), and beside it,
written from the documents, what counts as healthy (`ScannedClean`, `DriftHealthy`,
`CoherenceHealthy`). A verdict is compared with the latter, never with itself.
A workflow run is a branch, a conclusion and an age; "failure" stands for the six
non-passing conclusions, "old" for more than 24 h and the grace. That a run which has
ended carries `completed_at` is taken from how the check uses it: without the field
every run would read overdue. `DriftHealthy` is about the latest *completed* scan, as
mon-drift-01 is, while the check reads the newest run of the list; `DriftHidden` is the
difference between the two. "Latest" is by the order of GitHub's list, and a run that
was skipped counts as completed.

**HubMonitor** is the poll thread. A cycle groups the enrolled rows by repository
and takes each through the seven checks of `_poll_repo`, in its order; a check
visits its subjects one at a time, and between any two steps a row or GitHub may
change. The order of repositories, runners and branches, which the code takes from
its lists, is left open.

| state | code |
|---|---|
| `rows` | the registry, as the poll reads it: repository, `enrolled`, and the reading (heartbeat fresh, digest present, scan state) |
| `world` | GitHub per repository: runners online, a queue stalled, gates per branch, the runs of the two workflows (external) |
| `phase`, `todo`, `at`, `check`, `left` | where `run`, `poll_cycle`, `_poll_repo` and the check's own loop are |
| `online` | `api_runners` of `_check_runner_status`, read before the heartbeats |
| `usable` | the runner whose scan state `scan_alerts` has found usable and not walked yet |
| `pending` | alerts of the last reading, on their way to `_raise_alert` |
| `told`, `cut`, `lost`, `torn`, `met`, `ever`, `steady` | history of the cycle, in no guard |

| action | code |
|---|---|
| `BeginCycle`, `PollRepo`, `Advance`, `EndCycle` | `poll_cycle`, and the order of `_poll_repo` |
| `CheckImage` ... `CheckCoherence` | the seven checks; `FetchRunners` is the request of the third |
| `CheckScan`, `WalkScan`, `WalkRaises` | `scan_alerts`: the predicate; the walk of whatever the row holds by then; the exception when that is nothing |
| `Refused` | `get_with_backoff` gives None, or a status that is not 200: the check returns, or goes on to its next branch |
| `Raises` | what `_request` does not catch (`URLError`, a timeout, an answer of another shape): the `except` of `poll_cycle` |
| `Tell`, `SinkRaises` | the alert sink takes the alert, or raises (the JSONL log cannot be written) |
| `Enroll`, `Report`, `GoStale`, `Revoke`, `Change` | the request threads, time, and GitHub |

The rows are read without the registry's lock, while heartbeats write them. The checks
of image and status read one field each, so the order in which one heartbeat writes its
fields does not show. The check of the scan state reads its field twice: the predicate
(`scan_view.py:124`) and the walk (148) are two steps, with everything that may happen
between them. A scan state without a list of repositories may be walked as well, as
nothing or as records that are none, or raise, depending on what stands in its place. A name enrolled
again is a row of its own. A check that needs several requests can be refused at
any of them with the same effect, and is one step. Alerts are told apart by
repository, check and subject; several stalled runs or red gates of a branch are
one.

### HubDeadman

The inverted dead-man switch: `note_poll` after each cycle, `/health`, and the probe
that a timer runs on each machine. Time passes in units of `Pass`; `Urgent` says when
it may not pass before something else happens (a due probe, a sleep or a cycle at its
limit).

| state | code |
|---|---|
| `hub` | up or not, `polling` (is a token configured), age of the last completed cycle and of the process, where the loop is |
| `due`, `alarm` | the next tick of the watchdog's timer, and the result of its last run |
| `wedged`, `sick` | history: how long no cycle could complete; whether one has raised since the last that did |

| action | code |
|---|---|
| `CycleStarts`, `CycleCompletes`, `CycleRaises`, `Wedges` | the loop of `run`: a cycle ends in `note_poll`, in an exception past it, or never |
| `Down`, `Up` | the process dies, a restart forgets the last poll |
| `Look` | `hub-watchdog.sh`: no answer, polling off, no poll yet and young, stale, fine |

The floor of 300 s under the grace is left out: it only makes the grace longer.

### AdoptionLadder, CoherenceRun and ContainerRelay

**AdoptionLadder** is `adoption.evaluate` and the decision matrix as functions of the
rows of a run and of a ladder (stage, baseline, exceptions live and expired, severities
that were raised, core classes, age cap). An assertion has one finding at most, so that
it also stands for its fingerprint.

**CoherenceRun** is `__main__.run` and what it calls, one run after another over the same
output directory:

    protocol -> request -> ... -> planning -> evaluation (one step per assertion)
             -> adoption -> manifest -> result -> attestation -> envelope -> claim -> digest -> exited

| state | code |
|---|---|
| `tree`, `spec`, `verdict`, `setting` | the tree and the package on disk, what the evaluators find in a tree, and what central policy resolves to |
| `job` | the run: its step, what it has digested (`tree`, `spec`, `plan`), `seen` (the tree an evaluator under way has read), `rows`, `result`, whether the directory got the decision (`kept`), the exit code |
| `out` | the output directory, per file |
| `attested`, `sealed` | history: decisions that were signed, and that were sealed |

| action | code |
|---|---|
| `Start`, `Pass`, `Refuse` | the start of a run and its gates in their order, each of which may refuse with the code of its class |
| `Evaluate`, `CheckRow`, `Unapproved`, `DependencyBlocked`, `EvaluationFails`, `EvaluationEnds` | `evaluate.run`: the digest is taken, the evaluator reads the tree, the digest is taken again and compared |
| `Adopt`, `AdoptionRefused` | `adoption.evaluate`, or sets that the context does not accept |
| `SealEvidence` ... `EmitClaimDigest` and their failures | the files, each of which may fail to be written (`emit_with_fallback` for the decision) |
| `EditTree`, `EditSpec`, `Die` | people; death between any two steps |

`Accepted` and `Promotable` are `attest.verify` and `verify_promotion`, as statements
about whatever the directory holds. A digest is the content it is of, and a tree never
returns to an earlier content: the comparison of two digests cannot see an edit that
was undone in between.

**ContainerRelay** is the host: `Launch` and `LaunchRejected` (`validate_launch` as one
refusal), `Collect` (the exit, a limit, a runtime that failed), `ReadResult`, `Agrees`,
`Disagrees`, `Relay`. A kill reaches the process the launcher started; the container may
linger and go on writing, so `Kill` may leave `job` running. `LaunchEnds` rests on podman's
client exiting when its output has ended: `launcher.py:302` waits without a limit.

### VerificationClaim

One claim, its actor and a verifier that is called back: `Bind`, `Transition`,
`SelfCertify` (refused), `Ask`, then `Confirm`, `Refute` or `NoAnswer`, with everything
the actor and the world (`Change`) do in between. A caller passes `observed` digests,
none, or a dictionary that it keeps up to date; `Effective` is `revalidate`.

Two limits. The record of a verification is stored before its transition is attempted
(`verification.py:211`), so that a refused one leaves the record on a claim in another
state; its one reader (`evidence-validate.py:71-72`) asks only whether a VERIFIED claim
has a record, and no property is about it. A claim bound again after its
verification (148) keeps its verdict, which `ReliedOnIsCurrent` excepts.

### PolicyAuthority

Issuance write by write (`StartIssue`, `NextSet`, `WriteSet`, `KeepSet`, `WriteContext`,
`IssuerDies`), where a write may be cut short (`Torn`), beside the owner of the
repository, who can put any bundle and any set into the policy directory
(`PlaceBundle`, `PlaceSet`), and a run that loads context and bundle early (`Resolve`)
and the bound sets late (`Judge`, `GiveUp`). `Authorized` is the epoch, floor and
grandfathering rule of `policy.py`. A digest is the content it is of.

### ResultReuse

The stores that `cache.py` and `retention.py` keep, and one lookup that reads them file
by file. Nothing in the repository calls these two modules outside their tests, so the
callers are taken from what their parameters ask for.

| state | code |
|---|---|
| `cached`, `bytes`, `records` | `entries/<key>.json`, `bundles/<ref>`, `records/<ref>.json`: missing, torn or altered, or whole |
| `revoked` | whether the signer predicate says no |
| `lookup` | how far `get` is: the entry, the signer, the retained bundles one by one, hit |
| `results`, `grants`, `lookup.valid` | history: what was put and retained, whether the key was valid when the lookup began |

`Put` and `PutTears`, `RetainBytes`, `RetainRecord` and `RecordTears` are the file writes
of `put` and `retain`, none of them atomic; `LookUp`, `ReadEntry`, `CheckSigner`,
`CheckRetained`, `Hit` are `get`, with `retention.read` as its predicate; `Misplace`,
`Alter` and `Revoke` are the world. The key is the identity, as every component goes into
it. A hand that edits identity and payload of an entry together is beyond what the code
can notice, and left out.

### RunTests

`Launch`, `Prints`, `Dies`, `Releases`, `Killed` and `Close` are the life of a test
process as the runner sees it: a kill because it stays silent, one because it lasts too
long, and a pipe that stays open as long as a descendant holds it. `Passed` reads what
was printed the way the script counts it. `Adjudicate` starts the solo re-runs and
`Exit` gives the code.

### ImageCycle

`Begin`, `Pull`, `Verify`, `List`, `Reap`, `Recheck` are the calls of one tick in their
order; `SomebodyAdds` and `SomebodyRemoves` happen between any two of them. The store is
the set of rows of the listing; a row of the pinned image need not show the recorded
digest.

### FleetSweep

`BeginSweep`, `NextRepo`, then one of `Unfetchable`, `Scanned`, `Unusable`, `Refused` per
declared repository, `WriteSibling` and `Replace` for the report, `Verdict` for the exit
code; `Declare`, `SweepDies` and `WriteFails` at any time. A sweep always has a
`--report` here, as it has under its timer.

### RePin

The operation (`ResolveDigest`, `WriteRecord`, `CommitRecord`, `WriteTemplate`,
`CommitTemplate`, `Guard`) over the commits of a clone, with `CommitFails`, `Reset` and
`OperationDies`, and people: `HandMove`, `Rewrite` (the branch leaves a commit behind),
`CleanUp`. That the reset itself fails is left out.

### ReleasePipeline

`deploy.sh` step by step, each of which may end the run, with later runs that start over
and people who work in the same checkout.

| state | code |
|---|---|
| `kind` | the manifest of the project: `package.json`, `Cargo.toml`, `pyproject.toml`, `setup.py` alone, or none |
| `tree`, `history` | the checkout and its commits: the revision of the code, the version the manifest names, whether untracked files lie in it |
| `tags`, `upstream` | the local tags; branch and tags of the remote |
| `dist`, `shelf` | the artifacts in `dist` by the version they carry; the package registry |
| `deploy` | the run and its place; the rest of it is history |

| action | code |
|---|---|
| `StartDeploy` | the clean tree, by `git diff --quiet`: untracked files do not count (`Dirty`) |
| `PassGate`, `Bump`, `CommitBump`, `MakeTag`, `Push`, `ProveTag` | the steps up to the tag on the remote; `Bump` leaves a project with only `setup.py` as it is |
| `VerifyArtifact` | the artifact contract, which may pack or build |
| `PublishTree`, `PublishNothing` | npm and cargo publish the tree, an unknown project nothing |
| `UploadDist`, `BuildDist`, `BuildFails` | the one line of Python projects (349): all of `dist`, some or none of which gets through; a build and a second upload |
| `DeployEnds` | the end, a failure or a death anywhere |
| `Edit`, `SettleTree`, `HandTag`, `EmptyDist` | people |

`PublishedIsBacked` says of whatever is out that the tag of the run is on the remote. Of
what the run made itself, in a checkout nobody edited under it, it says that it is the
code the gate passed, under the run's version unless only a `setup.py` names one, and
but for untracked files a commit of the remote branch; the tagged one, if the run found
the tag free or at that commit. The exceptions are the code's (Findings).

### MutationCheck

`Commence` and `RefuseDirty`, the recovery (`RecoverFile`, `ForgetSidecar`), then
`ReadOriginal`, `WriteSidecar`, `Mutate`, `Restore`, `Unlink`; `Slain` at any moment,
where a write that was under way leaves `Cut`; `Develop` and `Checkout` between runs.
The original is `committed`, the version the developer last wrote, never what a run
happened to read. `spoilt` records that the sidecar is not the original: torn by a kill
in its write, or left behind while the developer went on.

### KnownBugs

The registry of fixed bugs, its writers and its readers.

| state | code |
|---|---|
| `ledgers`, `open` | the lines of the bundled registry and of the project's overlay; whether the last one lacks its end |
| `loggers` | each `log_failure.py` under way, with what it has seen of the file's end |
| `mainline`, `job` | the code of the branch; the last push, what it added, the registries in its tree, and its job |
| `known`, `job.known` | history: what was logged and is neither retired nor mended away |

`BeginLog`, `AppendEntry` and `AppendFails` are the script, between whose look at the end
of the file and its append others may write; `HandEntry`, `RetireEntry`, `MendLedger` are
people; `LandPush` and `JobEnds` a push and its job, which a later push cancels. `Merged`
and `Enforced` are what `regression_check.py` reads and `Hygienic` is the other gate: the
first passes over a line it cannot parse, the second does not, and `KnownBugsStayOut`
needs both. The prevention rules of the same script see staged files only, of which a
job has none, and file sizes and audits are among the reasons for which a job may fail.
A merge conflict in a registry is an edit by hand.

### SpokeEnroll

`runner-enroll.sh` in its two modes for names that sanitize onto one slug: `CheckSlug`,
the request (`Accepted`, `Declined`, or no answer), `WriteTicket`, `CycleTimer`,
`SweepTimer`, `EnableTimers`; and `StopTimers`, `RemoveTicket` of `--revoke`. `EditTicket`
and `Provision` are the operator, `ScriptEnds` a death or an end. Each stop and disable
of `StopTimers` may fail, as where a login has no user bus, and the script goes on all the
same; `stuck` (history) are the timers for which one did. Scripts run one at a
time, and the operator does not edit in the moment between two local commands that
enable or remove.

### MCStandalone

These parts (claims, policy, test runner, watchdog, image cycle, sweep, re-pin, release,
mutation tool, enrollment script, bug memory, reuse) share no state and never call each other. One run
checks them all: `focus` chooses which part steps, and the others stay at an initial
state, so that every state one part can reach is reached and their product is not.

Operators whose comment begins with "Defect" are mutations: no definition uses
them, and each shows that a property notices a plausible bug of the code.

## Runs

| run | instance | shows |
|---|---|---|
| `registry` | 1 name, 2 mintable tokens and a placeholder, 2 threads, 2 mints, 2 clock ticks, 1 health field | what a reply promised survives racing requests, failed saves, crashes and restarts; a token pays once; the volume implements the ledger; every enrollment is answered |
| `registry_onetime` | 1 thread; violated | a spent token still listed in the drop-in pays again after a restart |
| `registry_names` | 2 threads, 1 name, 2 tokens; violated | two enrollments of a name both pass the unlocked probe |
| `alerts_safety` | 2 keys with distinct titles, cooldown of 2 ticks, 2 issues per key | two open issues need a loss of sight; comments are spaced |
| `alerts_live` | 1 key, cooldown 1, 2 issues | a check that keeps failing is reported |
| `alerts_closed` | the same; violated | an issue closed by hand is never replaced |
| `monitor_cycle` | 1 repository, 1 runner, 4 readings, 2 states of GitHub, everything may change at any step; 300 769 states | what stays wrong is raised; no alert without cause; no outage of GitHub silences the checks that ask it nothing; cycles end |
| `monitor_fleet` | 2 repositories, 2 runners, 2 branches of which one is watched, every history of at most 2 runs of either workflow, every kind of scan state, nothing changes; 5 006 316 states | an exception in one repository's turn hides nothing of the other's; silence and alarm as the documents define health, but for skipped, hidden and masked runs |
| `coherence_runs` | 2 assertions, one dependent on the other, one edit of tree and package, 3 settings, 2 launches into one directory; 947 652 states | no decision mixes two trees; a success code has its sealed files; what verify accepts was decided; what is relayed was earned; launches end |
| `coherence_stale` | the same; violated | a decision that only reached the fallback location is replaced, in what the host relays, by that of an earlier run |
| `standalone` | one part at a time, see below; 3 087 605 states | one or two properties of each part |
| `enroll_again` | 1 name; violated | provisioning a timer and enrolling again enables nothing |

Bounds of the registry runs. `MaxMint = 2` allows two enrollments over all lives of the
hub, which is what every race and every double payment needs; two threads give each
interleaving of two requests, and a third would only queue at the lock. Two ticks make
a heartbeat older than another. Crashes, restarts, failed saves and edits of the
drop-in are not bounded.

Bounds of the alert runs. Two issues per key are what a duplicate needs; more would
repeat it. Two keys meet only where titles contain each other or the one call in
progress is shared. A cooldown of two ticks lets a comment be early, on the edge and
late, and lets time pass while a comment is sent. Restarts, failed calls and closed
issues are not bounded.

Bounds of the monitor runs. A cycle is a pass over independent subjects, so one of each
shows what a change under the poll can do, and a second repository what its neighbour's
exception can. The ill reading has no list of repositories, which is what the two looks at a scan state
need; every other scan state is in `monitor_fleet`. `FleetSpec` leaves the environment out where the question is about
verdicts or isolation, which would otherwise multiply the states; the theorems keep
both. Two runs are enough for "the newest" and "the newest on a watched branch" to
differ. Cycles, refusals and exceptions are not bounded.

Bounds of the coherence runs. One edit is what a mixture of two contents needs, two
launches what stale files need, and a dependent assertion what an order of evaluations
needs. The three settings are observation, the ratchet with a signing key and a fresh
verdict, and the core stage with a replayed one.

Bounds of `standalone`. Claims: two roles with two contents. Policy: two bundles, of
which the second raises the floor, three orders (a window, an empty issue, a withheld
set), two issuances, one tick. Tests: two files for a pool of two and a serial one.
Watchdog: a sleep of 1, a cycle of at most 4, a look every 2, so that a cycle and a
sleep just fit the grace of 5. Image cycle: one superseded image beside the pinned one.
Sweep: up to three rows, one repository declared twice. Re-pin: two digests, a second
day, six commits. Release: one version to release beside the one `setup.py` may name, an
edit, four commits, each kind of manifest; a second version would publish beside the
first, and artifacts of an earlier one are in `dist` without it. Mutation tool: three
versions of the file. Enrollment: two names on one slug. Bug memory: one logging script beside
people, two entries of one id, two lines over both registries, one line of code to come
back. Reuse: three results, two of them of one identity, one bundle, three times, a window
that one of them exceeds. Deaths and reruns are not bounded in any.

`CHECK_DEADLOCK FALSE` is set for `coherence_runs`, `coherence_stale`, `standalone` and
`enroll_again`: when the last run has ended, or the bound of a part is reached, nothing
is left to do.

Fairness of the registry (`FairSpec`). `WF(Finish(th))`: a thread that can take its next
step is scheduled and takes it, save and reply end one way or another.
`SF(Acquire(th))`: a waiter on `threading.Lock` gets the lock if it keeps being
released. Nothing is assumed of start-ups, crashes, the operator or the spokes'
requests.

Fairness of the alerts (`FairSpec`). `WF(Deliver)`: a call of `raise_alert` ends, as its
requests have a timeout of 30 s. `SF(Log(k))`: every poll cycle raises every check that
fails. `SF` of an answered search and of an answered filing, per key: GitHub does not
refuse the same request for ever. `WF(Reindex(i))`: the search index catches up. Nothing
is assumed of restarts, of people or of the checks.

Fairness of the monitor (`FairSpec`). `WF(Poll)`: the loop goes on, as each request has a
timeout of 30 s, at most three tries, and a sleep of `api_backoff_max_sec` at most.
Nothing is assumed of GitHub's answers.

Fairness of the relay (`HSpec`). `WF(HostStep)`: the launcher's clock runs, so a limit
ends the wait. Nothing is assumed of the run in the container.

Fairness of the test runner (`MCStandalone!Spec`). `WF(RunnerStep)`: node's event loop
runs its timers and callbacks. Test processes owe nothing, except that `RunnerEnds` is
about runs in which no descendant holds a pipe for ever. The other standalone parts are
owed nothing: their properties are safety.

## Findings

The violation runs are disagreements between the code and what its documentation or
comments say; `PROJECT.json` quotes both sides.

* *Tokens are one-time* (`hub/tokens.py:3`): not across a restart with the token still
  in the drop-in.
* *One row per name* (`hub/server.py:147-152`): not when two enrollments race.
* *File a new issue when no open one is found* (`hub/alerts.py:73-75`): not once the
  cached issue has been closed; the hub goes on commenting on it.
* *A completed run relays its own result* (`hub/coherence/container_exec.py:26`): not
  when the decision could only be written to the fallback location and an earlier run
  left an equal decision.
* *Provision, then run enroll again* (`scripts/runner-enroll.sh:150-156`): the hub
  answers 409 and the script ends before it enables a timer.

Further disagreements were met on the way and are plain from the code, so no run is
spent on them:

* *Revoked by removal* (`docs/runner-monitor-monitor-hub.md:161-162`): a token removed
  from the drop-in stays on the volume (`main.py:70` only adds and prunes).
* *Revoke, then re-enroll* (`docs/runner-monitor-monitor-hub.md:333`): a revoked row
  keeps its name, so `/enroll` answers 409 for ever.
* *One open issue per key* (`hub/alerts.py:3-5`): a refused search counts as "not found"
  and a second issue is filed. `OneOpenUnlessBlind` says exactly when.
* *The exact title* (`hub/alerts.py:146`): the search finds titles that contain it.
  `TitlesApartSuffice` proves that nothing else is needed.
* *Either channel alone is sufficient* (`hub/monitor.py:8-9`): heartbeats are not looked
  at when the list of runners cannot be fetched (`hub/monitor.py:156-162`).
* *Every conclusion except a pass must surface* (`hub/monitor.py:42-50`): a skipped drift
  scan reads healthy (343-350), and a green run on one watched branch hides a failed one
  on another (429-433). `NothingMissed` excuses these two ("skipped", "masked").
* *No scan has completed within one period* (mon-drift-01,
  `openspec/specs/runner-monitoring/spec.md`): the check reads the newest run of the list
  (`hub/monitor.py:329`, 343-367). A scan in progress, or a rerun of an older one, in front
  of a recent success raises `drift_overdue`, a false alarm by the document;
  `NoFalseAlarm` excuses exactly that ("hidden"), and `NothingMissed` does not ask for it.
* *One reader of the scan state* (`hub/monitor.py:230-235`): `scan_alerts` looks at the
  live row twice without the lock. If a heartbeat comes between the predicate
  (`hub/scan_view.py:124`) and the walk (148), a report that is gone by then raises into
  `poll_cycle` (`hub/monitor.py:113-117`), which ends the turn of the whole repository with
  its later checks; and a report that is unreadable by then, which a spoke sends as an
  empty list beside the reason (`scripts/runner-heartbeat.sh:184`), is walked as an empty
  fleet and raises nothing in that cycle. The next one reads it again.
* *Offline on both channels*: GitHub's list of runners is read before the heartbeats
  (`hub/monitor.py:156-178`), so a runner that comes back on the one and is lost on the
  other raises nothing in that cycle; `NothingMissed` takes the two reasons apart.
* *A completed poll* (`hub/monitor.py:91`): a cycle in which every repository raised counts
  as completed, and the dead-man switch reads healthy. No property covers it.
* *The answer of an enrollment*: the 200 of `/enroll` is the only copy of the heartbeat
  token (`hub/server.py:172`). If it is lost, the token is spent, the name answers 409, and
  the runner can never report.
* *Guarantees the original bytes come back, even across SIGKILL*
  (`scripts/mutation_check.py:148-154`): a kill during the write of the sidecar (183)
  leaves a torn one beside the intact file, and the next run's recovery puts it over the
  file (171-174): the original is lost. A sidecar that a kill left behind and a developer
  did not notice likewise overwrites the newer version. `OriginalSurvives` excepts exactly
  these ("spoilt").
* *Recovery from a hard kill* (`scripts/mutation_check.py:11`): the clean-tree check of
  `main` (line 312) comes before the recovery (150-154), so a tracked file that holds a
  mutant is refused, not healed; the sidecar stays, and a checkout and a rerun heal it.
* *A file that exits non-zero fails* is true of the solo re-run only
  (`scripts/run-tests.mjs:266`): in the first run a file with at least one passed test
  and no counted failure passes whatever its exit code (157-168, 235-236). Tests that
  node reports as cancelled are not counted, so such a file passes; "sound" in
  `GreenIsSound` is this weaker reading.
* *Gated, tagged and pushed* (`scripts/deploy.sh`): the clean-tree tests (55, 60, 141) are
  `git diff --quiet` and do not see untracked files, which npm packs and the commit of a
  bump takes in. A project with only `setup.py` is never bumped (135-137) but is published
  (347-349), under whatever version the file names. `dist/*` (349) is uploaded whatever is
  in it, built by this run, an earlier one or by hand. A tag of the name that already
  exists is taken as it is, wherever it points (148).
* *Upload, or build and upload* (`scripts/deploy.sh:349`): `A || B && C` is
  `(A || B) && C`, so a first upload that succeeded is followed by a second one; under
  `set -e` a refused second upload ends the run with the version already out (H7 of
  `docs/qa/2026-09-13-full-qa.md`). And as `B` stands left of `&&`, a build that fails does
  not end the run, which goes on to say "published" and to create the release
  (`BuildFails`).
* *A unit that fails forever* (`scripts/runner-enroll.sh:461-464`): every stop and disable
  is `2>/dev/null || true` (465-472), and ticket and units are removed at 473 whatever
  became of them. Without a user bus, as over a non-login ssh session, the timers stay
  without their ticket. `TimersHaveTicket` excepts exactly those whose stop failed.
* *Retaining again is a no-op* (`hub/coherence/retention.py:83`): the record is rewritten
  (106-108), and its window starts anew or gets shorter; a bundle that was torn when it was
  written is "a collision" for ever (102-103).
* *Every push to main* (`.github/workflows/ci.yml:3-5`): a push cancels the job of the one
  before (37-39), and its own job starts from that one's head (128), so that nobody scans
  the lines in between. `KnownBugsStayOut` is about pushes whose job is green.
* *Logged is enforced* (`scripts/log_failure.py:12`): an entry appended to a line that
  another writer has just left without an end is lost to `regression_check.py`, which passes
  over the line; only the hygiene gate stops the push. The default of `--fix-commit` is
  empty, which the hygiene gate refuses (`failure_registry_check.py:202`).
* *Owner of an entry* (`scripts/gate_overlay.py:140-167`): with an overlay the entries carry
  no `_source`, so that every owner is the project; no caller uses the value.

## Proofs

Each theorem holds for every value of the constants that its module's named assumption
admits: any names, fleets, histories, dependencies, verdicts and bounds.

**HubRegistryProofs**, from `RegistryAssumption` (the sentinels differ from the data, the
bounds are numbers): `TypeCorrect`; `InvariantCorrect`, the inductive `RegistryInv`; from
it `EnrollmentDurable`, `HeartbeatDurable`, `RevocationFinal`, `TokenPaysOnce`,
`NoPlaceholder`, `VolumeAges`, and `VolumeIsLedger`, the refinement.

The promises are not inductive: that a 200 is on the volume follows from what its thread
did before. `RegistryInv` says where a promise is at each step. `LockInv`: at most one
thread is between mutation and replace, and its temporary file is a copy of memory.
`AheadInv`: memory is the volume plus work not saved yet, rows that were each paid by a
token the volume still shows as open; failed saves leave such work behind. `PromiseInv`:
from `dirty` on, memory honours what the reply will say; from `saved` on the volume does;
and what was answered stays honoured. `Fresh` (a heartbeat token names one row, no time
is in the future) and `Paid` (a spent token is not in the pool unless reissued) make the
rest inductive. `StepCases` sorts the steps into kinds and each conjunct is proved by one
step per kind.

**HubAlertsProofs**, from `AlertsAssumption`: `TypeCorrect`; `InvariantCorrect`, the
inductive `AlertsInv`; from it `LogKnowsAll`, `DuplicatesAreBlind`, `CooldownKept`; and
`TitlesApartSuffice`. That a key has one open issue at most is kept by filing only if the
process is right that there is none, so `SightInv` says what it knows: of a key it never
lost sight of, with nothing cached, the index lists every open issue, and about to file
there is none. `SpacingInv` relates the cooldown left to the time since the last comment.
`KnownInv` says a call beyond its first step has its line in the log.

**HubMonitorProofs**, from `MonitorAssumption`: `MonitorInvariant`, then
`NothingIsMissed`, `NoAlarmIsFalse`, `RegistryReadingsSurvive` and `MonitorTypeCorrect`,
over rows and a GitHub that change between any two steps. `MissedInv` is the heart: what
has been wrong since the cycle began was told, was cut, or is still to come (`Coming`,
the groups left and the rest of the turn under way). It needs `GroupInv` (the groups are
of runners seen in this cycle, whose rows stay), `HistoryInv` (history knows what is wrong
now), `OnlineInv` (the list of online runners is older than the heartbeats it is
combined with) and `UsableInv` (a scan state that was found usable is so still, or a report
has come between and `torn` says so). `ReadStep` proves any reading whose alerts are true
and whose silence is justified; the verdict lemmas supply both for each check,
`CoherenceVerdict` with the least-number principle for the newest watched run.

**HubDeadmanProofs**: `DeadmanInvariant`, from it `EveryWedgeIsFound` (any interval, any
timer period) and `NobodyPagedInHealth` (any cycle that fits the grace). `WedgeInv` ties
the time since a cycle could complete to the age of the last one and to the next look;
`HealthyInv` bounds that age by the sleep and the cycle.

**CoherenceProofs**, from `CoherenceAssumption`: `CoherenceInvariant`, from it
`DecisionsNeverMix`, `SuccessAlwaysSealed`, `ClaimsAlwaysSealed`, `AcceptedAlwaysDecided`,
`RelayAlwaysHonest`; and `LadderAlwaysMonotone`. `ReadInv`: what an evaluator saw lies
between the tree that was digested and the one on disk, so that it is both if the second
digest equals the first; that makes the rows true of the digested tree (`RowsInv`), and
with them every decision that leaves the run (`DecidedInv`). `SealInv` says what a run
owes the directory at each step, `HostInv` what the host may believe of the container.

**ClaimPolicyProofs**: `NoSelfCertification`, `NoWayBack`, `ReliedOnHolds`
(`AgreedOnBound`: a live yes is about contents the claim was bound to then); `AuthInvariant`, from it `OnlyIssuedSetsJudge`, `NoRollbackHolds` and
`ReissueHealsAll` (`WrittenInv`, `IssuedInv`: what is on disk is issued, placed, or torn);
`ReuseInvariant`, from it `ReuseAlwaysSound` (`Settled`: what each step of a lookup has
found stays true whatever is written after it).

**HostScriptsProofs**: `TimersAlwaysHaveTicket` and `OthersTicketSafe` (`ActingInv`: a
script that acts has found the slug to be its own; of the timers only those survive a
ticket whose own stop failed), `ZeroAlwaysHoldsThePin`,
`ReportAlwaysWhole`, `ExitSaysTheReport` (`RowsInv`, `ReplacedInv`: each repository so
far has its row, and what replaced the report is what the sweep recorded).

**RepositoryToolsProofs**: `GreenIsAlwaysSound` and
`SerialRunsAlone` (`AccountInv`: each file launched is running, counted as failed, or was
sound at last; `LaneInv`: once a serial or solo run is on, the pool has nothing left to
launch), `OriginalAlwaysKept` (`OriginalInv`: from before the first mutant to after the
restore the sidecar is the original, and so is what the run holds in memory; all this
while nothing is spoilt).
`ReleaseInvariant` and from it `PublishedAlwaysBacked`: `TreeInv` says what a run that
nobody interfered with (`deploy.touched`) has behind it at each place: the gate was about
the code it commits, that is the newest commit but for untracked files, after the push it
is upstream, and what the run has built into `dist` since is made of it (`Made`).
`TagInv` says of any run, disturbed or not, that from the push on its tag exists, and from
the verification on that it is on the remote. `RepinInvariant` and from it
`MoveAlwaysHeals`: `LineInv` says that an operation only adds to the branch it began on,
`MoveInv` how far the move has come (the record, the commit that carries it, the template
that names that commit), so that the guard can fail only where that commit has left the
branch.
`BugsInvariant` and from it `KnownBugsAlwaysStayOut`: that a bug's entry is read is not
inductive, as a writer can swallow it; `KeptIn` is: it is in its registry, or that
registry has a line that cannot be parsed, there and in every tree that was pushed. A
green job excludes the second, and one line per id makes the entry the one that is
enforced.

Only model-checked: the liveness properties and the violated statements.

## Not modelled

* Power loss: `save` does not `fsync`, so a replaced file can be lost with the machine;
  the model's volume keeps what `os.replace` put there.
* HTTP parsing, TLS, token entropy, constant-time comparison, logging and wording.
* `store.py`: `upload` reads the files of a sealed run and sends them.
* Canonical bytes, schema validation and digests (`canon.py`, `manifest.py`, `package.py`,
  `profiles.py`, `compat.py`, `schemacheck.py`): data transformations without state; in
  the models a digest is the content it is of.
* What a single gate or evaluator of a coherence run computes (`plan.py`,
  `evaluators.py`), the rendering of reports (`report.py`), the signer's validity window.
* The lengths of GitHub back-offs and the paging of its lists.
* The other guardrail gates, `silent-success-scan.sh`, installation scripts and drills:
  one-shot text analyses and copies with an exit code, which keep no state and which
  nothing interleaves with. `secret-scan.sh` is the answer of the sweep's gate.
* On the spoke: the heartbeat (it changes nothing on the host), legacy units, helpers.
