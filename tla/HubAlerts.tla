------------------------------- MODULE HubAlerts -------------------------------
(***************************************************************************)
(* Alert delivery (hub/alerts.py).                                         *)
(*                                                                         *)
(* The poll thread raises an alert for each failing check, over and over.  *)
(* raise_alert appends to the audit log, then looks for an open issue: in  *)
(* the cache of this process, else by GitHub's search.  It comments on the *)
(* issue it found, at most once per cooldown, or files a new one.  Each    *)
(* call can be refused (an HTTPError), fail, or take effect on GitHub      *)
(* while its answer is lost; people close issues; the search index lags;   *)
(* the hub restarts and forgets cache and cooldowns.                       *)
(*                                                                         *)
(* A key stands for a (repo, check-class, runner) triple.  blind, since,   *)
(* shaken and tooSoon are history: no guard reads them.                    *)
(***************************************************************************)
EXTENDS Integers

CONSTANTS
    Keys,        \* alert keys
    InTitle,     \* <<k, j>>: GitHub's in:title search for k also finds j's issue
    Cooldown,    \* comment_cooldown_sec, in ticks
    MaxIssues,   \* bound: issues ever filed per key
    None

ASSUME AlertsAssumption ==
    /\ InTitle \subseteq Keys \X Keys
    /\ \A k \in Keys : <<k, k>> \in InTitle
    /\ Cooldown \in Nat \ {0}
    /\ MaxIssues \in Nat
    /\ None \notin Keys /\ None \notin Keys \X (1..MaxIssues)

VARIABLES
    failing,     \* the keys whose check fails at the moment
    filed,       \* per key, how many issues were ever filed
    open,        \* the issues that are open on GitHub
    index,       \* the issues the search index lists as open
    channel,     \* HUB_ALERT_CHANNEL of this process
    cache,       \* GitHubIssueNotifier._open_issues
    cool,        \* per key, ticks left since _last_comment until the cooldown ends
    call,        \* the raise_alert call in progress
    elapsed,     \* ticks since now_mono was read, while it comments
    logged,      \* the keys with a line in the JSONL log
    blind,       \* history: keys for which knowledge of an issue was lost
    since,       \* history: ticks since the last comment GitHub accepted was sent
    shaken,      \* history: keys whose cooldown was lost since that comment
    tooSoon      \* history: keys commented again within the cooldown, unshaken

github  == <<filed, open, index>>
process == <<channel, cache, cool, call, elapsed>>
comments == <<since, shaken, tooSoon>>
vars == <<failing, github, process, logged, blind, comments>>

-----------------------------------------------------------------------------
Issues == Keys \X (1..MaxIssues)

OpenOf(k) == {i \in open : i[1] = k}

\* What the search of k can return: any issue with k's title in its title.
Hits(k) == {i \in index : <<k, i[1]>> \in InTitle}

IdleCall == [pc |-> "idle", key |-> None, issue |-> None]
Call == {IdleCall}
        \cup [pc : {"logged", "filing"}, key : Keys, issue : {None}]
        \cup [pc : {"commenting"}, key : Keys, issue : Issues]

Init ==
    /\ failing \in SUBSET Keys
    /\ filed = [k \in Keys |-> 0]
    /\ open = {}
    /\ index = {}
    /\ channel \in {"github_issue", "null"}
    /\ cache = [k \in Keys |-> None]
    /\ cool = [k \in Keys |-> 0]
    /\ call = IdleCall
    /\ elapsed = 0
    /\ logged = {}
    /\ blind = {}
    /\ since = [k \in Keys |-> Cooldown]
    /\ shaken = {}
    /\ tooSoon = {}

-----------------------------------------------------------------------------
(* raise_alert, one step per call to the outside *)

\* Step 1: the audit log, whichever the channel.  A failed append raises to
\* the poll loop, and nothing has happened.
Log(k) ==
    /\ call.pc = "idle"
    /\ k \in failing
    /\ logged' = logged \cup {k}
    /\ call' = IF channel = "null" THEN IdleCall
               ELSE [pc |-> "logged", key |-> k, issue |-> None]
    /\ UNCHANGED <<failing, github, channel, cache, cool, elapsed, blind, comments>>

\* An open issue is known: comment on it, unless its cooldown is running.
Recur(i) ==
    call' = IF cool[call.key] > 0 THEN IdleCall
            ELSE [pc |-> "commenting", key |-> call.key, issue |-> i]

\* _find_open_issue: the fast path.
CacheHit ==
    /\ call.pc = "logged"
    /\ cache[call.key] # None
    /\ Recur(cache[call.key])
    /\ UNCHANGED <<failing, github, channel, cache, cool, elapsed, logged, blind, comments>>

\* Defect: a miss means nothing to do.
SearchMissIgnored ==
    /\ call.pc = "logged"
    /\ cache[call.key] = None
    /\ Hits(call.key) = {}
    /\ call' = IdleCall
    /\ UNCHANGED <<failing, github, channel, cache, cool, elapsed, logged, blind, comments>>

\* ... or the first item of the search.
SearchHit ==
    /\ call.pc = "logged"
    /\ cache[call.key] = None
    /\ \E i \in Hits(call.key) :
        /\ cache' = [cache EXCEPT ![call.key] = i]
        /\ Recur(i)
    /\ UNCHANGED <<failing, github, channel, cool, elapsed, logged, blind, comments>>

SearchMiss ==
    /\ call.pc = "logged"
    /\ cache[call.key] = None
    /\ Hits(call.key) = {}
    /\ call' = [pc |-> "filing", key |-> call.key, issue |-> None]
    /\ UNCHANGED <<failing, github, channel, cache, cool, elapsed, logged, blind, comments>>

\* The search is refused with an HTTPError, which counts as "not found".
SearchRefused ==
    /\ call.pc = "logged"
    /\ cache[call.key] = None
    /\ call' = [pc |-> "filing", key |-> call.key, issue |-> None]
    /\ blind' = blind \cup {call.key}
    /\ UNCHANGED <<failing, github, channel, cache, cool, elapsed, logged, comments>>

\* A new issue is on GitHub; the search index learns of it later.
Filed(k) ==
    /\ filed[k] < MaxIssues
    /\ filed' = [filed EXCEPT ![k] = @ + 1]
    /\ open' = open \cup {<<k, filed'[k]>>}
    /\ index' = index

\* Defect: the new issue is not cached.
FileUncached ==
    /\ call.pc = "filing"
    /\ Filed(call.key)
    /\ call' = IdleCall
    /\ UNCHANGED <<failing, channel, cache, cool, elapsed, logged, blind, comments>>

FileOk ==
    /\ call.pc = "filing"
    /\ Filed(call.key)
    /\ cache' = [cache EXCEPT ![call.key] = <<call.key, filed'[call.key]>>]
    /\ call' = IdleCall
    /\ UNCHANGED <<failing, channel, cool, elapsed, logged, blind, comments>>

\* The issue is filed but the answer is lost: an exception, caught and logged.
FileLost ==
    /\ call.pc = "filing"
    /\ Filed(call.key)
    /\ call' = IdleCall
    /\ blind' = blind \cup {call.key}
    /\ UNCHANGED <<failing, channel, cache, cool, elapsed, logged, comments>>

\* GitHub accepts a comment on any issue, open or closed.  The next one is due
\* a cooldown after this one was sent.
Accepted(k) ==
    /\ since' = [since EXCEPT ![k] = elapsed]
    /\ tooSoon' = IF since[k] < Cooldown /\ k \notin shaken
                  THEN tooSoon \cup {k} ELSE tooSoon

\* The call is over.
CommentEnds ==
    /\ call.pc = "commenting"
    /\ call' = IdleCall
    /\ elapsed' = 0
    /\ UNCHANGED <<failing, github, channel, cache, logged, blind>>

\* Defect: the cooldown of a comment is never recorded.
CommentUnrecorded ==
    /\ CommentEnds
    /\ Accepted(call.key)
    /\ shaken' = shaken \ {call.key}
    /\ UNCHANGED cool

\* _last_comment is the time read before the comment was sent.
CommentOk ==
    /\ CommentEnds
    /\ Accepted(call.key)
    /\ shaken' = shaken \ {call.key}
    /\ cool' = [cool EXCEPT ![call.key] = Cooldown - elapsed]

\* _comment_on_issue swallows the HTTPError and the cooldown starts all the same.
CommentRefused ==
    /\ CommentEnds
    /\ cool' = [cool EXCEPT ![call.key] = Cooldown - elapsed]
    /\ UNCHANGED comments

\* The comment is posted but the answer is lost: no cooldown is recorded.
CommentLost ==
    /\ CommentEnds
    /\ Accepted(call.key)
    /\ shaken' = shaken \cup {call.key}
    /\ UNCHANGED cool

\* A call fails before it takes effect (URLError anywhere; an HTTPError on
\* filing): raise_alert catches it and the alert waits for the next poll.
CallFails ==
    /\ \/ call.pc \in {"filing", "commenting"}
       \/ call.pc = "logged" /\ cache[call.key] = None
    /\ call' = IdleCall
    /\ elapsed' = 0
    /\ UNCHANGED <<failing, github, channel, cache, cool, logged, blind, comments>>

-----------------------------------------------------------------------------
(* The world around it *)

\* A check starts or stops failing.
Flip(k) ==
    /\ failing' = IF k \in failing THEN failing \ {k} ELSE failing \cup {k}
    /\ UNCHANGED <<github, process, logged, blind, comments>>

\* Somebody closes an issue.
Close(i) ==
    /\ i \in open
    /\ open' = open \ {i}
    /\ UNCHANGED <<failing, filed, index, process, logged, blind, comments>>

\* The search index catches up with one issue.
Reindex(i) ==
    /\ index' = IF i \in open THEN index \cup {i} ELSE index \ {i}
    /\ index' # index
    /\ UNCHANGED <<failing, filed, open, process, logged, blind, comments>>

\* The hub dies and starts again, perhaps with another channel.
Restart ==
    /\ channel' \in {"github_issue", "null"}
    /\ cache' = [k \in Keys |-> None]
    /\ cool' = [k \in Keys |-> 0]
    /\ call' = IdleCall
    /\ elapsed' = 0
    /\ blind' = blind \cup {k \in Keys : ~(OpenOf(k) \subseteq index)}
    /\ shaken' = Keys
    /\ UNCHANGED <<failing, github, logged, since, tooSoon>>

\* Times beyond the cooldown are all the same.
Later(t) == IF t < Cooldown THEN t + 1 ELSE t

Tick ==
    /\ cool' = [k \in Keys |-> IF cool[k] > 0 THEN cool[k] - 1 ELSE 0]
    /\ since' = [k \in Keys |-> Later(since[k])]
    /\ elapsed' = IF call.pc = "commenting" THEN Later(elapsed) ELSE elapsed
    /\ UNCHANGED <<failing, github, channel, cache, call, logged, blind, shaken, tooSoon>>

Deliver ==
    \/ CacheHit \/ SearchHit \/ SearchMiss \/ SearchRefused
    \/ FileOk \/ FileLost
    \/ CommentOk \/ CommentRefused \/ CommentLost
    \/ CallFails

Next ==
    \/ \E k \in Keys : Log(k) \/ Flip(k)
    \/ Deliver
    \/ \E i \in Issues : Close(i) \/ Reindex(i)
    \/ Restart \/ Tick

Spec == Init /\ [][Next]_vars

\* Every poll cycle raises every check that fails; a call of raise_alert ends
\* (its requests have a timeout); a search or filing that is tried for ever is
\* answered in the end; the index catches up.
FairSpec ==
    /\ Spec
    /\ WF_vars(Deliver)
    /\ \A k \in Keys :
        /\ SF_vars(Log(k))
        /\ SF_vars(call.key = k /\ (SearchMiss \/ SearchHit))
        /\ SF_vars(call.key = k /\ FileOk)
    /\ \A i \in Issues : WF_vars(Reindex(i))

-----------------------------------------------------------------------------
(* Properties *)

\* Every variable has its type.
TypeOK ==
    /\ failing \subseteq Keys
    /\ filed \in [Keys -> 0..MaxIssues]
    /\ open \subseteq Issues
    /\ index \subseteq Issues
    /\ channel \in {"github_issue", "null"}
    /\ cache \in [Keys -> Issues \cup {None}]
    /\ cool \in [Keys -> 0..Cooldown]
    /\ call \in Call
    /\ elapsed \in 0..Cooldown
    /\ logged \subseteq Keys
    /\ blind \subseteq Keys
    /\ since \in [Keys -> 0..Cooldown]
    /\ shaken \subseteq Keys
    /\ tooSoon \subseteq Keys

\* The audit log knows of every issue ever filed, whatever died in between:
\* "the log is the audit trail, the issue is the notification"
\* (alerts.py:77-78).
AuditFirst == \A k \in Keys : filed[k] > 0 => k \in logged

AtMostOneOpen(k) == \A i, j \in OpenOf(k) : i = j

\* One open issue per key, as long as the hub never lost sight of one: no search
\* for it was refused, no answer to its filing was lost, and no restart fell
\* into the time the search index needs to see it (alerts.py:98-137).
OneOpenUnlessBlind == \A k \in Keys \ blind : AtMostOneOpen(k)

\* A comment on an alert comes no sooner than a cooldown after the last one was
\* sent, unless a restart or a lost answer made the hub forget that one
\* (alerts.py:116-129).
CommentsSpaced == tooSoon = {}

\* An alert key is never led to the issue of another key: alerts.py:146 says the
\* search is for "an open issue with the exact title".
OwnIssueOnly == \A k \in Keys : cache[k] # None => cache[k][1] = k

\* A check that keeps failing gets an issue of its own sooner or later (or the
\* channel is "null"), whatever calls fail and however often the hub restarts.
Reported ==
    \A k \in Keys : k \in failing ~>
        (k \notin failing \/ channel = "null" \/ filed[k] > 0)

\* A check that keeps failing has an OPEN issue sooner or later, closed by a
\* hasty hand or not: alerts.py:73-75 says a new issue is filed when no open
\* one is found (the bound on issues excepted).
VisibleWhileFailing ==
    \A k \in Keys : k \in failing ~>
        (k \notin failing \/ channel = "null" \/ OpenOf(k) # {} \/ filed[k] = MaxIssues)

-----------------------------------------------------------------------------
(* The inductive invariant *)

\* Issues are filed after the log line, and only known numbers are kept.
KnownInv ==
    /\ call.pc # "idle" => call.key \in logged
    /\ \A k \in Keys : filed[k] > 0 => k \in logged
    /\ \A i \in open : i[2] <= filed[i[1]]

\* What the process knows of a key it never lost sight of: with nothing cached,
\* every open issue is in the index; about to file, there is none.
InSight(k) ==
    /\ AtMostOneOpen(k)
    /\ cache[k] = None => OpenOf(k) \subseteq index
    /\ call.pc = "filing" /\ call.key = k => cache[k] = None /\ OpenOf(k) = {}
SightInv == \A k \in Keys \ blind : InSight(k)

\* The cooldown a process remembers covers the last comment, and no comment is
\* under way while one is running.
SpacingInv ==
    /\ \A k \in Keys \ shaken : cool[k] >= Cooldown - since[k]
    /\ call.pc = "commenting" => cool[call.key] = 0
    /\ tooSoon = {}

AlertsInv == KnownInv /\ SightInv /\ SpacingInv
================================================================================
