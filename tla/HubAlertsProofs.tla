---------------------------- MODULE HubAlertsProofs ----------------------------
(***************************************************************************)
(* Theorems about HubAlerts, for any keys, titles, cooldown and bound.     *)
(***************************************************************************)
EXTENDS HubAlerts, TLAPS

-----------------------------------------------------------------------------
\* An issue number is None or a pair, never both.
LEMMA NoneIsNoIssue == None \notin Keys /\ None \notin Issues
BY AlertsAssumption DEF Issues

\* The issue filed next is an issue.
LEMMA FiledType ==
    ASSUME TypeOK, NEW k \in Keys, Filed(k)
    PROVE  /\ filed' = [filed EXCEPT ![k] = filed[k] + 1]
           /\ filed' \in [Keys -> 0..MaxIssues]
           /\ filed'[k] = filed[k] + 1
           /\ <<k, filed'[k]>> \in Issues
           /\ open' = open \cup {<<k, filed'[k]>>}
           /\ open' \subseteq Issues
           /\ index' = index
  <1>1. filed[k] \in 0..MaxIssues /\ filed[k] + 1 \in 1..MaxIssues
    BY AlertsAssumption DEF TypeOK, Filed
  <1>2. filed' = [filed EXCEPT ![k] = filed[k] + 1] /\ filed'[k] = filed[k] + 1
    BY DEF TypeOK, Filed
  <1>3. filed' \in [Keys -> 0..MaxIssues]
    BY <1>1, <1>2, AlertsAssumption DEF TypeOK
  <1>4. <<k, filed'[k]>> \in Issues
    BY <1>1, <1>2 DEF Issues
  <1> QED
    BY <1>2, <1>3, <1>4 DEF TypeOK, Filed

\* Init establishes the types.
LEMMA TypeInit == Init => TypeOK
BY AlertsAssumption DEF Init, TypeOK, Call

\* Every step keeps the types.
LEMMA TypeStep == TypeOK /\ [Next]_vars => TypeOK'
  <1> SUFFICES ASSUME TypeOK, [Next]_vars PROVE TypeOK'
    OBVIOUS
  <1> USE AlertsAssumption
  <1>1. ASSUME NEW k \in Keys, Log(k) PROVE TypeOK'
    BY <1>1 DEF TypeOK, Log, Call, github, comments
  <1>2. ASSUME NEW k \in Keys, Flip(k) PROVE TypeOK'
    BY <1>2 DEF TypeOK, Flip, github, process, comments
  <1>3. CASE CacheHit
    <2>1. call.key \in Keys /\ call = [pc |-> "logged", key |-> call.key, issue |-> None]
      BY <1>3 DEF TypeOK, CacheHit, Call, IdleCall
    <2>2. cache[call.key] \in Issues
      BY <1>3, <2>1 DEF TypeOK, CacheHit
    <2> QED
      BY <1>3, <2>1, <2>2 DEF TypeOK, CacheHit, Recur, Call, github, comments
  <1>4. CASE SearchHit
    <2>1. call.key \in Keys /\ call = [pc |-> "logged", key |-> call.key, issue |-> None]
      BY <1>4 DEF TypeOK, SearchHit, Call, IdleCall
    <2>2. PICK i \in Hits(call.key) : cache' = [cache EXCEPT ![call.key] = i] /\ Recur(i)
      BY <1>4 DEF SearchHit
    <2>3. i \in Issues
      BY <2>2 DEF Hits, TypeOK
    <2> QED
      BY <1>4, <2>1, <2>2, <2>3 DEF TypeOK, SearchHit, Recur, Call, github, comments
  <1>5. CASE SearchMiss
    BY <1>5 DEF TypeOK, SearchMiss, Call, IdleCall, github, comments
  <1>6. CASE SearchRefused
    BY <1>6 DEF TypeOK, SearchRefused, Call, IdleCall, github, comments
  <1>7. CASE FileOk
    <2>1. call.key \in Keys
      BY <1>7 DEF TypeOK, FileOk, Call, IdleCall
    <2> QED
      BY <1>7, <2>1, FiledType DEF TypeOK, FileOk, Call, comments
  <1>8. CASE FileLost
    <2>1. call.key \in Keys
      BY <1>8 DEF TypeOK, FileLost, Call, IdleCall
    <2> QED
      BY <1>8, <2>1, FiledType DEF TypeOK, FileLost, Call, comments
  <1>9. CASE CommentOk
    <2>1. call.key \in Keys
      BY <1>9 DEF TypeOK, CommentOk, CommentEnds, Call, IdleCall
    <2> QED
      BY <1>9, <2>1 DEF TypeOK, CommentOk, CommentEnds, Accepted, Call, github
  <1>10. CASE CommentRefused
    <2>1. call.key \in Keys
      BY <1>10 DEF TypeOK, CommentRefused, CommentEnds, Call, IdleCall
    <2> QED
      BY <1>10, <2>1 DEF TypeOK, CommentRefused, CommentEnds, Call, github, comments
  <1>11. CASE CommentLost
    <2>1. call.key \in Keys
      BY <1>11 DEF TypeOK, CommentLost, CommentEnds, Call, IdleCall
    <2> QED
      BY <1>11, <2>1 DEF TypeOK, CommentLost, CommentEnds, Accepted, Call, github
  <1>12. CASE CallFails
    BY <1>12 DEF TypeOK, CallFails, Call, github, comments
  <1>13. ASSUME NEW i \in Issues, Close(i) PROVE TypeOK'
    BY <1>13 DEF TypeOK, Close, process, comments
  <1>14. ASSUME NEW i \in Issues, Reindex(i) PROVE TypeOK'
    BY <1>14 DEF TypeOK, Reindex, process, comments
  <1>15. CASE Restart
    BY <1>15 DEF TypeOK, Restart, Call, github
  <1>16. CASE Tick
    BY <1>16 DEF TypeOK, Tick, Later, Call, github
  <1>17. CASE UNCHANGED vars
    BY <1>17 DEF TypeOK, vars, github, process, comments
  <1> QED
    BY <1>1, <1>2, <1>3, <1>4, <1>5, <1>6, <1>7, <1>8, <1>9, <1>10, <1>11, <1>12,
       <1>13, <1>14, <1>15, <1>16, <1>17 DEF Next, Deliver

\* The notifier, GitHub and the log always have their types.
THEOREM TypeCorrect == Spec => []TypeOK
  <1>1. TypeOK /\ [Next]_vars => TypeOK'
    BY TypeStep
  <1> QED
    BY <1>1, TypeInit, PTL DEF Spec

-----------------------------------------------------------------------------
\* The call in progress names a key, and nothing is cached while it searches
\* or files.
LEMMA CallKey ==
    ASSUME TypeOK
    PROVE  /\ call.pc # "idle" => call.key \in Keys
           /\ call.pc = "commenting" => call.issue \in Issues
BY DEF TypeOK, Call, IdleCall

\* Issues are filed after the log line, by the numbers GitHub gave them.
LEMMA KnownStep == TypeOK /\ KnownInv /\ [Next]_vars => KnownInv'
  <1> SUFFICES ASSUME TypeOK, KnownInv, [Next]_vars PROVE KnownInv'
    OBVIOUS
  <1> USE AlertsAssumption
  <1>1. ASSUME NEW k \in Keys, Log(k) PROVE KnownInv'
    BY <1>1 DEF KnownInv, Log, IdleCall, github
  <1>2. ASSUME UNCHANGED <<filed, logged>>, open' \subseteq open,
               call'.pc = "idle" \/ (call.pc # "idle" /\ call'.key = call.key)
        PROVE  KnownInv'
    BY <1>2 DEF KnownInv
  <1>3. CASE CacheHit \/ SearchHit
    <2>1. call.pc = "logged" /\ UNCHANGED <<filed, open, logged>> /\ \E i : Recur(i)
      BY <1>3 DEF CacheHit, SearchHit, github
    <2>2. call'.pc = "idle" \/ call'.key = call.key
      BY <2>1 DEF Recur, IdleCall
    <2> QED
      BY <1>2, <2>1, <2>2
  <1>4. CASE SearchMiss \/ SearchRefused
    BY <1>4, <1>2 DEF SearchMiss, SearchRefused, IdleCall, github, TypeOK, Call
  <1>5. CASE FileOk \/ FileLost
    <2>1. call.pc = "filing" /\ call.key \in Keys /\ Filed(call.key)
      BY <1>5, CallKey DEF FileOk, FileLost
    <2>2. call' = IdleCall /\ logged' = logged
      BY <1>5 DEF FileOk, FileLost
    <2>3. /\ filed \in [Keys -> 0..MaxIssues] /\ filed' \in [Keys -> 0..MaxIssues]
          /\ filed' = [filed EXCEPT ![call.key] = filed[call.key] + 1]
          /\ open' = open \cup {<<call.key, filed'[call.key]>>}
      <3>1. filed \in [Keys -> 0..MaxIssues]
        BY DEF TypeOK
      <3> QED
        BY <3>1, <2>1, FiledType
    <2>4. \A k \in Keys : filed[k] <= filed'[k] /\ (k # call.key => filed'[k] = filed[k])
      BY <2>1, <2>3
    <2>5. \A k \in Keys : filed'[k] > 0 => k \in logged'
      BY <2>1, <2>2, <2>4 DEF KnownInv
    <2>6. ASSUME NEW i \in open' PROVE i[2] <= filed'[i[1]]
      <3>1. CASE i \in open
        <4>1. i[1] \in Keys /\ i[2] \in 1..MaxIssues /\ i[2] <= filed[i[1]]
          BY <3>1 DEF TypeOK, Issues, KnownInv
        <4>2. filed[i[1]] \in Int /\ filed'[i[1]] \in Int
          BY <4>1, <2>3
        <4> QED
          BY <4>1, <4>2, <2>4
      <3>2. CASE i = <<call.key, filed'[call.key]>>
        BY <3>2, <2>1, <2>3
      <3> QED
        BY <2>3, <2>6, <3>1, <3>2
    <2> QED
      BY <2>2, <2>5, <2>6 DEF KnownInv, IdleCall
  <1>6. CASE CommentOk \/ CommentRefused \/ CommentLost \/ CallFails
    <2>1. call'.pc = "idle" /\ UNCHANGED <<filed, open, logged>>
      BY <1>6 DEF CommentOk, CommentRefused, CommentLost, CommentEnds, CallFails, IdleCall, github
    <2> QED
      BY <1>2, <2>1
  <1>7. ASSUME NEW i \in Issues, Close(i) \/ Reindex(i) PROVE KnownInv'
    BY <1>7 DEF KnownInv, Close, Reindex, process
  <1>8. CASE Restart \/ Tick \/ (\E k \in Keys : Flip(k)) \/ UNCHANGED vars
    BY <1>8 DEF KnownInv, Restart, Tick, Flip, IdleCall, github, process, vars
  <1> QED
    BY <1>1, <1>3, <1>4, <1>5, <1>6, <1>7, <1>8 DEF Next, Deliver

\* A cooldown the process remembers covers the last comment.
LEMMA SpacingStep == TypeOK /\ SpacingInv /\ [Next]_vars => SpacingInv'
  <1> SUFFICES ASSUME TypeOK, SpacingInv, [Next]_vars PROVE SpacingInv'
    OBVIOUS
  <1> USE AlertsAssumption
  <1>1. ASSUME UNCHANGED <<cool, since, shaken, tooSoon>>,
               call'.pc = "commenting" => cool[call'.key] = 0
        PROVE  SpacingInv'
    BY <1>1 DEF SpacingInv
  <1>2. ASSUME NEW k \in Keys, Log(k) PROVE SpacingInv'
    BY <1>2, <1>1 DEF Log, IdleCall, comments
  <1>3. CASE CacheHit \/ SearchHit
    BY <1>3, <1>1 DEF CacheHit, SearchHit, Recur, IdleCall, comments, TypeOK, Call
  <1>4. CASE SearchMiss \/ SearchRefused \/ FileOk \/ FileLost \/ CallFails
    BY <1>4, <1>1 DEF SearchMiss, SearchRefused, FileOk, FileLost, CallFails, IdleCall,
                      comments, TypeOK, Call
  <1>5. CASE CommentOk \/ CommentLost
    <2> DEFINE k == call.key
    <2>1. k \in Keys /\ call.pc = "commenting" /\ Accepted(k) /\ call' = IdleCall
      BY <1>5, CallKey DEF CommentOk, CommentLost, CommentEnds
    <2>2. k \notin shaken => since[k] >= Cooldown
      BY <2>1 DEF SpacingInv, TypeOK
    <2>3. tooSoon' = {}
      BY <2>1, <2>2 DEF Accepted, SpacingInv, TypeOK
    <2>4. ASSUME NEW j \in Keys \ shaken' PROVE cool'[j] >= Cooldown - since'[j]
      <3>1. CASE j = k
        BY <3>1, <2>1, <2>4, <1>5 DEF CommentOk, CommentLost, CommentEnds, Accepted, TypeOK
      <3>2. CASE j # k
        BY <3>2, <2>1, <2>4, <1>5 DEF CommentOk, CommentLost, CommentEnds, Accepted, TypeOK, SpacingInv
      <3> QED
        BY <3>1, <3>2
    <2> QED
      BY <2>1, <2>3, <2>4 DEF SpacingInv, IdleCall
  <1>6. CASE CommentRefused
    <2>1. call.key \in Keys /\ UNCHANGED comments /\ call' = IdleCall
          /\ cool' = [cool EXCEPT ![call.key] = Cooldown - elapsed]
      BY <1>6, CallKey DEF CommentRefused, CommentEnds
    <2>2. ASSUME NEW j \in Keys \ shaken PROVE cool'[j] >= Cooldown - since[j]
      <3>1. elapsed \in 0..Cooldown /\ since[j] \in 0..Cooldown /\ cool[j] >= Cooldown - since[j]
        BY <2>2 DEF TypeOK, SpacingInv
      <3>2. CASE j = call.key
        <4>1. cool[j] = 0 /\ cool'[j] = Cooldown - elapsed
          BY <3>2, <2>1, <1>6 DEF CommentRefused, CommentEnds, SpacingInv, TypeOK
        <4> QED
          BY <3>1, <4>1
      <3>3. CASE j # call.key
        BY <3>1, <3>3, <2>1, <2>2 DEF TypeOK
      <3> QED
        BY <3>2, <3>3
    <2> QED
      BY <2>1, <2>2 DEF SpacingInv, IdleCall, comments
  <1>7. CASE Restart
    BY <1>7 DEF Restart, SpacingInv, IdleCall
  <1>8. CASE Tick
    <2>1. ASSUME NEW j \in Keys \ shaken PROVE cool'[j] >= Cooldown - since'[j]
      BY <1>8, <2>1 DEF Tick, Later, TypeOK, SpacingInv
    <2>2. call.pc = "commenting" => cool'[call.key] = 0
      BY <1>8, CallKey DEF Tick, SpacingInv
    <2> QED
      BY <1>8, <2>1, <2>2 DEF Tick, SpacingInv
  <1>9. CASE (\E k \in Keys : Flip(k)) \/ (\E i \in Issues : Close(i) \/ Reindex(i)) \/ UNCHANGED vars
    BY <1>9 DEF SpacingInv, Flip, Close, Reindex, process, comments, vars
  <1> QED
    BY <1>2, <1>3, <1>4, <1>5, <1>6, <1>7, <1>8, <1>9 DEF Next, Deliver

\* A key never lost sight of keeps at most one open issue.
LEMMA SightStep == TypeOK /\ SightInv /\ [Next]_vars => SightInv'
  <1> SUFFICES ASSUME TypeOK, SightInv, [Next]_vars,
                      NEW k \in Keys, k \notin blind'
               PROVE  InSight(k)'
    BY DEF SightInv
  <1> USE AlertsAssumption
  <1>1. blind \subseteq blind'
    BY DEF Next, Deliver, Log, CacheHit, SearchHit, SearchMiss, SearchRefused, FileOk, FileLost,
           CommentOk, CommentRefused, CommentLost, CommentEnds, CallFails, Flip, Close, Reindex, Restart, Tick, vars
  <1>2. InSight(k)
    BY <1>1 DEF SightInv
  <1>3. ASSUME UNCHANGED <<open, index>>,
               cache'[k] = None => cache[k] = None,
               call'.pc = "filing" /\ call'.key = k => cache'[k] = None /\ OpenOf(k) = {}
        PROVE  InSight(k)'
    BY <1>2, <1>3 DEF InSight, AtMostOneOpen, OpenOf
  <1>4. CASE \E j \in Keys : Log(j) \/ Flip(j)
    BY <1>2, <1>3, <1>4 DEF Log, Flip, IdleCall, github, process, InSight
  <1>5. CASE CacheHit
    BY <1>3, <1>5 DEF CacheHit, Recur, IdleCall, github, TypeOK, Call
  <1>6. CASE SearchHit
    <2>1. PICK i \in index : cache' = [cache EXCEPT ![call.key] = i] /\ Recur(i)
      BY <1>6 DEF SearchHit, Hits
    <2>2. i # None
      BY <2>1, NoneIsNoIssue DEF TypeOK
    <2>3. cache'[k] = None => cache[k] = None
      BY <2>1, <2>2 DEF TypeOK
    <2>4. call'.pc # "filing"
      BY <2>1, <1>6 DEF Recur, IdleCall, SearchHit, TypeOK, Call
    <2> QED
      BY <1>3, <1>6, <2>3, <2>4 DEF SearchHit, github
  <1>7. CASE SearchMiss
    <2>1. call.key = k => OpenOf(k) = {}
      BY <1>2, <1>7 DEF SearchMiss, Hits, InSight, OpenOf
    <2>2. call'.key = call.key /\ cache' = cache /\ UNCHANGED <<open, index>>
      BY <1>7 DEF SearchMiss, github, TypeOK, Call, IdleCall
    <2> QED
      BY <1>3, <1>7, <2>1, <2>2 DEF SearchMiss
  <1>8. CASE SearchRefused
    <2>1. call'.key = call.key /\ call.key # k
      BY <1>8 DEF SearchRefused, TypeOK, Call, IdleCall
    <2> QED
      BY <1>3, <1>8, <2>1 DEF SearchRefused, github
  <1>9. CASE FileOk
    <2> DEFINE i == <<call.key, filed'[call.key]>>
    <2>1. /\ call.key \in Keys /\ call.pc = "filing" /\ call' = IdleCall
          /\ Filed(call.key) /\ cache' = [cache EXCEPT ![call.key] = i]
      BY <1>9, CallKey DEF FileOk
    <2>2. i \in Issues /\ i # None /\ open' = open \cup {i} /\ index' = index
      BY <2>1, FiledType, NoneIsNoIssue
    <2>3. CASE call.key = k
      <3>1. OpenOf(k)' = {i}
        BY <1>2, <2>1, <2>2, <2>3 DEF InSight, OpenOf
      <3>2. cache'[k] # None
        BY <2>1, <2>2, <2>3 DEF TypeOK
      <3> QED
        BY <2>1, <3>1, <3>2 DEF InSight, AtMostOneOpen, IdleCall
    <2>4. CASE call.key # k
      <3>1. OpenOf(k)' = OpenOf(k) /\ cache'[k] = cache[k]
        BY <2>1, <2>2, <2>4 DEF OpenOf, TypeOK
      <3> QED
        BY <1>2, <2>1, <2>2, <3>1 DEF InSight, AtMostOneOpen, IdleCall
    <2> QED
      BY <2>3, <2>4
  <1>10. CASE FileLost
    <2>1. /\ call.key \in Keys /\ call' = IdleCall /\ cache' = cache
          /\ Filed(call.key) /\ call.key # k
      BY <1>10, CallKey DEF FileLost
    <2>2. open' = open \cup {<<call.key, filed'[call.key]>>} /\ index' = index
      BY <2>1, FiledType
    <2>3. OpenOf(k)' = OpenOf(k)
      BY <2>1, <2>2 DEF OpenOf
    <2> QED
      BY <1>2, <2>1, <2>2, <2>3 DEF InSight, AtMostOneOpen, IdleCall
  <1>11. CASE CommentOk \/ CommentRefused \/ CommentLost \/ CallFails
    BY <1>3, <1>11 DEF CommentOk, CommentRefused, CommentLost, CommentEnds, CallFails, IdleCall, github
  <1>12. ASSUME NEW i \in Issues, Close(i) PROVE InSight(k)'
    BY <1>2, <1>12 DEF Close, process, InSight, AtMostOneOpen, OpenOf
  <1>13. ASSUME NEW i \in Issues, Reindex(i) PROVE InSight(k)'
    BY <1>2, <1>13 DEF Reindex, process, InSight, AtMostOneOpen, OpenOf
  <1>14. CASE Restart
    <2>1. OpenOf(k) \subseteq index
      BY <1>14 DEF Restart
    <2> QED
      BY <1>2, <1>14, <2>1 DEF Restart, github, InSight, AtMostOneOpen, OpenOf, IdleCall
  <1>15. CASE Tick \/ UNCHANGED vars
    BY <1>2, <1>3, <1>15 DEF Tick, github, process, vars, InSight
  <1> QED
    BY <1>4, <1>5, <1>6, <1>7, <1>8, <1>9, <1>10, <1>11, <1>12, <1>13, <1>14, <1>15 DEF Next, Deliver

\* The invariant holds of the first state...
LEMMA InvInit == Init => AlertsInv
BY AlertsAssumption DEF Init, AlertsInv, KnownInv, SightInv, InSight, AtMostOneOpen, OpenOf,
   SpacingInv, IdleCall

\* ... and every step keeps it.
THEOREM InvariantCorrect == Spec => []AlertsInv
  <1>1. TypeOK /\ AlertsInv /\ [Next]_vars => AlertsInv'
    BY KnownStep, SightStep, SpacingStep DEF AlertsInv
  <1> QED
    BY <1>1, InvInit, TypeCorrect, PTL DEF Spec

-----------------------------------------------------------------------------
\* No issue is filed, by a process that lives or dies, without a line in the log.
THEOREM LogKnowsAll == Spec => []AuditFirst
  <1>1. AlertsInv => AuditFirst
    BY DEF AlertsInv, KnownInv, AuditFirst
  <1> QED
    BY <1>1, InvariantCorrect, PTL

\* Two open issues for one key take a refused search, a lost answer or a restart
\* ahead of the search index.
THEOREM DuplicatesAreBlind == Spec => []OneOpenUnlessBlind
  <1>1. AlertsInv => OneOpenUnlessBlind
    BY DEF AlertsInv, SightInv, InSight, OneOpenUnlessBlind
  <1> QED
    BY <1>1, InvariantCorrect, PTL

\* Comments keep their distance, unless a restart or a lost answer shook it.
THEOREM CooldownKept == Spec => []CommentsSpaced
  <1>1. AlertsInv => CommentsSpaced
    BY DEF AlertsInv, SpacingInv, CommentsSpaced
  <1> QED
    BY <1>1, InvariantCorrect, PTL

-----------------------------------------------------------------------------
\* No alert's title lies within the title of another.
TitlesApart == \A k, j \in Keys : <<k, j>> \in InTitle => k = j

\* A step that leaves the cache alone, or forgets it, misleads no alert.
LEMMA OwnStep ==
    ASSUME TitlesApart, TypeOK, OwnIssueOnly, [Next]_vars
    PROVE  OwnIssueOnly'
  <1>1. ASSUME cache' = cache PROVE OwnIssueOnly'
    BY <1>1 DEF OwnIssueOnly
  <1>2. ASSUME NEW i, cache' = [cache EXCEPT ![call.key] = i], i[1] = call.key
        PROVE  OwnIssueOnly'
    BY <1>2 DEF OwnIssueOnly, TypeOK
  <1>3. CASE SearchHit
    <2>1. call.key \in Keys
      BY <1>3, CallKey DEF SearchHit
    <2>2. PICK i \in Hits(call.key) : cache' = [cache EXCEPT ![call.key] = i]
      BY <1>3 DEF SearchHit
    <2>3. i[1] \in Keys /\ <<call.key, i[1]>> \in InTitle
      BY <2>2 DEF Hits, TypeOK, Issues
    <2>4. i[1] = call.key
      BY <2>1, <2>3 DEF TitlesApart
    <2> QED
      BY <1>2, <2>2, <2>4
  <1>4. CASE FileOk
    BY <1>2, <1>4 DEF FileOk
  <1>5. CASE Restart
    BY <1>5 DEF Restart, OwnIssueOnly
  <1> QED
    BY <1>1, <1>3, <1>4, <1>5 DEF Next, Deliver, Log, CacheHit, SearchMiss, SearchRefused,
       FileLost, CommentOk, CommentRefused, CommentLost, CommentEnds, CallFails, Flip, Close, Reindex, Tick,
       process, vars

\* As long as no title contains another, no alert is led to another's issue.
THEOREM TitlesApartSuffice == TitlesApart /\ Spec => []OwnIssueOnly
  <1>1. TitlesApart /\ TypeOK /\ OwnIssueOnly /\ [Next]_vars => OwnIssueOnly'
    BY OwnStep
  <1>2. Init => OwnIssueOnly
    BY DEF Init, OwnIssueOnly
  <1>3. TitlesApart => TitlesApart'
    BY DEF TitlesApart
  <1> QED
    BY <1>1, <1>2, <1>3, TypeCorrect, PTL DEF Spec
================================================================================
