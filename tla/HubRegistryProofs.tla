--------------------------- MODULE HubRegistryProofs ---------------------------
(***************************************************************************)
(* Theorems about HubRegistry, for any sets of names, tokens and threads   *)
(* and any bounds.                                                         *)
(***************************************************************************)
EXTENDS HubRegistry, SequenceTheorems, TLAPS

-----------------------------------------------------------------------------
(* Typing *)

\* A row the enroll handler appends is a row.
LEMMA NewRowType ==
    ASSUME NEW n \in Names, NEW t \in Tokens, NEW hb \in Mints
    PROVE  NewRow(n, t, hb) \in Row
BY RegistryAssumption DEF NewRow, Row, Health

\* Merging a report into a row's health fields gives health fields.
LEMMA MergeType ==
    ASSUME NEW h \in Health, NEW report \in Report
    PROVE  Merge(h, report) \in Health
BY DEF Merge, Health, Report, Fields

\* The row a heartbeat leaves is a row.
LEMMA BeatenType ==
    ASSUME NEW row \in Row, NEW now \in 0..MaxClock, NEW report \in Report
    PROVE  /\ Beaten(row, now, report) \in Row
           /\ Beaten(row, now, report).name = row.name
           /\ Beaten(row, now, report).tok = row.tok
           /\ Beaten(row, now, report).hb = row.hb
           /\ Beaten(row, now, report).enrolled = row.enrolled
           /\ Beaten(row, now, report).last_heartbeat = now
<1>1. Merge(row.health, report) \in Health
  BY MergeType DEF Row
<1> QED
  BY <1>1 DEF Beaten, Row

\* Init establishes the types.
LEMMA TypeInit == Init => TypeOK
<1> SUFFICES ASSUME Init PROVE TypeOK
  OBVIOUS
<1>1. Empty \in Registry /\ Idle \in Request
  BY DEF Empty, Registry, Request
<1>2. disk \in Registry
  BY <1>1 DEF Init, Empty, Registry
<1>3. beatAck \in [Mints -> 0..MaxClock]
  BY RegistryAssumption DEF Init
<1>4. 1 \in 1..MaxClock /\ 0 \in 0..MaxMint
  BY RegistryAssumption
<1> QED
  BY <1>1, <1>2, <1>3, <1>4 DEF Init, TypeOK

\* A thread moves on with the same locals.
LEMMA AdvanceType ==
    ASSUME NEW r \in Request, r.pc \in {"dirty", "written"},
           NEW pc \in {"written", "saved"}
    PROVE  [r EXCEPT !.pc = pc] \in Request
<1>1. r \in Applied
  BY DEF Request, Probed, Idle
<1>2. [r EXCEPT !.pc = pc] \in Applied
  BY <1>1 DEF Applied
<1> QED
  BY <1>2 DEF Request

\* Every step keeps the types.
LEMMA TypeStep == TypeOK /\ [Next]_vars => TypeOK'
<1> SUFFICES ASSUME TypeOK, [Next]_vars PROVE TypeOK'
  OBVIOUS
<1> USE RegistryAssumption
<1>0. Empty \in Registry /\ Idle \in Request
  BY DEF Empty, Registry, Request
<1>1. CASE Startup
  <2>1. LoadTokens(disk.tokens, env) \subseteq Tokens
    BY DEF LoadTokens
  <2>2. [disk EXCEPT !.tokens = LoadTokens(disk.tokens, env)] \in Registry
    BY <2>1 DEF TypeOK, Registry
  <2> QED
    BY <1>1, <2>1, <2>2 DEF TypeOK, Startup, Registry
<1>2. CASE Crash
  BY <1>0, <1>2 DEF TypeOK, Crash, history
<1>3. CASE EditEnv
  BY <1>3 DEF TypeOK, EditEnv, history
<1>4. CASE Tick
  BY <1>4 DEF TypeOK, Tick, state, history
<1>5. ASSUME NEW th \in Threads, NEW n \in Names, NEW t \in Tokens, EnrollProbe(th, n, t)
      PROVE  TypeOK'
  <2>1. [Idle EXCEPT !.op = "enroll", !.pc = "probed", !.name = n, !.tok = t] \in Request
    BY DEF Idle, Request, Probed
  <2> QED
    BY <1>5, <2>1 DEF TypeOK, EnrollProbe, history
<1>6. ASSUME NEW th \in Threads, EnrollRefused(th)
      PROVE  TypeOK'
  BY <1>0, <1>6 DEF TypeOK, EnrollRefused, history
<1>7. ASSUME NEW th \in Threads, EnrollApply(th)
      PROVE  TypeOK'
  <2> DEFINE r == thread[th]
  <2>1. minted' \in Mints /\ minted' \in 0..MaxMint
    BY <1>7 DEF TypeOK, EnrollApply, Mints
  <2>2. r \in Probed
    BY <1>7 DEF TypeOK, EnrollApply, Request, Applied, Idle
  <2>3. [r EXCEPT !.pc = "dirty", !.hb = minted'] \in Request
    BY <2>1, <2>2 DEF Probed, Applied, Request
  <2>4. NewRow(r.name, r.tok, minted') \in Row
    BY <2>1, <2>2, NewRowType DEF Probed
  <2>5. mem' \in Registry
    BY <1>7, <2>4 DEF TypeOK, EnrollApply, Registry
  <2>6. thread' \in [Threads -> Request]
    BY <1>7, <2>3 DEF TypeOK, EnrollApply
  <2> QED
    BY <1>7, <2>1, <2>5, <2>6 DEF TypeOK, EnrollApply, history
<1>8. ASSUME NEW th \in Threads, NEW c \in creds, NEW report \in Report,
             HeartbeatApply(th, c.name, c.hb, report)
      PROVE  TypeOK'
  <2>1. PICK i \in DOMAIN mem.rows :
          mem' = [mem EXCEPT !.rows[i] = Beaten(@, clock, report)]
    BY <1>8 DEF HeartbeatApply
  <2>2. mem.rows \in Seq(Row) /\ mem.rows[i] \in Row /\ clock \in 0..MaxClock
    BY <2>1 DEF TypeOK, Registry
  <2>3. [mem.rows EXCEPT ![i] = Beaten(@, clock, report)] \in Seq(Row)
    BY <2>2, BeatenType, ExceptSeq
  <2>4. mem' \in Registry
    BY <2>1, <2>3 DEF TypeOK, Registry
  <2>5. [Idle EXCEPT !.op = "heartbeat", !.pc = "dirty", !.name = c.name,
                     !.hb = c.hb, !.at = clock] \in Request
    BY <2>2 DEF Idle, Request, Applied, TypeOK, Credential
  <2> QED
    BY <1>8, <2>4, <2>5 DEF TypeOK, HeartbeatApply, history
<1>9. ASSUME NEW th \in Threads, NEW c \in creds, RevokeApply(th, c.name, c.hb)
      PROVE  TypeOK'
  <2>1. PICK i \in DOMAIN mem.rows :
          mem' = [mem EXCEPT !.rows[i].enrolled = FALSE]
    BY <1>9 DEF RevokeApply
  <2>2. mem.rows \in Seq(Row) /\ mem.rows[i] \in Row
    BY <2>1 DEF TypeOK, Registry
  <2>3. [mem.rows[i] EXCEPT !.enrolled = FALSE] \in Row
    BY <2>2 DEF Row
  <2>4. [mem.rows EXCEPT ![i] = [@ EXCEPT !.enrolled = FALSE]] \in Seq(Row)
    BY <2>2, <2>3, ExceptSeq
  <2>5. mem' \in Registry
    BY <2>1, <2>4 DEF TypeOK, Registry
  <2>6. [Idle EXCEPT !.op = "revoke", !.pc = "dirty", !.name = c.name, !.hb = c.hb] \in Request
    <3>1. c \in Credential /\ 0 \in 0..MaxClock
      BY DEF TypeOK
    <3> QED
      BY <3>1 DEF Idle, Request, Applied, Credential
  <2> QED
    BY <1>9, <2>5, <2>6 DEF TypeOK, RevokeApply, history
<1>10. ASSUME NEW th \in Threads, SaveWrite(th)
       PROVE  TypeOK'
  <2>1. [thread[th] EXCEPT !.pc = "written"] \in Request
    BY <1>10, AdvanceType DEF TypeOK, SaveWrite
  <2> QED
    BY <1>10, <2>1 DEF TypeOK, SaveWrite, history
<1>11. ASSUME NEW th \in Threads, SaveReplace(th)
       PROVE  TypeOK'
  <2>1. [thread[th] EXCEPT !.pc = "saved"] \in Request
    BY <1>11, AdvanceType DEF TypeOK, SaveReplace
  <2> QED
    BY <1>0, <1>11, <2>1 DEF TypeOK, SaveReplace, history
<1>12. ASSUME NEW th \in Threads, SaveFail(th)
       PROVE  TypeOK'
  BY <1>0, <1>12 DEF TypeOK, SaveFail, history
<1>13. ASSUME NEW th \in Threads, Reply(th)
       PROVE  TypeOK'
  <2> DEFINE r == thread[th]
  <2>1. r \in Applied
    BY <1>13 DEF TypeOK, Reply, Request, Probed, Idle
  <2>2. creds' \subseteq Credential
    BY <1>13, <2>1 DEF Reply, TypeOK, Applied, Credential
  <2>3. revokedAck' \subseteq Mints
    BY <1>13, <2>1 DEF Reply, TypeOK, Applied
  <2>4. beatAck' \in [Mints -> 0..MaxClock]
    BY <1>13, <2>1 DEF Reply, TypeOK, Applied
  <2> QED
    BY <1>0, <1>13, <2>2, <2>3, <2>4 DEF TypeOK, Reply
<1>14. ASSUME NEW th \in Threads, ReplyLost(th)
       PROVE  TypeOK'
  BY <1>0, <1>14 DEF TypeOK, ReplyLost, history
<1>15. CASE UNCHANGED vars
  BY <1>15 DEF TypeOK, vars, state, history
<1> QED
  BY <1>1, <1>2, <1>3, <1>4, <1>5, <1>6, <1>7, <1>8, <1>9, <1>10, <1>11, <1>12,
     <1>13, <1>14, <1>15
  DEF Next, Arrive, Acquire, Finish

\* The registry, its file, the request threads and the history always have
\* their types, for any instance of the constants.
THEOREM TypeCorrect == Spec => []TypeOK
<1> QED
  BY TypeInit, TypeStep, PTL DEF Spec

-----------------------------------------------------------------------------
(* What a step does to memory and the volume *)

\* Neither memory nor the volume changes; time may pass.
Quiet ==
    /\ UNCHANGED <<up, mem, disk, minted, reissued>>
    /\ clock' >= clock

\* A row of memory is replaced by a later state of the same row.
Update ==
    /\ up
    /\ UNCHANGED <<up, disk, minted, clock, reissued>>
    /\ \E i \in DOMAIN mem.rows, row \in Row :
        /\ mem' = [mem EXCEPT !.rows[i] = row]
        /\ row.name = mem.rows[i].name
        /\ row.tok = mem.rows[i].tok
        /\ row.hb = mem.rows[i].hb
        /\ row.enrolled => mem.rows[i].enrolled
        /\ row.last_heartbeat \in {mem.rows[i].last_heartbeat, clock}

\* Memory reaches the volume.
Save ==
    /\ up
    /\ disk' = mem
    /\ UNCHANGED <<up, mem, minted, clock, reissued>>

\* Every step is one of these.
LEMMA StepCases ==
    ASSUME TypeOK, RegistryInv, [Next]_vars
    PROVE  \/ Startup \/ Crash \/ Quiet \/ Update \/ Save
           \/ \E th \in Threads : EnrollApply(th)
<1>1. CASE Startup
  BY <1>1
<1>2. CASE Crash
  BY <1>2
<1>3. CASE EditEnv \/ Tick \/ UNCHANGED vars
  BY <1>3 DEF EditEnv, Tick, Quiet, vars, state, history, TypeOK
<1>4. ASSUME NEW th \in Threads, NEW n \in Names, NEW t \in Tokens, EnrollProbe(th, n, t)
      PROVE  Quiet
  BY <1>4 DEF EnrollProbe, Quiet, history, TypeOK
<1>5. ASSUME NEW th \in Threads,
             EnrollRefused(th) \/ SaveWrite(th) \/ SaveFail(th) \/ Reply(th) \/ ReplyLost(th)
      PROVE  Quiet
  BY <1>5 DEF EnrollRefused, SaveWrite, SaveFail, Reply, ReplyLost, Quiet, history, TypeOK
<1>6. ASSUME NEW th \in Threads, NEW c \in creds, NEW report \in Report,
             HeartbeatApply(th, c.name, c.hb, report)
      PROVE  Update
  <2>1. PICK i \in DOMAIN mem.rows :
          mem' = [mem EXCEPT !.rows[i] = Beaten(@, clock, report)]
    BY <1>6 DEF HeartbeatApply
  <2>2. mem.rows[i] \in Row /\ clock \in 0..MaxClock
    BY <2>1 DEF TypeOK, Registry
  <2> DEFINE row == Beaten(mem.rows[i], clock, report)
  <2>3. /\ row \in Row
        /\ row.name = mem.rows[i].name
        /\ row.tok = mem.rows[i].tok
        /\ row.hb = mem.rows[i].hb
        /\ row.enrolled = mem.rows[i].enrolled
        /\ row.last_heartbeat = clock
    BY <2>2, BeatenType
  <2>4. mem' = [mem EXCEPT !.rows[i] = row]
    BY <2>1
  <2> HIDE DEF row
  <2> QED
    BY <1>6, <2>3, <2>4 DEF HeartbeatApply, Update, history
<1>7. ASSUME NEW th \in Threads, NEW c \in creds, RevokeApply(th, c.name, c.hb)
      PROVE  Update
  <2>1. PICK i \in DOMAIN mem.rows :
          mem' = [mem EXCEPT !.rows[i].enrolled = FALSE]
    BY <1>7 DEF RevokeApply
  <2> DEFINE row == [mem.rows[i] EXCEPT !.enrolled = FALSE]
  <2>2. mem.rows[i] \in Row
    BY <2>1 DEF TypeOK, Registry
  <2>3. /\ row \in Row
        /\ row.name = mem.rows[i].name
        /\ row.tok = mem.rows[i].tok
        /\ row.hb = mem.rows[i].hb
        /\ ~row.enrolled
        /\ row.last_heartbeat = mem.rows[i].last_heartbeat
    BY <2>2 DEF Row
  <2>4. mem' = [mem EXCEPT !.rows[i] = row]
    BY <2>1
  <2> HIDE DEF row
  <2> QED
    BY <1>7, <2>3, <2>4 DEF RevokeApply, Update, history
<1>8. ASSUME NEW th \in Threads, SaveReplace(th)
      PROVE  Save
  BY <1>8 DEF SaveReplace, Save, RegistryInv, LockInv, history
<1> QED
  BY <1>1, <1>2, <1>3, <1>4, <1>5, <1>6, <1>7, <1>8 DEF Next, Arrive, Acquire, Finish

\* Types of the parts, as the proofs below use them.
LEMMA Parts ==
    ASSUME TypeOK
    PROVE  /\ mem.rows \in Seq(Row) /\ disk.rows \in Seq(Row)
           /\ mem.tokens \subseteq Tokens /\ disk.tokens \subseteq Tokens
           /\ \A i \in DOMAIN mem.rows : mem.rows[i] \in Row
           /\ \A i \in DOMAIN disk.rows : disk.rows[i] \in Row
           /\ DOMAIN mem.rows = 1..Len(mem.rows) /\ Len(mem.rows) \in Nat
           /\ DOMAIN disk.rows = 1..Len(disk.rows) /\ Len(disk.rows) \in Nat
           /\ minted \in Nat /\ clock \in Nat
BY RegistryAssumption DEF TypeOK, Registry

\* An in-place update keeps every index and changes one row.
LEMMA UpdateRows ==
    ASSUME TypeOK, Update
    PROVE  /\ DOMAIN mem'.rows = DOMAIN mem.rows
           /\ mem'.tokens = mem.tokens
           /\ \A j \in DOMAIN mem.rows :
                /\ mem'.rows[j].name = mem.rows[j].name
                /\ mem'.rows[j].tok = mem.rows[j].tok
                /\ mem'.rows[j].hb = mem.rows[j].hb
                /\ mem'.rows[j].enrolled => mem.rows[j].enrolled
                /\ mem'.rows[j].last_heartbeat \in {mem.rows[j].last_heartbeat, clock}
<1>1. PICK i \in DOMAIN mem.rows, row \in Row :
        /\ mem' = [mem EXCEPT !.rows[i] = row]
        /\ row.name = mem.rows[i].name
        /\ row.tok = mem.rows[i].tok
        /\ row.hb = mem.rows[i].hb
        /\ row.enrolled => mem.rows[i].enrolled
        /\ row.last_heartbeat \in {mem.rows[i].last_heartbeat, clock}
  BY DEF Update
<1>2. mem'.rows = [mem.rows EXCEPT ![i] = row] /\ mem'.tokens = mem.tokens
  BY <1>1 DEF TypeOK, Registry
<1> QED
  BY <1>1, <1>2

\* An enrollment appends one row and keeps the others.
LEMMA EnrollRows ==
    ASSUME TypeOK, NEW th \in Threads, EnrollApply(th)
    PROVE  LET r == thread[th]
               n == Len(mem.rows) + 1
           IN  /\ r \in Probed
               /\ r.tok \in mem.tokens
               /\ mem'.tokens = mem.tokens \ {r.tok}
               /\ DOMAIN mem'.rows = 1..n
               /\ \A i \in DOMAIN mem.rows : mem'.rows[i] = mem.rows[i] /\ i # n
               /\ \A i \in DOMAIN mem'.rows : i \in DOMAIN mem.rows \/ i = n
               /\ mem'.rows[n].name = r.name
               /\ mem'.rows[n].tok = r.tok
               /\ mem'.rows[n].hb = minted + 1
               /\ mem'.rows[n].enrolled
               /\ mem'.rows[n].last_heartbeat = 0
               /\ minted' = minted + 1
               /\ UNCHANGED <<up, disk, clock, reissued>>
<1> DEFINE r == thread[th]
<1> DEFINE new == NewRow(r.name, r.tok, minted')
<1>1. r \in Probed
  <2>1. r \in Request /\ r.pc = "probed"
    BY DEF TypeOK, EnrollApply
  <2> QED
    BY <2>1 DEF Request, Applied, Idle
<1>2. mem'.rows = Append(mem.rows, new) /\ mem'.tokens = mem.tokens \ {r.tok}
  BY DEF EnrollApply
<1>3. minted' \in Mints
  BY RegistryAssumption DEF EnrollApply, TypeOK, Mints
<1>4. new \in Row
  BY <1>1, <1>3, NewRowType DEF Probed
<1>5. /\ new.name = r.name /\ new.tok = r.tok /\ new.hb = minted'
      /\ new.enrolled /\ new.last_heartbeat = 0
  BY DEF NewRow
<1> HIDE DEF new
<1> QED
  BY <1>1, <1>2, <1>4, <1>5, Parts DEF EnrollApply, history

\* Heartbeat tokens stay unique, and no recorded time passes the clock.
LEMMA FreshStep ==
    ASSUME TypeOK, RegistryInv, [Next]_vars
    PROVE  Fresh(mem)' /\ Fresh(disk)'
<1> USE Parts DEF Fresh, RegistryInv
<1>1. CASE Startup
  BY <1>1 DEF Startup
<1>2. CASE Crash
  BY <1>2 DEF Crash, Empty, history
<1>3. CASE Quiet
  BY <1>3, TypeStep DEF Quiet, TypeOK, Row, Mints
<1>4. CASE Update
  <2>1. UNCHANGED <<disk, minted, clock>>
    BY <1>4 DEF Update
  <2> QED
    BY <2>1, <1>4, UpdateRows
<1>5. CASE Save
  BY <1>5 DEF Save
<1>6. ASSUME NEW th \in Threads, EnrollApply(th)
      PROVE  Fresh(mem)' /\ Fresh(disk)'
  <2> DEFINE n == Len(mem.rows) + 1
  <2>1. /\ UNCHANGED <<disk, clock>>
        /\ minted' = minted + 1
        /\ \A i \in DOMAIN mem'.rows : i \in DOMAIN mem.rows \/ i = n
        /\ \A i \in DOMAIN mem.rows : mem'.rows[i] = mem.rows[i] /\ i # n
        /\ mem'.rows[n].hb = minted + 1 /\ mem'.rows[n].last_heartbeat = 0
    BY <1>6, EnrollRows
  <2>2. \A i \in DOMAIN mem.rows : mem.rows[i].hb \in Nat
    BY RegistryAssumption DEF Row, Mints
  <2>3. \A i \in DOMAIN disk.rows : disk.rows[i].hb \in Nat
    BY RegistryAssumption DEF Row, Mints
  <2> HIDE DEF n
  <2>4. Fresh(mem)'
    BY <2>1, <2>2
  <2>5. Fresh(disk)'
    BY <2>1, <2>3
  <2> QED
    BY <2>4, <2>5
<1> QED
  BY <1>1, <1>2, <1>3, <1>4, <1>5, <1>6, StepCases

\* No token pays twice without having been reissued.
LEMMA PaidStep ==
    ASSUME TypeOK, RegistryInv, [Next]_vars
    PROVE  Paid(mem)' /\ Paid(disk)'
<1> USE Parts DEF Paid, RegistryInv
<1>1. CASE Startup
  BY <1>1 DEF Startup
<1>2. CASE Crash
  BY <1>2 DEF Crash, Empty, history
<1>3. CASE Quiet
  BY <1>3 DEF Quiet
<1>4. CASE Update
  <2>1. disk' = disk
    BY <1>4 DEF Update
  <2> HIDE DEF RegistryInv
  <2>2. Paid(mem) /\ Paid(disk)
    BY DEF RegistryInv, Paid
  <2>3. DOMAIN mem'.rows = DOMAIN mem.rows /\ mem'.tokens = mem.tokens /\ reissued' = reissued
    BY <1>4, UpdateRows DEF Update
  <2>4. \A j \in DOMAIN mem.rows : mem'.rows[j].tok = mem.rows[j].tok
    BY <1>4, UpdateRows
  <2> QED
    BY <2>1, <2>2, <2>3, <2>4
<1>5. CASE Save
  BY <1>5 DEF Save
<1>6. ASSUME NEW th \in Threads, EnrollApply(th)
      PROVE  Paid(mem)' /\ Paid(disk)'
  <2> DEFINE n == Len(mem.rows) + 1
  <2> DEFINE t == thread[th].tok
  <2>1. /\ UNCHANGED <<disk, reissued>>
        /\ t \in mem.tokens /\ mem'.tokens = mem.tokens \ {t}
        /\ \A i \in DOMAIN mem'.rows : i \in DOMAIN mem.rows \/ i = n
        /\ \A i \in DOMAIN mem.rows : mem'.rows[i] = mem.rows[i] /\ i # n
        /\ mem'.rows[n].tok = t
    BY <1>6, EnrollRows
  <2> HIDE DEF n, t
  <2> QED
    BY <2>1
<1> QED
  BY <1>1, <1>2, <1>3, <1>4, <1>5, <1>6, StepCases

\* Placeholders stay out.
LEMMA ShapeStep ==
    ASSUME TypeOK, RegistryInv, [Next]_vars
    PROVE  ShapeInv'
<1> USE Parts DEF ShapeInv, RegistryInv
<1>1. CASE Startup
  BY <1>1 DEF Startup, LoadTokens
<1>2. CASE Crash
  BY <1>2 DEF Crash, Empty, history
<1>3. CASE Quiet
  BY <1>3 DEF Quiet
<1>4. CASE Update
  BY <1>4, UpdateRows DEF Update
<1>5. CASE Save
  BY <1>5 DEF Save
<1>6. ASSUME NEW th \in Threads, EnrollApply(th)
      PROVE  ShapeInv'
  <2>1. up
    BY <1>6 DEF EnrollApply, LockInv
  <2> QED
    BY <1>6, <2>1, EnrollRows
<1> QED
  BY <1>1, <1>2, <1>3, <1>4, <1>5, <1>6, StepCases

\* Memory stays ahead of the volume.
LEMMA AheadStep ==
    ASSUME TypeOK, RegistryInv, [Next]_vars
    PROVE  AheadInv'
<1> USE Parts DEF AheadInv, RegistryInv, RowsOnlyAge, Pending
<1>1. CASE Startup
  BY <1>1 DEF Startup, Row
<1>2. CASE Crash
  BY <1>2 DEF Crash
<1>3. CASE Quiet
  BY <1>3 DEF Quiet
<1>4. CASE Update
  <2>1. UNCHANGED <<up, disk>> /\ up
    BY <1>4 DEF Update
  <2>2. \A j \in DOMAIN mem.rows :
          /\ mem.rows[j].last_heartbeat \in Nat
          /\ mem.rows[j].last_heartbeat <= clock
    BY DEF Fresh, Row
  <2>3. \A j \in DOMAIN disk.rows : disk.rows[j].last_heartbeat \in Nat
    BY DEF Row
  <2>4. \A j \in DOMAIN mem.rows :
          /\ mem'.rows[j].last_heartbeat >= mem.rows[j].last_heartbeat
          /\ mem'.rows[j].last_heartbeat \in Nat
    BY <1>4, <2>2, UpdateRows
  <2>5. \A j \in DOMAIN disk.rows :
          /\ j \in DOMAIN mem.rows
          /\ mem'.rows[j].last_heartbeat >= disk.rows[j].last_heartbeat
    <3> SUFFICES ASSUME NEW j \in DOMAIN disk.rows
                 PROVE  /\ j \in DOMAIN mem.rows
                        /\ mem'.rows[j].last_heartbeat >= disk.rows[j].last_heartbeat
      OBVIOUS
    <3>1. /\ j \in DOMAIN mem.rows
          /\ mem.rows[j].last_heartbeat >= disk.rows[j].last_heartbeat
      BY ONLY <2>1, AheadInv DEF AheadInv, RowsOnlyAge
    <3>2. /\ disk.rows[j].last_heartbeat \in Nat
          /\ mem.rows[j].last_heartbeat \in Nat
      BY ONLY <2>2, <2>3, <3>1
    <3>3. /\ mem'.rows[j].last_heartbeat >= mem.rows[j].last_heartbeat
          /\ mem'.rows[j].last_heartbeat \in Nat
      BY ONLY <2>4, <3>1
    <3> QED
      BY ONLY <3>1, <3>2, <3>3
  <2>6. RowsOnlyAge(disk.rows, mem.rows)'
    BY ONLY <1>4, <2>1, <2>5, TypeOK, UpdateRows, AheadInv DEF AheadInv, RowsOnlyAge
  <2>7. /\ Pending' = Pending /\ mem'.tokens = mem.tokens
        /\ \A j \in Pending : mem'.rows[j].tok = mem.rows[j].tok
    BY <1>4, <2>1, UpdateRows
  <2> HIDE DEF Pending
  <2>8. {mem'.rows[i].tok : i \in Pending'} = {mem.rows[i].tok : i \in Pending}
    BY <2>7
  <2> QED
    BY <2>1, <2>6, <2>7, <2>8
<1>5. CASE Save
  BY <1>5 DEF Save, Row
<1>6. ASSUME NEW th \in Threads, EnrollApply(th)
      PROVE  AheadInv'
  <2> DEFINE n == Len(mem.rows) + 1
  <2> DEFINE t == thread[th].tok
  <2>1. /\ UNCHANGED <<up, disk>>
        /\ t \in mem.tokens /\ mem'.tokens = mem.tokens \ {t}
        /\ DOMAIN mem'.rows = DOMAIN mem.rows \cup {n} /\ n \notin DOMAIN mem.rows
        /\ \A i \in DOMAIN mem.rows : mem'.rows[i] = mem.rows[i]
        /\ mem'.rows[n].tok = t
    BY <1>6, EnrollRows
  <2>2. up /\ DOMAIN disk.rows \subseteq DOMAIN mem.rows
    BY <1>6 DEF EnrollApply, LockInv
  <2> HIDE DEF n, t
  <2>3. Pending' = Pending \cup {n} /\ \A i \in Pending : mem'.rows[i] = mem.rows[i]
    BY <2>1, <2>2
  <2>4. RowsOnlyAge(disk.rows, mem.rows)' /\ (mem.tokens \subseteq disk.tokens)'
    BY <2>1, <2>2
  <2>5. t \notin {mem.rows[i].tok : i \in Pending}
    BY <2>1, <2>2
  <2>6. {mem'.rows[i].tok : i \in Pending'} = {mem.rows[i].tok : i \in Pending} \cup {t}
    <3> HIDE DEF Pending
    <3> QED
      BY <2>1, <2>3
  <2>7. ({mem.rows[i].tok : i \in Pending} = disk.tokens \ mem.tokens)'
    BY <2>1, <2>2, <2>6
  <2>8. (\A i, j \in Pending : mem.rows[i].tok = mem.rows[j].tok => i = j)'
    <3>1. \A i, j \in Pending : mem.rows[i].tok = mem.rows[j].tok => i = j
      BY <2>2
    <3> HIDE DEF Pending
    <3> QED
      BY <2>1, <2>3, <2>5, <3>1
  <2> QED
    BY <2>4, <2>7, <2>8
<1> QED
  BY <1>1, <1>2, <1>3, <1>4, <1>5, <1>6, StepCases

\* The lock is held by the one thread inside with_registry, and the temporary
\* file is a copy of memory.
LEMMA LockStep ==
    ASSUME TypeOK, RegistryInv, [Next]_vars
    PROVE  LockInv'
<1> USE RegistryAssumption DEF LockInv, RegistryInv, InLock
<1>0. Idle.pc = "idle"
  BY DEF Idle
<1>1. CASE Startup
  BY <1>1 DEF Startup
<1>2. CASE Crash
  BY <1>0, <1>2 DEF Crash
<1>3. CASE EditEnv \/ Tick \/ UNCHANGED vars
  BY <1>3 DEF EditEnv, Tick, vars, state
<1>4. ASSUME NEW th \in Threads, NEW n \in Names, NEW t \in Tokens, EnrollProbe(th, n, t)
      PROVE  LockInv'
  BY <1>4 DEF EnrollProbe, TypeOK, Idle
<1>5. ASSUME NEW th \in Threads, EnrollRefused(th)
      PROVE  LockInv'
  BY <1>0, <1>5 DEF EnrollRefused, TypeOK
<1>6. ASSUME NEW th \in Threads, EnrollApply(th)
      PROVE  LockInv'
  <2>1. thread'[th].pc = "dirty"
    BY <1>6 DEF EnrollApply, TypeOK
  <2> QED
    BY <1>6, <2>1 DEF EnrollApply, TypeOK
<1>7. ASSUME NEW th \in Threads, NEW c \in creds, NEW report \in Report,
             HeartbeatApply(th, c.name, c.hb, report) \/ RevokeApply(th, c.name, c.hb)
      PROVE  LockInv'
  <2>1. PICK r : r.pc = "dirty" /\ thread' = [thread EXCEPT ![th] = r]
    <3>1. CASE HeartbeatApply(th, c.name, c.hb, report)
      <4> DEFINE r == [Idle EXCEPT !.op = "heartbeat", !.pc = "dirty", !.name = c.name,
                                   !.hb = c.hb, !.at = clock]
      <4>1. r.pc = "dirty" /\ thread' = [thread EXCEPT ![th] = r]
        BY <3>1 DEF HeartbeatApply, Idle
      <4> QED
        BY <4>1
    <3>2. CASE RevokeApply(th, c.name, c.hb)
      <4> DEFINE r == [Idle EXCEPT !.op = "revoke", !.pc = "dirty", !.name = c.name,
                                   !.hb = c.hb]
      <4>1. r.pc = "dirty" /\ thread' = [thread EXCEPT ![th] = r]
        BY <3>2 DEF RevokeApply, Idle
      <4> QED
        BY <4>1
    <3> QED
      BY <1>7, <3>1, <3>2
  <2>2. up' /\ up /\ lock = Null /\ lock' = th
    BY <1>7 DEF HeartbeatApply, RevokeApply
  <2> QED
    BY <2>1, <2>2 DEF TypeOK
<1>8. ASSUME NEW th \in Threads, SaveWrite(th)
      PROVE  LockInv'
  <2>1. thread'[th].pc = "written" /\ \A o \in Threads \ {th} : thread'[o] = thread[o]
    BY <1>8 DEF SaveWrite, TypeOK
  <2> QED
    BY <1>8, <2>1 DEF SaveWrite
<1>9. ASSUME NEW th \in Threads, SaveReplace(th)
      PROVE  LockInv'
  <2>1. thread'[th].pc = "saved" /\ \A o \in Threads \ {th} : thread'[o] = thread[o]
    BY <1>9 DEF SaveReplace, TypeOK
  <2> QED
    BY <1>9, <2>1 DEF SaveReplace
<1>10. ASSUME NEW th \in Threads, SaveFail(th)
       PROVE  LockInv'
  BY <1>0, <1>10 DEF SaveFail, TypeOK
<1>11. ASSUME NEW th \in Threads, Reply(th) \/ ReplyLost(th)
       PROVE  LockInv'
  BY <1>0, <1>11 DEF Reply, ReplyLost, TypeOK
<1> HIDE DEF LockInv, RegistryInv, InLock
<1>12. ASSUME NEW th \in Threads, Arrive(th)
       PROVE  LockInv'
  <2>1. CASE \E n \in Names, t \in Tokens : EnrollProbe(th, n, t)
    BY <1>4, <2>1
  <2>2. CASE \E c \in creds, report \in Report : HeartbeatApply(th, c.name, c.hb, report)
    BY <1>7, <2>2
  <2>3. CASE \E c \in creds : RevokeApply(th, c.name, c.hb)
    <3>1. PICK c \in creds : RevokeApply(th, c.name, c.hb)
      BY <2>3
    <3>2. [f \in Fields |-> Unreported] \in Report
      BY DEF Report
    <3> QED
      BY <1>7, <3>1, <3>2
  <2> QED
    BY <1>12, <2>1, <2>2, <2>3 DEF Arrive
<1>13. ASSUME NEW th \in Threads, Acquire(th) \/ Finish(th)
       PROVE  LockInv'
  BY <1>5, <1>6, <1>8, <1>9, <1>10, <1>11, <1>13 DEF Acquire, Finish
<1> QED
  BY <1>1, <1>2, <1>3, <1>12, <1>13 DEF Next

-----------------------------------------------------------------------------
(* Rows only age *)

\* Recorded times are numbers.
LEMMA RegistryTimes ==
    ASSUME NEW reg \in Registry
    PROVE  \A i \in DOMAIN reg.rows : reg.rows[i].last_heartbeat \in Nat
<1>1. ASSUME NEW i \in DOMAIN reg.rows PROVE reg.rows[i].last_heartbeat \in Nat
  <2>1. reg.rows \in Seq(Row)
    BY DEF Registry
  <2>2. reg.rows[i] \in Row
    BY <2>1
  <2> QED
    BY <2>2, RegistryAssumption DEF Row
<1> QED
  BY <1>1

\* What an older registry says of a credential, a later one still says.
LEMMA AgesKeep ==
    ASSUME NEW a, NEW b, RowsOnlyAge(a.rows, b.rows),
           \A i \in DOMAIN a.rows : a.rows[i].last_heartbeat \in Nat,
           \A i \in DOMAIN b.rows : b.rows[i].last_heartbeat \in Nat
    PROVE  /\ \A c : Holds(a, c) => Holds(b, c)
           /\ \A hb, at \in Nat : HeardAt(a, hb, at) => HeardAt(b, hb, at)
<1>1. \A c : Holds(a, c) => Holds(b, c)
  BY DEF RowsOnlyAge, Holds
<1>2. ASSUME NEW hb \in Nat, NEW at \in Nat, HeardAt(a, hb, at)
      PROVE  HeardAt(b, hb, at)
  <2>1. PICK i \in DOMAIN a.rows : a.rows[i].hb = hb /\ a.rows[i].last_heartbeat >= at
    BY <1>2 DEF HeardAt
  <2>2. i \in DOMAIN b.rows /\ b.rows[i].hb = hb /\ b.rows[i].last_heartbeat >= at
    BY <2>1 DEF RowsOnlyAge
  <2> QED
    BY <2>2 DEF HeardAt
<1> QED
  BY <1>1, <1>2

\* While the process lives, memory only ages and revocations stay.
LEMMA MemAges ==
    ASSUME TypeOK, RegistryInv,
           Quiet \/ Update \/ Save \/ \E th \in Threads : EnrollApply(th)
    PROVE  /\ RowsOnlyAge(mem.rows, mem'.rows)
           /\ \A hb \in 0..MaxMint : hb <= minted /\ Unenrolled(mem, hb) => Unenrolled(mem', hb)
<1> USE Parts DEF RowsOnlyAge, Unenrolled
<1>0. \A i \in DOMAIN mem.rows :
        mem.rows[i].last_heartbeat \in Nat /\ mem.rows[i].last_heartbeat <= clock
  BY DEF RegistryInv, Fresh, Row
<1>1. CASE Quiet \/ Save
  BY <1>0, <1>1 DEF Quiet, Save
<1>2. CASE Update
  <2>1. RowsOnlyAge(mem.rows, mem'.rows)
    BY <1>0, <1>2, UpdateRows
  <2>2. \A hb \in 0..MaxMint : Unenrolled(mem, hb) => Unenrolled(mem', hb)
    BY <1>2, UpdateRows
  <2> QED
    BY <2>1, <2>2
<1>3. ASSUME NEW th \in Threads, EnrollApply(th)
      PROVE  /\ RowsOnlyAge(mem.rows, mem'.rows)
             /\ \A hb \in 0..MaxMint : hb <= minted /\ Unenrolled(mem, hb) => Unenrolled(mem', hb)
  <2> DEFINE n == Len(mem.rows) + 1
  <2>1. /\ \A i \in DOMAIN mem'.rows : i \in DOMAIN mem.rows \/ i = n
        /\ \A i \in DOMAIN mem.rows : mem'.rows[i] = mem.rows[i] /\ i \in DOMAIN mem'.rows
        /\ mem'.rows[n].hb = minted + 1
    BY <1>3, EnrollRows
  <2> HIDE DEF n
  <2> QED
    BY <1>0, <2>1
<1> QED
  BY <1>1, <1>2, <1>3

\* The volume only ages, across crashes and restarts too.
LEMMA DiskAges ==
    ASSUME TypeOK, RegistryInv, [Next]_vars
    PROVE  /\ RowsOnlyAge(disk.rows, disk'.rows)
           /\ \A hb : Unenrolled(disk, hb) /\ (up => Unenrolled(mem, hb)) => Unenrolled(disk', hb)
<1> USE Parts DEF Unenrolled
<1>0. RowsOnlyAge(disk.rows, disk.rows)
  BY DEF RowsOnlyAge, Row
<1>1. CASE Startup
  BY <1>0, <1>1 DEF Startup
<1>2. CASE UNCHANGED disk
  BY <1>0, <1>2
<1>3. CASE Save
  BY <1>3 DEF Save, RegistryInv, AheadInv
<1>4. Crash \/ Quiet \/ Update \/ (\E th \in Threads : EnrollApply(th)) => UNCHANGED disk
  BY DEF Crash, Quiet, Update, EnrollApply
<1> QED
  BY <1>1, <1>2, <1>3, <1>4, StepCases

-----------------------------------------------------------------------------
(* Promises *)

\* A request whose promise memory honours stays honoured while the process
\* lives; what the volume honours it honours for ever.
LEMMA HonoursKept ==
    ASSUME TypeOK, RegistryInv, [Next]_vars, NEW r \in Request, r.hb <= minted,
           Honours(mem, r), Quiet \/ Update \/ Save \/ \E th \in Threads : EnrollApply(th)
    PROVE  Honours(mem', r) /\ (Honours(disk, r) => Honours(disk', r))
<1>1. r.hb \in 0..MaxMint /\ r.at \in Nat /\ r.hb \in Nat
  BY RegistryAssumption DEF Request, Idle, Probed, Applied, Mints
<1>2. /\ \A i \in DOMAIN mem.rows : mem.rows[i].last_heartbeat \in Nat
      /\ \A i \in DOMAIN mem'.rows : mem'.rows[i].last_heartbeat \in Nat
      /\ \A i \in DOMAIN disk.rows : disk.rows[i].last_heartbeat \in Nat
      /\ \A i \in DOMAIN disk'.rows : disk'.rows[i].last_heartbeat \in Nat
  <2>2. mem \in Registry /\ mem' \in Registry /\ disk \in Registry /\ disk' \in Registry
    BY TypeStep DEF TypeOK
  <2> QED
    BY <2>2, RegistryTimes
<1>3. RowsOnlyAge(mem.rows, mem'.rows) /\ RowsOnlyAge(disk.rows, disk'.rows)
  BY MemAges, DiskAges
<1>4. /\ Holds(mem, CredOf(r)) => Holds(mem', CredOf(r))
      /\ Holds(disk, CredOf(r)) => Holds(disk', CredOf(r))
      /\ HeardAt(mem, r.hb, r.at) => HeardAt(mem', r.hb, r.at)
      /\ HeardAt(disk, r.hb, r.at) => HeardAt(disk', r.hb, r.at)
  BY <1>1, <1>2, <1>3, AgesKeep
<1>5. /\ Unenrolled(mem, r.hb) => Unenrolled(mem', r.hb)
      /\ Unenrolled(mem, r.hb) /\ Unenrolled(disk, r.hb) => Unenrolled(disk', r.hb)
  BY <1>1, MemAges, DiskAges
<1> QED
  BY <1>4, <1>5 DEF Honours

\* What Honours says of a request does not depend on how far it is.
LEMMA HonoursAdvance ==
    ASSUME NEW reg, NEW r \in Request, NEW pc
    PROVE  /\ Honours(reg, [r EXCEPT !.pc = pc]) <=> Honours(reg, r)
           /\ [r EXCEPT !.pc = pc].hb = r.hb
<1>1. LET s == [r EXCEPT !.pc = pc] IN
        s.op = r.op /\ s.hb = r.hb /\ s.at = r.at /\ s.name = r.name /\ s.tok = r.tok
  BY DEF Request, Idle, Probed, Applied
<1> QED
  BY <1>1 DEF Honours, CredOf

\* The part of PromiseInv about requests in flight...
InFlight ==
    \A th \in Threads :
        /\ thread[th].hb <= minted
        /\ thread[th].pc \in {"dirty", "written", "saved"} => Honours(mem, thread[th])
        /\ thread[th].pc = "saved" => Honours(disk, thread[th])

\* ... and about replies that arrived.
Arrived ==
    /\ \A c \in creds : Holds(disk, c)
    /\ \A hb \in revokedAck :
        hb <= minted /\ Unenrolled(disk, hb) /\ (up => Unenrolled(mem, hb))
    /\ \A hb \in Mints : beatAck[hb] > 0 => HeardAt(disk, hb, beatAck[hb])

\* Replies that arrived stay honoured when no reply is being sent.
LEMMA ArrivedKept ==
    ASSUME TypeOK, RegistryInv, [Next]_vars, UNCHANGED <<creds, revokedAck, beatAck>>
    PROVE  Arrived'
<1>1. minted' >= minted
  <2>1. Startup \/ Crash \/ Quiet \/ Update \/ Save => minted' = minted
    BY DEF Startup, Crash, Quiet, Update, Save
  <2>2. (\E th \in Threads : EnrollApply(th)) => minted' = minted + 1
    BY DEF EnrollApply
  <2> QED
    BY <2>1, <2>2, StepCases, Parts
<1>2. RowsOnlyAge(disk.rows, disk'.rows)
  BY DiskAges
<1>3. /\ \A i \in DOMAIN disk.rows : disk.rows[i].last_heartbeat \in Nat
      /\ \A i \in DOMAIN disk'.rows : disk'.rows[i].last_heartbeat \in Nat
  <2>1. disk \in Registry /\ disk' \in Registry
    BY TypeStep DEF TypeOK
  <2> QED
    BY <2>1, RegistryTimes
<1>4. \A c \in creds : Holds(disk', c)
  BY <1>2, <1>3, AgesKeep DEF RegistryInv, PromiseInv
<1>5. ASSUME NEW hb \in revokedAck
      PROVE  hb <= minted' /\ Unenrolled(disk', hb) /\ (up' => Unenrolled(mem', hb))
  <2>1. hb \in 0..MaxMint /\ hb <= minted /\ Unenrolled(disk, hb) /\ (up => Unenrolled(mem, hb))
    BY DEF RegistryInv, PromiseInv, TypeOK, Mints
  <2>2. hb <= minted'
    BY <1>1, <2>1, TypeStep DEF TypeOK
  <2>3. Unenrolled(disk', hb)
    BY <2>1, DiskAges
  <2>4. CASE Startup
    <3>1. Unenrolled(mem', hb)
      BY <2>1, <2>4 DEF Startup, Unenrolled, TypeOK, Registry
    <3> QED
      BY <2>2, <2>3, <3>1
  <2>5. CASE Crash
    BY <2>2, <2>3, <2>5 DEF Crash
  <2>6. CASE Quiet \/ Update \/ Save \/ \E th \in Threads : EnrollApply(th)
    <3>1. up' = up
      BY <2>6 DEF Quiet, Update, Save, EnrollApply
    <3> QED
      BY <2>1, <2>2, <2>3, <2>6, <3>1, MemAges
  <2> QED
    BY <2>4, <2>5, <2>6, StepCases
<1>6. ASSUME NEW hb \in Mints, beatAck[hb] > 0
      PROVE  HeardAt(disk', hb, beatAck[hb])
  <2>1. hb \in Nat /\ beatAck[hb] \in Nat
    BY RegistryAssumption DEF TypeOK, Mints
  <2>2. HeardAt(disk, hb, beatAck[hb])
    BY <1>6 DEF RegistryInv, PromiseInv
  <2> QED
    BY <1>2, <1>3, <2>1, <2>2, AgesKeep
<1> QED
  BY <1>4, <1>5, <1>6 DEF Arrived

\* An idle thread has promised nothing.
LEMMA IdleHonours ==
    ASSUME NEW reg
    PROVE  Honours(reg, Idle) /\ Idle.pc = "idle" /\ Idle.hb = 0
BY DEF Honours, Idle

\* Requests in flight keep their promises when the threads do not move and
\* when one of them starts, ends or advances without touching memory.
LEMMA InFlightMoves ==
    ASSUME TypeOK, RegistryInv, [Next]_vars, NEW r, NEW th \in Threads,
           Quiet \/ Update \/ Save \/ \E o \in Threads : EnrollApply(o),
           thread' = [thread EXCEPT ![th] = r],
           r.hb <= minted',
           r.pc \in {"dirty", "written", "saved"} => Honours(mem', r),
           r.pc = "saved" => Honours(disk', r)
    PROVE  InFlight'
<1>1. minted' >= minted /\ minted \in Nat /\ minted' \in Nat
  <2>1. minted' = minted \/ minted' = minted + 1
    BY DEF Quiet, Update, Save, EnrollApply
  <2> QED
    BY <2>1, Parts
<1>2. ASSUME NEW o \in Threads, o # th
      PROVE  /\ thread'[o].hb <= minted'
             /\ thread'[o].pc \in {"dirty", "written", "saved"} => Honours(mem', thread'[o])
             /\ thread'[o].pc = "saved" => Honours(disk', thread'[o])
  <2> DEFINE q == thread[o]
  <2>1. thread'[o] = q /\ q \in Request
    BY <1>2 DEF TypeOK
  <2>2. q.hb \in Nat
    BY <2>1, RegistryAssumption DEF Request, Idle, Probed, Applied, Mints
  <2>3. /\ q.hb <= minted
        /\ q.pc \in {"dirty", "written", "saved"} => Honours(mem, q)
        /\ q.pc = "saved" => Honours(disk, q)
    BY DEF RegistryInv, PromiseInv
  <2> HIDE DEF q
  <2>4. q.hb <= minted'
    BY <1>1, <2>2, <2>3
  <2>5. Honours(mem, q) => Honours(mem', q) /\ (Honours(disk, q) => Honours(disk', q))
    BY <2>1, <2>3, HonoursKept
  <2> QED
    BY <2>1, <2>3, <2>4, <2>5
<1>3. thread'[th] = r
  BY DEF TypeOK
<1> QED
  BY <1>2, <1>3 DEF InFlight

\* Every step keeps the promises of the requests in flight.
LEMMA InFlightStep ==
    ASSUME TypeOK, RegistryInv, [Next]_vars
    PROVE  InFlight'
<1> USE RegistryAssumption
<1>0. \A th \in Threads : thread[th] \in Request
  BY DEF TypeOK
<1>01. minted \in Nat /\ minted' \in Nat
  BY TypeStep DEF TypeOK
<1>1. CASE Startup
  <2>1. \A th \in Threads : thread'[th].pc = "idle" /\ thread'[th].hb <= minted'
    BY <1>1 DEF Startup, RegistryInv, LockInv, PromiseInv
  <2> QED
    BY <2>1 DEF InFlight
<1>2. CASE Crash
  BY <1>01, <1>2, IdleHonours DEF Crash, InFlight
<1>3. CASE EditEnv \/ Tick \/ UNCHANGED vars
  BY <1>3 DEF EditEnv, Tick, vars, state, InFlight, RegistryInv, PromiseInv
<1>4. ASSUME NEW th \in Threads, NEW n \in Names, NEW t \in Tokens, EnrollProbe(th, n, t)
      PROVE  InFlight'
  <2> DEFINE r == [Idle EXCEPT !.op = "enroll", !.pc = "probed", !.name = n, !.tok = t]
  <2>1. r.pc = "probed" /\ r.hb = 0
    BY DEF Idle
  <2>2. thread' = [thread EXCEPT ![th] = r] /\ Quiet
    BY <1>4 DEF EnrollProbe, Quiet, history, TypeOK
  <2> HIDE DEF r
  <2>3. r.hb <= minted' /\ r.pc \notin {"dirty", "written", "saved"}
    BY <1>01, <2>1
  <2> QED
    BY <2>2, <2>3, InFlightMoves
<1>5. ASSUME NEW th \in Threads,
             EnrollRefused(th) \/ SaveFail(th) \/ Reply(th) \/ ReplyLost(th)
      PROVE  InFlight'
  <2>1. thread' = [thread EXCEPT ![th] = Idle] /\ Quiet
    BY <1>5 DEF EnrollRefused, SaveFail, Reply, ReplyLost, Quiet, history, TypeOK
  <2>2. Idle.hb <= minted' /\ Idle.pc \notin {"dirty", "written", "saved"}
    BY <1>01, IdleHonours
  <2> QED
    BY <2>1, <2>2, InFlightMoves
<1>6. ASSUME NEW th \in Threads, EnrollApply(th)
      PROVE  InFlight'
  <2> DEFINE q == thread[th]
  <2> DEFINE r == [q EXCEPT !.pc = "dirty", !.hb = minted']
  <2> DEFINE n == Len(mem.rows) + 1
  <2>1. /\ q \in Probed
        /\ mem'.rows[n].name = q.name /\ mem'.rows[n].tok = q.tok
        /\ mem'.rows[n].hb = minted' /\ n \in DOMAIN mem'.rows
    BY <1>6, EnrollRows, Parts
  <2>2. r.op = "enroll" /\ r.pc = "dirty" /\ r.hb = minted' /\ r.name = q.name /\ r.tok = q.tok
    BY <2>1 DEF Probed
  <2>3. thread' = [thread EXCEPT ![th] = r]
    BY <1>6 DEF EnrollApply
  <2> HIDE DEF q, r, n
  <2>4. Honours(mem', r)
    BY <2>1, <2>2 DEF Honours, Holds, CredOf
  <2>5. r.hb <= minted' /\ r.pc # "saved"
    BY <1>01, <2>2
  <2> QED
    BY <1>6, <2>3, <2>4, <2>5, InFlightMoves
<1>7. ASSUME NEW th \in Threads, NEW c \in creds, NEW report \in Report,
             HeartbeatApply(th, c.name, c.hb, report)
      PROVE  InFlight'
  <2> DEFINE r == [Idle EXCEPT !.op = "heartbeat", !.pc = "dirty", !.name = c.name,
                               !.hb = c.hb, !.at = clock]
  <2>1. r.op = "heartbeat" /\ r.pc = "dirty" /\ r.hb = c.hb /\ r.at = clock
    BY DEF Idle
  <2>2. thread' = [thread EXCEPT ![th] = r] /\ minted' = minted
    BY <1>7 DEF HeartbeatApply
  <2> HIDE DEF r
  <2>3. PICK i \in DOMAIN mem.rows :
          /\ mem.rows[i].hb = c.hb
          /\ mem' = [mem EXCEPT !.rows[i] = Beaten(@, clock, report)]
    BY <1>7 DEF HeartbeatApply, Verifies
  <2>4. mem.rows[i] \in Row /\ clock \in 0..MaxClock /\ mem.rows \in Seq(Row)
    BY <2>3, Parts DEF TypeOK
  <2>5. /\ i \in DOMAIN mem'.rows
        /\ mem'.rows[i] = Beaten(mem.rows[i], clock, report)
    BY <2>3, <2>4 DEF TypeOK, Registry
  <2>6. mem'.rows[i].hb = c.hb /\ mem'.rows[i].last_heartbeat = clock
    BY <2>3, <2>4, <2>5, BeatenType
  <2>7. c.hb <= minted
    BY <2>3 DEF RegistryInv, Fresh
  <2>8. HeardAt(mem', c.hb, clock)
    BY <2>4, <2>5, <2>6 DEF HeardAt
  <2>9. Honours(mem', r)
    BY <2>1, <2>8 DEF Honours
  <2>10. Quiet \/ Update \/ Save \/ \E o \in Threads : EnrollApply(o)
    <3>1. up /\ up' /\ thread[th].pc = "idle" /\ lock = Null /\ lock' = th
      BY <1>7 DEF HeartbeatApply
    <3>2. ~Startup /\ ~Crash
      BY <3>1 DEF Startup, Crash
    <3> QED
      BY <3>2, StepCases
  <2> QED
    BY <2>1, <2>2, <2>7, <2>9, <2>10, InFlightMoves
<1>8. ASSUME NEW th \in Threads, NEW c \in creds, RevokeApply(th, c.name, c.hb)
      PROVE  InFlight'
  <2> DEFINE r == [Idle EXCEPT !.op = "revoke", !.pc = "dirty", !.name = c.name, !.hb = c.hb]
  <2>1. r.op = "revoke" /\ r.pc = "dirty" /\ r.hb = c.hb
    BY DEF Idle
  <2>2. thread' = [thread EXCEPT ![th] = r] /\ minted' = minted
    BY <1>8 DEF RevokeApply
  <2> HIDE DEF r
  <2>3. PICK i \in DOMAIN mem.rows :
          /\ mem.rows[i].hb = c.hb
          /\ mem' = [mem EXCEPT !.rows[i].enrolled = FALSE]
    BY <1>8 DEF RevokeApply, Verifies
  <2>4. mem.rows[i] \in Row /\ mem.rows \in Seq(Row)
    BY <2>3, Parts
  <2>5. /\ DOMAIN mem'.rows = DOMAIN mem.rows
        /\ \A j \in DOMAIN mem.rows : j # i => mem'.rows[j] = mem.rows[j]
        /\ ~mem'.rows[i].enrolled
    BY <2>3, <2>4 DEF TypeOK, Registry, Row
  <2>6. \A j \in DOMAIN mem.rows : mem.rows[j].hb = c.hb => j = i
    BY <2>3 DEF RegistryInv, Fresh
  <2>7. c.hb <= minted
    BY <2>3 DEF RegistryInv, Fresh
  <2>8. Unenrolled(mem', c.hb)
    BY <2>5, <2>6 DEF Unenrolled
  <2>9. Honours(mem', r)
    BY <2>1, <2>8 DEF Honours
  <2>10. Quiet \/ Update \/ Save \/ \E o \in Threads : EnrollApply(o)
    <3>1. up /\ up' /\ thread[th].pc = "idle" /\ lock = Null /\ lock' = th
      BY <1>8 DEF RevokeApply
    <3>2. ~Startup /\ ~Crash
      BY <3>1 DEF Startup, Crash
    <3> QED
      BY <3>2, StepCases
  <2> QED
    BY <2>1, <2>2, <2>7, <2>9, <2>10, InFlightMoves
<1>9. ASSUME NEW th \in Threads, SaveWrite(th)
      PROVE  InFlight'
  <2> DEFINE q == thread[th]
  <2>1. q.hb <= minted /\ Honours(mem, q)
    BY <1>9 DEF SaveWrite, RegistryInv, PromiseInv
  <2>2. thread' = [thread EXCEPT ![th] = [q EXCEPT !.pc = "written"]] /\ Quiet /\ mem' = mem
    BY <1>9 DEF SaveWrite, Quiet, history, TypeOK
  <2>3. Honours(mem', [q EXCEPT !.pc = "written"]) /\ [q EXCEPT !.pc = "written"].hb = q.hb
    BY <1>0, <2>1, <2>2, HonoursAdvance
  <2>4. [q EXCEPT !.pc = "written"].pc = "written"
    BY <1>0 DEF Request, Idle, Probed, Applied
  <2>5. minted' = minted
    BY <2>2 DEF Quiet
  <2> QED
    BY <2>1, <2>2, <2>3, <2>4, <2>5, InFlightMoves
<1>10. ASSUME NEW th \in Threads, SaveReplace(th)
       PROVE  InFlight'
  <2> DEFINE q == thread[th]
  <2>1. q.hb <= minted /\ Honours(mem, q)
    BY <1>10 DEF SaveReplace, RegistryInv, PromiseInv
  <2>2. thread' = [thread EXCEPT ![th] = [q EXCEPT !.pc = "saved"]]
        /\ Save /\ disk' = mem /\ mem' = mem /\ minted' = minted
    BY <1>10 DEF SaveReplace, Save, history, RegistryInv, LockInv
  <2>3. /\ Honours(mem, [q EXCEPT !.pc = "saved"])
        /\ [q EXCEPT !.pc = "saved"].hb = q.hb
    BY <1>0, <2>1, HonoursAdvance
  <2> QED
    BY <2>1, <2>2, <2>3, InFlightMoves
<1> QED
  <2>1. ASSUME NEW th \in Threads, Arrive(th)
        PROVE  InFlight'
    BY <1>4, <1>7, <1>8, <2>1 DEF Arrive
  <2>2. ASSUME NEW th \in Threads, Acquire(th) \/ Finish(th)
        PROVE  InFlight'
    BY <1>5, <1>6, <1>9, <1>10, <2>2 DEF Acquire, Finish
  <2> QED
    BY <1>1, <1>2, <1>3, <2>1, <2>2 DEF Next

\* Every step keeps the promises of the replies that arrived: a reply only
\* repeats what the volume and memory already honour.
LEMMA ArrivedStep ==
    ASSUME TypeOK, RegistryInv, [Next]_vars
    PROVE  Arrived'
<1>1. CASE UNCHANGED <<creds, revokedAck, beatAck>>
  BY <1>1, ArrivedKept
<1>2. ASSUME NEW th \in Threads, Reply(th)
      PROVE  Arrived'
  <2> DEFINE r == thread[th]
  <2>1. /\ r \in Applied
        /\ Honours(disk, r) /\ Honours(mem, r) /\ r.hb <= minted
        /\ UNCHANGED <<up, mem, disk, minted>>
    BY <1>2 DEF Reply, TypeOK, Request, Probed, Idle, RegistryInv, PromiseInv
  <2>2. r.hb \in Mints /\ r.hb \in Nat
    BY <2>1, RegistryAssumption DEF Applied, Mints
  <2>3. ASSUME NEW c \in creds'
        PROVE  Holds(disk, c)
    <3>1. CASE c \in creds
      BY <3>1 DEF RegistryInv, PromiseInv
    <3>2. CASE c \notin creds
      BY <1>2, <2>1, <3>2 DEF Reply, Honours, CredOf
    <3> QED
      BY <3>1, <3>2
  <2>4. ASSUME NEW hb \in revokedAck'
        PROVE  hb <= minted /\ Unenrolled(disk, hb) /\ Unenrolled(mem, hb)
    <3>1. CASE hb \in revokedAck
      <4>1. up
        BY <1>2 DEF Reply, RegistryInv, LockInv
      <4> QED
        BY <3>1, <4>1 DEF RegistryInv, PromiseInv
    <3>2. CASE hb \notin revokedAck
      BY <1>2, <2>1, <3>2 DEF Reply, Honours
    <3> QED
      BY <3>1, <3>2
  <2>5. ASSUME NEW hb \in Mints, beatAck'[hb] > 0
        PROVE  HeardAt(disk, hb, beatAck'[hb])
    <3>1. CASE beatAck'[hb] = beatAck[hb]
      BY <2>5, <3>1 DEF RegistryInv, PromiseInv
    <3>2. CASE beatAck'[hb] # beatAck[hb]
      <4>1. r.op = "heartbeat" /\ hb = r.hb /\ beatAck'[hb] = r.at
        BY <1>2, <2>2, <3>2 DEF Reply, TypeOK
      <4> QED
        BY <2>1, <4>1 DEF Honours
    <3> QED
      BY <3>1, <3>2
  <2> QED
    BY <2>1, <2>3, <2>4, <2>5 DEF Arrived
<1>3. ASSUME NEW th \in Threads, Arrive(th) \/ Acquire(th) \/ Finish(th), ~Reply(th)
      PROVE  UNCHANGED <<creds, revokedAck, beatAck>>
  BY <1>3 DEF Arrive, Acquire, Finish, EnrollProbe, EnrollRefused, EnrollApply,
       HeartbeatApply, RevokeApply, SaveWrite, SaveReplace, SaveFail, ReplyLost, history
<1>4. CASE Startup \/ Crash \/ EditEnv \/ Tick \/ UNCHANGED vars
  BY <1>1, <1>4 DEF Startup, Crash, EditEnv, Tick, vars, history
<1> QED
  BY <1>1, <1>2, <1>3, <1>4 DEF Next

-----------------------------------------------------------------------------
(* The theorems *)

\* The invariant holds of the first state...
LEMMA InvInit == Init => RegistryInv
<1> SUFFICES ASSUME Init PROVE RegistryInv
  OBVIOUS
<1>1. mem.rows = <<>> /\ disk.rows = <<>> /\ ~up
  BY DEF Init, Empty
<1>2. \A th \in Threads : thread[th] = Idle
  BY DEF Init
<1>3. LockInv
  BY <1>1, <1>2, IdleHonours, RegistryAssumption DEF Init, LockInv, InLock
<1>4. PromiseInv
  BY <1>1, <1>2, IdleHonours, RegistryAssumption DEF Init, PromiseInv, Mints
<1> QED
  BY <1>1, <1>3, <1>4 DEF RegistryInv, AheadInv, ShapeInv, Fresh, Paid

\* ... and every step keeps it.
LEMMA InvStep == TypeOK /\ RegistryInv /\ [Next]_vars => RegistryInv'
<1> SUFFICES ASSUME TypeOK, RegistryInv, [Next]_vars PROVE RegistryInv'
  OBVIOUS
<1>1. PromiseInv'
  BY InFlightStep, ArrivedStep DEF InFlight, Arrived, PromiseInv
<1> QED
  BY <1>1, LockStep, AheadStep, ShapeStep, FreshStep, PaidStep DEF RegistryInv

\* The inductive invariant: one save at a time, memory ahead of the volume, and
\* every promise honoured in memory before it is on the volume, and on the
\* volume before it is made.
THEOREM InvariantCorrect == Spec => []RegistryInv
<1> QED
  BY TypeInit, TypeStep, InvInit, InvStep, PTL DEF Spec

\* An enrollment whose 200 reached the spoke survives every crash, restart and
\* failed save.
THEOREM EnrollmentDurable == Spec => []AckedEnrollmentDurable
<1>1. TypeOK /\ RegistryInv => AckedEnrollmentDurable
  <2> SUFFICES ASSUME TypeOK, RegistryInv, NEW c \in creds
               PROVE  Holds(disk, c) /\ (up => Holds(mem, c))
    BY DEF AckedEnrollmentDurable
  <2>1. Holds(disk, c)
    BY DEF RegistryInv, PromiseInv
  <2>2. up => Holds(mem, c)
    BY <2>1 DEF RegistryInv, AheadInv, RowsOnlyAge, Holds
  <2> QED
    BY <2>1, <2>2
<1> QED
  BY <1>1, TypeCorrect, InvariantCorrect, PTL

\* A heartbeat answered 200 is on the volume for good.
THEOREM HeartbeatDurable == Spec => []AckedHeartbeatDurable
<1>1. TypeOK /\ RegistryInv => AckedHeartbeatDurable
  <2> SUFFICES ASSUME TypeOK, RegistryInv, NEW c \in creds
               PROVE  HeardAt(disk, c.hb, beatAck[c.hb])
    BY DEF AckedHeartbeatDurable
  <2>1. c.hb \in Mints /\ beatAck[c.hb] \in 0..MaxClock
    BY DEF TypeOK, Credential
  <2>2. CASE beatAck[c.hb] > 0
    BY <2>1, <2>2 DEF RegistryInv, PromiseInv
  <2>3. CASE beatAck[c.hb] = 0
    <3>1. PICK i \in DOMAIN disk.rows : disk.rows[i].hb = c.hb
      BY DEF RegistryInv, PromiseInv, Holds
    <3>2. disk.rows[i].last_heartbeat \in Nat
      BY <3>1, RegistryTimes DEF TypeOK
    <3> QED
      BY <2>3, <3>1, <3>2 DEF HeardAt
  <2> QED
    BY <2>1, <2>2, <2>3
<1> QED
  BY <1>1, TypeCorrect, InvariantCorrect, PTL

\* A token pays for one row, unless a start-up reissued it.
THEOREM TokenPaysOnce == Spec => []OneRowPerToken
<1>1. RegistryInv => OneRowPerToken
  BY DEF RegistryInv, Paid, OneRowPerToken
<1> QED
  BY <1>1, InvariantCorrect, PTL

\* Placeholders never buy anything from this hub.
THEOREM NoPlaceholder == Spec => []PlaceholdersAreDead
<1>1. RegistryInv => PlaceholdersAreDead
  BY DEF RegistryInv, ShapeInv, PlaceholdersAreDead
<1> QED
  BY <1>1, InvariantCorrect, PTL

\* The volume only ages.
THEOREM VolumeAges == Spec => VolumeOnlyAges
<1>1. TypeOK /\ RegistryInv /\ [Next]_vars => [RowsOnlyAge(disk.rows, disk'.rows)]_vars
  BY DiskAges
<1> QED
  BY <1>1, TypeCorrect, InvariantCorrect, PTL DEF Spec, VolumeOnlyAges

\* A revocation answered 200 is final.
THEOREM RevocationFinal == Spec => []AckedRevocationFinal
<1>1. RegistryInv => AckedRevocationFinal
  BY DEF RegistryInv, PromiseInv, AckedRevocationFinal
<1> QED
  BY <1>1, InvariantCorrect, PTL

-----------------------------------------------------------------------------
(* Refinement *)

\* An empty volume is an empty ledger.
LEMMA LedgerInit == Init => Ledger!Init
<1> SUFFICES ASSUME Init PROVE Ledger!Init
  OBVIOUS
<1>1. disk.rows = <<>> /\ disk.tokens \in SUBSET Tokens
  BY DEF Init, Empty
<1> QED
  BY <1>1 DEF Ledger!Init

\* A save is a commit, a start-up a restock, and nothing else shows.
LEMMA LedgerStep ==
    TypeOK /\ RegistryInv /\ [Next]_vars => [Ledger!Next]_(Ledger!vars)
<1> SUFFICES ASSUME TypeOK, RegistryInv, [Next]_vars
             PROVE  [Ledger!Next]_(Ledger!vars)
  OBVIOUS
<1>1. CASE Startup
  <2>1. disk'.rows = disk.rows /\ disk'.tokens = LoadTokens(disk.tokens, env)
    BY <1>1 DEF Startup, TypeOK, Registry
  <2> QED
    BY <2>1 DEF Ledger!Next, Ledger!Restock, LoadTokens
<1>2. CASE UNCHANGED disk
  BY <1>2 DEF Ledger!vars
<1>3. CASE Save
  <2>1. disk' = mem /\ up
    BY <1>3 DEF Save
  <2>2. RowsOnlyAge(disk.rows, mem.rows)
    BY <2>1 DEF RegistryInv, AheadInv
  <2>3. ASSUME NEW i \in DOMAIN disk.rows
        PROVE  /\ i \in DOMAIN mem.rows
               /\ EntryOf(mem.rows[i]) =
                    [EntryOf(disk.rows[i]) EXCEPT !.enrolled = EntryOf(mem.rows[i]).enrolled]
               /\ EntryOf(mem.rows[i]).enrolled => EntryOf(disk.rows[i]).enrolled
    BY <2>2 DEF RowsOnlyAge, EntryOf
  <2>4. Ledger!Commit
    <3>1. Pending = Ledger!Added
      BY <2>1 DEF Pending, Ledger!Added
    <3>2. {mem.rows[i].tok : i \in Pending} = disk.tokens \ mem.tokens
      BY <2>1 DEF RegistryInv, AheadInv
    <3>3. \A i, j \in Pending : mem.rows[i].tok = mem.rows[j].tok => i = j
      BY <2>1 DEF RegistryInv, AheadInv
    <3>4. mem.tokens \subseteq disk.tokens
      BY <2>1 DEF RegistryInv, AheadInv
    <3>5. \A i \in Pending : EntryOf(mem.rows[i]).tok = mem.rows[i].tok /\ i \in DOMAIN mem.rows
      BY DEF EntryOf, Pending
    <3> DEFINE before == [i \in DOMAIN disk.rows |-> EntryOf(disk.rows[i])]
    <3> DEFINE after == [i \in DOMAIN mem.rows |-> EntryOf(mem.rows[i])]
    <3>6. /\ DOMAIN before = DOMAIN disk.rows /\ DOMAIN after = DOMAIN mem.rows
          /\ \A i \in DOMAIN disk.rows : before[i] = EntryOf(disk.rows[i])
          /\ \A i \in DOMAIN mem.rows : after[i] = EntryOf(mem.rows[i])
      OBVIOUS
    <3>7. after = before'
      BY <2>1
    <3>8. disk'.tokens = mem.tokens
      BY <2>1
    <3> HIDE DEF before, after
    <3>9. Ledger!Ages(before, after)
      <4>1. \A i \in DOMAIN before :
              /\ i \in DOMAIN after
              /\ after[i] = [before[i] EXCEPT !.enrolled = after[i].enrolled]
              /\ after[i].enrolled => before[i].enrolled
        <5> HIDE DEF EntryOf
        <5> TAKE i \in DOMAIN before
        <5>1. i \in DOMAIN disk.rows /\ before[i] = EntryOf(disk.rows[i])
          BY <3>6
        <5>2. i \in DOMAIN mem.rows
          BY <2>3, <5>1
        <5>3. after[i] = EntryOf(mem.rows[i])
          BY <3>6, <5>2
        <5> QED
          BY <2>3, <3>6, <5>1, <5>2, <5>3
      <4> QED
        BY <4>1 DEF Ledger!Ages
    <3>10. /\ {after[i].tok : i \in Pending} = disk.tokens \ mem.tokens
           /\ \A i, j \in Pending : after[i].tok = after[j].tok => i = j
      <4>1. \A i \in Pending : after[i].tok = mem.rows[i].tok
        BY <3>5, <3>6
      <4> HIDE DEF Pending
      <4> QED
        BY <3>2, <3>3, <4>1
    <3> QED
      <4>1. Ledger!Ages(before, before')
        BY <3>7, <3>9
      <4>2. {before'[i].tok : i \in Ledger!Added} = disk.tokens \ disk'.tokens
        BY <3>1, <3>7, <3>8, <3>10
      <4>3. \A i, j \in Ledger!Added : before'[i].tok = before'[j].tok => i = j
        BY <3>1, <3>7, <3>10
      <4>4. disk'.tokens \subseteq disk.tokens
        BY <3>4, <3>8
      <4> QED
        BY <4>1, <4>2, <4>3, <4>4 DEF Ledger!Commit, before
  <2> QED
    BY <2>4 DEF Ledger!Next
<1>4. Crash \/ Quiet \/ Update \/ (\E th \in Threads : EnrollApply(th)) => UNCHANGED disk
  BY DEF Crash, Quiet, Update, EnrollApply
<1> QED
  BY <1>1, <1>2, <1>3, <1>4, StepCases

\* The volume implements the enrollment ledger.
THEOREM VolumeIsLedger == Spec => ImplementsLedger
<1> QED
  BY TypeCorrect, InvariantCorrect, LedgerInit, LedgerStep, PTL
  DEF Spec, ImplementsLedger, Ledger!Spec
================================================================================
