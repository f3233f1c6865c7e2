------------------------------ MODULE HubRegistry ------------------------------
(***************************************************************************)
(* The runner-monitor hub: its registry (hub/registry.py), the request     *)
(* handlers that mutate it (hub/server.py) and the start-up that loads it  *)
(* (hub/main.py).                                                          *)
(*                                                                         *)
(* ThreadingHTTPServer runs every request on a thread of its own.  A       *)
(* handler is therefore split where another thread can run: the            *)
(* already_enrolled probe of /enroll reads memory OUTSIDE the lock;        *)
(* with_registry then holds the lock over the mutation and both halves of  *)
(* save() (temporary file, os.replace); the reply goes out after the lock  *)
(* is released.  The process can die between any two of these steps, and   *)
(* save() can raise after memory has changed.                              *)
(*                                                                         *)
(* A row carries one field the program does not keep: `tok`, the           *)
(* enrollment token that paid for it.  creds, revokedAck, beatAck and      *)
(* reissued are history too: what the replies that reached a spoke told    *)
(* it, and which spent tokens a start-up put back.  No guard reads         *)
(* history, except that a spoke can only present credentials it was given. *)
(***************************************************************************)
EXTENDS Integers, Sequences

CONSTANTS
    Names,           \* runner names
    Tokens,          \* enrollment tokens
    MintShaped,      \* those matching _TOKEN_SHAPE; the rest are placeholders
    Threads,         \* request threads that can be live at once
    NoNewsFields,    \* row fields where a null in the body means "no news"
    PresenceFields,  \* row fields where null clears and absence keeps
    Readings,        \* the non-null values a field can take
    Null,            \* JSON null / Python None
    Unreported,      \* the UNREPORTED sentinel: the body omits the key
    MaxMint,         \* bound: heartbeat tokens minted over all lives of the hub
    MaxClock         \* bound: last tick of the wall clock

ASSUME RegistryAssumption ==
    /\ MintShaped \subseteq Tokens
    /\ NoNewsFields \cap PresenceFields = {}
    /\ Null \notin Readings \cup Names \cup Tokens \cup Threads \cup {Unreported}
    /\ Unreported \notin Readings
    /\ MaxMint \in Nat
    /\ MaxClock \in Nat \ {0}

VARIABLES
    up,         \* the hub process is running and serving
    mem,        \* Registry._data
    disk,       \* runners.json
    tmp,        \* the .runners-*.tmp file of the save in progress
    lock,       \* HubState._lock: its holder, or Null
    thread,     \* one request in flight per live thread
    env,        \* HUB_ENROLLMENT_TOKENS in the drop-in file
    minted,     \* number of heartbeat tokens minted so far
    clock,      \* wall clock, as _now_iso reads it
    creds,      \* history: enrollments whose 200 reached the spoke
    revokedAck, \* history: heartbeat tokens whose /revoke was answered 200
    beatAck,    \* history: per token, latest heartbeat time answered 200
    reissued    \* history: spent tokens a start-up put back

state   == <<up, mem, disk, tmp, lock, thread, env>>
history == <<creds, revokedAck, beatAck, reissued>>
vars    == <<state, minted, clock, history>>

-----------------------------------------------------------------------------
(* Rows, registries and requests *)

Fields == NoNewsFields \cup PresenceFields
Health == [Fields -> Readings \cup {Null}]
Report == [Fields -> Readings \cup {Null, Unreported}]
Mints  == 1..MaxMint

Row == [name : Names, tok : Tokens, hb : Mints, enrolled : BOOLEAN,
        last_heartbeat : 0..MaxClock, health : Health]

Registry == [tokens : SUBSET Tokens, rows : Seq(Row)]

Empty == [tokens |-> {}, rows |-> <<>>]

Credential == [name : Names, tok : Tokens, hb : Mints]

\* A request thread: which handler, how far, and the locals it carries.
Idle == [op |-> "none", pc |-> "idle", name |-> Null, tok |-> Null,
         hb |-> 0, at |-> 0]
Probed  == [op : {"enroll"}, pc : {"probed"}, name : Names, tok : Tokens,
            hb : {0}, at : {0}]
Applied == [op : {"enroll"}, pc : {"dirty", "written", "saved"}, name : Names,
            tok : Tokens, hb : Mints, at : {0}]
           \cup
           [op : {"heartbeat", "revoke"}, pc : {"dirty", "written", "saved"},
            name : Names, tok : {Null}, hb : Mints, at : 0..MaxClock]
Request == {Idle} \cup Probed \cup Applied

\* find_runner: the first row of that name, if any.
Enrolls(rows, n) == \E i \in DOMAIN rows : rows[i].name = n
IsFirst(rows, i, n) ==
    /\ i \in DOMAIN rows
    /\ rows[i].name = n
    /\ \A j \in DOMAIN rows : j < i => rows[j].name # n

\* verify_heartbeat_token, answered with the row it resolves to.
Verifies(rows, i, n, hb) ==
    /\ IsFirst(rows, i, n)
    /\ rows[i].enrolled
    /\ rows[i].hb = hb

\* Registry.enroll: the row a new runner starts with.
NewRow(n, t, hb) ==
    [name |-> n, tok |-> t, hb |-> hb, enrolled |-> TRUE,
     last_heartbeat |-> 0, health |-> [f \in Fields |-> Null]]

\* Registry.heartbeat: null is no news for some fields and news for others.
Merge(health, report) ==
    [f \in Fields |->
        IF \/ report[f] = Unreported
           \/ f \in NoNewsFields /\ report[f] = Null
        THEN health[f] ELSE report[f]]

\* ... and the row it leaves behind.
Beaten(row, now, report) ==
    [row EXCEPT !.last_heartbeat = now, !.health = Merge(@, report)]

\* Defect: the environment replaces the pool.
ListedTokensOnly(stored, listed) == listed \cap MintShaped

\* load_enrollment_tokens: add what the environment lists, prune what is not
\* mint-shaped, whether it came from the environment or from the volume.
LoadTokens(stored, listed) ==
    (stored \cup (listed \cap MintShaped)) \cap MintShaped

-----------------------------------------------------------------------------
Init ==
    /\ up = FALSE
    /\ mem = Empty
    /\ \E stored \in SUBSET Tokens : disk = [Empty EXCEPT !.tokens = stored]
    /\ tmp = Empty
    /\ lock = Null
    /\ thread = [th \in Threads |-> Idle]
    /\ env \in SUBSET Tokens
    /\ minted = 0
    /\ clock = 1
    /\ creds = {}
    /\ revokedAck = {}
    /\ beatAck = [hb \in Mints |-> 0]
    /\ reissued = {}

-----------------------------------------------------------------------------
(* The process: start, death, the clock and the operator's drop-in file *)

\* create_server, load_enrollment_tokens and the registry.save() of main().
\* Nothing is served before they are done, and a start that fails in between
\* leaves the volume as it was, so they are one step.
Startup ==
    LET loaded == [disk EXCEPT !.tokens = LoadTokens(disk.tokens, env)]
    IN  /\ ~up
        /\ up' = TRUE
        /\ mem' = loaded
        /\ disk' = loaded
        /\ reissued' = reissued \cup
              {t \in loaded.tokens : \E i \in DOMAIN disk.rows : disk.rows[i].tok = t}
        /\ UNCHANGED <<tmp, lock, thread, env, minted, clock, creds, revokedAck, beatAck>>

\* The process dies, at any point of any request; memory and locks are gone.
Crash ==
    /\ up
    /\ up' = FALSE
    /\ mem' = Empty
    /\ tmp' = Empty
    /\ lock' = Null
    /\ thread' = [th \in Threads |-> Idle]
    /\ UNCHANGED <<disk, env, minted, clock, history>>

\* The operator rewrites HUB_ENROLLMENT_TOKENS; only a start-up reads it.
EditEnv ==
    /\ \E listed \in SUBSET Tokens : listed # env /\ env' = listed
    /\ UNCHANGED <<up, mem, disk, tmp, lock, thread, minted, clock, history>>

Tick ==
    /\ clock < MaxClock
    /\ clock' = clock + 1
    /\ UNCHANGED <<state, minted, history>>

-----------------------------------------------------------------------------
(* The handlers *)

\* _handle_enroll up to the unlocked 409 probe (an answer of 400 or 409
\* changes nothing).
EnrollProbe(th, n, t) ==
    /\ up
    /\ thread[th].pc = "idle"
    /\ ~Enrolls(mem.rows, n)
    /\ thread' = [thread EXCEPT ![th] =
                    [Idle EXCEPT !.op = "enroll", !.pc = "probed", !.name = n, !.tok = t]]
    /\ UNCHANGED <<up, mem, disk, tmp, lock, env, minted, clock, history>>

\* do_enroll refuses the token: with_registry does not save, the answer is 401.
EnrollRefused(th) ==
    /\ thread[th].pc = "probed"
    /\ lock = Null
    /\ thread[th].tok \notin mem.tokens
    /\ thread' = [thread EXCEPT ![th] = Idle]
    /\ UNCHANGED <<up, mem, disk, tmp, lock, env, minted, clock, history>>

\* Defect: the token is checked but never consumed.
EnrollUnconsumed(th) ==
    LET r == thread[th]
    IN  /\ r.pc = "probed" /\ lock = Null /\ r.tok \in mem.tokens /\ minted < MaxMint
        /\ minted' = minted + 1
        /\ lock' = th
        /\ mem' = [mem EXCEPT !.rows = Append(@, NewRow(r.name, r.tok, minted'))]
        /\ thread' = [thread EXCEPT ![th].pc = "dirty", ![th].hb = minted']
        /\ UNCHANGED <<up, disk, tmp, env, clock, history>>

\* do_enroll consumes the token and appends the row, under the lock.
EnrollApply(th) ==
    LET r == thread[th]
    IN  /\ r.pc = "probed"
        /\ lock = Null
        /\ r.tok \in mem.tokens
        /\ minted < MaxMint
        /\ minted' = minted + 1
        /\ lock' = th
        /\ mem' = [tokens |-> mem.tokens \ {r.tok},
                   rows   |-> Append(mem.rows, NewRow(r.name, r.tok, minted'))]
        /\ thread' = [thread EXCEPT ![th].pc = "dirty", ![th].hb = minted']
        /\ UNCHANGED <<up, disk, tmp, env, clock, history>>

\* Defect: a heartbeat is too frequent to be worth a save.
HeartbeatUnsaved(th, n, hb, report) ==
    /\ up /\ thread[th].pc = "idle" /\ lock = Null
    /\ \E i \in DOMAIN mem.rows :
        /\ Verifies(mem.rows, i, n, hb)
        /\ mem' = [mem EXCEPT !.rows[i] = Beaten(@, clock, report)]
    /\ thread' = [thread EXCEPT ![th] =
                    [Idle EXCEPT !.op = "heartbeat", !.pc = "saved", !.name = n,
                                 !.hb = hb, !.at = clock]]
    /\ UNCHANGED <<up, disk, tmp, lock, env, minted, clock, history>>

\* do_heartbeat verifies and updates the row, under the lock (a 401 changes
\* nothing).
HeartbeatApply(th, n, hb, report) ==
    /\ up
    /\ thread[th].pc = "idle"
    /\ lock = Null
    /\ \E i \in DOMAIN mem.rows :
        /\ Verifies(mem.rows, i, n, hb)
        /\ mem' = [mem EXCEPT !.rows[i] = Beaten(@, clock, report)]
    /\ lock' = th
    /\ thread' = [thread EXCEPT ![th] =
                    [Idle EXCEPT !.op = "heartbeat", !.pc = "dirty", !.name = n,
                                 !.hb = hb, !.at = clock]]
    /\ UNCHANGED <<up, disk, tmp, env, minted, clock, history>>

\* Defect: the revocation stays in memory.
RevokeUnsaved(th, n, hb) ==
    /\ up /\ thread[th].pc = "idle" /\ lock = Null
    /\ \E i \in DOMAIN mem.rows :
        /\ Verifies(mem.rows, i, n, hb)
        /\ mem' = [mem EXCEPT !.rows[i].enrolled = FALSE]
    /\ thread' = [thread EXCEPT ![th] =
                    [Idle EXCEPT !.op = "revoke", !.pc = "saved", !.name = n, !.hb = hb]]
    /\ UNCHANGED <<up, disk, tmp, lock, env, minted, clock, history>>
\* do_revoke, authenticated by the token it revokes; the row stays.
RevokeApply(th, n, hb) ==
    /\ up
    /\ thread[th].pc = "idle"
    /\ lock = Null
    /\ \E i \in DOMAIN mem.rows :
        /\ Verifies(mem.rows, i, n, hb)
        /\ mem' = [mem EXCEPT !.rows[i].enrolled = FALSE]
    /\ lock' = th
    /\ thread' = [thread EXCEPT ![th] =
                    [Idle EXCEPT !.op = "revoke", !.pc = "dirty", !.name = n, !.hb = hb]]
    /\ UNCHANGED <<up, disk, tmp, env, minted, clock, history>>

\* save(), first half: the whole registry goes to a temporary file.
SaveWrite(th) ==
    /\ thread[th].pc = "dirty"
    /\ tmp' = mem
    /\ thread' = [thread EXCEPT ![th].pc = "written"]
    /\ UNCHANGED <<up, mem, disk, lock, env, minted, clock, history>>

\* save(), second half: os.replace, and with_registry leaves its lock.
SaveReplace(th) ==
    /\ thread[th].pc = "written"
    /\ disk' = tmp
    /\ tmp' = Empty
    /\ lock' = Null
    /\ thread' = [thread EXCEPT ![th].pc = "saved"]
    /\ UNCHANGED <<up, mem, env, minted, clock, history>>

\* Defects: the failure is swallowed and the spoke gets its 200; the lock is
\* released by hand, on success only.
SaveFailSwallowed(th) ==
    /\ thread[th].pc \in {"dirty", "written"}
    /\ tmp' = Empty
    /\ lock' = Null
    /\ thread' = [thread EXCEPT ![th].pc = "saved"]
    /\ UNCHANGED <<up, mem, disk, env, minted, clock, history>>
SaveFailKeepsLock(th) ==
    /\ thread[th].pc \in {"dirty", "written"}
    /\ tmp' = Empty
    /\ thread' = [thread EXCEPT ![th] = Idle]
    /\ UNCHANGED <<up, mem, disk, lock, env, minted, clock, history>>

\* save() raises (volume full, read-only...): the temporary file is unlinked,
\* the exception releases the lock and kills the handler, so the spoke gets
\* no answer; what the handler did to memory stays.
SaveFail(th) ==
    /\ thread[th].pc \in {"dirty", "written"}
    /\ tmp' = Empty
    /\ lock' = Null
    /\ thread' = [thread EXCEPT ![th] = Idle]
    /\ UNCHANGED <<up, mem, disk, env, minted, clock, history>>

\* The 200, which reaches the spoke...
Reply(th) ==
    LET r == thread[th]
    IN  /\ r.pc = "saved"
        /\ creds' = IF r.op = "enroll"
                    THEN creds \cup {[name |-> r.name, tok |-> r.tok, hb |-> r.hb]}
                    ELSE creds
        /\ revokedAck' = IF r.op = "revoke" THEN revokedAck \cup {r.hb} ELSE revokedAck
        /\ beatAck' = IF r.op = "heartbeat" /\ beatAck[r.hb] < r.at
                      THEN [beatAck EXCEPT ![r.hb] = r.at] ELSE beatAck
        /\ thread' = [thread EXCEPT ![th] = Idle]
        /\ UNCHANGED <<up, mem, disk, tmp, lock, env, minted, clock, reissued>>

\* ... or does not (the spoke's curl gave up, its host died).
ReplyLost(th) ==
    /\ thread[th].pc = "saved"
    /\ thread' = [thread EXCEPT ![th] = Idle]
    /\ UNCHANGED <<up, mem, disk, tmp, lock, env, minted, clock, history>>

-----------------------------------------------------------------------------
Finish(th) == SaveWrite(th) \/ SaveReplace(th) \/ SaveFail(th) \/ Reply(th) \/ ReplyLost(th)

Acquire(th) == EnrollRefused(th) \/ EnrollApply(th)

Arrive(th) ==
    \/ \E n \in Names, t \in Tokens : EnrollProbe(th, n, t)
    \/ \E c \in creds : \/ \E report \in Report : HeartbeatApply(th, c.name, c.hb, report)
                        \/ RevokeApply(th, c.name, c.hb)

Next ==
    \/ Startup \/ Crash \/ EditEnv \/ Tick
    \/ \E th \in Threads : Arrive(th) \/ Acquire(th) \/ Finish(th)

Spec == Init /\ [][Next]_vars

\* Threads of the server are scheduled by the operating system: a thread that
\* can take its next step takes it, and one waiting for the lock gets it if the
\* lock keeps becoming free (threading.Lock never abandons a waiter).
FairSpec ==
    /\ Spec
    /\ \A th \in Threads : WF_vars(Finish(th)) /\ SF_vars(Acquire(th))

-----------------------------------------------------------------------------
(* Properties *)

\* Every variable has its type.
TypeOK ==
    /\ up \in BOOLEAN
    /\ mem \in Registry
    /\ disk \in Registry
    /\ tmp \in Registry
    /\ lock \in Threads \cup {Null}
    /\ thread \in [Threads -> Request]
    /\ env \subseteq Tokens
    /\ minted \in 0..MaxMint
    /\ clock \in 1..MaxClock
    /\ creds \subseteq Credential
    /\ revokedAck \subseteq Mints
    /\ beatAck \in [Mints -> 0..MaxClock]
    /\ reissued \subseteq Tokens

\* What a registry says of a credential.
Holds(reg, c) == \E i \in DOMAIN reg.rows :
    reg.rows[i].name = c.name /\ reg.rows[i].tok = c.tok /\ reg.rows[i].hb = c.hb
Unenrolled(reg, hb) ==
    \A i \in DOMAIN reg.rows : reg.rows[i].hb = hb => ~reg.rows[i].enrolled
HeardAt(reg, hb, at) == \E i \in DOMAIN reg.rows :
    reg.rows[i].hb = hb /\ reg.rows[i].last_heartbeat >= at

\* An enrollment the spoke was told about is never lost: its row is on the
\* volume, and in memory whenever the hub is up, through any crash, restart or
\* failed save (server.py:57-63 saves before the handler replies).
AckedEnrollmentDurable ==
    \A c \in creds : Holds(disk, c) /\ (up => Holds(mem, c))

\* A revocation answered 200 is final: no crash, restart or concurrent save of
\* an older view ever makes the token valid again (mon-enroll-01).
AckedRevocationFinal ==
    \A hb \in revokedAck : Unenrolled(disk, hb) /\ (up => Unenrolled(mem, hb))

\* A heartbeat answered 200 is never forgotten: a restarted hub does not judge
\* the runner staler than the last heartbeat it acknowledged.
AckedHeartbeatDurable ==
    \A c \in creds : HeardAt(disk, c.hb, beatAck[c.hb])

\* An enrollment token pays for one row on the volume, whatever requests race,
\* saves fail or processes die, unless a start-up re-read it from the
\* environment after it was spent (tokens.py:3, registry.py:195-201).
OneRowPerToken ==
    \A i, j \in DOMAIN disk.rows :
        disk.rows[i].tok = disk.rows[j].tok /\ i # j => disk.rows[i].tok \in reissued

\* The same with no exception.  tokens.py:3 says enrollment tokens are
\* one-time, and fleet_drill.py:188 restarts the hub on the same volume with
\* the same environment because "tokens [are] irrelevant now".
TokensAreOneTime ==
    \A i, j \in DOMAIN disk.rows : disk.rows[i].tok = disk.rows[j].tok => i = j

\* At most one row carries a name: what the 409 of /enroll promises, and what
\* server.py:147-152 protects against a whitespace variant of a live name.
OneRowPerName ==
    \A i, j \in DOMAIN mem.rows : mem.rows[i].name = mem.rows[j].name => i = j

\* No placeholder ever buys a row while this hub serves, wherever it came from:
\* listed in the environment or left on the volume by an older hub
\* (main.py:49-75).
PlaceholdersAreDead ==
    /\ up => mem.tokens \subseteq MintShaped
    /\ \A i \in DOMAIN disk.rows : disk.rows[i].tok \in MintShaped

\* The volume only moves forward: a row once there keeps its place, name and
\* token, its last_heartbeat never goes back and an unenrolled row never comes
\* back, so the row find_runner resolves a name to never changes.
RowsOnlyAge(rows, later) ==
    \A i \in DOMAIN rows :
        /\ i \in DOMAIN later
        /\ later[i].name = rows[i].name
        /\ later[i].tok = rows[i].tok
        /\ later[i].hb = rows[i].hb
        /\ later[i].last_heartbeat >= rows[i].last_heartbeat
        /\ later[i].enrolled => rows[i].enrolled
VolumeOnlyAges == [][RowsOnlyAge(disk.rows, disk'.rows)]_vars

\* Every enrollment past its probe is answered or its thread dies; none waits
\* for the lock for ever (unless the bound on minted tokens stopped it).
EnrollmentEnds ==
    \A th \in Threads :
        thread[th].pc = "probed" ~> (thread[th].pc # "probed" \/ minted = MaxMint)

-----------------------------------------------------------------------------
(* What the volume implements *)

\* The part of a row the ledger speaks of.
EntryOf(row) == [name |-> row.name, tok |-> row.tok, hb |-> row.hb, enrolled |-> row.enrolled]

Ledger == INSTANCE EnrollmentLedger WITH
    entries <- [i \in DOMAIN disk.rows |-> EntryOf(disk.rows[i])],
    open    <- disk.tokens

\* The volume is an enrollment ledger: every step of the hub is a commit, a
\* restock, or invisible on it (registry.py:161-235, main.py:96-98).
ImplementsLedger == Ledger!Spec

-----------------------------------------------------------------------------
(* The inductive invariant behind the durability properties *)

InLock(th) == thread[th].pc \in {"dirty", "written"}
CredOf(r)  == [name |-> r.name, tok |-> r.tok, hb |-> r.hb]


\* What the 200 about to be sent for request r will have promised.
Honours(reg, r) ==
    /\ r.op = "enroll" => Holds(reg, CredOf(r))
    /\ r.op = "revoke" => Unenrolled(reg, r.hb)
    /\ r.op = "heartbeat" => HeardAt(reg, r.hb, r.at)

\* One save at a time, and only while the process lives.
LockInv ==
    /\ \A th \in Threads : InLock(th) <=> lock = th
    /\ ~up => \A th \in Threads : thread[th].pc = "idle"
    /\ \A th \in Threads : thread[th].pc = "written" => tmp = mem

\* Memory is the volume plus work not saved yet: rows that were each paid by a
\* token the volume still shows as open.
Pending == DOMAIN mem.rows \ DOMAIN disk.rows
AheadInv ==
    /\ up => RowsOnlyAge(disk.rows, mem.rows)
    /\ up => mem.tokens \subseteq disk.tokens
    /\ up => {mem.rows[i].tok : i \in Pending} = disk.tokens \ mem.tokens
    /\ up => \A i, j \in Pending : mem.rows[i].tok = mem.rows[j].tok => i = j

\* A registry names each heartbeat token once, and no time is in the future.
Fresh(reg) ==
    /\ \A i \in DOMAIN reg.rows :
        reg.rows[i].hb <= minted /\ reg.rows[i].last_heartbeat <= clock
    /\ \A i, j \in DOMAIN reg.rows : reg.rows[i].hb = reg.rows[j].hb => i = j

\* A spent token is gone from the pool and paid once, unless reissued.
Paid(reg) ==
    /\ \A i \in DOMAIN reg.rows : reg.rows[i].tok \in reg.tokens => reg.rows[i].tok \in reissued
    /\ \A i, j \in DOMAIN reg.rows :
        reg.rows[i].tok = reg.rows[j].tok /\ i # j => reg.rows[i].tok \in reissued

\* Requests keep their promises, first in memory, on the volume before the 200.
PromiseInv ==
    /\ \A th \in Threads :
        /\ thread[th].hb <= minted
        /\ thread[th].pc \in {"dirty", "written", "saved"} => Honours(mem, thread[th])
        /\ thread[th].pc = "saved" => Honours(disk, thread[th])
    /\ \A c \in creds : Holds(disk, c)
    /\ \A hb \in revokedAck :
        hb <= minted /\ Unenrolled(disk, hb) /\ (up => Unenrolled(mem, hb))
    /\ \A hb \in Mints : beatAck[hb] > 0 => HeardAt(disk, hb, beatAck[hb])

\* A serving hub holds no placeholder, and none ever paid for a row.
ShapeInv ==
    /\ up => mem.tokens \subseteq MintShaped
    /\ \A i \in DOMAIN mem.rows : mem.rows[i].tok \in MintShaped
    /\ \A i \in DOMAIN disk.rows : disk.rows[i].tok \in MintShaped

RegistryInv ==
    /\ LockInv /\ AheadInv /\ PromiseInv /\ ShapeInv
    /\ Fresh(mem) /\ Fresh(disk) /\ Paid(mem) /\ Paid(disk)
================================================================================
