-------------------------------- MODULE KnownBugs --------------------------------
(***************************************************************************)
(* The memory of fixed bugs.  log_failure.py appends an entry per bug to a *)
(* registry; the job of a push (regression_check.py --base, then           *)
(* failure_registry_check.py) reads the bundled registry under a project's *)
(* overlay and refuses lines that bring a logged pattern back.  Several    *)
(* people log at a time, a write can tear, and people edit by hand.        *)
(*                                                                         *)
(* A line of code keeps the pattern it matches and the ids that do not     *)
(* apply to it: by their globs, by its own guardrails-allow, or because    *)
(* its file defines the patterns.  known is history: what was logged and   *)
(* is neither retired nor mended away.                                     *)
(***************************************************************************)
EXTENDS Naturals, Sequences

CONSTANTS
    Ids, Patterns,
    NoPattern,   \* also a pattern that is no regular expression: a warning, no match
    Broken,      \* a line that cannot be parsed
    Blank,       \* a blank line or a comment
    Loggers,
    Logged,      \* bound: the entries that are logged
    Sources,     \* bound: the lines of code there are
    MaxLines     \* bound: lines of both registries

Files == {"bundled", "overlay"}

\* fixed: every field is there and the fix commit is a stand-in, or is in the history.
Entry == [id : Ids, pattern : Patterns \cup {NoPattern},
          status : {"active", "resolved", "deprecated"}, fixed : BOOLEAN]
Source == [pattern : Patterns \cup {NoPattern}, excused : SUBSET Ids]

ASSUME KnownBugsAssumption ==
    /\ Logged \subseteq Entry /\ Sources \subseteq Source
    /\ NoPattern \notin Patterns /\ Broken \notin Entry /\ Blank \notin Entry /\ Blank # Broken

VARIABLES
    ledgers,   \* the two registries
    open,      \* those whose last line does not end
    loggers,
    mainline,  \* the code of the branch
    job,       \* of the last push: the code it is about, the registries in its tree
    known

bugVars == <<ledgers, open, loggers, mainline, job, known>>

NotLogging == [busy |-> FALSE]
Record(file, entry) == [file |-> file, entry |-> entry]

-----------------------------------------------------------------------------
(* What the gates read *)

\* A line that cannot be parsed is passed over.
Intact(lines) == {n \in DOMAIN lines : lines[n] \in Entry}
Named(lines, id) == \E n \in Intact(lines) : lines[n].id = id
IsLast(lines, n) == \A m \in Intact(lines) : lines[m].id = lines[n].id => m <= n

\* By id, the last line of the overlay wins, also over the last one of the bundled.
Merged(files) ==
    LET overlay == files["overlay"]
        bundled == files["bundled"]
    IN  {overlay[n] : n \in {m \in Intact(overlay) : IsLast(overlay, m)}} \cup
        {bundled[n] : n \in {m \in Intact(bundled) :
            ~IsLast(bundled, m) \/ ~Named(overlay, bundled[m].id)}}

\* Defect: a resolved entry is taken for one that is over.
EnforcedActive(files) == {entry \in Merged(files) : entry.status = "active"}

\* A fixed bug is the one that must not come back.
Enforced(files) == {entry \in Merged(files) : entry.status \in {"active", "resolved"}}

Reintroduces(source, entry) ==
    /\ entry.pattern # NoPattern /\ entry.pattern = source.pattern
    /\ entry.id \notin source.excused

\* Base of a push is the head before it.
Window(base, tree) == tree \ base

\* The rules are for staged files, of which a job's checkout has none.
PassesGate(push) ==
    LET added == Window(push.base, push.tree)
    IN  /\ added # {} \/ push.logged
        /\ \A source \in added, entry \in Enforced(push.files) : ~Reintroduces(source, entry)

OneLinePerId(lines) == \A m, n \in Intact(lines) : lines[m].id = lines[n].id => m = n

\* Defect: a registry is read as the other gate reads it.
HygienicUnparsed(files) ==
    /\ \A f \in Files : OneLinePerId(files[f])
    /\ \A entry \in Merged(files) : entry.fixed

Hygienic(files) ==
    /\ \A f \in Files : OneLinePerId(files[f]) /\ \A n \in DOMAIN files[f] : files[f][n] # Broken
    /\ \A entry \in Merged(files) : entry.fixed

-----------------------------------------------------------------------------
BugsInit ==
    /\ ledgers = [f \in Files |-> <<>>]
    /\ open = {}
    /\ loggers = [l \in Loggers |-> NotLogging]
    /\ mainline = {}
    /\ job = [base |-> {}, tree |-> {}, logged |-> FALSE, files |-> ledgers, known |-> {},
              verdict |-> "red"]
    /\ known = {}

Learns(f, entry) ==
    known' = IF entry.status = "deprecated" THEN known ELSE known \cup {Record(f, entry)}

HasRoom == Len(ledgers["bundled"]) + Len(ledgers["overlay"]) < MaxLines

(* log_failure.py *)

\* The entry is built, and the file looked at for a last line that does not end.
BeginLog(l, f, entry) ==
    /\ ~loggers[l].busy
    /\ loggers' = [loggers EXCEPT ![l] =
           [busy |-> TRUE, file |-> f, entry |-> entry, repair |-> f \in open]]
    /\ UNCHANGED <<ledgers, open, mainline, job, known>>

\* What is appended goes on with a last line that does not end, unless that was seen.
Appends(work, line) ==
    LET f == work.file
    IN  /\ HasRoom
        /\ ledgers' = [ledgers EXCEPT ![f] =
               IF f \in open /\ ~work.repair THEN [@ EXCEPT ![Len(@)] = Broken]
                                             ELSE Append(@, line)]

AppendEntry(l) ==
    /\ loggers[l].busy
    /\ Appends(loggers[l], loggers[l].entry)
    /\ open' = open \ {loggers[l].file}
    /\ loggers' = [loggers EXCEPT ![l] = NotLogging]
    /\ Learns(loggers[l].file, loggers[l].entry)
    /\ UNCHANGED <<mainline, job>>

\* An error or a death: before anything is written, after the repair, within the line,
\* before its end.
AppendFails(l) ==
    /\ loggers[l].busy
    /\ \/ UNCHANGED <<ledgers, open>>
       \/ loggers[l].repair /\ open' = open \ {loggers[l].file} /\ UNCHANGED ledgers
       \/ /\ \E line \in {Broken, loggers[l].entry} : Appends(loggers[l], line)
          /\ open' = open \cup {loggers[l].file}
    /\ loggers' = [loggers EXCEPT ![l] = NotLogging]
    /\ UNCHANGED <<mainline, job, known>>

(* People *)

\* An entry by hand, with an end of its line or without.
HandEntry(f, entry) ==
    /\ HasRoom
    /\ ledgers' = [ledgers EXCEPT ![f] = Append(@, entry)]
    /\ open' \in {open \ {f}, open \cup {f}}
    /\ Learns(f, entry)
    /\ UNCHANGED <<loggers, mainline, job>>

RetireEntry(f) ==
    /\ \E n \in Intact(ledgers[f]) :
          /\ ledgers' = [ledgers EXCEPT ![f][n].status = "deprecated"]
          /\ known' = known \ {Record(f, ledgers[f][n])}
    /\ UNCHANGED <<open, loggers, mainline, job>>

\* The lines that cannot be parsed are taken out, with all they have swallowed.
MendLedger(f) ==
    /\ \E n \in DOMAIN ledgers[f] : ledgers[f][n] = Broken
    /\ ledgers' = [ledgers EXCEPT ![f] =
           [n \in DOMAIN @ |-> IF @[n] = Broken THEN Blank ELSE @[n]]]
    /\ open' = open \ {f}
    /\ known' = {record \in known :
           record.file = f => \E n \in DOMAIN ledgers[f] : ledgers[f][n] = record.entry}
    /\ UNCHANGED <<loggers, mainline, job>>

(* Pushes and their jobs *)

\* A job that has not ended is cancelled, and what its push has added goes unread.
LandPush(tree) ==
    /\ mainline' = tree
    /\ job' = [base |-> mainline, tree |-> tree, logged |-> ledgers # job.files,
               files |-> ledgers, known |-> known, verdict |-> "running"]
    /\ UNCHANGED <<ledgers, open, loggers, known>>

\* It can fail for many other reasons.
JobEnds(verdict) ==
    /\ job.verdict = "running"
    /\ verdict = "green" => PassesGate(job) /\ Hygienic(job.files)
    /\ job' = [job EXCEPT !.verdict = verdict]
    /\ UNCHANGED <<ledgers, open, loggers, mainline, known>>

BugsNext ==
    \/ \E l \in Loggers : \/ \E f \in Files, entry \in Logged : BeginLog(l, f, entry)
                          \/ AppendEntry(l) \/ AppendFails(l)
    \/ \E f \in Files : \/ \E entry \in Logged : HandEntry(f, entry)
                        \/ RetireEntry(f) \/ MendLedger(f)
    \/ \E tree \in SUBSET Sources : LandPush(tree)
    \/ \E verdict \in {"green", "red"} : JobEnds(verdict)

BugsSpec == BugsInit /\ [][BugsNext]_bugVars

-----------------------------------------------------------------------------
\* "A fix without an entry is a fix that can silently regress", and one with an entry is
\* not: a push whose job is green brings back no bug whose logging was confirmed before it,
\* however writers raced or tore the registry, unless the overlay names the bug's id anew
\* (log_failure.py:12-14, gate_overlay.py:66-85, failure_registry_check.py:113-232).
KnownBugsStayOut ==
    job.verdict = "green" =>
        \A record \in job.known, source \in job.tree \ job.base :
            Reintroduces(source, record.entry) =>
                record.file = "bundled" /\ Named(job.files["overlay"], record.entry.id)
=================================================================================
