------------------------------- MODULE Store --------------------------------
(***************************************************************************)
(* JSONStore: state.json, rewritten by way of a temporary file, and        *)
(* audit.jsonl, appended to and rotated.  Every system call may fail, the  *)
(* process may be killed between any two of them (the file system goes on) *)
(* and the power may go (what was not synced may or may not be there).     *)
(*                                                                         *)
(* Abstractions.  A state and its audit entry are the number of their      *)
(* mutation; a mutation saves once, having audited once or, in some        *)
(* handlers, not at all.  A file's size is its                             *)
(* number of lines.  Syncing a new file makes its directory entry durable, *)
(* as the journaling file systems have it.  Temporary files a killed       *)
(* process leaves behind and a state.json broken by hand are left out.     *)
(***************************************************************************)
EXTENDS Naturals, Sequences, FiniteSets

CONSTANTS
  MaxLines,      \* maxAuditBytes, in lines
  Torn,          \* what is read from a file that was never synced
  MaxMutations   \* bound of the model, not of the code

ASSUME StoreAssumption == MaxLines \in Nat \ {0} /\ MaxMutations \in Nat /\ Torn \notin Nat

\* state.json
VARIABLES
  mutations,     \* how many there were, over all restarts
  memory,        \* the state the service works on
  phase,         \* what the mutation under way does next
  synced,        \* the states whose file was synced under its temporary name
  current,       \* the state state.json names for the processes running now
  entries,       \* the states it may name after the power went
  saved,         \* history: Save acknowledged the state in memory
  made           \* history: the audited mutations in the state in memory and in those of entries

\* audit.jsonl and audit.jsonl.1
VARIABLES
  log,           \* the lines of both, oldest first
  cut,           \* those of them in audit.jsonl.1
  kept,          \* the lines that survive the loss of power
  acked,         \* history: entries Audit acknowledged
  refused        \* history: entries it failed to write

state == <<mutations, memory, phase, synced, current, entries, saved, made>>
audit == <<log, cut, kept, acked, refused>>
vars  == <<state, audit>>

Phase == {"idle", "audit", "auditSync", "create", "write", "sync", "rename", "syncDir"}
Line  == [id: Nat, is: {"whole", "torn", "joined"}]

TypeOK ==
  /\ mutations \in Nat /\ memory \in 0..mutations /\ phase \in Phase
  /\ synced \subseteq Nat /\ entries \subseteq Nat /\ current \in entries
  /\ saved \in BOOLEAN /\ made \in [entries \cup {memory} -> SUBSET Nat]
  /\ log \in Seq(Line) /\ cut \in 0..Len(log) /\ kept \in 0..Len(log)
  /\ acked \subseteq Nat /\ refused \subseteq Nat

\* The empty state of a first start is no file at all.
Init ==
  /\ mutations = 0 /\ memory = 0 /\ phase = "idle"
  /\ synced = {0} /\ current = 0 /\ entries = {0} /\ saved = TRUE
  /\ made = [v \in {0} |-> {}]
  /\ log = <<>> /\ cut = 0 /\ kept = 0 /\ acked = {} /\ refused = {}

-----------------------------------------------------------------------------
\* The audit trail.

\* A handler changes the state in memory; owed are the entries it has to write.
Changed(owed) ==
  /\ phase = "idle" /\ mutations < MaxMutations
  /\ mutations' = mutations + 1 /\ memory' = mutations'
  /\ made' = [v \in entries \cup {memory'} |-> IF v \in entries THEN made[v] ELSE made[memory] \cup owed]
  /\ saved' = FALSE
  /\ UNCHANGED <<synced, current, entries, audit>>

\* Mutant of Mutate: the state is saved first.
MutateSavesFirst == Changed({mutations + 1}) /\ phase' = "create"

\* Most handlers audit the change, then save it.
Mutate == Changed({mutations + 1}) /\ phase' = "audit"

\* Some save a change they write no entry about: links minted by hand, an onboarding
\* token used up without a new channel, rows marked as escalated.
MutateQuietly == Changed({}) /\ phase' = "create"

\* The live file ends in the middle of a line.
Ragged(lines, old) == Len(lines) > old /\ lines[Len(lines)].is = "torn"

\* What a write adds: all of the line or part of it, after what is there.
Added(lines, old, whole) ==
  [id |-> memory, is |-> IF ~whole THEN "torn" ELSE IF Ragged(lines, old) THEN "joined" ELSE "whole"]

\* Mutant of Rotated: the live file starts again, its lines are not kept.
RotatedAway == [log |-> SubSeq(log, 1, cut), cut |-> cut, kept |-> IF kept < cut THEN kept ELSE cut]

\* The files after a rotation: the live one becomes audit.jsonl.1.
Rotated ==
  [log |-> SubSeq(log, cut + 1, Len(log)), cut |-> Len(log) - cut, kept |-> IF kept < cut THEN 0 ELSE kept - cut]

\* Audit up to its Write: a full file is rotated unless the rename fails, then the
\* line is written, in part, or not at all.
AuditWrite(rotates, whole, part) ==
  LET was   == [log |-> log, cut |-> cut, kept |-> kept]
      files == IF Len(log) - cut >= MaxLines /\ rotates THEN Rotated ELSE was
  IN /\ phase = "audit"
     /\ log' = IF whole \/ part THEN Append(files.log, Added(files.log, files.cut, whole)) ELSE files.log
     /\ cut' = files.cut /\ kept' = files.kept
     /\ phase' = IF whole THEN "auditSync" ELSE "create"
     /\ refused' = IF whole THEN refused ELSE refused \cup {memory}
     /\ UNCHANGED <<mutations, memory, synced, current, entries, saved, made, acked>>

\* Its Sync.
AuditSync(ok) ==
  /\ phase = "auditSync" /\ phase' = "create"
  /\ kept' = IF ok THEN Len(log) ELSE kept
  /\ acked' = IF ok THEN acked \cup {memory} ELSE acked
  /\ refused' = IF ok THEN refused ELSE refused \cup {memory}
  /\ UNCHANGED <<mutations, memory, synced, current, entries, saved, made, log, cut>>

-----------------------------------------------------------------------------
\* Save, call by call.

\* The system calls of Save before the rename, in their order.
Successor == [create |-> "write", write |-> "sync", sync |-> "rename"]

\* Mutant of Synced: the temporary file is renamed as it is.
NeverSynced == synced

\* What fsync of the temporary file adds.
Synced == IF phase = "sync" THEN synced \cup {memory} ELSE synced

Prepare ==
  /\ phase \in DOMAIN Successor
  /\ phase' = Successor[phase]
  /\ synced' = Synced
  /\ UNCHANGED <<mutations, memory, current, entries, saved, made, audit>>

Rename ==
  /\ phase = "rename" /\ phase' = "syncDir"
  /\ current' = memory /\ entries' = entries \cup {memory}
  /\ UNCHANGED <<mutations, memory, synced, saved, made, audit>>

\* Mutant of SyncDir: acknowledged after the rename.
AckEarly ==
  /\ phase = "syncDir" /\ phase' = "idle"
  /\ saved' = TRUE
  /\ UNCHANGED <<mutations, memory, synced, current, entries, made, audit>>

\* syncDir, after which Save returns nil.
SyncDir ==
  /\ phase = "syncDir" /\ phase' = "idle"
  /\ entries' = {memory} /\ saved' = TRUE
  /\ made' = [v \in entries' |-> made[v]]
  /\ UNCHANGED <<mutations, memory, synced, current, audit>>

\* Any call fails: Save returns, the temporary file goes, the service carries on.
SaveFails ==
  /\ phase \in DOMAIN Successor \cup {"rename", "syncDir"}
  /\ phase' = "idle"
  /\ UNCHANGED <<mutations, memory, synced, current, entries, saved, made, audit>>

-----------------------------------------------------------------------------
\* The process is killed and another one loads what state.json holds.
Kill ==
  /\ memory' = current /\ phase' = "idle" /\ saved' = FALSE
  /\ made' = [v \in entries |-> made[v]]
  /\ UNCHANGED <<mutations, synced, current, entries, audit>>

\* The power goes: one of the entries, and of the log what was synced and perhaps
\* more, the last line in part.
PowerLoss(v, n, part) ==
  /\ v \in entries /\ v \in synced
  /\ n \in kept..Len(log) /\ (part => n < Len(log))
  /\ memory' = v /\ current' = v /\ entries' = {v} /\ made' = [w \in {v} |-> made[w]]
  /\ phase' = "idle" /\ saved' = FALSE /\ synced' = synced
  /\ log' = SubSeq(log, 1, n) \o (IF part THEN <<[log[n + 1] EXCEPT !.is = "torn"]>> ELSE <<>>)
  /\ cut' = IF cut < Len(log') THEN cut ELSE Len(log')
  /\ kept' = Len(log')
  /\ UNCHANGED <<mutations, acked, refused>>

Next ==
  \/ Mutate \/ MutateQuietly
  \/ \E rotates, whole, part \in BOOLEAN : AuditWrite(rotates, whole, part)
  \/ \E ok \in BOOLEAN : AuditSync(ok)
  \/ Prepare \/ Rename \/ SyncDir \/ SaveFails
  \/ Kill
  \/ \E v \in entries, n \in 0..Len(log), part \in BOOLEAN : PowerLoss(v, n, part)

Spec == Init /\ [][Next]_vars

-----------------------------------------------------------------------------
\* Reading.

\* What a restart may find: a state, or a file that does not parse.
Possible == {IF v \in synced THEN v ELSE Torn : v \in entries}

\* The places of the lines of the live file that parse.
Parsing == {i \in DOMAIN log : i > cut /\ log[i].is = "whole"}

\* The entries of the live file that parse, oldest first.
Readable ==
  [k \in 1..Cardinality(Parsing) |-> log[CHOOSE i \in Parsing : Cardinality({j \in Parsing : j <= i}) = k]]

Newest(limit, s) == IF Len(s) > limit THEN SubSeq(s, Len(s) - limit + 1, Len(s)) ELSE s

\* The scan's buffer is cut back when it holds more than twice the limit.
Trimmed(limit, s) == IF Len(s) > 2 * limit THEN Newest(limit, s) ELSE s

ReadAudit(limit) ==
  LET scan[i \in 0..Len(Readable)] ==
        IF i = 0 THEN <<>> ELSE Trimmed(limit, Append(scan[i - 1], Readable[i]))
  IN Newest(limit, scan[Len(Readable)])

-----------------------------------------------------------------------------
\* Properties.

\* Any restart, after any failure, finds a whole state that some mutation left, and
\* the last acknowledged one or a later one: the store is a durable register.
Durable == INSTANCE Register WITH value <- memory, possible <- Possible

IsRegister == Durable!Spec

\* Nothing a handler audits gets to the disk ahead of its entry, not by way of a later
\* state either, whichever calls fail: the entry was on the disk before, or the
\* failure to write it was reported (auditLocked before saveLocked, Audit syncing
\* before it returns).
StateIsExplained == \A v \in entries : made[v] \subseteq acked \cup refused

\* The trail of both files is in the order of the mutations and names none twice,
\* over rotations, failures and restarts, and the newest MaxLines of it are always
\* there (Audit: "one previous generation kept"); the bounded scan gives the newest
\* entries, however long the file (ReadAudit).
TrailIsRecent ==
  /\ \A i, j \in DOMAIN log : i < j => log[i].id < log[j].id
  /\ \A v \in acked : mutations - v < MaxLines => \E i \in DOMAIN log : log[i].id = v
  /\ \A limit \in 1..3 : ReadAudit(limit) = Newest(limit, Readable)

\* "A torn last line after a crash is expected, skip it": nothing but the torn line
\* is skipped.
OnlyTornIsSkipped ==
  \A i \in DOMAIN log : log[i].id \in acked /\ i > cut => log[i].is = "whole"

\* "Every mutation: audit + persist": no state on the disk whose own mutation the
\* trail does not know of.
EveryChangeIsJournalled == entries \ {0} \subseteq acked \cup refused
=============================================================================
