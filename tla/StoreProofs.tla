---------------------------- MODULE StoreProofs -----------------------------
(***************************************************************************)
(* Proofs about Store, for any number of mutations and any size of the     *)
(* audit file: the store implements the durable register, no audited       *)
(* change is on the disk ahead of its entry, and the trail is in order,    *)
(* recent, and read to its end.                                            *)
(***************************************************************************)
EXTENDS Store, SequenceTheorems, FiniteSetTheorems, WellFoundedInduction, TLAPS

\* What Save has done by the time it gets to each of its calls: the file under the
\* temporary name is synced before it is renamed, and named before it is
\* acknowledged; nothing is acknowledged while a mutation is under way.
SaveInv ==
  /\ mutations \in Nat /\ memory \in 0..mutations
  /\ phase \in Phase /\ saved \in BOOLEAN
  /\ entries \subseteq synced /\ entries \subseteq 0..mutations /\ current \in entries
  /\ phase \in {"rename", "syncDir"} => memory \in synced
  /\ phase = "syncDir" => current = memory
  /\ phase # "idle" => ~saved
  /\ saved => entries = {memory}
  /\ made = [v \in entries \cup {memory} |-> made[v]]

\* What went into the states on the disk has its entry in the trail or a report that
\* it could not be written; of what went into the state in memory, only the mutation
\* whose entry is being written may lack one.
AuditInv ==
  /\ StateIsExplained
  /\ made[memory] \ {memory} \subseteq acked \cup refused
  /\ phase \notin {"audit", "auditSync"} => made[memory] \subseteq acked \cup refused

-----------------------------------------------------------------------------
\* The phases a step of a save can be in.
LEMMA PhasesOfSave ==
  /\ DOMAIN Successor = {"create", "write", "sync"}
  /\ Successor["create"] = "write" /\ Successor["write"] = "sync" /\ Successor["sync"] = "rename"
BY DEF Successor

LEMMA SaveInvInit == Init => SaveInv
BY DEF Init, SaveInv, Phase

\* Save keeps its order whatever fails and whenever the process or the power goes.
LEMMA SaveInvStep == SaveInv /\ [Next]_vars => SaveInv'
<1> SUFFICES ASSUME SaveInv, [Next]_vars PROVE SaveInv'
  OBVIOUS
<1> USE DEF SaveInv
<1>1. CASE Mutate \/ MutateQuietly
  <2>1. PICK owed : Changed(owed) /\ phase' \in {"audit", "create"}
    BY <1>1 DEF Mutate, MutateQuietly
  <2>2. mutations' \in Nat /\ memory' \in 0..mutations' /\ entries \subseteq 0..mutations'
    BY <2>1 DEF Changed
  <2>3. made' = [v \in entries' \cup {memory'} |-> made'[v]]
    BY <2>1 DEF Changed
  <2>4. QED
    BY <2>1, <2>2, <2>3 DEF Changed, Phase
<1>2. ASSUME NEW rotates \in BOOLEAN, NEW whole \in BOOLEAN, NEW part \in BOOLEAN,
             AuditWrite(rotates, whole, part)
      PROVE  SaveInv'
  BY <1>2 DEF AuditWrite, Phase
<1>3. ASSUME NEW ok \in BOOLEAN, AuditSync(ok) PROVE SaveInv'
  BY <1>3 DEF AuditSync, Phase
<1>4. CASE Prepare
  <2>1. phase' \in {"write", "sync", "rename"} /\ synced \subseteq synced'
    BY <1>4, PhasesOfSave DEF Prepare, Synced
  <2>2. phase' = "rename" => memory \in synced'
    BY <1>4, PhasesOfSave DEF Prepare, Synced
  <2>3. phase # "idle"
    BY <1>4, PhasesOfSave DEF Prepare
  <2>4. QED
    BY <1>4, <2>1, <2>2, <2>3 DEF Prepare, Phase
<1>5. CASE Rename
  <2>1. phase = "rename" /\ memory \in synced /\ ~saved
    BY <1>5 DEF Rename
  <2>2. made' = [v \in entries' \cup {memory'} |-> made'[v]]
    <3>1. made' = made /\ entries' \cup {memory'} = entries \cup {memory}
      BY <1>5 DEF Rename
    <3>2. QED
      BY <3>1
  <2>3. QED
    BY <1>5, <2>1, <2>2 DEF Rename, Phase
<1>6. CASE SyncDir
  BY <1>6 DEF SyncDir, Phase
<1>7. CASE SaveFails
  BY <1>7 DEF SaveFails, Phase
<1>8. CASE Kill
  BY <1>8 DEF Kill, Phase
<1>9. ASSUME NEW v \in entries, NEW n \in 0..Len(log), NEW part \in BOOLEAN,
             PowerLoss(v, n, part)
      PROVE  SaveInv'
  BY <1>9 DEF PowerLoss, Phase
<1>10. CASE UNCHANGED vars
  BY <1>10 DEF vars, state
<1>11. QED
  BY <1>1, <1>2, <1>3, <1>4, <1>5, <1>6, <1>7, <1>8, <1>9, <1>10 DEF Next

THEOREM SaveInOrder == Spec => []SaveInv
BY SaveInvInit, SaveInvStep, PTL DEF Spec

-----------------------------------------------------------------------------
\* What a restart may find is a state: every file that is named was synced.
LEMMA NothingTorn == SaveInv => Possible = entries
BY DEF SaveInv, Possible

LEMMA RegisterInit == Init => Durable!Init
BY SaveInvInit, NothingTorn DEF Init, Durable!Init

\* Every step of the store is a step of the register, or none.
LEMMA RegisterStep == SaveInv /\ SaveInv' /\ [Next]_vars => [Durable!Next]_(Durable!vars)
<1> SUFFICES ASSUME SaveInv, SaveInv', [Next]_vars
             PROVE  Durable!Next \/ UNCHANGED Durable!vars
  BY DEF Durable!vars
<1>a. Possible = entries /\ Possible' = entries'
  BY DEF SaveInv, Possible
<1> USE <1>a DEF Durable!Next, Durable!Durable, Durable!vars
<1>1. CASE Mutate \/ MutateQuietly
  <2>1. PICK owed : Changed(owed)
    BY <1>1 DEF Mutate, MutateQuietly
  <2>2. Durable!Mutate
    BY <2>1 DEF Changed, SaveInv, Durable!Mutate
  <2>3. QED
    BY <2>2
<1>2. ASSUME NEW rotates \in BOOLEAN, NEW whole \in BOOLEAN, NEW part \in BOOLEAN,
             AuditWrite(rotates, whole, part)
      PROVE  UNCHANGED Durable!vars
  BY <1>2 DEF AuditWrite
<1>3. ASSUME NEW ok \in BOOLEAN, AuditSync(ok) PROVE UNCHANGED Durable!vars
  BY <1>3 DEF AuditSync
<1>4. CASE Prepare
  BY <1>4 DEF Prepare
<1>5. CASE Rename
  <2>1. Durable!Write
    BY <1>5 DEF Rename, SaveInv, Durable!Write
  <2>2. QED
    BY <2>1
<1>6. CASE SyncDir
  <2>1. Durable!Write
    BY <1>6 DEF SyncDir, SaveInv, Durable!Write
  <2>2. QED
    BY <2>1
<1>7. CASE SaveFails
  BY <1>7 DEF SaveFails
<1>8. CASE Kill
  <2>1. Durable!Restart
    BY <1>8 DEF Kill, SaveInv, Durable!Restart
  <2>2. QED
    BY <2>1
<1>9. ASSUME NEW v \in entries, NEW n \in 0..Len(log), NEW part \in BOOLEAN,
             PowerLoss(v, n, part)
      PROVE  Durable!Next
  <2>1. Durable!Restart
    BY <1>9 DEF PowerLoss, SaveInv, Durable!Restart
  <2>2. QED
    BY <2>1
<1>10. CASE UNCHANGED vars
  BY <1>10 DEF vars, state
<1>11. QED
  BY <1>1, <1>2, <1>3, <1>4, <1>5, <1>6, <1>7, <1>8, <1>9, <1>10 DEF Next

\* Whatever fails, is killed or loses its power: a restart finds a whole state, the
\* last acknowledged one or a later one (Save, syncDir).
THEOREM StoreIsRegister == Spec => IsRegister
<1>1. Init => Durable!Init
  BY RegisterInit
<1>2. SaveInv /\ SaveInv' /\ [Next]_vars => [Durable!Next]_(Durable!vars)
  BY RegisterStep
<1>3. QED
  BY <1>1, <1>2, SaveInOrder, PTL DEF Spec, IsRegister, Durable!Spec
-----------------------------------------------------------------------------
LEMMA AuditInvInit == Init => AuditInv
BY DEF Init, AuditInv, StateIsExplained

\* The trail is ahead of the disk in every step: the entry of a mutation is
\* acknowledged, or its failure noted, before a state with it is created.
LEMMA AuditInvStep == SaveInv /\ AuditInv /\ [Next]_vars => AuditInv'
<1> SUFFICES ASSUME SaveInv, AuditInv, [Next]_vars PROVE AuditInv'
  OBVIOUS
<1> DEFINE Explained == acked \cup refused
<1>0. /\ made = [v \in entries \cup {memory} |-> made[v]] /\ current \in entries
      /\ entries \subseteq 0..mutations /\ mutations \in Nat
  BY DEF SaveInv
<1>a. /\ \A v \in entries : made[v] \subseteq Explained
      /\ made[memory] \ {memory} \subseteq Explained
      /\ phase \notin {"audit", "auditSync"} => made[memory] \subseteq Explained
  BY DEF AuditInv, StateIsExplained
<1>b. SUFFICES /\ \A v \in entries' : made'[v] \subseteq Explained'
               /\ made'[memory'] \ {memory'} \subseteq Explained'
               /\ phase' \notin {"audit", "auditSync"} => made'[memory'] \subseteq Explained'
  BY DEF AuditInv, StateIsExplained
<1>1. ASSUME NEW owed, Changed(owed), owed \subseteq {memory'},
             phase' # "audit" => owed = {}
      PROVE  /\ \A v \in entries' : made'[v] \subseteq Explained'
             /\ made'[memory'] \ {memory'} \subseteq Explained'
             /\ phase' \notin {"audit", "auditSync"} => made'[memory'] \subseteq Explained'
  <2>1. /\ phase = "idle" /\ memory' = mutations + 1 /\ entries' = entries /\ Explained' = Explained
        /\ made' = [v \in entries \cup {memory'} |-> IF v \in entries THEN made[v] ELSE made[memory] \cup owed]
    BY <1>1 DEF Changed, audit
  <2>2. memory' \notin entries
    BY <1>0, <2>1
  <2>3. made'[memory'] = made[memory] \cup owed /\ \A v \in entries : made'[v] = made[v]
    BY <2>1, <2>2
  <2>4. made[memory] \subseteq Explained
    BY <1>a, <2>1
  <2> HIDE DEF Explained
  <2>5. QED
    BY <1>1, <1>a, <2>1, <2>3, <2>4
<1>2. CASE Mutate
  <2>1. Changed({mutations + 1}) /\ memory' = mutations + 1 /\ phase' = "audit"
    BY <1>2 DEF Mutate, Changed
  <2>2. QED
    BY <1>1, <2>1
<1>3. CASE MutateQuietly
  <2>1. Changed({})
    BY <1>3 DEF MutateQuietly
  <2>2. QED
    BY <1>1, <2>1
<1>4. ASSUME NEW rotates \in BOOLEAN, NEW whole \in BOOLEAN, NEW part \in BOOLEAN,
             AuditWrite(rotates, whole, part)
      PROVE  AuditInv'
  <2>1. /\ entries' = entries /\ memory' = memory /\ made' = made /\ acked' = acked
        /\ phase' = (IF whole THEN "auditSync" ELSE "create")
        /\ refused' = (IF whole THEN refused ELSE refused \cup {memory})
    BY <1>4 DEF AuditWrite
  <2>2. QED
    BY <1>a, <2>1 DEF AuditInv, StateIsExplained
<1>5. ASSUME NEW ok \in BOOLEAN, AuditSync(ok) PROVE AuditInv'
  <2>1. /\ entries' = entries /\ memory' = memory /\ made' = made /\ phase' = "create"
        /\ acked' = (IF ok THEN acked \cup {memory} ELSE acked)
        /\ refused' = (IF ok THEN refused ELSE refused \cup {memory})
    BY <1>5 DEF AuditSync
  <2>2. QED
    BY <1>a, <2>1 DEF AuditInv, StateIsExplained
<1>6. CASE Prepare \/ SaveFails
  <2>1. /\ UNCHANGED <<entries, memory, made, acked, refused>>
        /\ phase \notin {"audit", "auditSync"}
    BY <1>6, PhasesOfSave DEF Prepare, SaveFails, audit
  <2>2. QED
    BY <1>a, <2>1
<1>7. CASE Rename
  BY <1>7, <1>a DEF Rename, audit
<1>8. CASE SyncDir
  BY <1>8, <1>a DEF SyncDir, audit
<1>9. CASE Kill
  <2>1. /\ memory' = current /\ entries' = entries /\ Explained' = Explained
        /\ made' = [v \in entries |-> made[v]]
    BY <1>9 DEF Kill, audit
  <2>2. \A v \in entries : made'[v] = made[v]
    BY <2>1
  <2>3. QED
    BY <1>0, <1>a, <2>1, <2>2
<1>10. ASSUME NEW v \in entries, NEW n \in 0..Len(log), NEW part \in BOOLEAN,
              PowerLoss(v, n, part)
       PROVE  AuditInv'
  <2>1. /\ entries' = {v} /\ memory' = v /\ made' = [w \in {v} |-> made[w]]
        /\ acked' = acked /\ refused' = refused
    BY <1>10 DEF PowerLoss
  <2>2. made'[v] = made[v]
    BY <2>1
  <2>3. QED
    BY <1>a, <2>1, <2>2 DEF AuditInv, StateIsExplained
<1>11. CASE UNCHANGED vars
  BY <1>11, <1>a DEF vars, state, audit
<1>12. QED
  BY <1>2, <1>3, <1>4, <1>5, <1>6, <1>7, <1>8, <1>9, <1>10, <1>11 DEF Next, AuditInv, StateIsExplained

\* No audited change is on the disk, in whatever state, whose entry the trail does not
\* have and nobody was told about (auditLocked before saveLocked).
THEOREM EveryStateExplained == Spec => []StateIsExplained
<1>1. AuditInv => StateIsExplained
  BY DEF AuditInv
<1>2. QED
  BY <1>1, AuditInvInit, AuditInvStep, SaveInOrder, PTL DEF Spec

-----------------------------------------------------------------------------
\* The trail over rotations and failures.

\* The ids of the lines rise by as much as the places do, up to the mutations there
\* were; both cuts lie within the lines.
Files(lines, old, safe) ==
  /\ lines \in Seq(Line) /\ old \in 0..Len(lines) /\ safe \in 0..Len(lines)
  /\ \A i \in DOMAIN lines : lines[i].id <= mutations
  /\ \A i, j \in DOMAIN lines : i < j => lines[j].id >= lines[i].id + (j - i)

\* An acknowledged entry that is recent is among the lines that survive a loss of power.
Recent(lines, safe) ==
  \A v \in acked : mutations - v < MaxLines => \E i \in 1..safe : lines[i].id = v

\* Before its write, the entry of the mutation under way is above all lines; after
\* it, it is the last of them.
TrailInv ==
  /\ Files(log, cut, kept) /\ Recent(log, kept)
  /\ acked \subseteq 0..mutations
  /\ phase \in {"audit", "auditSync"} => memory = mutations
  /\ phase = "audit" => \A i \in DOMAIN log : log[i].id < memory
  /\ phase = "auditSync" => Len(log) > 0 /\ log[Len(log)].id = memory

LEMMA TrailInvInit == Init => TrailInv
<1> SUFFICES ASSUME Init PROVE TrailInv
  OBVIOUS
<1>1. log = <<>> /\ cut = 0 /\ kept = 0 /\ acked = {} /\ mutations = 0 /\ phase = "idle"
  BY DEF Init
<1>2. <<>> \in Seq(Line) /\ Len(<<>>) = 0 /\ DOMAIN <<>> = {}
  OBVIOUS
<1>3. QED
  BY <1>1, <1>2 DEF TrailInv, Files, Recent

\* A rotation drops old lines only: the live file alone holds MaxLines of them.
LEMMA RotationKeeps ==
  ASSUME TrailInv, SaveInv, phase = "audit", Len(log) - cut >= MaxLines
  PROVE  /\ Files(Rotated.log, Rotated.cut, Rotated.kept) /\ Recent(Rotated.log, Rotated.kept)
         /\ \A i \in DOMAIN Rotated.log : Rotated.log[i].id < memory
<1> DEFINE rest == SubSeq(log, cut + 1, Len(log))
           safe == IF kept < cut THEN 0 ELSE kept - cut
<1>0. Rotated.log = rest /\ Rotated.cut = Len(log) - cut /\ Rotated.kept = safe
  BY DEF Rotated
<1>1. /\ log \in Seq(Line) /\ Len(log) \in Nat /\ cut \in 0..Len(log) /\ kept \in 0..Len(log)
      /\ DOMAIN log = 1..Len(log) /\ mutations \in Nat /\ memory = mutations
      /\ \A i \in 1..Len(log) : log[i] \in Line /\ log[i].id \in Nat /\ log[i].id < mutations
      /\ \A i, j \in 1..Len(log) : i < j => log[j].id >= log[i].id + (j - i)
  <2>1. log \in Seq(Line) /\ mutations \in Nat /\ memory = mutations
    BY DEF TrailInv, Files, SaveInv
  <2>2. \A i \in 1..Len(log) : log[i] \in Line
    BY <2>1
  <2>3. \A l \in Line : l.id \in Nat
    BY DEF Line
  <2>4. /\ cut \in 0..Len(log) /\ kept \in 0..Len(log)
        /\ \A i \in DOMAIN log : log[i].id < memory
        /\ \A i, j \in DOMAIN log : i < j => log[j].id >= log[i].id + (j - i)
    BY DEF TrailInv, Files
  <2>5. Len(log) \in Nat /\ DOMAIN log = 1..Len(log)
    BY <2>1
  <2>6. QED
    BY <2>1, <2>2, <2>3, <2>4, <2>5
<1>2. /\ rest \in Seq(Line) /\ Len(rest) = Len(log) - cut
      /\ \A i \in 1..(Len(log) - cut) : rest[i] = log[cut + i]
  <2>1. \A i \in (cut + 1)..Len(log) : log[i] \in Line
    BY <1>1
  <2>2. /\ rest \in Seq(Line)
        /\ Len(rest) = IF cut + 1 <= Len(log) THEN Len(log) - (cut + 1) + 1 ELSE 0
        /\ \A i \in 1..(Len(log) - (cut + 1) + 1) : rest[i] = log[(cut + 1) + i - 1]
    BY <1>1, <2>1, SubSeqProperties
  <2> DEFINE len == Len(log)
  <2>a. len \in Nat /\ cut \in Nat /\ cut <= len
    BY <1>1
  <2> HIDE DEF len
  <2>b. len - (cut + 1) + 1 = len - cut /\ (cut + 1 <= len <=> cut # len) /\ (cut = len => len - cut = 0)
    BY <2>a
  <2>3. /\ Len(log) - (cut + 1) + 1 = Len(log) - cut
        /\ (cut + 1 <= Len(log) <=> cut # Len(log)) /\ (cut = Len(log) => Len(log) - cut = 0)
    BY <2>b DEF len
  <2>4. \A i \in 1..(Len(log) - cut) : (cut + 1) + i - 1 = cut + i
    BY <1>1
  <2> HIDE DEF rest
  <2>5. Len(rest) = Len(log) - cut
    BY <2>2, <2>3
  <2>6. QED
    BY <2>2, <2>3, <2>4, <2>5
<1> HIDE DEF rest
<1>3. \A i \in 1..(Len(log) - cut) : cut + i \in 1..Len(log)
  BY <1>1
<1>4. DOMAIN rest = 1..(Len(log) - cut)
  BY <1>1, <1>2
<1>5. \A i \in DOMAIN rest : rest[i].id < memory /\ rest[i].id \in Nat
  BY <1>1, <1>2, <1>3, <1>4
<1>6. Files(rest, Len(log) - cut, safe)
  <2>1. ASSUME NEW i \in DOMAIN rest, NEW j \in DOMAIN rest, i < j
        PROVE  rest[j].id >= rest[i].id + (j - i)
    <3>1. cut + i \in 1..Len(log) /\ cut + j \in 1..Len(log) /\ cut + i < cut + j
          /\ (cut + j) - (cut + i) = j - i
      BY <1>1, <1>3, <1>4, <2>1
    <3>2. log[cut + j].id >= log[cut + i].id + ((cut + j) - (cut + i))
      BY <1>1, <3>1
    <3>3. QED
      BY <1>2, <1>4, <3>1, <3>2
  <2>2. Len(log) - cut \in 0..Len(rest) /\ safe \in 0..Len(rest)
    BY <1>1, <1>2
  <2>3. \A i \in DOMAIN rest : rest[i].id <= mutations
    BY <1>1, <1>5
  <2>4. QED
    BY <1>2, <2>1, <2>2, <2>3 DEF Files
<1>7. Recent(rest, safe)
  <2> SUFFICES ASSUME NEW v \in acked, mutations - v < MaxLines
               PROVE  \E i \in 1..safe : rest[i].id = v
    BY DEF Recent
  <2>1. PICK i \in 1..kept : log[i].id = v
    BY DEF TrailInv, Recent
  <2>2. MaxLines \in Nat \ {0} /\ i \in 1..Len(log) /\ v \in Nat /\ v < mutations
    BY <1>1, <2>1, StoreAssumption
  <2>3. i > cut
    <3> SUFFICES ASSUME i <= cut PROVE FALSE
      BY <1>1, <2>2
    <3>1. i < Len(log) /\ Len(log) \in 1..Len(log)
      BY <1>1, <2>2, StoreAssumption
    <3>2. log[Len(log)].id >= v + (Len(log) - i)
      BY <1>1, <2>1, <2>2, <3>1
    <3>3. log[Len(log)].id < mutations /\ log[Len(log)].id \in Nat
      BY <1>1, <3>1
    <3>4. Len(log) - i >= MaxLines
      BY <1>1, <2>2
    <3>5. QED
      BY <1>1, <2>2, <3>2, <3>3, <3>4
  <2>4. i - cut \in 1..safe /\ i - cut \in 1..(Len(log) - cut) /\ cut + (i - cut) = i
    BY <1>1, <2>1, <2>2, <2>3
  <2>5. rest[i - cut].id = v
    BY <1>2, <2>1, <2>4
  <2>6. QED
    BY <2>4, <2>5
<1>8. QED
  BY <1>0, <1>5, <1>6, <1>7

\* A line of the mutation under way goes after the others.
LEMMA WriteKeeps ==
  ASSUME SaveInv, NEW lines, NEW old, NEW safe, Files(lines, old, safe), Recent(lines, safe),
         \A i \in DOMAIN lines : lines[i].id < mutations, memory = mutations, NEW whole \in BOOLEAN
  PROVE  LET new == Append(lines, Added(lines, old, whole))
         IN  /\ Files(new, old, safe) /\ Recent(new, safe)
             /\ Len(new) > 0 /\ new[Len(new)].id = memory
<1> DEFINE l   == Added(lines, old, whole)
           new == Append(lines, l)
<1>1. l \in Line /\ l.id = memory
  BY DEF Added, Line, SaveInv
<1>2. lines \in Seq(Line) /\ Len(lines) \in Nat /\ DOMAIN lines = 1..Len(lines) /\ mutations \in Nat
  BY DEF Files, SaveInv
<1> HIDE DEF l
<1>3. /\ new \in Seq(Line) /\ Len(new) = Len(lines) + 1
      /\ \A i \in 1..Len(lines) : new[i] = lines[i]
      /\ new[Len(lines) + 1] = l
  BY <1>1, <1>2, AppendProperties
<1>4. DOMAIN new = 1..(Len(lines) + 1)
  BY <1>2, <1>3
<1> HIDE DEF new
<1>5. \A i \in DOMAIN new : i \in 1..Len(lines) \/ i = Len(lines) + 1
  BY <1>2, <1>4
<1>6. \A i \in 1..Len(lines) : lines[i].id \in Nat
  <2>1. \A i \in 1..Len(lines) : lines[i] \in Line
    BY <1>2
  <2>2. QED
    BY <2>1 DEF Line
<1>7. ASSUME NEW i \in DOMAIN new, NEW j \in DOMAIN new, i < j
      PROVE  new[j].id >= new[i].id + (j - i)
  <2>1. CASE j \in 1..Len(lines)
    <3>1. i \in 1..Len(lines)
      BY <1>2, <1>4, <1>7, <2>1
    <3>2. QED
      BY <1>2, <1>3, <1>7, <2>1, <3>1 DEF Files
  <2>2. CASE j = Len(lines) + 1
    <3>1. i \in 1..Len(lines) /\ new[i] = lines[i] /\ new[j].id = mutations
      BY <1>1, <1>2, <1>3, <1>4, <1>7, <2>2
    <3>2. CASE i = Len(lines)
      BY <1>2, <1>6, <2>2, <3>1, <3>2
    <3>3. CASE i < Len(lines)
      <4>1. Len(lines) \in 1..Len(lines)
        BY <1>2, <3>1
      <4>2. lines[Len(lines)].id >= lines[i].id + (Len(lines) - i)
        BY <1>2, <3>1, <3>3, <4>1 DEF Files
      <4>3. lines[Len(lines)].id < mutations
        BY <1>2, <4>1
      <4>4. QED
        BY <1>2, <1>6, <2>2, <3>1, <4>1, <4>2, <4>3
    <3>4. QED
      BY <1>2, <3>1, <3>2, <3>3
  <2>3. QED
    BY <1>5, <2>1, <2>2
<1>8. \A i \in DOMAIN new : new[i].id <= mutations
  BY <1>1, <1>2, <1>3, <1>5, <1>6
<1>9. Files(new, old, safe)
  BY <1>2, <1>3, <1>7, <1>8 DEF Files
<1>10. Recent(new, safe)
  <2>1. \A i \in 1..safe : i \in 1..Len(lines) /\ new[i] = lines[i]
    BY <1>2, <1>3 DEF Files
  <2>2. QED
    BY <2>1 DEF Recent
<1>11. QED
  BY <1>1, <1>2, <1>3, <1>9, <1>10 DEF new, l

LEMMA AuditWriteKeeps ==
  ASSUME TrailInv, SaveInv, NEW rotates \in BOOLEAN, NEW whole \in BOOLEAN, NEW part \in BOOLEAN,
         AuditWrite(rotates, whole, part)
  PROVE  TrailInv'
<1> DEFINE was   == [log |-> log, cut |-> cut, kept |-> kept]
           files == IF Len(log) - cut >= MaxLines /\ rotates THEN Rotated ELSE was
<1>1. /\ phase = "audit" /\ phase' = (IF whole THEN "auditSync" ELSE "create")
      /\ log' = (IF whole \/ part THEN Append(files.log, Added(files.log, files.cut, whole)) ELSE files.log)
      /\ cut' = files.cut /\ kept' = files.kept
      /\ mutations' = mutations /\ memory' = memory /\ acked' = acked
  BY DEF AuditWrite
<1>2. memory = mutations /\ \A i \in DOMAIN log : log[i].id < memory
  BY <1>1 DEF TrailInv
<1>3. /\ Files(files.log, files.cut, files.kept) /\ Recent(files.log, files.kept)
      /\ \A i \in DOMAIN files.log : files.log[i].id < mutations
  <2>1. CASE Len(log) - cut >= MaxLines /\ rotates
    BY <1>1, <1>2, <2>1, RotationKeeps
  <2>2. CASE ~(Len(log) - cut >= MaxLines /\ rotates)
    BY <1>2, <2>2 DEF TrailInv
  <2>3. QED
    BY <2>1, <2>2
<1> HIDE DEF files
<1>4. /\ Files(log', cut', kept') /\ Recent(log', kept')
      /\ whole => Len(log') > 0 /\ log'[Len(log')].id = memory
  <2>1. CASE whole \/ part
    BY <1>1, <1>2, <1>3, <2>1, WriteKeeps
  <2>2. CASE ~(whole \/ part)
    BY <1>1, <1>3, <2>2
  <2>3. QED
    BY <2>1, <2>2
<1>5. Files(log, cut, kept)' /\ Recent(log, kept)'
  BY <1>1, <1>4 DEF Files, Recent
<1>6. QED
  BY <1>1, <1>2, <1>4, <1>5 DEF TrailInv

\* A loss of power leaves a first part of the lines, all that were synced among them.
LEMMA PowerLossKeeps ==
  ASSUME TrailInv, SaveInv, NEW v \in entries, NEW n \in 0..Len(log), NEW part \in BOOLEAN,
         PowerLoss(v, n, part)
  PROVE  TrailInv'
<1> DEFINE torn == IF part THEN <<[log[n + 1] EXCEPT !.is = "torn"]>> ELSE <<>>
           m    == IF part THEN n + 1 ELSE n
           front == SubSeq(log, 1, n)
<1>1. /\ log \in Seq(Line) /\ Len(log) \in Nat /\ DOMAIN log = 1..Len(log) /\ mutations \in Nat
      /\ cut \in 0..Len(log) /\ kept \in 0..Len(log)
      /\ \A i \in 1..Len(log) : log[i] \in Line
  BY DEF TrailInv, Files, SaveInv
<1>2. /\ n \in kept..Len(log) /\ (part => n < Len(log))
      /\ log' = front \o torn
      /\ cut' = (IF cut < Len(log') THEN cut ELSE Len(log')) /\ kept' = Len(log')
      /\ phase' = "idle" /\ mutations' = mutations /\ acked' = acked
  BY DEF PowerLoss
<1>3. m \in 0..Len(log) /\ n \in Nat /\ n <= m
  BY <1>1, <1>2
<1>4. /\ front \in Seq(Line) /\ Len(front) = n
      /\ \A i \in 1..n : front[i] = log[i]
  <2>1. \A i \in 1..n : log[i] \in Line
    BY <1>1
  <2>2. /\ front \in Seq(Line) /\ Len(front) = (IF 1 <= n THEN n - 1 + 1 ELSE 0)
        /\ \A i \in 1..(n - 1 + 1) : front[i] = log[1 + i - 1]
    BY <1>3, <2>1, SubSeqProperties
  <2>3. QED
    BY <1>3, <2>2
<1>5. /\ torn \in Seq(Line) /\ Len(torn) = m - n
      /\ part => torn[1].id = log[m].id
  <2>1. CASE part
    <3>1. log[n + 1] \in Line
      BY <1>1, <1>2, <1>3, <2>1
    <3> DEFINE l == [log[n + 1] EXCEPT !.is = "torn"]
    <3>2. l \in Line /\ l.id = log[n + 1].id
      BY <3>1 DEF Line
    <3>3. torn = <<l>> /\ m = n + 1
      BY <2>1
    <3> HIDE DEF l, torn, m
    <3>4. QED
      BY <1>3, <3>2, <3>3
  <2>2. CASE ~part
    BY <1>3, <2>2
  <2>3. QED
    BY <2>1, <2>2
<1> HIDE DEF torn, front
<1>6. /\ log' \in Seq(Line) /\ Len(log') = m
      /\ \A i \in 1..m : log'[i] = IF i <= n THEN front[i] ELSE torn[i - n]
  <2>1. n + (m - n) = m
    BY <1>3
  <2>2. QED
    BY <1>2, <1>4, <1>5, <2>1, ConcatProperties
<1>7. \A i \in 1..m : i \in 1..Len(log) /\ log'[i].id = log[i].id
  <2> SUFFICES ASSUME NEW i \in 1..m PROVE i \in 1..Len(log) /\ log'[i].id = log[i].id
    OBVIOUS
  <2>1. i \in 1..Len(log)
    BY <1>1, <1>3
  <2>2. CASE i <= n
    BY <1>3, <1>4, <1>6, <2>2
  <2>3. CASE ~(i <= n)
    <3>1. part /\ i = m /\ i - n = 1
      BY <1>3, <2>3
    <3>2. QED
      BY <1>5, <1>6, <2>1, <2>3, <3>1
  <2>4. QED
    BY <2>1, <2>2, <2>3
<1>8. DOMAIN log' = 1..m
  BY <1>3, <1>6
<1>9. Files(log, cut, kept)'
  <2>1. \A i \in 1..m : log'[i].id <= mutations
    BY <1>1, <1>7 DEF TrailInv, Files
  <2>2. \A i, j \in 1..m : i < j => log'[j].id >= log'[i].id + (j - i)
    BY <1>1, <1>7 DEF TrailInv, Files
  <2>3. cut' \in 0..Len(log') /\ kept' \in 0..Len(log')
    BY <1>1, <1>2, <1>3, <1>6
  <2>4. QED
    BY <1>2, <1>6, <1>8, <2>1, <2>2, <2>3 DEF Files
<1>10. Recent(log, kept)'
  <2> SUFFICES ASSUME NEW w \in acked, mutations - w < MaxLines
               PROVE  \E i \in 1..kept' : log'[i].id = w
    BY <1>2 DEF Recent
  <2>1. PICK i \in 1..kept : log[i].id = w
    BY DEF TrailInv, Recent
  <2>2. i \in 1..m
    BY <1>1, <1>2, <1>3
  <2>3. QED
    BY <1>2, <1>6, <1>7, <2>1, <2>2
<1>11. QED
  BY <1>2, <1>9, <1>10 DEF TrailInv

LEMMA TrailInvStep == TrailInv /\ SaveInv /\ [Next]_vars => TrailInv'
<1> SUFFICES ASSUME TrailInv, SaveInv, [Next]_vars PROVE TrailInv'
  OBVIOUS
<1>0. mutations \in Nat /\ log \in Seq(Line) /\ DOMAIN log = 1..Len(log) /\ Len(log) \in Nat
  BY DEF SaveInv, TrailInv, Files
<1>1. CASE Mutate \/ MutateQuietly
  <2>1. /\ mutations' = mutations + 1 /\ memory' = mutations' /\ phase' \in {"audit", "create"}
        /\ log' = log /\ cut' = cut /\ kept' = kept /\ acked' = acked
    BY <1>1 DEF Mutate, MutateQuietly, Changed, audit
  <2>2. \A i \in DOMAIN log : log[i].id \in Nat /\ log[i].id <= mutations
    <3>1. \A i \in DOMAIN log : log[i] \in Line
      BY <1>0
    <3>2. QED
      BY <3>1 DEF Line, TrailInv, Files
  <2>3. Files(log, cut, kept)'
    BY <1>0, <2>1, <2>2 DEF TrailInv, Files
  <2>4. \A v \in acked : v \in Nat
    BY <1>0 DEF TrailInv
  <2>5. MaxLines \in Nat
    BY StoreAssumption
  <2>6. Recent(log, kept)'
    BY <1>0, <2>1, <2>4, <2>5 DEF TrailInv, Recent
  <2>7. acked' \subseteq 0..mutations' /\ \A i \in DOMAIN log' : log'[i].id < memory'
    BY <1>0, <2>1, <2>2 DEF TrailInv
  <2>8. QED
    BY <2>1, <2>3, <2>6, <2>7 DEF TrailInv
<1>2. ASSUME NEW rotates \in BOOLEAN, NEW whole \in BOOLEAN, NEW part \in BOOLEAN,
             AuditWrite(rotates, whole, part)
      PROVE  TrailInv'
  BY <1>2, AuditWriteKeeps
<1>3. ASSUME NEW ok \in BOOLEAN, AuditSync(ok) PROVE TrailInv'
  <2>1. /\ phase = "auditSync" /\ phase' = "create" /\ log' = log /\ cut' = cut
        /\ mutations' = mutations /\ memory' = memory
        /\ kept' = (IF ok THEN Len(log) ELSE kept)
        /\ acked' = (IF ok THEN acked \cup {memory} ELSE acked)
    BY <1>3 DEF AuditSync
  <2>2. memory = mutations /\ Len(log) > 0 /\ log[Len(log)].id = memory /\ kept \in 0..Len(log)
    BY <2>1 DEF TrailInv, Files
  <2>3. kept \in 0..kept' /\ kept' \in 0..Len(log)
    BY <1>0, <2>1, <2>2
  <2>4. Files(log, cut, kept)'
    BY <2>1, <2>3 DEF TrailInv, Files
  <2>5. ASSUME NEW v \in acked', mutations - v < MaxLines
        PROVE  \E i \in 1..kept' : log[i].id = v
    <3>1. CASE v \in acked
      <4>1. PICK i \in 1..kept : log[i].id = v
        BY <2>5, <3>1 DEF TrailInv, Recent
      <4>2. i \in 1..kept'
        BY <1>0, <2>2, <2>3
      <4>3. QED
        BY <4>1, <4>2
    <3>2. CASE v \notin acked
      <4>1. ok /\ v = memory
        BY <2>1, <3>2
      <4>2. Len(log) \in 1..kept'
        BY <1>0, <2>1, <2>2, <4>1
      <4>3. QED
        BY <2>2, <4>1, <4>2
    <3>3. QED
      BY <3>1, <3>2
  <2>6. acked' \subseteq 0..mutations'
    BY <1>0, <2>1, <2>2 DEF TrailInv
  <2>7. QED
    BY <2>1, <2>4, <2>5, <2>6 DEF TrailInv, Recent
<1>4. ASSUME UNCHANGED <<mutations, audit>>, phase' \notin {"audit", "auditSync"}
      PROVE  TrailInv'
  BY <1>4 DEF audit, TrailInv, Files, Recent
<1>5. CASE Prepare
  BY <1>4, <1>5, PhasesOfSave DEF Prepare
<1>6. CASE Rename \/ SyncDir \/ SaveFails \/ Kill
  BY <1>4, <1>6 DEF Rename, SyncDir, SaveFails, Kill
<1>7. ASSUME NEW v \in entries, NEW n \in 0..Len(log), NEW part \in BOOLEAN,
             PowerLoss(v, n, part)
      PROVE  TrailInv'
  BY <1>7, PowerLossKeeps
<1>8. CASE UNCHANGED vars
  BY <1>8 DEF vars, state, audit, TrailInv, Files, Recent
<1>9. QED
  BY <1>1, <1>2, <1>3, <1>5, <1>6, <1>7, <1>8 DEF Next

-----------------------------------------------------------------------------
\* Reading: the scan that cuts its buffer back loses nothing it has to give.

\* A non-empty set of numbers has a first element.
LEMMA FirstOfASet ==
  ASSUME NEW S \in SUBSET Nat, S # {}
  PROVE  \E i \in S : \A j \in S : i <= j
<1> DEFINE Less == {ss \in Nat \X Nat : ss[1] < ss[2]}
<1>1. IsWellFoundedOn(Less, Nat)
  BY NatLessThanWellFounded DEF OpToRel
<1>2. PICK i \in S : \A j \in S : <<j, i>> \notin Less
  <2> HIDE DEF Less
  <2>1. QED
    BY <1>1, WFMin
<1>3. \A j \in S : ~(j < i)
  BY <1>2
<1>4. QED
  BY <1>3

\* One step of the scan over a sequence.
ScanStep(limit, s, f, i) == IF i = 0 THEN <<>> ELSE Trimmed(limit, Append(f[i - 1], s[i]))

\* The scan is well defined.
LEMMA ScanExists ==
  ASSUME NEW s, Len(s) \in Nat, NEW limit
  PROVE  \E f : f = [i \in 0..Len(s) |-> ScanStep(limit, s, f, i)]
<1> DEFINE Scans(f, k) == f = [i \in 0..k |-> ScanStep(limit, s, f, i)]
           Without     == {k \in 0..Len(s) : ~ \E f : Scans(f, k)}
<1>1. SUFFICES ASSUME Without # {} PROVE FALSE
  <2>1. Len(s) \in 0..Len(s)
    OBVIOUS
  <2>2. QED
    BY <1>1, <2>1
<1> HIDE DEF Scans
<1>2. PICK k \in Without : \A m \in Without : k <= m
  <2>1. Without \in SUBSET Nat
    OBVIOUS
  <2> HIDE DEF Without
  <2>2. QED
    BY <1>1, <2>1, FirstOfASet
<1>3. CASE k = 0
  <2> DEFINE g == [i \in 0..0 |-> <<>>]
  <2>1. g = [i \in 0..0 |-> ScanStep(limit, s, g, i)]
    BY DEF ScanStep
  <2>2. Scans(g, 0)
    BY <2>1 DEF Scans
  <2>3. QED
    BY <1>2, <1>3, <2>2
<1>4. CASE k # 0
  <2>1. k \in Nat /\ k - 1 \in 0..Len(s) /\ k - 1 \notin Without
    BY <1>2, <1>4
  <2>2. PICK f : Scans(f, k - 1)
    BY <2>1
  <2> DEFINE g == [i \in 0..k |-> IF i = k THEN ScanStep(limit, s, f, k) ELSE f[i]]
  <2>3. f = [i \in 0..(k - 1) |-> ScanStep(limit, s, f, i)]
    BY <2>2 DEF Scans
  <2>4. ASSUME NEW i \in 0..k PROVE g[i] = ScanStep(limit, s, g, i)
    <3>1. i = 0 \/ (i - 1 \in 0..(k - 1) /\ i - 1 # k /\ i - 1 \in 0..k)
      BY <2>1
    <3>2. i # 0 => g[i - 1] = f[i - 1]
      BY <3>1
    <3>3. ScanStep(limit, s, g, i) = ScanStep(limit, s, f, i)
      BY <3>2 DEF ScanStep
    <3>4. i # k => f[i] = ScanStep(limit, s, f, i)
      <4>1. i # k => i \in 0..(k - 1)
        BY <2>1
      <4>2. QED
        BY <2>3, <4>1
    <3>5. g[i] = ScanStep(limit, s, f, i)
      BY <3>4
    <3>6. QED
      BY <3>3, <3>5
  <2>5. g = [i \in 0..k |-> g[i]]
    OBVIOUS
  <2> HIDE DEF g
  <2>6. g = [i \in 0..k |-> ScanStep(limit, s, g, i)]
    BY <2>4, <2>5
  <2>7. Scans(g, k)
    BY <2>6 DEF Scans
  <2>8. QED
    BY <1>2, <2>7
<1>5. QED
  BY <1>3, <1>4

\* The newest of what is left of a sequence when its beginning is dropped, as long as
\* enough is left.
LEMMA NewestOfATail ==
  ASSUME NEW S, NEW s \in Seq(S), NEW limit \in Nat \ {0}, NEW i \in 0..Len(s), NEW a \in 0..i,
         i - a > limit
  PROVE  Newest(limit, SubSeq(s, a + 1, i)) = SubSeq(s, i - limit + 1, i)
<1> DEFINE t == SubSeq(s, a + 1, i)
<1>1. Len(s) \in Nat /\ i \in 1..Len(s) /\ a + 1 \in 1..Len(s) /\ limit \in Nat
  OBVIOUS
<1>2. Len(t) = i - a
  <2>1. \A j \in (a + 1)..i : s[j] \in S
    BY <1>1
  <2>2. Len(t) = IF a + 1 <= i THEN i - (a + 1) + 1 ELSE 0
    BY <1>1, <2>1, SubSeqProperties
  <2> HIDE DEF t
  <2>3. QED
    BY <1>1, <2>2
<1>3. Newest(limit, t) = SubSeq(t, (i - a) - limit + 1, i - a)
  BY <1>2 DEF Newest
<1>4. /\ (i - a) - limit + 1 \in 1..(i - (a + 1) + 1) /\ i - a \in 1..(i - (a + 1) + 1)
      /\ (a + 1) + ((i - a) - limit + 1) - 1 = i - limit + 1
      /\ (a + 1) + (i - a) - 1 = i
  BY <1>1
<1>5. SubSeq(t, (i - a) - limit + 1, i - a)
        = SubSeq(s, (a + 1) + ((i - a) - limit + 1) - 1, (a + 1) + (i - a) - 1)
  BY <1>1, <1>4, SubSeqOfSubSeq
<1>6. QED
  BY <1>3, <1>4, <1>5

\* At every line the buffer is the end of what was read, and enough of it.
LEMMA ScanKeepsTheEnd ==
  ASSUME NEW S, NEW s \in Seq(S), NEW limit \in Nat \ {0},
         NEW f, f = [i \in 0..Len(s) |-> ScanStep(limit, s, f, i)]
  PROVE  \A i \in 0..Len(s) : \E a \in 0..i :
           f[i] = SubSeq(s, a + 1, i) /\ (a = 0 \/ i - a >= limit)
<1> DEFINE End(i) == \E a \in 0..i : f[i] = SubSeq(s, a + 1, i) /\ (a = 0 \/ i - a >= limit)
           Lost   == {i \in 0..Len(s) : ~End(i)}
<1>1. SUFFICES ASSUME Lost # {} PROVE FALSE
  OBVIOUS
<1>2. \A i \in 0..Len(s) : f[i] = ScanStep(limit, s, f, i)
  OBVIOUS
<1> HIDE DEF End
<1>3. PICK k \in Lost : \A m \in Lost : k <= m
  <2>1. Lost \in SUBSET Nat
    OBVIOUS
  <2> HIDE DEF Lost
  <2>2. QED
    BY <1>1, <2>1, FirstOfASet
<1>4. CASE k = 0
  <2>1. f[0] = <<>> /\ SubSeq(s, 1, 0) = <<>>
    BY <1>2, <1>3, <1>4, SubSeqEmpty DEF ScanStep
  <2>2. 0 \in 0..0 /\ 0 + 1 = 1 /\ f[0] = SubSeq(s, 0 + 1, 0)
    BY <2>1
  <2>3. End(0)
    BY <2>2 DEF End
  <2>4. QED
    BY <1>3, <1>4, <2>3
<1>5. CASE k # 0
  <2>0. Len(s) \in Nat /\ k \in 1..Len(s) /\ limit \in Nat /\ limit > 0
    BY <1>3, <1>5
  <2>1. k - 1 \in 0..Len(s) /\ End(k - 1)
    BY <1>3, <2>0
  <2>2. PICK a \in 0..(k - 1) : f[k - 1] = SubSeq(s, a + 1, k - 1) /\ (a = 0 \/ (k - 1) - a >= limit)
    BY <2>1 DEF End
  <2>3. Append(f[k - 1], s[k]) = SubSeq(s, a + 1, k)
    <3>1. SubSeq(s, a + 1, k) = SubSeq(s, a + 1, k - 1) \o <<s[k]>>
      BY <2>0, <2>2, SubSeqRecursiveSecond
    <3>2. \A j \in (a + 1)..(k - 1) : s[j] \in S
      BY <2>0, <2>2
    <3>3. SubSeq(s, a + 1, k - 1) \in Seq(S)
      BY <2>0, <2>2, <3>2, SubSeqProperties
    <3>4. s[k] \in S
      BY <2>0
    <3>5. QED
      BY <2>2, <3>1, <3>3, <3>4, AppendIsConcat
  <2>4. f[k] = Trimmed(limit, SubSeq(s, a + 1, k))
    BY <1>2, <1>5, <2>0, <2>3 DEF ScanStep
  <2>5. Len(SubSeq(s, a + 1, k)) = k - a
    <3>1. \A j \in (a + 1)..k : s[j] \in S
      BY <2>0, <2>2
    <3>2. Len(SubSeq(s, a + 1, k)) = IF a + 1 <= k THEN k - (a + 1) + 1 ELSE 0
      BY <2>0, <2>2, <3>1, SubSeqProperties
    <3>3. QED
      BY <2>0, <2>2, <3>2
  <2>6. CASE k - a > 2 * limit
    <3>1. k \in 0..Len(s) /\ a \in 0..k /\ k - a > limit
      BY <2>0, <2>2, <2>6
    <3>2. f[k] = SubSeq(s, k - limit + 1, k)
      BY <2>4, <2>5, <2>6, <3>1, NewestOfATail DEF Trimmed
    <3>3. k - limit \in 0..k /\ k - (k - limit) >= limit
      BY <2>0, <3>1
    <3>4. End(k)
      BY <3>2, <3>3 DEF End
    <3>5. QED
      BY <1>3, <3>4
  <2>7. CASE ~(k - a > 2 * limit)
    <3>1. f[k] = SubSeq(s, a + 1, k)
      BY <2>4, <2>5, <2>7 DEF Trimmed
    <3>2. a \in 0..k /\ (a = 0 \/ k - a >= limit)
      BY <2>0, <2>2
    <3>3. End(k)
      BY <3>1, <3>2 DEF End
    <3>4. QED
      BY <1>3, <3>3
  <2>8. QED
    BY <2>6, <2>7
<1>6. QED
  BY <1>4, <1>5

\* What parses of the live file is a sequence.
LEMMA ReadableIsSeq ==
  ASSUME TrailInv
  PROVE  \E S : Readable \in Seq(S)
<1> DEFINE nth(k) == CHOOSE i \in Parsing : Cardinality({j \in Parsing : j <= i}) = k
           n      == Cardinality(Parsing)
           S      == {log[nth(k)] : k \in 1..n}
<1>1. Parsing \in SUBSET (1..Len(log)) /\ Len(log) \in Nat
  BY DEF Parsing, TrailInv, Files
<1>2. IsFiniteSet(1..Len(log))
  BY <1>1, FS_Interval
<1>3. n \in Nat
  BY <1>1, <1>2, FS_Subset, FS_CardinalityType
<1>4. \A k \in 1..n : log[nth(k)] \in S
  OBVIOUS
<1>5. Readable = [k \in 1..n |-> log[nth(k)]]
  BY DEF Readable
<1> HIDE DEF S, nth, n
<1>6. [k \in 1..n |-> log[nth(k)]] \in Seq(S)
  BY <1>3, <1>4, IsASeq
<1>7. QED
  BY <1>5, <1>6

\* Reading with any limit gives the newest entries, however long the file.
LEMMA ReadsTheNewest ==
  ASSUME TrailInv, NEW limit \in Nat \ {0}
  PROVE  ReadAudit(limit) = Newest(limit, Readable)
<1>1. PICK S : Readable \in Seq(S)
  BY ReadableIsSeq
<1> DEFINE s == Readable
           n == Len(s)
           scan[i \in 0..n] == IF i = 0 THEN <<>> ELSE Trimmed(limit, Append(scan[i - 1], s[i]))
<1>2. n \in Nat
  BY <1>1
<1>3. PICK g : g = [i \in 0..n |-> ScanStep(limit, s, g, i)]
  BY <1>2, ScanExists
<1>4. scan = [i \in 0..n |-> IF i = 0 THEN <<>> ELSE Trimmed(limit, Append(scan[i - 1], s[i]))]
  BY <1>3 DEF ScanStep
<1>5. ReadAudit(limit) = Newest(limit, scan[n])
  BY DEF ReadAudit
<1> HIDE DEF scan
<1>6. scan = [i \in 0..n |-> ScanStep(limit, s, scan, i)]
  BY <1>4 DEF ScanStep
<1> HIDE DEF s
<1>7. PICK a \in 0..n : scan[n] = SubSeq(s, a + 1, n) /\ (a = 0 \/ n - a >= limit)
  <2>1. \A i \in 0..Len(s) : \E a \in 0..i :
          scan[i] = SubSeq(s, a + 1, i) /\ (a = 0 \/ i - a >= limit)
    <3>1. s \in Seq(S)
      BY <1>1 DEF s
    <3>2. scan = [i \in 0..Len(s) |-> ScanStep(limit, s, scan, i)]
      BY <1>6
    <3>3. QED
      BY <3>1, <3>2, ScanKeepsTheEnd
  <2>2. n \in 0..Len(s)
    BY <1>2
  <2>3. QED
    BY <2>1, <2>2
<1>8. CASE n - a > limit
  <2>1. Newest(limit, scan[n]) = SubSeq(s, n - limit + 1, n)
    BY <1>1, <1>2, <1>7, <1>8, NewestOfATail DEF s
  <2>2. n > limit
    BY <1>2, <1>7, <1>8
  <2>3. QED
    BY <1>5, <2>1, <2>2 DEF Newest, s
<1>9. CASE ~(n - a > limit)
  <2>1. \A j \in (a + 1)..n : s[j] \in S
    BY <1>1, <1>2, <1>7 DEF s
  <2>2. Len(SubSeq(s, a + 1, n)) = IF a + 1 <= n THEN n - (a + 1) + 1 ELSE 0
    BY <1>2, <1>7, <2>1, SubSeqProperties
  <2>3. ~(Len(scan[n]) > limit)
    BY <1>2, <1>7, <1>9, <2>2
  <2>4. Newest(limit, scan[n]) = SubSeq(s, a + 1, n)
    BY <1>7, <2>3 DEF Newest
  <2>5. CASE a = 0
    <3>1. SubSeq(s, 1, n) = s
      BY <1>1, SubSeqFull DEF s
    <3>2. ~(Len(s) > limit)
      BY <1>2, <1>9, <2>5
    <3>3. Newest(limit, s) = s
      BY <3>2 DEF Newest
    <3>4. SubSeq(s, a + 1, n) = s
      <4>1. a + 1 = 1
        BY <2>5
      <4>2. QED
        BY <3>1, <4>1
    <3>5. ReadAudit(limit) = Newest(limit, s)
      BY <1>5, <2>4, <3>3, <3>4
    <3>6. QED
      BY <3>5 DEF s
  <2>6. CASE a # 0
    <3>1. n - a = limit /\ n > limit /\ a + 1 = n - limit + 1
      BY <1>2, <1>7, <1>9, <2>6
    <3>2. Newest(limit, s) = SubSeq(s, n - limit + 1, n)
      BY <3>1 DEF Newest
    <3>3. SubSeq(s, a + 1, n) = SubSeq(s, n - limit + 1, n)
      BY <3>1
    <3>4. ReadAudit(limit) = Newest(limit, s)
      BY <1>5, <2>4, <3>2, <3>3
    <3>5. QED
      BY <3>4 DEF s
  <2>7. QED
    BY <2>5, <2>6
<1>10. QED
  BY <1>8, <1>9

\* The trail is in the order of the mutations, its newest MaxLines entries survive
\* every rotation, failure and restart, and reading gives the newest of them (Audit,
\* ReadAudit).
THEOREM TrailStaysRecent == Spec => []TrailIsRecent
<1>1. TrailInv /\ SaveInv => TrailIsRecent
  <2> SUFFICES ASSUME TrailInv, SaveInv PROVE TrailIsRecent
    OBVIOUS
  <2>1. \A i \in DOMAIN log : log[i].id \in Nat /\ i \in Nat
    <3>1. \A i \in DOMAIN log : log[i] \in Line
      BY DEF TrailInv, Files
    <3>2. \A l \in Line : l.id \in Nat
      BY DEF Line
    <3>3. QED
      BY <3>1, <3>2 DEF TrailInv, Files
  <2>2. \A i, j \in DOMAIN log : i < j => log[i].id < log[j].id
    BY <2>1 DEF TrailInv, Files
  <2>3. \A i \in 1..kept : i \in DOMAIN log
    BY DEF TrailInv, Files
  <2>4. \A v \in acked : mutations - v < MaxLines => \E i \in DOMAIN log : log[i].id = v
    BY <2>3 DEF TrailInv, Recent
  <2>5. \A limit \in 1..3 : ReadAudit(limit) = Newest(limit, Readable)
    BY ReadsTheNewest
  <2>6. QED
    BY <2>2, <2>4, <2>5 DEF TrailIsRecent
<1>2. QED
  BY <1>1, TrailInvInit, TrailInvStep, SaveInOrder, PTL DEF Spec
=============================================================================
