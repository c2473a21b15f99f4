----------------------- MODULE CleanupJournal_proofs -----------------------
(***************************************************************************)
(* Proofs about CleanupJournal, for any files, any number of transactions, *)
(* failing calls, kills and edits: that no file in quarantine is out of    *)
(* the inventory's sight, that a clean check means a settled checkout, and *)
(* that neither a published retirement nor a user's byte is undone.        *)
(***************************************************************************)
EXTENDS CleanupJournal, TLAPS

Scanning == {"scan", "bind", "move", "check"}
Planned == {"bind", "move", "check"}
Backing == {"rollback", "returned"}
Labels == {"idle", "recover", "zero", "retire", "generate"} \union Scanning \union Backing

Memory ==
  [old : SUBSET Quarantines, write : SUBSET Files, todo : SUBSET Files,
   seen : [Instructions -> File \union {None}], next : Manifest, entries : Seq(Entry),
   k : Nat, bad : BOOLEAN, recovering : BOOLEAN]

(* What is on the disk makes sense by itself, so that an init may be       *)
(* killed anywhere: every quarantine is known to the manifest or to the    *)
(* journal, and a journal of which the manifest knows one quarantine is    *)
(* committed as a whole.                                                   *)
DiskInv ==
  /\ at \in [Files -> File \union {None}] /\ box \in [Quarantines -> File \union {None}]
  /\ journal \in Journal \union {None} /\ manifest \in Manifest /\ run \in 0 .. MaxRuns
  /\ \A q \in manifest.quarantines : q[2] <= run /\ (box[q] # None => box[q].bytes = "stdd")
  /\ InventoryFindsAll
  /\ journal # None =>
       /\ journal.blank => journal.entries = <<>>
       /\ (\E i \in DOMAIN journal.entries : PathOf(journal.entries[i]) \in manifest.quarantines)
            => Committed(journal)

(* What the running init remembers.  A transaction number is left when     *)
(* there is something to retire, and nothing is both kept and retired.     *)
MemInv ==
  /\ pc \in Labels /\ mem \in Memory
  /\ run = MaxRuns /\ (mem.recovering \/ mem.entries = <<>>) => mem.todo = {}
  /\ mem.write \intersect mem.todo = {} /\ mem.next.files \intersect mem.todo = {}
  /\ (pc # "idle" /\ mem.recovering) \/ pc = "generate" => mem.old = manifest.quarantines
  /\ pc \in {"generate"} \union Scanning => ~mem.recovering
  /\ pc = "generate" => mem.entries = <<>> /\ journal = None
  /\ pc = "recover" => mem.recovering /\ mem.entries = <<>>

(* A journal is zeroed only when the manifest knows every quarantine.      *)
ZeroInv ==
  /\ pc = "zero" => journal # None /\ \A q \in Quarantines : box[q] # None => q \in manifest.quarantines
  /\ pc = "retire" => journal # None /\ journal.entries = <<>>

(* The entries of a running transaction that are in quarantine for good:   *)
(* all of them, but for the one at work.                                   *)
SettledNow == {i \in DOMAIN mem.entries : pc = "scan" \/ i # mem.k}

Settled(i) ==
  LET e == mem.entries[i]
  IN  /\ e.phase = "quarantined" /\ PathOf(e) \in mem.next.quarantines
      /\ e.keepSource <=> e.file \in mem.next.files
      /\ box[PathOf(e)] # None

(* The journal mirrors the entries; their paths are new, each entry's own, *)
(* and what is to be published is what is in quarantine.                   *)
EntriesInv ==
  /\ mem.entries = <<>> => journal = None
  /\ mem.entries # <<>> =>
       /\ journal = [entries |-> mem.entries, blank |-> FALSE, id |-> run]
       /\ \A q \in manifest.quarantines : q[2] < run
  /\ \A i \in DOMAIN mem.entries : mem.entries[i].run = run /\ mem.entries[i].file \notin mem.todo
  /\ \A i, j \in DOMAIN mem.entries : mem.entries[i].file = mem.entries[j].file => i = j

NextInv ==
  /\ \A i \in SettledNow : Settled(i)
  /\ \A q \in mem.next.quarantines :
       /\ q \in manifest.quarantines \/ \E i \in SettledNow : q = PathOf(mem.entries[i])
       /\ box[q] # None => box[q].bytes = "stdd"
  /\ \A q \in manifest.quarantines : box[q] # None => q \in mem.next.quarantines

PlannedInv ==
  /\ mem.k \in DOMAIN mem.entries
  /\ mem.entries[mem.k].file \notin mem.next.files
  /\ pc # "check" => box[PathOf(mem.entries[mem.k])] = None

ScanInv ==
  pc \in Scanning => EntriesInv /\ NextInv /\ (pc \in Planned => PlannedInv)

(* Only what the manifest does not know is rolled back, and what has been  *)
(* dealt with is out of quarantine.                                        *)
RollbackInv ==
  pc \in Backing =>
    /\ journal # None /\ Len(journal.entries) = Len(mem.entries)
    /\ \A i \in DOMAIN mem.entries : /\ PathOf(journal.entries[i]) = PathOf(mem.entries[i])
                                     /\ PathOf(mem.entries[i]) \notin manifest.quarantines
    /\ mem.k <= Len(mem.entries) /\ (pc = "returned" => mem.k > 0)
    /\ ~mem.bad => \A i \in DOMAIN mem.entries : i > mem.k => box[PathOf(mem.entries[i])] = None

IInv == DiskInv /\ MemInv /\ ZeroInv /\ ScanInv /\ RollbackInv

-----------------------------------------------------------------------------
(* THE OPERATORS.                                                          *)
LEMMA PathFacts ==
  ASSUME NEW e \in Entry
  PROVE  /\ PathOf(e) \in Quarantines /\ PathOf(e)[2] = e.run
         /\ e.file \in Files /\ e.run \in Runs /\ e.made \in 0 .. User
         /\ \A d \in Entry : PathOf(d) = PathOf(e) => d.file = e.file /\ d.run = e.run
  BY DEF Entry, PathOf, Quarantines

LEMMA SamePath ==
  ASSUME NEW d, NEW e, d.file = e.file, d.run = e.run
  PROVE  PathOf(d) = PathOf(e)
  BY DEF PathOf

LEMMA StateMeans ==
  ASSUME NEW e
  PROVE  /\ StateOf(e) = "restored" => box[PathOf(e)] = None
         /\ StateOf(e) = "quarantined" => box[PathOf(e)] # None /\ box[PathOf(e)].bytes = "stdd"
  BY DEF StateOf, Exact

LEMMA EntryAt ==
  ASSUME NEW q \in Seq(Entry), NEW i \in DOMAIN q
  PROVE  /\ q[i] \in Entry /\ PathOf(q[i]) \in Quarantines /\ PathOf(q[i])[2] = q[i].run
         /\ i \in 1 .. Len(q) /\ i \in Nat /\ q # <<>>
<1>1. q[i] \in Entry /\ i \in 1 .. Len(q) /\ Len(q) \in Nat
  OBVIOUS
<1>2. q # <<>>
  BY <1>1
<1> QED BY <1>1, <1>2, PathFacts

(* An entry whose fate is not known is still the same entry.               *)
Marked(q, k) == [q EXCEPT ![k].phase = "unresolved"]

LEMMA MarkedFacts ==
  ASSUME NEW q \in Seq(Entry), NEW k \in DOMAIN q
  PROVE  /\ Marked(q, k) \in Seq(Entry) /\ Len(Marked(q, k)) = Len(q)
         /\ DOMAIN Marked(q, k) = DOMAIN q /\ Marked(q, k)[k].phase = "unresolved"
         /\ \A i \in DOMAIN q : PathOf(Marked(q, k)[i]) = PathOf(q[i])
<1>1. q[k] \in Entry
  OBVIOUS
<1> DEFINE e == [q[k] EXCEPT !.phase = "unresolved"]
<1>2. e \in Entry /\ e.file = q[k].file /\ e.run = q[k].run /\ e.phase = "unresolved"
  BY <1>1 DEF Entry
<1>3. Marked(q, k) = [q EXCEPT ![k] = e]
  BY DEF Marked
<1> HIDE DEF e
<1>4. /\ Marked(q, k) \in Seq(Entry) /\ Len(Marked(q, k)) = Len(q)
      /\ DOMAIN Marked(q, k) = DOMAIN q /\ Marked(q, k)[k] = e
      /\ \A i \in DOMAIN q : i # k => Marked(q, k)[i] = q[i]
  BY <1>2, <1>3
<1>5. PathOf(e) = PathOf(q[k])
  BY <1>2, SamePath
<1> QED BY <1>2, <1>4, <1>5

LEMMA UnresolvedFacts ==
  ASSUME NEW m \in Memory, m.k \in DOMAIN m.entries
  PROVE  LET n == Unresolved(m)
         IN  /\ n \in Memory /\ n.entries = Marked(m.entries, m.k) /\ n.k = m.k - 1 /\ n.bad
             /\ n.recovering = m.recovering /\ n.old = m.old /\ n.todo = m.todo
             /\ n.write = m.write /\ n.next = m.next
<1> DEFINE es == Marked(m.entries, m.k)
<1>1. m.entries \in Seq(Entry)
  BY DEF Memory
<1>2. es \in Seq(Entry)
  BY <1>1, MarkedFacts
<1>3. m.k - 1 \in Nat
  BY <1>1
<1>4. Unresolved(m) = [m EXCEPT !.entries = es, !.k = m.k - 1, !.bad = TRUE]
  BY DEF Unresolved, Marked, Memory
<1> HIDE DEF es
<1> QED BY <1>2, <1>3, <1>4 DEF Memory, es

LEMMA NoMemoryFacts ==
  /\ NoMemory \in Memory /\ NoMemory.todo = {} /\ NoMemory.write = {} /\ NoMemory.next.files = {}
<1>1. [files |-> {}, quarantines |-> {}, tombs |-> {}] \in Manifest
  BY DEF Manifest
<1>2. <<>> \in Seq(Entry) /\ [f \in Instructions |-> None] \in [Instructions -> File \union {None}]
  OBVIOUS
<1> QED BY <1>1, <1>2 DEF NoMemory, Memory

(* An init may stop whenever the disk makes sense.                         *)
LEMMA EndKeeps ==
  ASSUME DiskInv', End
  PROVE  IInv'
<1>1. pc' = "idle" /\ mem' = NoMemory
  BY DEF End, GotoWith
<1>2. MemInv'
  BY <1>1, NoMemoryFacts DEF MemInv, Labels, Scanning
<1>3. ZeroInv' /\ ScanInv' /\ RollbackInv'
  BY <1>1 DEF ZeroInv, ScanInv, RollbackInv, Scanning, Backing
<1> QED BY <1>2, <1>3 DEF IInv

LEMMA DiskStays ==
  ASSUME DiskInv, UNCHANGED <<disk, run>>
  PROVE  DiskInv'
  BY DEF DiskInv, disk, InventoryFindsAll, Inventory, Committed

LEMMA InitInv == Init => IInv
<1> SUFFICES ASSUME Init PROVE IInv
  OBVIOUS
<1>1. Fresh(0) \in File
  BY FilesAssumption DEF Fresh, File, User
<1>2. at \in [Files -> File \union {None}] /\ box \in [Quarantines -> File \union {None}]
  BY <1>1 DEF Init
<1>3. manifest \in Manifest /\ manifest.quarantines = {} /\ run \in 0 .. MaxRuns /\ journal = None
  BY FilesAssumption DEF Init, Manifest
<1>4. InventoryFindsAll
  BY DEF Init, InventoryFindsAll
<1>5. DiskInv
  BY <1>2, <1>3, <1>4 DEF DiskInv
<1>6. MemInv
  BY NoMemoryFacts DEF Init, MemInv, Labels, Scanning
<1>7. ZeroInv /\ ScanInv /\ RollbackInv
  BY DEF Init, ZeroInv, ScanInv, RollbackInv, Scanning, Backing
<1> QED BY <1>5, <1>6, <1>7 DEF IInv

-----------------------------------------------------------------------------
(* THE START AND THE RECOVERY.                                             *)
LEMMA StartKeeps == IInv /\ Start => IInv'
<1> SUFFICES ASSUME IInv, Start PROVE IInv'
  OBVIOUS
<1>1. PICK keep \in SUBSET (Files \ Released) :
        /\ run = MaxRuns => keep = Files \ Released
        /\ GotoWith("recover", [NoMemory EXCEPT
             !.write = keep,
             !.seen = [f \in Instructions |-> at[f]],
             !.next = [files |-> {}, quarantines |-> {}, tombs |-> manifest.tombs],
             !.todo = (manifest.files \ (keep \union Released))
                        \union {f \in Instructions \ keep :
                                  at[f] # None /\ at[f].bytes = "stdd"},
             !.old = manifest.quarantines])
  BY DEF Start
<1> DEFINE todo == (manifest.files \ (keep \union Released))
                     \union {f \in Instructions \ keep : at[f] # None /\ at[f].bytes = "stdd"}
           seen == [f \in Instructions |-> at[f]]
           next == [files |-> {}, quarantines |-> {}, tombs |-> manifest.tombs]
<1>2. /\ UNCHANGED <<disk, run>> /\ pc' = "recover"
      /\ mem' = [NoMemory EXCEPT !.write = keep, !.seen = seen, !.next = next, !.todo = todo,
                                 !.old = manifest.quarantines]
  BY <1>1 DEF Start, GotoWith
<1>3. manifest \in Manifest /\ manifest.files \subseteq Outputs /\ manifest.quarantines \subseteq Quarantines
      /\ at \in [Files -> File \union {None}]
  BY DEF IInv, DiskInv, Manifest
<1>4. todo \subseteq Files /\ keep \subseteq Files /\ keep \intersect todo = {}
  BY <1>3 DEF Files
<1>5. run = MaxRuns => todo = {}
  <2>1. run = MaxRuns => Instructions \subseteq keep /\ manifest.files \subseteq keep \union Released
    BY <1>1, <1>3, FilesAssumption DEF Files
  <2> QED BY <2>1
<1>6. seen \in [Instructions -> File \union {None}] /\ next \in Manifest /\ next.files = {}
  BY <1>3 DEF Files, Manifest
<1> HIDE DEF todo, seen, next
<1>7. /\ mem' \in Memory /\ mem'.recovering = NoMemory.recovering /\ mem'.todo = todo
      /\ mem'.entries = NoMemory.entries /\ mem'.write = keep /\ mem'.next = next /\ mem'.old = manifest.quarantines
  BY <1>2, <1>3, <1>4, <1>6, NoMemoryFacts DEF Memory
<1>8. NoMemory.recovering /\ NoMemory.entries = <<>>
  BY DEF NoMemory
<1>9. DiskInv' /\ UNCHANGED <<manifest, run>>
  BY <1>2, DiskStays DEF IInv, disk
<1>10. MemInv'
  BY <1>2, <1>4, <1>5, <1>6, <1>7, <1>8, <1>9 DEF MemInv, Labels, Scanning
<1>11. ZeroInv' /\ ScanInv' /\ RollbackInv'
  BY <1>2 DEF ZeroInv, ScanInv, RollbackInv, Scanning, Backing
<1> QED BY <1>9, <1>10, <1>11 DEF IInv

LEMMA RecoverNothingKeeps == IInv /\ RecoverNothing => IInv'
<1> SUFFICES ASSUME IInv, RecoverNothing PROVE IInv'
  OBVIOUS
<1>1. /\ pc = "recover" /\ journal = None /\ UNCHANGED <<disk, run>> /\ pc' = "generate"
      /\ mem' = [mem EXCEPT !.recovering = FALSE]
  BY DEF RecoverNothing, GotoWith
<1>2. mem \in Memory /\ mem.recovering /\ mem.old = manifest.quarantines
  BY <1>1 DEF IInv, MemInv
<1>3. /\ mem' \in Memory /\ ~mem'.recovering /\ mem'.todo = mem.todo /\ mem'.write = mem.write
      /\ mem'.next = mem.next /\ mem'.old = mem.old /\ mem'.entries = mem.entries
  BY <1>1, <1>2 DEF Memory
<1>4. DiskInv' /\ UNCHANGED <<manifest, run, journal>>
  BY <1>1, DiskStays DEF IInv, disk
<1>5. mem.entries = <<>>
  BY <1>1 DEF IInv, MemInv
<1>6. MemInv'
  BY <1>1, <1>2, <1>3, <1>4, <1>5 DEF IInv, MemInv, Labels, Scanning
<1>7. ZeroInv' /\ ScanInv' /\ RollbackInv'
  BY <1>1 DEF ZeroInv, ScanInv, RollbackInv, Scanning, Backing
<1> QED BY <1>4, <1>6, <1>7 DEF IInv

LEMMA RecoverBlankKeeps == IInv /\ RecoverBlank => IInv'
<1> SUFFICES ASSUME IInv, RecoverBlank PROVE IInv'
  OBVIOUS
<1>1. /\ pc = "recover" /\ journal # None /\ journal.blank /\ UNCHANGED <<disk, run>>
      /\ Goto("zero") \/ End
  BY DEF RecoverBlank
<1>2. DiskInv' /\ UNCHANGED <<box, manifest, run, journal>>
  BY <1>1, DiskStays DEF IInv, disk
<1>3. CASE End
  BY <1>2, <1>3, EndKeeps
<1>4. CASE Goto("zero")
  <2>1. pc' = "zero" /\ mem' = mem
    BY <1>4 DEF Goto
  <2>2. MemInv'
    BY <1>1, <1>2, <2>1 DEF IInv, MemInv, Labels, Scanning
  <2>3. \A q \in Quarantines : box[q] # None => q \in manifest.quarantines
    <3>1. journal.entries = <<>>
      BY <1>1 DEF IInv, DiskInv
    <3>2. {PathOf(journal.entries[i]) : i \in 1 .. Len(journal.entries)} = {}
      BY <3>1
    <3> QED BY <3>2 DEF IInv, DiskInv, InventoryFindsAll, Inventory
  <2>4. ZeroInv'
    BY <1>1, <1>2, <2>1, <2>3 DEF ZeroInv
  <2>5. ScanInv' /\ RollbackInv'
    BY <2>1 DEF ScanInv, RollbackInv, Scanning, Backing
  <2> QED BY <1>2, <2>2, <2>4, <2>5 DEF IInv
<1> QED BY <1>1, <1>3, <1>4

LEMMA JournalFacts ==
  ASSUME DiskInv, journal # None
  PROVE  /\ journal \in Journal /\ journal.entries \in Seq(Entry)
         /\ DOMAIN journal.entries = 1 .. Len(journal.entries) /\ journal.id \in Runs
  BY DEF DiskInv, Journal

LEMMA RecoverCommittedKeeps == IInv /\ RecoverCommitted => IInv'
<1> SUFFICES ASSUME IInv, RecoverCommitted PROVE IInv'
  OBVIOUS
<1>1. /\ pc = "recover" /\ journal # None /\ Committed(journal) /\ UNCHANGED <<disk, run>>
      /\ Goto("zero") \/ End
  BY DEF RecoverCommitted
<1>2. DiskInv' /\ UNCHANGED <<box, manifest, run, journal>>
  BY <1>1, DiskStays DEF IInv, disk
<1>3. CASE End
  BY <1>2, <1>3, EndKeeps
<1>4. CASE Goto("zero")
  <2>1. pc' = "zero" /\ mem' = mem
    BY <1>4 DEF Goto
  <2>2. MemInv'
    BY <1>1, <1>2, <2>1 DEF IInv, MemInv, Labels, Scanning
  <2>3. \A i \in 1 .. Len(journal.entries) : PathOf(journal.entries[i]) \in manifest.quarantines
    BY <1>1 DEF Committed
  <2>4. \A q \in Quarantines : box[q] # None => q \in manifest.quarantines
    BY <1>1, <2>3 DEF IInv, DiskInv, InventoryFindsAll, Inventory
  <2>5. ZeroInv'
    BY <1>1, <1>2, <2>1, <2>4 DEF ZeroInv
  <2>6. ScanInv' /\ RollbackInv'
    BY <2>1 DEF ScanInv, RollbackInv, Scanning, Backing
  <2> QED BY <1>2, <2>2, <2>5, <2>6 DEF IInv
<1> QED BY <1>1, <1>3, <1>4

LEMMA RecoverRollbackKeeps == IInv /\ RecoverRollback => IInv'
<1> SUFFICES ASSUME IInv, RecoverRollback PROVE IInv'
  OBVIOUS
<1>1. /\ pc = "recover" /\ journal # None /\ ~Committed(journal) /\ UNCHANGED <<disk, run>>
      /\ pc' = "rollback"
      /\ mem' = [mem EXCEPT !.entries = journal.entries, !.k = Len(journal.entries), !.bad = FALSE]
  BY DEF RecoverRollback, GotoWith
<1>2. /\ journal.entries \in Seq(Entry) /\ Len(journal.entries) \in Nat
      /\ DOMAIN journal.entries = 1 .. Len(journal.entries) /\ mem \in Memory
  BY <1>1, JournalFacts DEF IInv, MemInv
<1>3. /\ mem' \in Memory /\ mem'.entries = journal.entries /\ mem'.k = Len(journal.entries)
      /\ mem'.recovering = mem.recovering /\ mem'.todo = mem.todo /\ mem'.write = mem.write
      /\ mem'.next = mem.next /\ mem'.old = mem.old
  BY <1>1, <1>2 DEF Memory
<1>4. DiskInv' /\ UNCHANGED <<box, manifest, run, journal>>
  BY <1>1, DiskStays DEF IInv, disk
<1>5. MemInv'
  BY <1>1, <1>3, <1>4 DEF IInv, MemInv, Labels, Scanning, Backing
<1>6. \A i \in DOMAIN journal.entries : PathOf(journal.entries[i]) \notin manifest.quarantines
  BY <1>1 DEF IInv, DiskInv
<1>7. \A i \in DOMAIN journal.entries : ~(i > Len(journal.entries))
  BY <1>2
<1>8. RollbackInv'
  <2>1. \A i \in DOMAIN mem'.entries : PathOf(mem'.entries[i]) \notin manifest'.quarantines
    BY <1>3, <1>4, <1>6
  <2>2. \A i \in DOMAIN mem'.entries : ~(i > mem'.k)
    BY <1>3, <1>7
  <2>3. mem'.k <= Len(mem'.entries)
    BY <1>2, <1>3
  <2> QED BY <1>1, <1>3, <1>4, <2>1, <2>2, <2>3 DEF RollbackInv
<1>9. ZeroInv' /\ ScanInv'
  BY <1>1 DEF ZeroInv, ScanInv, Scanning
<1> QED BY <1>4, <1>5, <1>8, <1>9 DEF IInv

(* Files change, and what leaves a quarantine leaves nothing behind.       *)
LEMMA EmptyingKeepsDisk ==
  ASSUME DiskInv, UNCHANGED <<journal, manifest, run>>, at' \in [Files -> File \union {None}],
         box' \in [Quarantines -> File \union {None}],
         \A q \in Quarantines : box'[q] # None => box'[q] = box[q]
  PROVE  DiskInv'
<1>1. manifest.quarantines \subseteq Quarantines
  BY DEF DiskInv, Manifest
<1>2. InventoryFindsAll'
  BY DEF DiskInv, InventoryFindsAll, Inventory
<1>3. \A q \in manifest'.quarantines : q[2] <= run' /\ (box'[q] # None => box'[q].bytes = "stdd")
  BY <1>1 DEF DiskInv
<1> QED BY <1>2, <1>3 DEF DiskInv, Committed

(* The entry being rolled back.                                            *)
LEMMA RollingBack ==
  ASSUME IInv, pc \in Backing, mem.k > 0
  PROVE  /\ mem \in Memory /\ mem.entries \in Seq(Entry) /\ mem.k \in DOMAIN mem.entries
         /\ mem.k \in Nat /\ mem.k - 1 \in Nat /\ mem.entries[mem.k] \in Entry
         /\ PathOf(mem.entries[mem.k]) \in Quarantines
         /\ PathOf(mem.entries[mem.k]) \notin manifest.quarantines
<1>1. mem \in Memory /\ mem.k \in Nat /\ mem.entries \in Seq(Entry)
  BY DEF IInv, MemInv, Memory
<1>2. mem.k <= Len(mem.entries)
  BY DEF IInv, RollbackInv
<1>3. mem.k \in DOMAIN mem.entries
  BY <1>1, <1>2
<1> QED BY <1>1, <1>3, EntryAt DEF IInv, RollbackInv

(* One entry less, the disk as it is.                                      *)
LEMMA NextEntryKeeps ==
  ASSUME IInv, pc \in Backing, mem.k > 0, UNCHANGED <<disk, run>>, pc' = "rollback",
         \/ mem' = [mem EXCEPT !.k = @ - 1] /\ box[PathOf(mem.entries[mem.k])] = None
         \/ mem' = Unresolved(mem)
  PROVE  IInv'
<1>1. /\ mem \in Memory /\ mem.entries \in Seq(Entry) /\ mem.k \in DOMAIN mem.entries
      /\ mem.k \in Nat /\ mem.k - 1 \in Nat
  BY RollingBack
<1>2. DiskInv' /\ UNCHANGED <<at, box, manifest, run, journal>>
  BY DiskStays DEF IInv, disk
<1>3. /\ mem' \in Memory /\ mem'.recovering = mem.recovering /\ mem'.old = mem.old
      /\ mem'.todo = mem.todo /\ mem'.write = mem.write /\ mem'.next = mem.next
      /\ mem'.k = mem.k - 1 /\ Len(mem'.entries) = Len(mem.entries)
      /\ DOMAIN mem'.entries = DOMAIN mem.entries
      /\ \A i \in DOMAIN mem.entries : PathOf(mem'.entries[i]) = PathOf(mem.entries[i])
      /\ mem'.bad \/ (mem'.bad = mem.bad /\ box[PathOf(mem.entries[mem.k])] = None)
  <2>1. CASE mem' = [mem EXCEPT !.k = @ - 1] /\ box[PathOf(mem.entries[mem.k])] = None
    <3>1. /\ mem' \in Memory /\ mem'.recovering = mem.recovering /\ mem'.old = mem.old
          /\ mem'.todo = mem.todo /\ mem'.write = mem.write /\ mem'.next = mem.next
          /\ mem'.k = mem.k - 1 /\ mem'.entries = mem.entries /\ mem'.bad = mem.bad
      BY <1>1, <2>1 DEF Memory
    <3> QED BY <2>1, <3>1
  <2>2. CASE mem' = Unresolved(mem)
    BY <1>1, <2>2, UnresolvedFacts, MarkedFacts
  <2> QED BY <2>1, <2>2
<1>4. mem'.entries = <<>> <=> mem.entries = <<>>
  BY <1>1, <1>3
<1>5. MemInv'
  BY <1>2, <1>3, <1>4 DEF IInv, MemInv, Labels, Scanning, Backing
<1>6. RollbackInv'
  <2>1. /\ journal # None /\ Len(journal.entries) = Len(mem.entries) /\ mem.k <= Len(mem.entries)
        /\ \A i \in DOMAIN mem.entries : /\ PathOf(journal.entries[i]) = PathOf(mem.entries[i])
                                         /\ PathOf(mem.entries[i]) \notin manifest.quarantines
        /\ ~mem.bad => \A i \in DOMAIN mem.entries : i > mem.k => box[PathOf(mem.entries[i])] = None
    BY DEF IInv, RollbackInv
  <2>2. mem'.k <= Len(mem'.entries)
    BY <1>1, <1>3, <2>1
  <2>3. ~mem'.bad => \A i \in DOMAIN mem.entries : i > mem.k - 1 => box[PathOf(mem.entries[i])] = None
    <3>1. \A i \in DOMAIN mem.entries : i > mem.k - 1 => i = mem.k \/ i > mem.k
      BY <1>1
    <3> QED BY <1>3, <2>1, <3>1
  <2> QED BY <1>2, <1>3, <2>1, <2>2, <2>3 DEF RollbackInv
<1>7. ZeroInv' /\ ScanInv'
  BY DEF ZeroInv, ScanInv, Scanning
<1> QED BY <1>2, <1>5, <1>6, <1>7 DEF IInv

LEMMA RollbackKeeps == IInv /\ Rollback => IInv'
<1> SUFFICES ASSUME IInv, Rollback PROVE IInv'
  OBVIOUS
<1> PICK e : e = mem.entries[mem.k]
  OBVIOUS
<1>1. /\ pc = "rollback" /\ mem.k > 0 /\ UNCHANGED run
      /\ \/ /\ StateOf(e) = "restored" /\ pc' = "rollback" /\ mem' = [mem EXCEPT !.k = @ - 1]
            /\ UNCHANGED disk
         \/ /\ StateOf(e) = "quarantined" /\ ~KeepsSource(e)
            /\ at' = [at EXCEPT ![e.file] = box[PathOf(e)]]
            /\ box' = [box EXCEPT ![PathOf(e)] = None]
            /\ pc' = "returned" /\ mem' = mem /\ UNCHANGED <<journal, manifest>>
         \/ pc' = "rollback" /\ mem' = Unresolved(mem) /\ UNCHANGED disk
  BY DEF Rollback, Goto, GotoWith
<1>2. pc \in Backing
  BY <1>1 DEF Backing
<1>3. e \in Entry /\ PathOf(e) \in Quarantines /\ PathOf(e) \notin manifest.quarantines
  BY <1>1, <1>2, RollingBack
<1>4. CASE StateOf(e) = "restored" /\ pc' = "rollback" /\ mem' = [mem EXCEPT !.k = @ - 1] /\ UNCHANGED disk
  BY <1>1, <1>2, <1>4, StateMeans, NextEntryKeeps
<1>5. CASE pc' = "rollback" /\ mem' = Unresolved(mem) /\ UNCHANGED disk
  BY <1>1, <1>2, <1>5, NextEntryKeeps
<1>6. CASE /\ at' = [at EXCEPT ![e.file] = box[PathOf(e)]]
           /\ box' = [box EXCEPT ![PathOf(e)] = None]
           /\ pc' = "returned" /\ mem' = mem /\ UNCHANGED <<journal, manifest>>
  <2>1. at \in [Files -> File \union {None}] /\ box \in [Quarantines -> File \union {None}]
    BY DEF IInv, DiskInv
  <2>2. /\ at' \in [Files -> File \union {None}] /\ box' \in [Quarantines -> File \union {None}]
        /\ \A q \in Quarantines : box'[q] # None => box'[q] = box[q]
    BY <1>3, <1>6, <2>1, PathFacts
  <2>3. DiskInv'
    BY <1>1, <1>6, <2>2, EmptyingKeepsDisk DEF IInv
  <2>4. MemInv'
    BY <1>1, <1>6 DEF IInv, MemInv, Labels, Scanning, Backing
  <2>5. RollbackInv'
    <3>1. \A i \in DOMAIN mem.entries : PathOf(mem.entries[i]) \in Quarantines
      BY EntryAt DEF IInv, MemInv, Memory
    <3>2. \A i \in DOMAIN mem.entries :
            box[PathOf(mem.entries[i])] = None => box'[PathOf(mem.entries[i])] = None
      BY <2>2, <3>1
    <3> QED BY <1>1, <1>2, <1>6, <3>2 DEF IInv, RollbackInv
  <2>6. ZeroInv' /\ ScanInv'
    BY <1>6 DEF ZeroInv, ScanInv, Scanning
  <2> QED BY <2>3, <2>4, <2>5, <2>6 DEF IInv
<1> QED BY <1>1, <1>4, <1>5, <1>6

LEMMA ReturnedKeeps == IInv /\ Returned => IInv'
<1> SUFFICES ASSUME IInv, Returned PROVE IInv'
  OBVIOUS
<1>1. /\ pc = "returned" /\ UNCHANGED <<disk, run>> /\ pc' = "rollback"
      /\ \/ mem' = [mem EXCEPT !.k = @ - 1] /\ StateOf(mem.entries[mem.k]) = "restored"
         \/ mem' = Unresolved(mem)
  BY DEF Returned, GotoWith
<1>2. pc \in Backing /\ mem.k > 0
  BY <1>1 DEF Backing, IInv, RollbackInv
<1> QED BY <1>1, <1>2, StateMeans, NextEntryKeeps

(* A journal rewritten with the same paths, none of which is published.    *)
LEMMA RewrittenKeepsDisk ==
  ASSUME DiskInv, UNCHANGED <<at, box, manifest, run>>, journal' \in Journal,
         ~journal'.blank, journal # None,
         \A i \in 1 .. Len(journal.entries) :
           \E j \in 1 .. Len(journal'.entries) : PathOf(journal'.entries[j]) = PathOf(journal.entries[i]),
         \A j \in DOMAIN journal'.entries : PathOf(journal'.entries[j]) \notin manifest.quarantines
  PROVE  DiskInv'
<1>1. Inventory \subseteq Inventory'
  BY NoneAssumption DEF Inventory
<1>2. InventoryFindsAll'
  BY <1>1 DEF DiskInv, InventoryFindsAll
<1> QED BY <1>2 DEF DiskInv

LEMMA RolledBackKeeps == IInv /\ RolledBack => IInv'
<1> SUFFICES ASSUME IInv, RolledBack PROVE IInv'
  OBVIOUS
<1>1. /\ pc = "rollback" /\ mem.k = 0 /\ UNCHANGED <<run, at, box, manifest>>
      /\ \/ mem.bad /\ End /\ journal' = [Written(mem.entries) EXCEPT !.id = journal.id]
         \/ ~mem.bad /\ UNCHANGED journal /\ End
         \/ /\ ~mem.bad /\ UNCHANGED journal /\ mem.recovering /\ pc' = "zero"
            /\ mem' = [mem EXCEPT !.next.tombs = @ \union {journal.id}]
  BY DEF RolledBack, GotoWith
<1>2. /\ mem \in Memory /\ mem.entries \in Seq(Entry) /\ DOMAIN mem.entries = 1 .. Len(mem.entries)
  BY DEF IInv, MemInv, Memory
<1>3. /\ journal # None /\ Len(journal.entries) = Len(mem.entries)
      /\ \A i \in DOMAIN mem.entries : /\ PathOf(journal.entries[i]) = PathOf(mem.entries[i])
                                       /\ PathOf(mem.entries[i]) \notin manifest.quarantines
      /\ ~mem.bad => \A i \in DOMAIN mem.entries : i > mem.k => box[PathOf(mem.entries[i])] = None
  BY <1>1 DEF IInv, RollbackInv, Backing
<1>4. journal.entries \in Seq(Entry) /\ journal.id \in Runs
  BY <1>3, JournalFacts DEF IInv
<1>5. CASE mem.bad /\ End /\ journal' = [Written(mem.entries) EXCEPT !.id = journal.id]
  <2>1. journal' = [entries |-> mem.entries, blank |-> FALSE, id |-> journal.id]
    BY <1>5 DEF Written
  <2>2. journal' \in Journal
    BY <1>2, <1>4, <2>1 DEF Journal
  <2>3. journal'.entries = mem.entries /\ ~journal'.blank
    BY <2>1
  <2>4. DiskInv'
    BY <1>1, <1>2, <1>3, <2>2, <2>3, RewrittenKeepsDisk DEF IInv
  <2> QED BY <1>5, <2>4, EndKeeps
<1>6. CASE UNCHANGED journal /\ End
  BY <1>1, <1>6, DiskStays, EndKeeps DEF IInv, disk
<1>7. CASE /\ ~mem.bad /\ UNCHANGED journal /\ mem.recovering /\ pc' = "zero"
           /\ mem' = [mem EXCEPT !.next.tombs = @ \union {journal.id}]
  <2> DEFINE next == [mem.next EXCEPT !.tombs = @ \union {journal.id}]
  <2>1. next \in Manifest /\ next.files = mem.next.files
    BY <1>2, <1>4 DEF Memory, Manifest
  <2>2. mem' = [mem EXCEPT !.next = next]
    BY <1>7
  <2> HIDE DEF next
  <2>3. /\ mem' \in Memory /\ mem'.next = next /\ mem'.recovering = mem.recovering /\ mem'.old = mem.old
        /\ mem'.todo = mem.todo /\ mem'.write = mem.write /\ mem'.entries = mem.entries
    BY <1>2, <2>1, <2>2 DEF Memory
  <2>4. DiskInv'
    BY <1>1, <1>7, DiskStays DEF IInv, disk
  <2>5. MemInv'
    BY <1>1, <1>7, <2>1, <2>3 DEF IInv, MemInv, Labels, Scanning, Backing
  <2>6. \A q \in Quarantines : box[q] # None => q \in manifest.quarantines
    <3>1. \A i \in 1 .. Len(journal.entries) : box[PathOf(journal.entries[i])] = None
      BY <1>1, <1>2, <1>3, <1>7
    <3> QED BY <1>3, <3>1 DEF IInv, DiskInv, InventoryFindsAll, Inventory
  <2>7. ZeroInv'
    BY <1>1, <1>3, <1>7, <2>6 DEF ZeroInv
  <2>8. ScanInv' /\ RollbackInv'
    BY <1>7 DEF ScanInv, RollbackInv, Scanning, Backing
  <2> QED BY <2>4, <2>5, <2>7, <2>8 DEF IInv
<1> QED BY <1>1, <1>5, <1>6, <1>7

LEMMA ZeroKeeps == IInv /\ Zero => IInv'
<1> SUFFICES ASSUME IInv, Zero PROVE IInv'
  OBVIOUS
<1>1. /\ pc = "zero" /\ journal' = [journal EXCEPT !.blank = TRUE, !.entries = <<>>]
      /\ pc' = "retire" /\ mem' = mem /\ UNCHANGED <<at, box, manifest, run>>
  BY DEF Zero, Goto
<1>2. journal # None /\ \A q \in Quarantines : box[q] # None => q \in manifest.quarantines
  BY <1>1 DEF IInv, ZeroInv
<1>3. journal' \in Journal /\ journal' # None /\ journal'.entries = <<>>
  <2>1. journal \in Journal /\ <<>> \in Seq(Entry)
    BY <1>2, JournalFacts DEF IInv
  <2>2. journal' \in Journal /\ journal'.entries = <<>>
    BY <1>1, <2>1 DEF Journal
  <2> QED BY <2>2, NoneAssumption
<1>4. InventoryFindsAll'
  BY <1>1, <1>2 DEF InventoryFindsAll, Inventory
<1>5. DiskInv'
  BY <1>1, <1>3, <1>4 DEF IInv, DiskInv
<1>6. MemInv'
  BY <1>1 DEF IInv, MemInv, Labels, Scanning
<1>7. ZeroInv' /\ ScanInv' /\ RollbackInv'
  BY <1>1, <1>3 DEF ZeroInv, ScanInv, RollbackInv, Scanning, Backing
<1> QED BY <1>5, <1>6, <1>7 DEF IInv

LEMMA RetireKeeps == IInv /\ Retire => IInv'
<1> SUFFICES ASSUME IInv, Retire PROVE IInv'
  OBVIOUS
<1>1. /\ pc = "retire" /\ journal' = None /\ UNCHANGED <<at, box, manifest, run>>
      /\ \/ /\ mem.recovering /\ pc' = "generate"
            /\ mem' = [mem EXCEPT !.recovering = FALSE, !.entries = <<>>]
         \/ End
  BY DEF Retire, GotoWith
<1>2. journal # None /\ journal.entries = <<>>
  BY <1>1 DEF IInv, ZeroInv
<1>3. InventoryFindsAll'
  <2>1. {PathOf(journal.entries[i]) : i \in 1 .. Len(journal.entries)} = {}
    BY <1>2
  <2> QED BY <1>1, <1>2, <2>1 DEF IInv, DiskInv, InventoryFindsAll, Inventory
<1>4. DiskInv'
  BY <1>1, <1>3 DEF IInv, DiskInv
<1>5. CASE End
  BY <1>4, <1>5, EndKeeps
<1>6. CASE /\ mem.recovering /\ pc' = "generate"
           /\ mem' = [mem EXCEPT !.recovering = FALSE, !.entries = <<>>]
  <2>1. mem \in Memory /\ <<>> \in Seq(Entry)
    BY DEF IInv, MemInv
  <2>2. /\ mem' \in Memory /\ ~mem'.recovering /\ mem'.entries = <<>> /\ mem'.next = mem.next
        /\ mem'.todo = mem.todo /\ mem'.write = mem.write /\ mem'.old = mem.old
    BY <1>6, <2>1 DEF Memory
  <2>3. MemInv'
    BY <1>1, <1>6, <2>2 DEF IInv, MemInv, Labels, Scanning
  <2>4. ZeroInv' /\ ScanInv' /\ RollbackInv'
    BY <1>6 DEF ZeroInv, ScanInv, RollbackInv, Scanning, Backing
  <2> QED BY <1>4, <2>3, <2>4 DEF IInv
<1> QED BY <1>1, <1>5, <1>6

-----------------------------------------------------------------------------
(* WHAT IS GENERATED, AND WHAT IS RETIRED.                                 *)
(* Only files at their paths change.                                       *)
LEMMA FilesMayChange ==
  ASSUME DiskInv, UNCHANGED <<box, journal, manifest, run>>, at' \in [Files -> File \union {None}]
  PROVE  DiskInv'
  BY DEF DiskInv, InventoryFindsAll, Inventory, Committed

LEMMA GenerateKeeps == IInv /\ Generate => IInv'
<1> SUFFICES ASSUME IInv, Generate PROVE IInv'
  OBVIOUS
<1>1. pc = "generate" /\ UNCHANGED <<box, journal, manifest, run>>
  BY DEF Generate
<1>2. PICK f \in mem.write :
        \/ End /\ UNCHANGED at
        \/ /\ at' = [at EXCEPT ![f] = IF f \in Outputs \/ at[f] = None THEN Fresh(run)
                                      ELSE [made |-> run, bytes |-> at[f].bytes]]
           /\ pc' = "generate"
           /\ mem' = [mem EXCEPT !.write = @ \ {f}, !.next.files = @ \union Tracked(f)]
  BY DEF Generate, GotoWith
<1>3. mem \in Memory /\ f \in Files /\ mem.write \subseteq Files /\ f \notin mem.todo
  BY DEF IInv, MemInv, Memory
<1>4. at \in [Files -> File \union {None}] /\ run \in 0 .. User /\ run \in Nat
  BY FilesAssumption DEF IInv, DiskInv, User
<1>5. CASE End /\ UNCHANGED at
  BY <1>1, <1>5, DiskStays, EndKeeps DEF IInv, disk
<1>6. CASE /\ at' = [at EXCEPT ![f] = IF f \in Outputs \/ at[f] = None THEN Fresh(run)
                                      ELSE [made |-> run, bytes |-> at[f].bytes]]
           /\ pc' = "generate"
           /\ mem' = [mem EXCEPT !.write = @ \ {f}, !.next.files = @ \union Tracked(f)]
  <2>1. at' \in [Files -> File \union {None}]
    <3>1. Fresh(run) \in File
      BY <1>4 DEF Fresh, File
    <3>2. at[f] # None => [made |-> run, bytes |-> at[f].bytes] \in File
      BY <1>3, <1>4 DEF File
    <3> QED BY <1>3, <1>4, <1>6, <3>1, <3>2
  <2>2. DiskInv'
    BY <1>1, <2>1, FilesMayChange DEF IInv
  <2> DEFINE next == [mem.next EXCEPT !.files = @ \union Tracked(f)]
  <2>3. Tracked(f) \subseteq Outputs /\ Tracked(f) \subseteq {f}
    BY <1>3 DEF Tracked, Files
  <2>4. mem.next \in Manifest
    BY <1>3 DEF Memory
  <2>5. next \in Manifest /\ next.files = mem.next.files \union Tracked(f)
    BY <2>3, <2>4 DEF Manifest
  <2>6. mem' = [mem EXCEPT !.write = mem.write \ {f}, !.next = next]
    BY <1>6
  <2> HIDE DEF next
  <2>7. /\ mem' \in Memory /\ mem'.write = mem.write \ {f} /\ mem'.next = next
        /\ mem'.todo = mem.todo /\ mem'.entries = mem.entries /\ mem'.old = mem.old
        /\ mem'.recovering = mem.recovering
    BY <1>3, <2>5, <2>6 DEF Memory
  <2>8. mem'.next.files \intersect mem'.todo = {} /\ mem'.write \intersect mem'.todo = {}
    BY <1>3, <2>3, <2>5, <2>7 DEF IInv, MemInv
  <2>9. MemInv'
    BY <1>1, <1>6, <2>7, <2>8 DEF IInv, MemInv, Labels, Scanning
  <2>10. ZeroInv' /\ ScanInv' /\ RollbackInv'
    BY <1>6 DEF ZeroInv, ScanInv, RollbackInv, Scanning, Backing
  <2> QED BY <2>2, <2>9, <2>10 DEF IInv
<1> QED BY <1>2, <1>5, <1>6

LEMMA GeneratedKeeps == IInv /\ Generated => IInv'
<1> SUFFICES ASSUME IInv, Generated PROVE IInv'
  OBVIOUS
<1>1. /\ pc = "generate" /\ pc' = "scan" /\ UNCHANGED <<at, box, journal, manifest, run>>
      /\ mem' = [mem EXCEPT !.next.quarantines = {q \in mem.old : box[q] # None}]
  BY DEF Generated, GotoWith, disk
<1>2. /\ mem \in Memory /\ mem.old = manifest.quarantines /\ mem.entries = <<>> /\ journal = None
      /\ ~mem.recovering
  BY <1>1 DEF IInv, MemInv
<1>3. manifest.quarantines \subseteq Quarantines /\ mem.next \in Manifest
  BY <1>2 DEF IInv, DiskInv, Manifest, Memory
<1> DEFINE kept == {q \in mem.old : box[q] # None}
           next == [mem.next EXCEPT !.quarantines = kept]
<1>4. kept \subseteq manifest.quarantines
  BY <1>2
<1>5. next \in Manifest /\ next.files = mem.next.files /\ next.quarantines = kept
  BY <1>3, <1>4 DEF Manifest
<1>6. mem' = [mem EXCEPT !.next = next]
  BY <1>1
<1> HIDE DEF next
<1>7. /\ mem' \in Memory /\ mem'.next = next /\ mem'.todo = mem.todo /\ mem'.write = mem.write
      /\ mem'.entries = <<>> /\ mem'.recovering = mem.recovering
  BY <1>2, <1>5, <1>6 DEF Memory
<1>8. DiskInv'
  BY <1>1, DiskStays DEF IInv, disk
<1>9. MemInv'
  BY <1>1, <1>2, <1>5, <1>7 DEF IInv, MemInv, Labels, Scanning
<1>10. DOMAIN mem'.entries = {}
  BY <1>7
<1>11. EntriesInv'
  BY <1>1, <1>2, <1>7, <1>10 DEF EntriesInv
<1>12. NextInv'
  BY <1>1, <1>2, <1>5, <1>7, <1>10 DEF IInv, DiskInv, NextInv, SettledNow
<1>13. ScanInv'
  BY <1>1, <1>11, <1>12 DEF ScanInv, Planned
<1>14. ZeroInv' /\ RollbackInv'
  BY <1>1 DEF ZeroInv, RollbackInv, Backing
<1> QED BY <1>8, <1>9, <1>13, <1>14 DEF IInv

(* What holds whenever a transaction is under way.                         *)
LEMMA ScanningFacts ==
  ASSUME IInv, pc \in Scanning
  PROVE  /\ mem \in Memory /\ mem.entries \in Seq(Entry) /\ DOMAIN mem.entries = 1 .. Len(mem.entries)
         /\ Len(mem.entries) \in Nat /\ EntriesInv /\ NextInv /\ mem.next \in Manifest
         /\ manifest.quarantines \subseteq Quarantines /\ ~mem.recovering
         /\ \A i \in DOMAIN mem.entries :
              PathOf(mem.entries[i]) \in Quarantines /\ PathOf(mem.entries[i]) \notin manifest.quarantines
<1>1. mem \in Memory /\ mem.entries \in Seq(Entry) /\ mem.next \in Manifest /\ ~mem.recovering
  BY DEF IInv, MemInv, Memory
<1>2. EntriesInv /\ NextInv
  BY DEF IInv, ScanInv
<1>3. manifest.quarantines \subseteq Quarantines
  BY DEF IInv, DiskInv, Manifest
<1>4. ASSUME NEW i \in DOMAIN mem.entries
      PROVE  PathOf(mem.entries[i]) \in Quarantines /\ PathOf(mem.entries[i]) \notin manifest.quarantines
  <2>1. /\ PathOf(mem.entries[i]) \in Quarantines /\ mem.entries # <<>>
        /\ PathOf(mem.entries[i])[2] = mem.entries[i].run
    BY <1>1, EntryAt
  <2>2. PathOf(mem.entries[i])[2] = run /\ \A q \in manifest.quarantines : q[2] < run
    BY <1>2, <2>1 DEF EntriesInv
  <2>3. run \in Nat
    BY DEF IInv, DiskInv
  <2> QED BY <2>1, <2>2, <2>3
<1> QED BY <1>1, <1>2, <1>3, <1>4

(* A retirement that fails: rolled back at once, or left to recovery.      *)
LEMMA AbandonKeeps ==
  ASSUME IInv, pc \in Scanning, Abandon(mem), UNCHANGED <<disk, run>>
  PROVE  IInv'
<1>1. DiskInv' /\ UNCHANGED <<box, manifest, run, journal>>
  BY DiskStays DEF IInv, disk
<1>2. \/ End
      \/ /\ mem.entries # <<>> /\ pc' = "rollback"
         /\ mem' = [mem EXCEPT !.k = Len(mem.entries), !.bad = FALSE]
  BY DEF Abandon, GotoWith
<1>3. CASE End
  BY <1>1, <1>3, EndKeeps
<1>4. CASE /\ mem.entries # <<>> /\ pc' = "rollback"
           /\ mem' = [mem EXCEPT !.k = Len(mem.entries), !.bad = FALSE]
  <2>1. /\ mem \in Memory /\ Len(mem.entries) \in Nat /\ EntriesInv /\ ~mem.recovering
        /\ DOMAIN mem.entries = 1 .. Len(mem.entries)
        /\ \A i \in DOMAIN mem.entries : PathOf(mem.entries[i]) \notin manifest.quarantines
    BY ScanningFacts
  <2>2. /\ mem' \in Memory /\ mem'.entries = mem.entries /\ mem'.k = Len(mem.entries)
        /\ mem'.recovering = mem.recovering /\ mem'.todo = mem.todo /\ mem'.write = mem.write
        /\ mem'.next = mem.next
    BY <1>4, <2>1 DEF Memory
  <2>3. MemInv'
    BY <1>1, <1>4, <2>1, <2>2 DEF IInv, MemInv, Labels, Scanning, Backing
  <2>4. journal # None /\ journal.entries = mem.entries
    <3>1. journal = [entries |-> mem.entries, blank |-> FALSE, id |-> run]
      BY <1>4, <2>1 DEF EntriesInv
    <3>2. journal # None
      <4>1. mem.entries \in Seq(Entry) /\ run \in Runs
        <5>1. \A i \in DOMAIN mem.entries : mem.entries[i] \in Entry /\ mem.entries[i].run = run
          BY <2>1 DEF EntriesInv, Memory
        <5>2. 1 \in DOMAIN mem.entries
          BY <1>4, <2>1 DEF Memory
        <5> QED BY <2>1, <5>1, <5>2 DEF Memory, Entry
      <4>2. journal \in Journal
        BY <3>1, <4>1 DEF Journal
      <4> QED BY <4>2, NoneAssumption
    <3> QED BY <3>1, <3>2
  <2>5. RollbackInv'
    BY <1>1, <1>4, <2>1, <2>2, <2>4 DEF RollbackInv
  <2>6. ZeroInv' /\ ScanInv'
    BY <1>4 DEF ZeroInv, ScanInv, Scanning
  <2> QED BY <1>1, <2>3, <2>5, <2>6 DEF IInv
<1> QED BY <1>2, <1>3, <1>4

LEMMA PreserveKeeps == IInv /\ Preserve => IInv'
<1> SUFFICES ASSUME IInv, Preserve PROVE IInv'
  OBVIOUS
<1>1. pc = "scan" /\ pc \in Scanning /\ UNCHANGED <<disk, run>>
  BY DEF Preserve, Scanning
<1>2. PICK f \in mem.todo :
        \/ pc' = "scan" /\ mem' = [mem EXCEPT !.todo = @ \ {f}]
        \/ Abandon(mem)
        \/ f \notin Instructions /\ pc' = "scan" /\ mem' = Tracks(f)
  BY DEF Preserve, GotoWith
<1>3. CASE Abandon(mem)
  BY <1>1, <1>3, AbandonKeeps
<1>4. CASE pc' = "scan" /\ (mem' = [mem EXCEPT !.todo = @ \ {f}] \/ (f \notin Instructions /\ mem' = Tracks(f)))
  <2>1. /\ mem \in Memory /\ mem.next \in Manifest /\ EntriesInv /\ NextInv /\ f \in Files
        /\ mem.todo \subseteq Files
    BY <1>1, ScanningFacts DEF Memory
  <2>2. /\ mem' \in Memory /\ mem'.todo = mem.todo \ {f} /\ mem'.write = mem.write
        /\ mem'.entries = mem.entries /\ mem'.recovering = mem.recovering /\ mem'.old = mem.old
        /\ mem'.next.quarantines = mem.next.quarantines
        /\ mem'.next.files = mem.next.files \/ mem'.next.files = mem.next.files \union {f}
    <3>1. CASE mem' = [mem EXCEPT !.todo = @ \ {f}]
      BY <2>1, <3>1 DEF Memory
    <3>2. CASE f \notin Instructions /\ mem' = Tracks(f)
      <4> DEFINE next == [mem.next EXCEPT !.files = @ \union {f}]
      <4>1. f \in Outputs
        BY <2>1, <3>2 DEF Files
      <4>2. /\ next \in Manifest /\ next.files = mem.next.files \union {f}
            /\ next.quarantines = mem.next.quarantines
        BY <2>1, <4>1 DEF Manifest
      <4>3. mem' = [mem EXCEPT !.todo = mem.todo \ {f}, !.next = next]
        BY <3>2 DEF Tracks
      <4> HIDE DEF next
      <4> QED BY <2>1, <4>2, <4>3 DEF Memory
    <3> QED BY <1>4, <3>1, <3>2
  <2>3. DiskInv' /\ UNCHANGED <<box, manifest, run, journal>>
    BY <1>1, DiskStays DEF IInv, disk
  <2>4. MemInv'
    BY <1>1, <1>4, <2>2, <2>3 DEF IInv, MemInv, Labels, Scanning
  <2>5. EntriesInv'
    BY <2>1, <2>2, <2>3 DEF EntriesInv
  <2>6. NextInv'
    <3>1. SettledNow' = SettledNow /\ SettledNow \subseteq DOMAIN mem.entries
      BY <1>1, <1>4, <2>2 DEF SettledNow
    <3>2. ASSUME NEW i \in SettledNow PROVE Settled(i)'
      <4>1. Settled(i) /\ mem.entries[i].file \notin mem.todo
        BY <2>1, <3>1 DEF NextInv, EntriesInv
      <4>2. mem.entries[i].file \in mem'.next.files <=> mem.entries[i].file \in mem.next.files
        BY <2>2, <4>1
      <4> QED BY <2>2, <2>3, <4>1, <4>2 DEF Settled
    <3> QED BY <2>1, <2>2, <2>3, <3>1, <3>2 DEF NextInv
  <2>7. ScanInv'
    BY <1>4, <2>5, <2>6 DEF ScanInv, Planned
  <2>8. ZeroInv' /\ RollbackInv'
    BY <1>4 DEF ZeroInv, RollbackInv, Backing
  <2> QED BY <2>3, <2>4, <2>7, <2>8 DEF IInv
<1> QED BY <1>2, <1>3, <1>4

(* The paths in the journal of a running transaction.                      *)
LEMMA Mirrored ==
  ASSUME IInv, pc \in Scanning
  PROVE  /\ mem.entries # <<>> => journal # None /\ journal \in Journal /\ journal.entries = mem.entries
                                  /\ ~journal.blank /\ journal.id = run /\ run \in Runs
         /\ Inventory = manifest.quarantines \union {PathOf(mem.entries[i]) : i \in DOMAIN mem.entries}
<1>1. /\ EntriesInv /\ mem.entries \in Seq(Entry) /\ DOMAIN mem.entries = 1 .. Len(mem.entries)
  BY ScanningFacts
<1>2. CASE mem.entries # <<>>
  <2>1. journal = [entries |-> mem.entries, blank |-> FALSE, id |-> run]
    BY <1>1, <1>2 DEF EntriesInv
  <2>2. run \in Runs
    <3>1. 1 \in DOMAIN mem.entries
      BY <1>1, <1>2
    <3>2. mem.entries[1] \in Entry /\ mem.entries[1].run = run
      BY <1>1, <3>1 DEF EntriesInv
    <3> QED BY <3>2 DEF Entry
  <2>3. journal \in Journal
    BY <1>1, <2>1, <2>2 DEF Journal
  <2>4. journal # None
    BY <2>3, NoneAssumption
  <2>5. journal.entries = mem.entries /\ ~journal.blank /\ journal.id = run
    BY <2>1
  <2> QED BY <1>1, <2>2, <2>3, <2>4, <2>5 DEF Inventory
<1>3. CASE mem.entries = <<>>
  <2>1. journal = None /\ DOMAIN mem.entries = {}
    BY <1>1, <1>3 DEF EntriesInv
  <2> QED BY <1>3, <2>1 DEF Inventory
<1> QED BY <1>2, <1>3

LEMMA PlanKeeps == IInv /\ Plan => IInv'
<1> SUFFICES ASSUME IInv, Plan PROVE IInv'
  OBVIOUS
<1>1. /\ pc = "scan" /\ pc \in Scanning /\ UNCHANGED <<at, box, manifest>>
      /\ run' = IF mem.entries = <<>> THEN run + 1 ELSE run
  BY DEF Plan, Scanning
<1>2. PICK f, e :
        /\ f \in mem.todo /\ at[f] # None
        /\ e = [file |-> f, run |-> run', made |-> at[f].made, phase |-> "planned", keepSource |-> FALSE]
        /\ pc' = "bind" /\ journal' = Written(mem'.entries)
        /\ mem' = [mem EXCEPT !.entries = Append(@, e), !.k = Len(mem.entries) + 1, !.todo = @ \ {f}]
  BY DEF Plan, GotoWith
<1> DEFINE es == Append(mem.entries, e)
           last == Len(mem.entries) + 1
<1>3. /\ mem \in Memory /\ mem.entries \in Seq(Entry) /\ DOMAIN mem.entries = 1 .. Len(mem.entries)
      /\ Len(mem.entries) \in Nat /\ EntriesInv /\ NextInv /\ ~mem.recovering
      /\ manifest.quarantines \subseteq Quarantines /\ mem.todo \subseteq Files
  BY <1>1, ScanningFacts DEF Memory
<1>4. /\ run \in Nat /\ run' \in Runs /\ run' \in Nat /\ run <= run'
      /\ mem.entries # <<>> => run' = run
      /\ \A q \in manifest.quarantines : q[2] < run' /\ q[2] \in Nat
  <2>1. run \in 0 .. MaxRuns /\ \A q \in manifest.quarantines : q[2] <= run
    BY DEF IInv, DiskInv
  <2>2. \A q \in Quarantines : q[2] \in Nat
    BY DEF Quarantines, Runs
  <2>3. CASE mem.entries = <<>>
    <3>1. run # MaxRuns
      BY <1>2, <2>3 DEF IInv, MemInv
    <3> QED BY <1>1, <1>3, <2>1, <2>2, <2>3, <3>1, FilesAssumption DEF Runs
  <2>4. CASE mem.entries # <<>>
    <3>1. run \in Runs
      BY <1>1, <2>4, Mirrored
    <3>2. \A q \in manifest.quarantines : q[2] < run
      BY <1>3, <2>4 DEF EntriesInv
    <3> QED BY <1>1, <1>3, <2>1, <2>2, <2>4, <3>1, <3>2, FilesAssumption DEF Runs
  <2> QED BY <2>3, <2>4
<1>5. /\ e \in Entry /\ e.file = f /\ e.run = run' /\ f \in Files
  <2>1. at[f] \in File /\ f \in Files
    BY <1>2, <1>3 DEF IInv, DiskInv
  <2> QED BY <1>2, <1>4, <2>1 DEF Entry, File
<1>6. /\ es \in Seq(Entry) /\ Len(es) = last /\ DOMAIN es = 1 .. last /\ es # <<>>
      /\ es[last] = e /\ \A i \in DOMAIN mem.entries : es[i] = mem.entries[i]
      /\ \A i \in DOMAIN es : i = last \/ i \in DOMAIN mem.entries
      /\ last \notin DOMAIN mem.entries /\ last \in DOMAIN es /\ last \in Nat
      /\ \A i \in DOMAIN mem.entries : i \in DOMAIN es
  BY <1>3, <1>5
<1>7. mem' = [mem EXCEPT !.entries = es, !.k = last, !.todo = mem.todo \ {f}]
  BY <1>2
<1> HIDE DEF es, last
<1>8. /\ mem' \in Memory /\ mem'.entries = es /\ mem'.k = last /\ mem'.todo = mem.todo \ {f}
      /\ mem'.write = mem.write /\ mem'.next = mem.next /\ mem'.recovering = mem.recovering
  BY <1>3, <1>6, <1>7 DEF Memory
<1>9. journal' = [entries |-> es, blank |-> FALSE, id |-> run']
  BY <1>2, <1>8 DEF Written
<1>10. journal' \in Journal /\ journal' # None /\ journal'.entries = es /\ ~journal'.blank
  <2>1. journal' \in Journal
    BY <1>4, <1>6, <1>9 DEF Journal
  <2>2. journal'.entries = es /\ ~journal'.blank
    BY <1>9
  <2> QED BY <2>1, <2>2, NoneAssumption
<1>11. \A i \in DOMAIN es : es[i].run = run' /\ es[i].file \notin mem.todo \ {f}
  BY <1>3, <1>4, <1>5, <1>6 DEF EntriesInv
<1>12. \A i \in DOMAIN es : /\ PathOf(es[i]) \in Quarantines /\ PathOf(es[i])[2] = run'
                            /\ PathOf(es[i]) \notin manifest.quarantines
  <2> TAKE i \in DOMAIN es
  <2>1. PathOf(es[i]) \in Quarantines /\ PathOf(es[i])[2] = run'
    BY <1>6, <1>11, EntryAt
  <2> QED BY <1>4, <2>1
<1>13. Inventory \subseteq Inventory'
  <2>1. Inventory = manifest.quarantines \union {PathOf(mem.entries[i]) : i \in DOMAIN mem.entries}
    BY <1>1, Mirrored
  <2>2. Inventory' = manifest'.quarantines \union {PathOf(es[i]) : i \in DOMAIN es}
    BY <1>6, <1>10 DEF Inventory
  <2>3. \A i \in DOMAIN mem.entries : PathOf(mem.entries[i]) = PathOf(es[i]) /\ i \in DOMAIN es
    BY <1>6
  <2> QED BY <1>1, <2>1, <2>2, <2>3
<1>14. DiskInv'
  <2>1. InventoryFindsAll'
    BY <1>1, <1>13 DEF IInv, DiskInv, InventoryFindsAll
  <2>2. run' \in 0 .. MaxRuns
    BY <1>4 DEF Runs
  <2>3. \A q \in manifest'.quarantines : q[2] <= run' /\ (box'[q] # None => box'[q].bytes = "stdd")
    BY <1>1, <1>4 DEF IInv, DiskInv
  <2> QED BY <1>1, <1>10, <1>12, <2>1, <2>2, <2>3 DEF IInv, DiskInv
<1>15. MemInv'
  BY <1>1, <1>2, <1>3, <1>6, <1>8 DEF IInv, MemInv, Labels, Scanning
<1>16. EntriesInv'
  <2>1. \A i, j \in DOMAIN es : es[i].file = es[j].file => i = j
    <3>1. \A i \in DOMAIN mem.entries : es[i].file # f
      BY <1>2, <1>3, <1>6 DEF EntriesInv
    <3> QED BY <1>3, <1>5, <1>6, <3>1 DEF EntriesInv
  <2>2. mem'.entries # <<>>
    BY <1>6, <1>8
  <2> QED BY <1>1, <1>4, <1>8, <1>9, <1>11, <2>1, <2>2 DEF EntriesInv
<1>17. NextInv'
  <2>1. SettledNow' = DOMAIN mem.entries /\ SettledNow = DOMAIN mem.entries
    BY <1>1, <1>2, <1>6, <1>8 DEF SettledNow
  <2>2. ASSUME NEW i \in DOMAIN mem.entries PROVE Settled(i)'
    <3>1. Settled(i) /\ es[i] = mem.entries[i]
      BY <1>3, <1>6, <2>1 DEF NextInv
    <3> QED BY <1>1, <1>8, <3>1 DEF Settled
  <2> QED BY <1>1, <1>3, <1>6, <1>8, <2>1, <2>2 DEF NextInv
<1>18. PlannedInv'
  <2>1. box[PathOf(e)] = None
    <3> SUFFICES ASSUME box[PathOf(e)] # None PROVE FALSE
      OBVIOUS
    <3>1. PathOf(e) \in Quarantines /\ PathOf(e)[2] = run'
      BY <1>5, PathFacts
    <3>2. PathOf(e) \in Inventory /\ PathOf(e) \notin manifest.quarantines
      BY <1>4, <3>1 DEF IInv, DiskInv, InventoryFindsAll
    <3>3. PICK i \in DOMAIN mem.entries : PathOf(mem.entries[i]) = PathOf(e)
      BY <1>1, <3>2, Mirrored
    <3>4. mem.entries[i].file = f
      BY <1>3, <1>5, <3>3, PathFacts
    <3> QED BY <1>2, <1>3, <3>4 DEF EntriesInv
  <2>2. f \notin mem.next.files
    BY <1>2 DEF IInv, MemInv
  <2> QED BY <1>1, <1>5, <1>6, <1>8, <2>1, <2>2 DEF PlannedInv
<1>19. ScanInv' /\ ZeroInv' /\ RollbackInv'
  BY <1>2, <1>16, <1>17, <1>18 DEF ScanInv, ZeroInv, RollbackInv, Backing
<1> QED BY <1>14, <1>15, <1>19 DEF IInv

LEMMA BindKeeps == IInv /\ Bind => IInv'
<1> SUFFICES ASSUME IInv, Bind PROVE IInv'
  OBVIOUS
<1>1. pc = "bind" /\ pc' = "move" /\ mem' = mem /\ UNCHANGED <<at, box, journal, manifest, run>>
  BY DEF Bind, Goto, disk
<1>2. DiskInv'
  BY <1>1, DiskStays DEF IInv, disk
<1>3. MemInv'
  BY <1>1 DEF IInv, MemInv, Labels, Scanning
<1>4. EntriesInv /\ NextInv /\ PlannedInv
  BY <1>1 DEF IInv, ScanInv, Scanning, Planned
<1>5. EntriesInv' /\ PlannedInv'
  BY <1>1, <1>4 DEF EntriesInv, PlannedInv
<1>6. NextInv'
  BY <1>1, <1>4 DEF NextInv, Settled, SettledNow
<1>7. ScanInv' /\ ZeroInv' /\ RollbackInv'
  BY <1>1, <1>5, <1>6 DEF ScanInv, ZeroInv, RollbackInv, Backing
<1> QED BY <1>2, <1>3, <1>7 DEF IInv

(* The entry at work.                                                      *)
LEMMA AtWork ==
  ASSUME IInv, pc \in Planned
  PROVE  /\ pc \in Scanning /\ PlannedInv /\ mem.k \in DOMAIN mem.entries /\ mem.entries # <<>>
         /\ mem.entries[mem.k] \in Entry /\ PathOf(mem.entries[mem.k]) \in Quarantines
         /\ PathOf(mem.entries[mem.k]) \notin manifest.quarantines
         /\ PathOf(mem.entries[mem.k]) \in Inventory
         /\ \A i \in DOMAIN mem.entries :
              i # mem.k => PathOf(mem.entries[i]) # PathOf(mem.entries[mem.k])
<1>1. pc \in Scanning
  BY DEF Planned, Scanning
<1>2. PlannedInv
  BY <1>1 DEF IInv, ScanInv
<1>3. /\ mem.entries \in Seq(Entry) /\ mem.k \in DOMAIN mem.entries /\ EntriesInv
      /\ \A i \in DOMAIN mem.entries :
           PathOf(mem.entries[i]) \in Quarantines /\ PathOf(mem.entries[i]) \notin manifest.quarantines
  BY <1>1, <1>2, ScanningFacts DEF PlannedInv
<1>4. mem.entries # <<>> /\ mem.entries[mem.k] \in Entry
  BY <1>3, EntryAt
<1>5. PathOf(mem.entries[mem.k]) \in Inventory
  BY <1>1, <1>3, Mirrored
<1>6. \A i \in DOMAIN mem.entries : i # mem.k => PathOf(mem.entries[i]) # PathOf(mem.entries[mem.k])
  <2>1. \A i \in DOMAIN mem.entries : mem.entries[i] \in Entry
    BY <1>3
  <2> QED BY <1>3, <1>4, <2>1, PathFacts DEF EntriesInv
<1> QED BY <1>1, <1>2, <1>3, <1>4, <1>5, <1>6

(* Whether it moved or not, whatever the journal says of its fate.         *)
LEMMA TroubledKeepsDisk ==
  ASSUME IInv, pc \in Planned, UNCHANGED <<manifest, run>>,
         at' \in [Files -> File \union {None}], box' \in [Quarantines -> File \union {None}],
         \A q \in Quarantines : q # PathOf(mem.entries[mem.k]) => box'[q] = box[q],
         journal' = journal \/ journal' = Written(Marked(mem.entries, mem.k))
  PROVE  DiskInv'
<1>1. /\ pc \in Scanning /\ mem.k \in DOMAIN mem.entries /\ mem.entries # <<>>
      /\ PathOf(mem.entries[mem.k]) \notin manifest.quarantines
      /\ PathOf(mem.entries[mem.k]) \in Inventory
  BY AtWork
<1>2. /\ mem.entries \in Seq(Entry) /\ DOMAIN mem.entries = 1 .. Len(mem.entries)
      /\ manifest.quarantines \subseteq Quarantines
      /\ \A i \in DOMAIN mem.entries : PathOf(mem.entries[i]) \notin manifest.quarantines
  BY <1>1, ScanningFacts
<1>3. /\ journal # None /\ journal \in Journal /\ journal.entries = mem.entries /\ ~journal.blank
      /\ run \in Runs
      /\ Inventory = manifest.quarantines \union {PathOf(mem.entries[i]) : i \in DOMAIN mem.entries}
  BY <1>1, Mirrored
<1>4. PICK es \in Seq(Entry) :
        /\ journal' \in Journal /\ journal'.entries = es /\ ~journal'.blank
        /\ DOMAIN es = DOMAIN mem.entries /\ Len(es) = Len(mem.entries)
        /\ \A i \in DOMAIN mem.entries : PathOf(es[i]) = PathOf(mem.entries[i])
  <2>1. CASE journal' = journal
    BY <1>2, <1>3, <2>1
  <2>2. CASE journal' = Written(Marked(mem.entries, mem.k))
    <3>1. PICK es : es = Marked(mem.entries, mem.k)
      OBVIOUS
    <3>2. /\ es \in Seq(Entry) /\ DOMAIN es = DOMAIN mem.entries /\ Len(es) = Len(mem.entries)
          /\ \A i \in DOMAIN mem.entries : PathOf(es[i]) = PathOf(mem.entries[i])
      BY <1>1, <1>2, <3>1, MarkedFacts
    <3>3. journal' = [entries |-> es, blank |-> FALSE, id |-> run]
      BY <2>2, <3>1 DEF Written
    <3>4. journal' \in Journal
      BY <1>3, <3>2, <3>3 DEF Journal
    <3>5. journal'.entries = es /\ ~journal'.blank
      BY <3>3
    <3> QED BY <3>2, <3>4, <3>5
  <2> QED BY <2>1, <2>2
<1>5. journal' # None
  BY <1>4, NoneAssumption
<1>6. Inventory' = Inventory
  <2>1. Inventory' = manifest'.quarantines \union {PathOf(es[i]) : i \in 1 .. Len(es)}
    BY <1>4, <1>5 DEF Inventory
  <2> QED BY <1>2, <1>3, <1>4, <2>1
<1>7. InventoryFindsAll'
  BY <1>1, <1>6 DEF IInv, DiskInv, InventoryFindsAll
<1>8. \A q \in manifest'.quarantines : q[2] <= run' /\ (box'[q] # None => box'[q].bytes = "stdd")
  BY <1>1, <1>2 DEF IInv, DiskInv
<1>9. \A i \in DOMAIN journal'.entries : PathOf(journal'.entries[i]) \notin manifest'.quarantines
  BY <1>2, <1>4
<1> QED BY <1>4, <1>5, <1>7, <1>8, <1>9 DEF IInv, DiskInv

LEMMA FailEntryEnds ==
  ASSUME IInv, pc \in Planned, FailEntry
  PROVE  End /\ journal' = Written(Marked(mem.entries, mem.k))
<1>1. mem \in Memory /\ mem.entries \in Seq(Entry) /\ mem.k \in DOMAIN mem.entries
  BY AtWork, ScanningFacts
<1> DEFINE m == [mem EXCEPT !.entries[mem.k].phase = "unresolved"]
<1>2. m.entries = Marked(mem.entries, mem.k)
  BY <1>1 DEF Marked, Memory
<1>3. journal' = Written(m.entries) /\ Abandon(m)
  BY DEF FailEntry
<1> HIDE DEF m
<1>4. /\ m.entries[mem.k].phase = "unresolved" /\ mem.k \in 1 .. Len(m.entries)
  BY <1>1, <1>2, MarkedFacts
<1>5. End
  BY <1>3, <1>4 DEF Abandon
<1> QED BY <1>2, <1>3, <1>5

(* The move itself.                                                        *)
LEMMA MovesFacts ==
  ASSUME IInv, pc \in Planned, NEW e, e = mem.entries[mem.k], at[e.file] # None, Moves(e)
  PROVE  /\ at' \in [Files -> File \union {None}] /\ box' \in [Quarantines -> File \union {None}]
         /\ box'[PathOf(e)] = at[e.file] /\ at'[e.file] = None
         /\ \A q \in Quarantines : q # PathOf(e) => box'[q] = box[q]
         /\ \A f \in Files : f # e.file => at'[f] = at[f]
<1>1. e \in Entry /\ PathOf(e) \in Quarantines /\ e.file \in Files
  BY AtWork, PathFacts
<1>2. at \in [Files -> File \union {None}] /\ box \in [Quarantines -> File \union {None}]
  BY DEF IInv, DiskInv
<1> QED BY <1>1, <1>2 DEF Moves

LEMMA MoveKeeps == IInv /\ Move => IInv'
<1> SUFFICES ASSUME IInv, Move PROVE IInv'
  OBVIOUS
<1> PICK e : e = mem.entries[mem.k]
  OBVIOUS
<1>1. /\ pc = "move" /\ pc \in Planned /\ UNCHANGED <<run, manifest>>
      /\ \/ /\ at[e.file] # None /\ Moves(e) /\ pc' = "check" /\ mem' = mem /\ UNCHANGED journal
         \/ FailEntry /\ UNCHANGED <<at, box>>
  BY DEF Move, Goto, Planned
<1>2. CASE FailEntry /\ UNCHANGED <<at, box>>
  <2>1. End /\ journal' = Written(Marked(mem.entries, mem.k))
    BY <1>1, <1>2, FailEntryEnds
  <2>2. at' \in [Files -> File \union {None}] /\ box' \in [Quarantines -> File \union {None}]
    BY <1>2 DEF IInv, DiskInv
  <2>3. DiskInv'
    BY <1>1, <1>2, <2>1, <2>2, TroubledKeepsDisk
  <2> QED BY <2>1, <2>3, EndKeeps
<1>3. CASE at[e.file] # None /\ Moves(e) /\ pc' = "check" /\ mem' = mem /\ UNCHANGED journal
  <2>1. /\ at' \in [Files -> File \union {None}] /\ box' \in [Quarantines -> File \union {None}]
        /\ box'[PathOf(e)] = at[e.file] /\ \A q \in Quarantines : q # PathOf(e) => box'[q] = box[q]
    BY <1>1, <1>3, MovesFacts
  <2>2. DiskInv'
    BY <1>1, <1>3, <2>1, TroubledKeepsDisk
  <2>3. MemInv'
    BY <1>1, <1>3 DEF IInv, MemInv, Labels, Scanning
  <2>4. /\ pc \in Scanning /\ PlannedInv /\ e \in Entry /\ PathOf(e) \in Quarantines
        /\ PathOf(e) \notin manifest.quarantines
        /\ \A i \in DOMAIN mem.entries : i # mem.k => PathOf(mem.entries[i]) # PathOf(e)
    BY <1>1, AtWork
  <2>5. EntriesInv /\ NextInv /\ manifest.quarantines \subseteq Quarantines /\ mem.next \in Manifest
        /\ \A i \in DOMAIN mem.entries : PathOf(mem.entries[i]) \in Quarantines
    BY <2>4, ScanningFacts
  <2>6. EntriesInv'
    BY <1>1, <1>3, <2>5 DEF EntriesInv
  <2>7. NextInv'
    <3>1. SettledNow' = SettledNow /\ \A i \in SettledNow : i \in DOMAIN mem.entries /\ i # mem.k
      BY <1>1, <1>3 DEF SettledNow
    <3>2. \A i \in SettledNow : Settled(i)'
      BY <1>3, <2>1, <2>4, <2>5, <3>1 DEF NextInv, Settled
    <3>3. \A q \in mem.next.quarantines : q \in Quarantines /\ q # PathOf(e)
      BY <2>4, <2>5, <3>1 DEF NextInv, Manifest
    <3> QED BY <1>1, <1>3, <2>1, <2>4, <2>5, <3>1, <3>2, <3>3 DEF NextInv
  <2>8. PlannedInv'
    BY <1>3, <2>4 DEF PlannedInv
  <2>9. ScanInv' /\ ZeroInv' /\ RollbackInv'
    BY <1>3, <2>6, <2>7, <2>8 DEF ScanInv, ZeroInv, RollbackInv, Backing
  <2> QED BY <2>2, <2>3, <2>9 DEF IInv
<1> QED BY <1>1, <1>2, <1>3

LEMMA CheckKeeps == IInv /\ Check => IInv'
<1> SUFFICES ASSUME IInv, Check PROVE IInv'
  OBVIOUS
<1> PICK e : e = mem.entries[mem.k]
  OBVIOUS
<1> DEFINE keeps == KeepsSource(e)
           m == [mem EXCEPT !.entries[mem.k].phase = "quarantined",
                            !.entries[mem.k].keepSource = keeps,
                            !.next.quarantines = @ \union {PathOf(e)},
                            !.next.files = IF keeps THEN @ \union {e.file} ELSE @]
<1>1. /\ pc = "check" /\ pc \in Planned /\ UNCHANGED <<run, manifest, at, box>>
      /\ \/ FailEntry
         \/ /\ StateOf(e) = "quarantined" /\ ~(keeps /\ e.file \in Instructions)
            /\ journal' = Written(m.entries) /\ pc' = "scan" /\ mem' = m
  BY DEF Check, GotoWith, Planned
<1>2. CASE FailEntry
  <2>1. End /\ journal' = Written(Marked(mem.entries, mem.k))
    BY <1>1, <1>2, FailEntryEnds
  <2>2. at' \in [Files -> File \union {None}] /\ box' \in [Quarantines -> File \union {None}]
    BY <1>1 DEF IInv, DiskInv
  <2>3. DiskInv'
    BY <1>1, <2>1, <2>2, TroubledKeepsDisk
  <2> QED BY <2>1, <2>3, EndKeeps
<1>3. CASE /\ StateOf(e) = "quarantined" /\ ~(keeps /\ e.file \in Instructions)
           /\ journal' = Written(m.entries) /\ pc' = "scan" /\ mem' = m
  <2>1. /\ pc \in Scanning /\ PlannedInv /\ mem.k \in DOMAIN mem.entries /\ mem.entries # <<>>
        /\ e \in Entry /\ PathOf(e) \in Quarantines /\ PathOf(e) \notin manifest.quarantines
        /\ e.file \in Files
    BY <1>1, AtWork, PathFacts
  <2>2. /\ mem \in Memory /\ mem.entries \in Seq(Entry) /\ DOMAIN mem.entries = 1 .. Len(mem.entries)
        /\ EntriesInv /\ NextInv /\ mem.next \in Manifest /\ ~mem.recovering
        /\ \A i \in DOMAIN mem.entries : PathOf(mem.entries[i]) \notin manifest.quarantines
    BY <2>1, ScanningFacts
  <2>3. /\ journal # None /\ journal.entries = mem.entries /\ run \in Runs
        /\ Inventory = manifest.quarantines \union {PathOf(mem.entries[i]) : i \in DOMAIN mem.entries}
    BY <2>1, Mirrored
  <2>4. PICK d \in Entry : /\ d.file = e.file /\ d.run = e.run /\ d.phase = "quarantined"
                           /\ d.keepSource = keeps
                           /\ m.entries = [mem.entries EXCEPT ![mem.k] = d]
    <3> DEFINE d == [e EXCEPT !.phase = "quarantined", !.keepSource = keeps]
    <3>1. keeps \in BOOLEAN
      BY DEF KeepsSource
    <3> HIDE DEF keeps
    <3>2. d \in Entry /\ d.file = e.file /\ d.run = e.run /\ d.phase = "quarantined" /\ d.keepSource = keeps
      BY <2>1, <3>1 DEF Entry
    <3>3. m.entries = [mem.entries EXCEPT ![mem.k] = d]
      BY <2>1, <2>2 DEF Memory
    <3> HIDE DEF d
    <3> QED BY <3>2, <3>3
  <2>5. PICK next \in Manifest :
          /\ next.quarantines = mem.next.quarantines \union {PathOf(e)}
          /\ next.files = IF keeps THEN mem.next.files \union {e.file} ELSE mem.next.files
          /\ m.next = next
    <3> DEFINE next == [mem.next EXCEPT
                          !.quarantines = @ \union {PathOf(e)},
                          !.files = IF keeps THEN @ \union {e.file} ELSE @]
    <3>1. keeps => e.file \in Outputs
      BY <1>3, <2>1 DEF Files
    <3> HIDE DEF keeps
    <3>2. /\ next \in Manifest /\ next.quarantines = mem.next.quarantines \union {PathOf(e)}
          /\ next.files = IF keeps THEN mem.next.files \union {e.file} ELSE mem.next.files
      BY <2>1, <2>2, <3>1 DEF Manifest
    <3>3. m.next = next
      BY <2>2 DEF Memory
    <3> HIDE DEF next
    <3> QED BY <3>2, <3>3
  <2> DEFINE es == [mem.entries EXCEPT ![mem.k] = d]
  <2>6. mem' = [mem EXCEPT !.entries = es, !.next = next]
    BY <1>3, <2>2, <2>4, <2>5 DEF Memory
  <2>7. /\ es \in Seq(Entry) /\ DOMAIN es = DOMAIN mem.entries /\ es[mem.k] = d /\ es # <<>>
        /\ \A i \in DOMAIN mem.entries : i # mem.k => es[i] = mem.entries[i]
        /\ Len(es) = Len(mem.entries)
    BY <2>1, <2>2, <2>4
  <2> HIDE DEF es, m
  <2>8. /\ mem' \in Memory /\ mem'.entries = es /\ mem'.next = next /\ mem'.todo = mem.todo
        /\ mem'.write = mem.write /\ mem'.recovering = mem.recovering
    BY <2>2, <2>5, <2>6, <2>7 DEF Memory
  <2>9. journal' = [entries |-> es, blank |-> FALSE, id |-> run]
    BY <1>1, <1>3, <2>8 DEF Written
  <2>10. journal' \in Journal /\ journal' # None /\ journal'.entries = es /\ ~journal'.blank
    <3>1. journal' \in Journal
      BY <2>3, <2>7, <2>9 DEF Journal
    <3>2. journal'.entries = es /\ ~journal'.blank
      BY <2>9
    <3> QED BY <3>1, <3>2, NoneAssumption
  <2>11. \A i \in DOMAIN mem.entries : /\ es[i].file = mem.entries[i].file /\ es[i].run = mem.entries[i].run
                                       /\ PathOf(es[i]) = PathOf(mem.entries[i])
    <3>1. PathOf(d) = PathOf(e)
      BY <2>4, SamePath
    <3> QED BY <2>4, <2>7, <3>1
  <2>12. DiskInv'
    <3>1. Inventory' = manifest'.quarantines \union {PathOf(es[i]) : i \in DOMAIN es}
      BY <2>2, <2>7, <2>10 DEF Inventory
    <3>2. Inventory' = Inventory
      BY <1>1, <2>3, <2>7, <2>11, <3>1
    <3>3. InventoryFindsAll'
      BY <1>1, <3>2 DEF IInv, DiskInv, InventoryFindsAll
    <3>4. \A i \in DOMAIN journal'.entries : PathOf(journal'.entries[i]) \notin manifest'.quarantines
      BY <1>1, <2>2, <2>7, <2>10, <2>11
    <3> QED BY <1>1, <2>10, <3>3, <3>4 DEF IInv, DiskInv
  <2>13. MemInv'
    <3>1. e.file \notin mem.todo
      BY <2>1, <2>2 DEF EntriesInv
    <3>2. mem'.next.files \intersect mem'.todo = {} /\ mem'.write \intersect mem'.todo = {}
      BY <2>5, <2>8, <3>1 DEF IInv, MemInv
    <3> QED BY <1>1, <1>3, <2>2, <2>7, <2>8, <3>2 DEF IInv, MemInv, Labels, Scanning
  <2>14. EntriesInv'
    BY <1>1, <2>1, <2>2, <2>7, <2>8, <2>9, <2>11 DEF EntriesInv
  <2>15. NextInv'
    <3>1. SettledNow' = DOMAIN mem.entries /\ SettledNow = {i \in DOMAIN mem.entries : i # mem.k}
      BY <1>1, <1>3, <2>7, <2>8 DEF SettledNow
    <3>2. box[PathOf(e)] # None /\ box[PathOf(e)].bytes = "stdd"
      BY <1>3, StateMeans
    <3>3. ASSUME NEW i \in DOMAIN mem.entries PROVE Settled(i)'
      <4>1. CASE i = mem.k
        <5>1. es[i] = d /\ PathOf(d) = PathOf(e)
          BY <2>4, <2>7, <4>1, SamePath
        <5>2. d.keepSource <=> d.file \in next.files
          BY <2>1, <2>4, <2>5 DEF PlannedInv
        <5> QED BY <1>1, <2>4, <2>5, <2>8, <3>2, <5>1, <5>2 DEF Settled
      <4>2. CASE i # mem.k
        <5>1. Settled(i) /\ es[i] = mem.entries[i]
          BY <2>2, <2>7, <3>1, <4>2 DEF NextInv
        <5>2. mem.entries[i].file # e.file
          BY <2>1, <2>2, <4>2 DEF EntriesInv
        <5>3. mem.entries[i].file \in next.files <=> mem.entries[i].file \in mem.next.files
          BY <2>5, <5>2
        <5> QED BY <1>1, <2>5, <2>8, <5>1, <5>3 DEF Settled
      <4> QED BY <4>1, <4>2
    <3>4. ASSUME NEW q \in next.quarantines
          PROVE  /\ q \in manifest.quarantines \/ \E i \in DOMAIN mem.entries : q = PathOf(es[i])
                 /\ box[q] # None => box[q].bytes = "stdd"
      <4>1. CASE q = PathOf(e)
        BY <2>1, <2>11, <3>2, <4>1
      <4>2. CASE q \in mem.next.quarantines
        BY <2>2, <2>11, <3>1, <4>2 DEF NextInv
      <4> QED BY <2>5, <4>1, <4>2
    <3>5. \A q \in manifest.quarantines : box[q] # None => q \in next.quarantines
      BY <2>2, <2>5 DEF NextInv
    <3> QED BY <1>1, <2>8, <3>1, <3>3, <3>4, <3>5 DEF NextInv
  <2>16. ScanInv' /\ ZeroInv' /\ RollbackInv'
    BY <1>3, <2>14, <2>15 DEF ScanInv, ZeroInv, RollbackInv, Backing, Planned
  <2> QED BY <2>12, <2>13, <2>16 DEF IInv
<1> QED BY <1>1, <1>2, <1>3

-----------------------------------------------------------------------------
(* THE COMMIT, THE FAILURES AND THE USER.                                  *)
(* What is published is what is in quarantine, and the journal is then     *)
(* committed as a whole.                                                   *)
LEMMA PublishedFacts ==
  ASSUME IInv, pc = "scan", UNCHANGED <<at, box, journal, run>>, manifest' = Published
  PROVE  /\ DiskInv'
         /\ \A q \in Quarantines : box[q] # None => q \in manifest'.quarantines
         /\ \A q \in manifest'.quarantines : q \in manifest.quarantines \/ box[q] # None
         /\ mem.entries # <<>> => journal # None
<1>1. pc \in Scanning /\ SettledNow = DOMAIN mem.entries
  BY DEF Scanning, SettledNow
<1>2. /\ mem.entries \in Seq(Entry) /\ DOMAIN mem.entries = 1 .. Len(mem.entries)
      /\ EntriesInv /\ NextInv /\ mem.next \in Manifest /\ manifest.quarantines \subseteq Quarantines
      /\ \A i \in DOMAIN mem.entries : PathOf(mem.entries[i]) \in Quarantines
  BY <1>1, ScanningFacts
<1>3. /\ mem.entries # <<>> => /\ journal # None /\ journal.entries = mem.entries /\ ~journal.blank
                               /\ run \in Runs
      /\ Inventory = manifest.quarantines \union {PathOf(mem.entries[i]) : i \in DOMAIN mem.entries}
  BY <1>1, Mirrored
<1>4. /\ manifest' \in Manifest /\ manifest'.files = mem.next.files
      /\ manifest'.quarantines = mem.next.quarantines
  <2>1. CASE mem.entries = <<>>
    BY <1>2, <2>1 DEF Published
  <2>2. CASE mem.entries # <<>>
    <3>1. manifest' = [mem.next EXCEPT !.tombs = @ \union {run}] /\ run \in Runs
      BY <1>3, <2>2 DEF Published
    <3> QED BY <1>2, <3>1 DEF Manifest
  <2> QED BY <2>1, <2>2
<1>5. \A i \in DOMAIN mem.entries : Settled(i)
  BY <1>1, <1>2 DEF NextInv
<1>6. \A q \in Quarantines : box[q] # None => q \in mem.next.quarantines
  <2> SUFFICES ASSUME NEW q \in Quarantines, box[q] # None PROVE q \in mem.next.quarantines
    OBVIOUS
  <2>1. q \in Inventory
    BY DEF IInv, DiskInv, InventoryFindsAll
  <2>2. CASE q \in manifest.quarantines
    BY <1>2, <2>2 DEF NextInv
  <2>3. CASE q \notin manifest.quarantines
    <3>1. PICK i \in DOMAIN mem.entries : q = PathOf(mem.entries[i])
      BY <1>3, <2>1, <2>3
    <3> QED BY <1>5, <3>1 DEF Settled
  <2> QED BY <2>2, <2>3
<1>7. \A q \in mem.next.quarantines : q \in manifest.quarantines \/ \E i \in DOMAIN mem.entries : q = PathOf(mem.entries[i])
  BY <1>1, <1>2 DEF NextInv
<1>8. \A q \in mem.next.quarantines : q[2] <= run /\ (box[q] # None => box[q].bytes = "stdd")
  <2>1. run \in Nat /\ \A q \in manifest.quarantines : q[2] <= run
    BY DEF IInv, DiskInv
  <2>2. \A i \in DOMAIN mem.entries : PathOf(mem.entries[i])[2] = run
    BY <1>2, EntryAt DEF EntriesInv
  <2> QED BY <1>2, <1>7, <2>1, <2>2 DEF NextInv
<1>9. journal # None => Committed(journal)'
  <2>1. mem.entries = <<>> => journal = None
    BY <1>2 DEF EntriesInv
  <2>2. journal # None =>
          \A i \in 1 .. Len(journal.entries) :
            LET e == journal.entries[i]
            IN  /\ e.phase = "quarantined" /\ PathOf(e) \in mem.next.quarantines
                /\ e.keepSource <=> e.file \in mem.next.files
    BY <1>2, <1>3, <1>5, <2>1 DEF Settled
  <2> QED BY <1>4, <2>2 DEF Committed
<1>10. InventoryFindsAll'
  BY <1>4, <1>6 DEF InventoryFindsAll, Inventory
<1>11. DiskInv'
  BY <1>4, <1>8, <1>9, <1>10 DEF IInv, DiskInv
<1>12. \A q \in mem.next.quarantines : q \in manifest.quarantines \/ box[q] # None
  BY <1>5, <1>7 DEF Settled
<1> QED BY <1>3, <1>4, <1>6, <1>11, <1>12

LEMMA PublishKeeps == IInv /\ Publish => IInv'
<1> SUFFICES ASSUME IInv, Publish PROVE IInv'
  OBVIOUS
<1>1. /\ pc = "scan" /\ manifest' = Published /\ UNCHANGED <<at, box, journal, run>>
      /\ End \/ (mem.entries # <<>> /\ pc' = "zero" /\ mem' = mem)
  BY DEF Publish, Goto
<1>2. /\ DiskInv' /\ \A q \in Quarantines : box[q] # None => q \in manifest'.quarantines
      /\ mem.entries # <<>> => journal # None
  BY <1>1, PublishedFacts
<1>3. CASE End
  BY <1>2, <1>3, EndKeeps
<1>4. CASE mem.entries # <<>> /\ pc' = "zero" /\ mem' = mem
  <2>1. ~mem.recovering
    BY <1>1, ScanningFacts DEF Scanning
  <2>2. MemInv'
    BY <1>1, <1>4, <2>1 DEF IInv, MemInv, Labels, Scanning
  <2>3. ZeroInv' /\ ScanInv' /\ RollbackInv'
    BY <1>1, <1>2, <1>4 DEF ZeroInv, ScanInv, RollbackInv, Scanning, Backing
  <2> QED BY <1>2, <2>2, <2>3 DEF IInv
<1> QED BY <1>1, <1>3, <1>4

LEMMA FaultKeeps == IInv /\ NativeFault => IInv'
<1> SUFFICES ASSUME IInv, NativeFault PROVE IInv'
  OBVIOUS
<1>1. UNCHANGED run
  BY DEF NativeFault
<1>2. CASE FailRecovery
  BY <1>1, <1>2, DiskStays, EndKeeps DEF FailRecovery, IInv
<1>3. CASE FailPreparation
  <2>1. pc \in Scanning
    BY <1>3 DEF FailPreparation, Scanning
  <2> QED BY <1>1, <1>3, <2>1, AbandonKeeps DEF FailPreparation
<1>4. CASE FailMove
  <2> PICK e : e = mem.entries[mem.k]
    OBVIOUS
  <2>1. /\ pc \in Planned /\ UNCHANGED manifest
        /\ UNCHANGED <<at, box>> \/ (at[e.file] # None /\ Moves(e))
        /\ FailEntry \/ (End /\ UNCHANGED journal)
    BY <1>4 DEF FailMove, Planned
  <2>2. End /\ (journal' = journal \/ journal' = Written(Marked(mem.entries, mem.k)))
    BY <2>1, FailEntryEnds
  <2>3. /\ at' \in [Files -> File \union {None}] /\ box' \in [Quarantines -> File \union {None}]
        /\ \A q \in Quarantines : q # PathOf(e) => box'[q] = box[q]
    <3>1. CASE UNCHANGED <<at, box>>
      BY <3>1 DEF IInv, DiskInv
    <3>2. CASE at[e.file] # None /\ Moves(e)
      BY <2>1, <3>2, MovesFacts
    <3> QED BY <2>1, <3>1, <3>2
  <2>4. DiskInv'
    BY <1>1, <2>1, <2>2, <2>3, TroubledKeepsDisk
  <2> QED BY <2>2, <2>4, EndKeeps
<1>5. CASE FailRollback
  <2>1. /\ pc \in Backing /\ mem.k > 0 /\ pc' = "rollback" /\ mem' = Unresolved(mem) /\ UNCHANGED disk
    BY <1>5 DEF FailRollback, GotoWith, Backing
  <2> QED BY <1>1, <2>1, NextEntryKeeps
<1>6. CASE FailPublish
  <2>1. pc = "scan" /\ End /\ UNCHANGED <<at, box, journal>> /\ (manifest' = manifest \/ manifest' = Published)
    BY <1>6 DEF FailPublish
  <2>2. DiskInv'
    BY <1>1, <2>1, PublishedFacts, DiskStays DEF IInv, disk
  <2> QED BY <2>1, <2>2, EndKeeps
<1> QED BY <1>2, <1>3, <1>4, <1>5, <1>6 DEF NativeFault

LEMMA CrashKeeps == IInv /\ Crash => IInv'
  BY DiskStays, EndKeeps DEF Crash, IInv

(* The user changes files, and empties what the manifest lists.            *)
LEMMA EditsMean ==
  ASSUME IInv, UserEdits
  PROVE  /\ UNCHANGED <<journal, manifest, run, pc, mem>>
         /\ at' \in [Files -> File \union {None}] /\ box' \in [Quarantines -> File \union {None}]
         /\ \A q \in Quarantines : box'[q] # box[q] => q \in manifest.quarantines /\ box'[q] = None
<1>1. /\ at \in [Files -> File \union {None}] /\ box \in [Quarantines -> File \union {None}]
      /\ manifest.quarantines \subseteq Quarantines
  BY DEF IInv, DiskInv, Manifest
<1>2. UNCHANGED <<journal, manifest, run, pc, mem>>
  BY DEF UserEdits
<1>3. CASE \E f \in Files :
             /\ UNCHANGED box
             /\ \/ at[f] # None /\ at' = [at EXCEPT ![f].bytes = "user"]
                \/ at' = [at EXCEPT ![f] = [made |-> User, bytes |-> "user"]]
                \/ at[f] # None /\ at' = [at EXCEPT ![f] = None]
  <2>1. PICK f \in Files :
             /\ UNCHANGED box
             /\ \/ at[f] # None /\ at' = [at EXCEPT ![f].bytes = "user"]
                \/ at' = [at EXCEPT ![f] = [made |-> User, bytes |-> "user"]]
                \/ at[f] # None /\ at' = [at EXCEPT ![f] = None]
    BY <1>3
  <2>2. \A x \in File : [x EXCEPT !.bytes = "user"] \in File
    BY DEF File
  <2>3. [made |-> User, bytes |-> "user"] \in File
    BY FilesAssumption DEF File, User
  <2>4. PICK x \in File \union {None} : at' = [at EXCEPT ![f] = x]
    <3>1. CASE at[f] # None /\ at' = [at EXCEPT ![f].bytes = "user"]
      <4>1. at[f] \in File
        BY <1>1, <3>1
      <4>2. PICK x : x = [at[f] EXCEPT !.bytes = "user"]
        OBVIOUS
      <4>3. x \in File /\ at' = [at EXCEPT ![f] = x]
        BY <2>2, <3>1, <4>1, <4>2
      <4> QED BY <4>3
    <3>2. CASE at' = [at EXCEPT ![f] = [made |-> User, bytes |-> "user"]]
      BY <2>3, <3>2
    <3>3. CASE at' = [at EXCEPT ![f] = None]
      BY <3>3
    <3> QED BY <2>1, <3>1, <3>2, <3>3
  <2> QED BY <1>1, <1>2, <2>1, <2>4
<1>4. CASE \E q \in manifest.quarantines : box[q] # None /\ box' = [box EXCEPT ![q] = None] /\ UNCHANGED at
  BY <1>1, <1>2, <1>4
<1> QED BY <1>3, <1>4 DEF UserEdits

LEMMA EditsKeep == IInv /\ UserEdits => IInv'
<1> SUFFICES ASSUME IInv, UserEdits PROVE IInv'
  OBVIOUS
<1>1. /\ UNCHANGED <<journal, manifest, run, pc, mem>>
      /\ at' \in [Files -> File \union {None}] /\ box' \in [Quarantines -> File \union {None}]
      /\ \A q \in Quarantines : box'[q] # box[q] => q \in manifest.quarantines /\ box'[q] = None
  BY EditsMean
<1>2. \A q \in Quarantines : box'[q] # None => box'[q] = box[q]
  BY <1>1
<1>3. DiskInv'
  BY <1>1, <1>2, EmptyingKeepsDisk DEF IInv
<1>4. MemInv' /\ ZeroInv'
  BY <1>1, <1>2 DEF IInv, MemInv, ZeroInv
<1>5. ScanInv'
  <2> SUFFICES ASSUME pc \in Scanning PROVE ScanInv'
    BY <1>1 DEF ScanInv
  <2>1. /\ EntriesInv /\ NextInv /\ mem.next \in Manifest /\ manifest.quarantines \subseteq Quarantines
        /\ \A i \in DOMAIN mem.entries :
             PathOf(mem.entries[i]) \in Quarantines /\ PathOf(mem.entries[i]) \notin manifest.quarantines
    BY ScanningFacts
  <2>2. \A i \in DOMAIN mem.entries : box'[PathOf(mem.entries[i])] = box[PathOf(mem.entries[i])]
    BY <1>1, <2>1
  <2>3. EntriesInv'
    BY <1>1, <2>1 DEF EntriesInv
  <2>4. NextInv'
    <3>1. SettledNow' = SettledNow /\ SettledNow \subseteq DOMAIN mem.entries
      BY <1>1 DEF SettledNow
    <3>2. \A i \in SettledNow : Settled(i)'
      BY <1>1, <2>1, <2>2, <3>1 DEF NextInv, Settled
    <3>3. mem.next.quarantines \subseteq Quarantines
      BY <2>1 DEF Manifest
    <3> QED BY <1>1, <1>2, <2>1, <3>1, <3>2, <3>3 DEF NextInv
  <2>5. PlannedInv => PlannedInv'
    BY <1>1, <2>2 DEF PlannedInv
  <2> QED BY <1>1, <2>3, <2>4, <2>5 DEF IInv, ScanInv
<1>6. RollbackInv'
  <2>1. mem.entries \in Seq(Entry)
    BY DEF IInv, MemInv, Memory
  <2>2. \A i \in DOMAIN mem.entries :
          box[PathOf(mem.entries[i])] = None => box'[PathOf(mem.entries[i])] = None
    <3>1. \A i \in DOMAIN mem.entries : PathOf(mem.entries[i]) \in Quarantines
      BY <2>1, EntryAt
    <3> QED BY <1>2, <3>1
  <2> QED BY <1>1, <2>2 DEF IInv, RollbackInv
<1> QED BY <1>3, <1>4, <1>5, <1>6 DEF IInv

LEMMA NextKeeps == IInv /\ [Next]_vars => IInv'
<1> SUFFICES ASSUME IInv, [Next]_vars PROVE IInv'
  OBVIOUS
<1>1. CASE Step
  BY <1>1, StartKeeps, RecoverNothingKeeps, RecoverBlankKeeps, RecoverCommittedKeeps,
     RecoverRollbackKeeps, RollbackKeeps, ReturnedKeeps, RolledBackKeeps, ZeroKeeps, RetireKeeps,
     GenerateKeeps, GeneratedKeeps, PreserveKeeps, PlanKeeps, BindKeeps, MoveKeeps, CheckKeeps,
     PublishKeeps DEF Step
<1>2. CASE NativeFault \/ Crash \/ UserEdits
  BY <1>2, FaultKeeps, CrashKeeps, EditsKeep
<1>3. CASE UNCHANGED vars
  <2>1. UNCHANGED <<at, box, journal, manifest, run, pc, mem>>
    BY <1>3 DEF vars
  <2>2. DiskInv'
    BY <2>1, DiskStays DEF IInv, disk
  <2>3. MemInv' /\ ZeroInv' /\ RollbackInv'
    BY <2>1 DEF IInv, MemInv, ZeroInv, RollbackInv
  <2>4. ScanInv'
    BY <2>1 DEF IInv, ScanInv, EntriesInv, NextInv, PlannedInv, Settled, SettledNow
  <2> QED BY <2>2, <2>3, <2>4 DEF IInv
<1> QED BY <1>1, <1>2, <1>3 DEF Next

LEMMA IInvMeans == IInv => JournalIsSound
<1> SUFFICES ASSUME IInv PROVE JournalIsSound
  OBVIOUS
<1>1. TypeOK
  BY DEF IInv, DiskInv, MemInv, Memory, TypeOK, Labels, Scanning, Backing
<1>2. InventoryFindsAll
  BY DEF IInv, DiskInv
<1>3. CleanMeansSettled
  <2> SUFFICES ASSUME ~Drift
               PROVE  /\ {q \in Quarantines : box[q] # None} = manifest.quarantines
                      /\ \A q \in manifest.quarantines : box[q].bytes = "stdd"
    BY DEF CleanMeansSettled
  <2>1. journal = None /\ \A q \in manifest.quarantines : box[q] # None
    BY DEF Drift
  <2>2. Inventory = manifest.quarantines /\ manifest.quarantines \subseteq Quarantines
    BY <2>1 DEF Inventory, IInv, DiskInv, Manifest
  <2> QED BY <1>2, <2>1, <2>2 DEF InventoryFindsAll, IInv, DiskInv
<1> QED BY <1>1, <1>2, <1>3 DEF JournalIsSound

(* JournalIsSound: wherever an init is killed or fails, and whatever the   *)
(* user does meanwhile, doctor's inventory shows every file in quarantine, *)
(* and a clean check means that nothing of a retirement is left halfway.   *)
THEOREM JournalStaysSound == Spec => []JournalIsSound
<1> QED BY InitInv, NextKeeps, IInvMeans, PTL DEF Spec

-----------------------------------------------------------------------------
(* WHAT NO STEP MAY DO.                                                    *)
Counted == edits \in Nat

LEMMA CountedStep == Counted /\ [Next]_vars => Counted'
<1> SUFFICES ASSUME Counted, Next PROVE Counted'
  BY DEF Counted, vars
<1>1. CASE Start \/ RecoverNothing \/ RecoverBlank
  BY <1>1 DEF Counted, budget, Start, RecoverNothing, RecoverBlank
<1>2. CASE RecoverCommitted \/ RecoverRollback \/ Rollback
  BY <1>2 DEF Counted, budget, RecoverCommitted, RecoverRollback, Rollback
<1>3. CASE Returned \/ RolledBack \/ Zero
  BY <1>3 DEF Counted, budget, Returned, RolledBack, Zero
<1>4. CASE Retire \/ Generate \/ Generated
  BY <1>4 DEF Counted, budget, Retire, Generate, Generated
<1>5. CASE Preserve \/ Plan \/ Bind
  BY <1>5 DEF Counted, budget, Preserve, Plan, Bind
<1>6. CASE Move \/ Check \/ Publish
  BY <1>6 DEF Counted, budget, Move, Check, Publish
<1>7. CASE NativeFault \/ Crash \/ UserEdits
  BY <1>7 DEF Counted, NativeFault, Crash, UserEdits
<1> QED BY <1>1, <1>2, <1>3, <1>4, <1>5, <1>6, <1>7 DEF Next, Step

(* Where user bytes may be at all.                                         *)
LEMMA QuietKeeps ==
  ASSUME UNCHANGED <<at, box>>
  PROVE  UserBytesSurvive
  BY DEF UserBytesSurvive, HasUserBytes

LEMMA PublishedKeeps ==
  ASSUME IInv, UNCHANGED <<box, manifest>>
  PROVE  CommittedIsKept
  BY DEF CommittedIsKept

LEMMA MoveLosesNothing ==
  ASSUME IInv, pc = "move", NEW e, e = mem.entries[mem.k], at[e.file] # None, Moves(e),
         UNCHANGED manifest
  PROVE  CommittedIsKept /\ UserBytesSurvive
<1>1. pc \in Planned
  BY DEF Planned
<1>2. /\ PlannedInv /\ e \in Entry /\ PathOf(e) \in Quarantines /\ manifest.quarantines \subseteq Quarantines
      /\ PathOf(e) \notin manifest.quarantines /\ e.file \in Files /\ e.run \in Runs
  BY <1>1, AtWork, ScanningFacts, PathFacts
<1>3. /\ box'[PathOf(e)] = at[e.file] /\ at'[e.file] = None
      /\ \A q \in Quarantines : q # PathOf(e) => box'[q] = box[q]
      /\ \A f \in Files : f # e.file => at'[f] = at[f]
  BY <1>1, MovesFacts
<1>4. box[PathOf(e)] = None
  BY <1>2 DEF PlannedInv
<1>5. CommittedIsKept
  BY <1>2, <1>3 DEF CommittedIsKept
<1>6. ASSUME NEW f \in Files, HasUserBytes(f) PROVE HasUserBytes(f)'
  <2>1. CASE at[f] # None /\ at[f].bytes = "user"
    <3>1. CASE f = e.file
      <4>1. PathOf(e) = <<f, e.run>>
        BY <3>1 DEF PathOf
      <4> QED BY ZenonT(40), <1>2, <1>3, <2>1, <3>1, <4>1 DEF HasUserBytes
    <3>2. CASE f # e.file
      BY <1>3, <2>1, <3>2 DEF HasUserBytes
    <3> QED BY <3>1, <3>2
  <2>2. CASE \E n \in Runs : box[<<f, n>>] # None /\ box[<<f, n>>].bytes = "user"
    <3>1. PICK n \in Runs : box[<<f, n>>] # None /\ box[<<f, n>>].bytes = "user"
      BY <2>2
    <3>2. <<f, n>> \in Quarantines /\ <<f, n>> # PathOf(e)
      BY <1>4, <3>1 DEF Quarantines
    <3> QED BY <1>3, <3>1, <3>2 DEF HasUserBytes
  <2> QED BY <1>6, <2>1, <2>2 DEF HasUserBytes
<1> QED BY <1>5, <1>6 DEF UserBytesSurvive

LEMMA RollbackLosesNothing == IInv /\ Rollback => CommittedIsKept /\ UserBytesSurvive
<1> SUFFICES ASSUME IInv, Rollback PROVE CommittedIsKept /\ UserBytesSurvive
  OBVIOUS
<1> PICK e : e = mem.entries[mem.k]
  OBVIOUS
<1>1. /\ pc = "rollback" /\ mem.k > 0
      /\ \/ UNCHANGED disk
         \/ /\ StateOf(e) = "quarantined" /\ ~KeepsSource(e)
            /\ at' = [at EXCEPT ![e.file] = box[PathOf(e)]]
            /\ box' = [box EXCEPT ![PathOf(e)] = None]
            /\ UNCHANGED <<journal, manifest>>
  BY DEF Rollback
<1>2. CASE UNCHANGED disk
  BY <1>2, QuietKeeps, PublishedKeeps DEF disk
<1>3. CASE /\ StateOf(e) = "quarantined" /\ ~KeepsSource(e)
           /\ at' = [at EXCEPT ![e.file] = box[PathOf(e)]]
           /\ box' = [box EXCEPT ![PathOf(e)] = None]
           /\ UNCHANGED <<journal, manifest>>
  <2>1. e \in Entry /\ PathOf(e) \in Quarantines /\ PathOf(e) \notin manifest.quarantines /\ e.file \in Files
    BY <1>1, RollingBack, PathFacts DEF Backing
  <2>2. /\ at \in [Files -> File \union {None}] /\ box \in [Quarantines -> File \union {None}]
        /\ manifest.quarantines \subseteq Quarantines
    BY DEF IInv, DiskInv, Manifest
  <2>3. /\ at'[e.file] = box[PathOf(e)] /\ \A f \in Files : f # e.file => at'[f] = at[f]
        /\ box'[PathOf(e)] = None /\ \A q \in Quarantines : q # PathOf(e) => box'[q] = box[q]
    BY <1>3, <2>1, <2>2
  <2>4. at[e.file] = None
    BY <1>3 DEF KeepsSource
  <2>5. CommittedIsKept
    BY <1>3, <2>1, <2>2, <2>3 DEF CommittedIsKept
  <2>6. ASSUME NEW f \in Files, HasUserBytes(f) PROVE HasUserBytes(f)'
    <3>1. CASE at[f] # None /\ at[f].bytes = "user"
      BY <2>3, <2>4, <3>1 DEF HasUserBytes
    <3>2. CASE \E n \in Runs : box[<<f, n>>] # None /\ box[<<f, n>>].bytes = "user"
      <4>1. PICK n \in Runs : box[<<f, n>>] # None /\ box[<<f, n>>].bytes = "user"
        BY <3>2
      <4>2. <<f, n>> \in Quarantines
        BY DEF Quarantines
      <4>3. box[PathOf(e)].bytes = "stdd"
        BY <1>3, StateMeans
      <4>4. <<f, n>> # PathOf(e)
        BY <4>1, <4>3
      <4> QED BY <2>3, <4>1, <4>2, <4>4 DEF HasUserBytes
    <3> QED BY <2>6, <3>1, <3>2 DEF HasUserBytes
  <2> QED BY <2>5, <2>6 DEF UserBytesSurvive
<1> QED BY <1>1, <1>2, <1>3

LEMMA GenerateLosesOutputsOnly == IInv /\ Generate => CommittedIsKept /\ UserBytesSurvive
<1> SUFFICES ASSUME IInv, Generate PROVE CommittedIsKept /\ UserBytesSurvive
  OBVIOUS
<1>1. pc = "generate" /\ UNCHANGED <<box, manifest>>
  BY DEF Generate
<1>2. PICK f \in mem.write :
        \/ UNCHANGED at
        \/ at' = [at EXCEPT ![f] = IF f \in Outputs \/ at[f] = None THEN Fresh(run)
                                   ELSE [made |-> run, bytes |-> at[f].bytes]]
  BY DEF Generate
<1>3. f \in Files /\ at \in [Files -> File \union {None}] /\ run \in 0 .. User
  BY FilesAssumption DEF IInv, DiskInv, MemInv, Memory, User
<1>4. ASSUME NEW g \in Files, HasUserBytes(g), g \notin Outputs PROVE HasUserBytes(g)'
  <2>1. CASE at[g] # None /\ at[g].bytes = "user"
    <3>1. at'[g] = at[g] \/ at'[g] = [made |-> run, bytes |-> "user"]
      BY <1>2, <1>3, <1>4, <2>1
    <3>2. [made |-> run, bytes |-> "user"] \in File /\ [made |-> run, bytes |-> "user"].bytes = "user"
      BY <1>3 DEF File
    <3>3. at'[g] # None /\ at'[g].bytes = "user"
      BY <2>1, <3>1, <3>2, NoneAssumption
    <3> QED BY <3>3 DEF HasUserBytes
  <2>2. CASE \E n \in Runs : box[<<g, n>>] # None /\ box[<<g, n>>].bytes = "user"
    BY <1>1, <2>2 DEF HasUserBytes
  <2> QED BY <1>4, <2>1, <2>2 DEF HasUserBytes
<1> QED BY <1>1, <1>4, PublishedKeeps DEF UserBytesSurvive

LEMMA NextLosesNothing ==
  IInv /\ Counted /\ [Next]_vars => [CommittedIsKept /\ UserBytesSurvive]_vars
<1> SUFFICES ASSUME IInv, Counted, Next PROVE CommittedIsKept /\ UserBytesSurvive
  BY DEF vars
<1>1. CASE UNCHANGED <<at, box, manifest>>
  BY <1>1, QuietKeeps, PublishedKeeps
<1>2. ASSUME pc = "scan", UNCHANGED <<at, box, journal, run>>, manifest' = Published
      PROVE  CommittedIsKept /\ UserBytesSurvive
  <2>1. CommittedIsKept
    BY <1>2, PublishedFacts DEF CommittedIsKept
  <2> QED BY <1>2, <2>1, QuietKeeps
<1>3. CASE Start \/ RecoverNothing \/ RecoverBlank \/ RecoverCommitted \/ RecoverRollback \/ Returned
  BY <1>1, <1>3 DEF Start, RecoverNothing, RecoverBlank, RecoverCommitted, RecoverRollback, Returned, disk
<1>4. CASE RolledBack \/ Zero \/ Retire \/ Generated \/ Preserve \/ Plan \/ Bind \/ Check
  BY <1>1, <1>4 DEF RolledBack, Zero, Retire, Generated, Preserve, Plan, Bind, Check, disk
<1>5. CASE Move
  <2>1. PICK e : /\ e = mem.entries[mem.k] /\ pc = "move" /\ UNCHANGED manifest
                 /\ UNCHANGED <<at, box>> \/ (at[e.file] # None /\ Moves(e))
    BY <1>5 DEF Move
  <2> QED BY <1>1, <2>1, MoveLosesNothing
<1>6. CASE Publish
  BY <1>2, <1>6 DEF Publish
<1>7. CASE NativeFault
  <2>1. CASE FailRecovery \/ FailPreparation \/ FailRollback
    BY <1>1, <2>1 DEF FailRecovery, FailPreparation, FailRollback, disk
  <2>2. CASE FailMove
    <3>1. PICK e : /\ e = mem.entries[mem.k] /\ pc = "move" /\ UNCHANGED manifest
                   /\ UNCHANGED <<at, box>> \/ (at[e.file] # None /\ Moves(e))
      BY <2>2 DEF FailMove
    <3> QED BY <1>1, <3>1, MoveLosesNothing
  <2>3. CASE FailPublish
    <3>1. /\ pc = "scan" /\ UNCHANGED <<at, box, journal, run>>
          /\ manifest' = manifest \/ manifest' = Published
      BY <1>7, <2>3 DEF NativeFault, FailPublish
    <3> QED BY <1>1, <1>2, <3>1
  <2> QED BY <1>7, <2>1, <2>2, <2>3 DEF NativeFault
<1>8. CASE Crash
  BY <1>1, <1>8 DEF Crash, disk
<1>9. CASE UserEdits
  <2>1. edits' # edits
    BY <1>9 DEF UserEdits, Counted
  <2>2. /\ UNCHANGED manifest /\ manifest.quarantines \subseteq Quarantines
        /\ \A q \in Quarantines : box'[q] # box[q] => q \in manifest.quarantines /\ box'[q] = None
    BY <1>9, EditsMean DEF IInv, DiskInv, Manifest
  <2> QED BY <2>1, <2>2 DEF CommittedIsKept, UserBytesSurvive
<1> QED BY <1>3, <1>4, <1>5, <1>6, <1>7, <1>8, <1>9, RollbackLosesNothing, GenerateLosesOutputsOnly
        DEF Next, Step

(* NothingIsLost: no step of an init, of its recovery, of a failure or of  *)
(* a kill takes back a retirement that was published, nor destroys bytes   *)
(* the user wrote, but for an output that is generated again.              *)
THEOREM NothingIsEverLost == Spec => NothingIsLost
<1>1. Init => Counted
  BY DEF Init, Counted
<1> QED BY <1>1, InitInv, NextKeeps, CountedStep, NextLosesNothing, PTL DEF Spec, NothingIsLost
=============================================================================
