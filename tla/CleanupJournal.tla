--------------------------- MODULE CleanupJournal ---------------------------
(***************************************************************************)
(* How init and configure take generated files out of use                  *)
(* (finalizeGeneratedFilesWithCapabilities and its recovery in             *)
(* cli/generated-files.mjs, called by init in cli/init.mjs).  A profile    *)
(* that no longer generates a file moves it into a private quarantine,     *)
(* under a write-ahead journal; publishing the new manifest commits the    *)
(* moves, and then the journal is zeroed in place and renamed away.  An    *)
(* init that finds a journal first rolls its moves back, or completes a    *)
(* committed one.                                                          *)
(*                                                                         *)
(* One init runs at a time.  Any native call may fail, the process may be  *)
(* killed between any two of them, and an editor changes, replaces and     *)
(* removes the same files meanwhile.  A file is its inode, named by the    *)
(* transaction count when it was made, and whether its bytes are still the *)
(* generated ones.  A quarantine path is random: it is named by the file   *)
(* and the transaction that chose it.                                      *)
(***************************************************************************)
EXTENDS Naturals, Sequences, FiniteSets

CONSTANTS
  Outputs,       \* files the manifest tracks
  Instructions,  \* user-owned instruction files holding a managed section
  Released,      \* outputs that stdd no longer generates and leaves in place
  None,          \* an absent file or journal
  MaxRuns,       \* bound: cleanup transactions begun
  MaxFaults,     \* bound: native calls that fail
  MaxCrashes,    \* bound: inits killed
  MaxEdits       \* bound: changes by the user

ASSUME FilesAssumption ==
  /\ Outputs \intersect Instructions = {}
  /\ Released \subseteq Outputs
  /\ MaxRuns \in Nat /\ MaxFaults \in Nat /\ MaxCrashes \in Nat /\ MaxEdits \in Nat

Files == Outputs \union Instructions
Runs == 1 .. MaxRuns
Quarantines == Files \X Runs
User == MaxRuns + 1   \* the maker of an inode no init made

VARIABLES
  at,        \* at[f]: what is at the path of f
  box,       \* box[q]: what is at quarantine path q
  journal,   \* .stdd/cleanup-transaction.json
  manifest,  \* .stdd/manifest.json
  run,       \* transactions begun
  pc, mem,   \* the running init: where it stands and what it holds
  faults, crashes, edits

vars == <<at, box, journal, manifest, run, pc, mem, faults, crashes, edits>>
disk == <<at, box, journal, manifest>>
budget == <<faults, crashes, edits>>

File == [made : 0 .. User, bytes : {"stdd", "user"}]
Entry == [file : Files, run : Runs, made : 0 .. User,
          phase : {"planned", "quarantined", "unresolved"}, keepSource : BOOLEAN]
Journal == [entries : Seq(Entry), blank : BOOLEAN, id : Runs]
Manifest == [files : SUBSET Outputs, quarantines : SUBSET Quarantines, tombs : SUBSET Runs]

ASSUME NoneAssumption == None \notin File /\ None \notin Journal

NoMemory == [old |-> {}, write |-> {}, todo |-> {}, seen |-> [f \in Instructions |-> None],
             next |-> [files |-> {}, quarantines |-> {}, tombs |-> {}],
             entries |-> <<>>, k |-> 0, bad |-> FALSE, recovering |-> TRUE]

TypeOK ==
  /\ at \in [Files -> File \union {None}]
  /\ box \in [Quarantines -> File \union {None}]
  /\ journal \in Journal \union {None}
  /\ manifest \in Manifest
  /\ run \in 0 .. MaxRuns
  /\ pc \in {"idle", "recover", "rollback", "returned", "zero", "retire", "generate",
             "scan", "bind", "move", "check", "publish"}
  /\ mem.entries \in Seq(Entry)
  /\ mem.next \in Manifest
  /\ mem.todo \subseteq Files /\ mem.write \subseteq Files

Fresh(n) == [made |-> n, bytes |-> "stdd"]

Init ==
  /\ at = [f \in Files |-> Fresh(0)]
  /\ box = [q \in Quarantines |-> None]
  /\ journal = None
  /\ manifest = [files |-> Outputs, quarantines |-> {}, tombs |-> {}]
  /\ run = 0
  /\ pc = "idle"
  /\ mem = NoMemory
  /\ faults = 0 /\ crashes = 0 /\ edits = 0

-----------------------------------------------------------------------------
(* What the paths of an entry hold now.                                    *)
Exact(x, e) == x # None /\ x.made = e.made /\ x.bytes = "stdd"

PathOf(e) == <<e.file, e.run>>

StateOf(e) ==
  CASE Exact(box[PathOf(e)], e) -> "quarantined"
    [] Exact(at[e.file], e) /\ box[PathOf(e)] = None -> "restored"
    [] OTHER -> "unresolved"

KeepsSource(e) == at[e.file] # None

(* A slip: the manifest is not consulted, every journal is rolled back.    *)
CommittedNever(j) == FALSE

Committed(j) ==
  \A i \in 1 .. Len(j.entries) :
    LET e == j.entries[i]
    IN  /\ e.phase = "quarantined"
        /\ PathOf(e) \in manifest.quarantines
        /\ e.keepSource <=> e.file \in manifest.files

CompletedCleanly(j) ==
  \A i \in 1 .. Len(j.entries) :
    LET e == j.entries[i]
    IN  StateOf(e) = "quarantined" /\ KeepsSource(e) = e.keepSource

(* The journal's inode is the one the manifest recorded just before its    *)
(* publication, so even a zeroed journal can be told to be settled.        *)
Recorded(j) == j.id \in manifest.tombs

Goto(label) == pc' = label /\ UNCHANGED mem
GotoWith(label, m) == pc' = label /\ mem' = m
End == GotoWith("idle", NoMemory)

Written(entries) == [entries |-> entries, blank |-> FALSE, id |-> run']

(* An error inside a retirement: what is provable is rolled back at once,  *)
(* and the journal stays for the next init either way.                     *)
Abandon(m) ==
  IF m.entries = <<>> \/ \E i \in 1 .. Len(m.entries) : m.entries[i].phase = "unresolved"
  THEN End
  ELSE GotoWith("rollback", [m EXCEPT !.k = Len(m.entries), !.bad = FALSE])

-----------------------------------------------------------------------------
(* init with some profile: it generates `keep` and retires the rest.       *)
Start ==
  /\ pc = "idle"
  /\ \E keep \in SUBSET (Files \ Released) :
       /\ run = MaxRuns => keep = Files \ Released
       /\ GotoWith("recover", [NoMemory EXCEPT
            !.write = keep,
            !.seen = [f \in Instructions |-> at[f]],
            !.next = [files |-> {}, quarantines |-> {}, tombs |-> manifest.tombs],
            !.todo = (manifest.files \ (keep \union Released))
                       \union {f \in Instructions \ keep :
                                 at[f] # None /\ at[f].bytes = "stdd"},
            !.old = manifest.quarantines])
  /\ UNCHANGED <<disk, run, budget>>

RecoverNothing ==
  /\ pc = "recover" /\ journal = None
  /\ GotoWith("generate", [mem EXCEPT !.recovering = FALSE])
  /\ UNCHANGED <<disk, run, budget>>

(* A slip: an unreadable journal is always an error.                       *)
RecoverBlankNever ==
  /\ pc = "recover" /\ journal # None /\ journal.blank
  /\ End
  /\ UNCHANGED <<disk, run, budget>>

RecoverBlank ==
  /\ pc = "recover" /\ journal # None /\ journal.blank
  /\ IF Recorded(journal) THEN Goto("zero") ELSE End
  /\ UNCHANGED <<disk, run, budget>>

RecoverCommitted ==
  /\ pc = "recover" /\ journal # None /\ ~journal.blank /\ Committed(journal)
  /\ IF CompletedCleanly(journal) THEN Goto("zero") ELSE End
  /\ UNCHANGED <<disk, run, budget>>

RecoverRollback ==
  /\ pc = "recover" /\ journal # None /\ ~journal.blank /\ ~Committed(journal)
  /\ GotoWith("rollback", [mem EXCEPT !.entries = journal.entries,
                                      !.k = Len(journal.entries), !.bad = FALSE])
  /\ UNCHANGED <<disk, run, budget>>

Unresolved(m) ==
  [m EXCEPT !.entries[m.k].phase = "unresolved", !.k = m.k - 1, !.bad = TRUE]

(* A slip: the rename replaces what it finds at the source.                *)
RollbackOver ==
  /\ pc = "rollback" /\ mem.k > 0
  /\ LET e == mem.entries[mem.k] IN
     CASE StateOf(e) = "restored" ->
            GotoWith("rollback", [mem EXCEPT !.k = @ - 1]) /\ UNCHANGED disk
       [] StateOf(e) = "quarantined" ->
            /\ at' = [at EXCEPT ![e.file] = box[PathOf(e)]]
            /\ box' = [box EXCEPT ![PathOf(e)] = None]
            /\ Goto("returned")
            /\ UNCHANGED <<journal, manifest>>
       [] OTHER -> GotoWith("rollback", Unresolved(mem)) /\ UNCHANGED disk
  /\ UNCHANGED <<run, budget>>

(* One entry, the last moved first.                                        *)
Rollback ==
  /\ pc = "rollback" /\ mem.k > 0
  /\ LET e == mem.entries[mem.k] IN
     CASE StateOf(e) = "restored" ->
            GotoWith("rollback", [mem EXCEPT !.k = @ - 1]) /\ UNCHANGED disk
       [] StateOf(e) = "quarantined" /\ ~KeepsSource(e) ->
            /\ at' = [at EXCEPT ![e.file] = box[PathOf(e)]]
            /\ box' = [box EXCEPT ![PathOf(e)] = None]
            /\ Goto("returned")
            /\ UNCHANGED <<journal, manifest>>
       [] OTHER -> GotoWith("rollback", Unresolved(mem)) /\ UNCHANGED disk
  /\ UNCHANGED <<run, budget>>

Returned ==
  /\ pc = "returned"
  /\ GotoWith("rollback", IF StateOf(mem.entries[mem.k]) = "restored"
                          THEN [mem EXCEPT !.k = @ - 1] ELSE Unresolved(mem))
  /\ UNCHANGED <<disk, run, budget>>

(* All moved back: a recovering init retires the journal and goes on, a    *)
(* failing one leaves it.  Otherwise the journal says what is unresolved.  *)
RolledBack ==
  /\ pc = "rollback" /\ mem.k = 0
  /\ UNCHANGED run
  /\ IF mem.bad THEN End /\ journal' = [Written(mem.entries) EXCEPT !.id = journal.id]
     ELSE /\ UNCHANGED journal
          /\ IF mem.recovering
             THEN GotoWith("zero", [mem EXCEPT !.next.tombs = @ \union {journal.id}])
             ELSE End
  /\ UNCHANGED <<at, box, manifest, budget>>

(* The journal is overwritten and truncated in place ...                   *)
Zero ==
  /\ pc = "zero"
  /\ journal' = [journal EXCEPT !.blank = TRUE, !.entries = <<>>]
  /\ Goto("retire")
  /\ UNCHANGED <<at, box, manifest, run, budget>>

(* ... and then renamed to its retained name.                              *)
Retire ==
  /\ pc = "retire"
  /\ journal' = None
  /\ IF mem.recovering
     THEN GotoWith("generate", [mem EXCEPT !.recovering = FALSE, !.entries = <<>>])
     ELSE End
  /\ UNCHANGED <<at, box, manifest, run, budget>>

-----------------------------------------------------------------------------
(* User-owned files are never in the manifest.                             *)
Tracked(f) == {f} \ Instructions

(* Generated outputs are overwritten whatever is there; an instruction     *)
(* file gets its managed section, unless it changed since it was read.     *)
Generate ==
  /\ pc = "generate"
  /\ \E f \in mem.write :
       IF f \in Instructions /\ at[f] # mem.seen[f] THEN End /\ UNCHANGED at
       ELSE /\ at' = [at EXCEPT ![f] =
                 IF f \in Outputs \/ at[f] = None THEN Fresh(run)
                 ELSE [made |-> run, bytes |-> at[f].bytes]]
            /\ GotoWith("generate",
                 [mem EXCEPT !.write = @ \ {f}, !.next.files = @ \union Tracked(f)])
  /\ UNCHANGED <<box, journal, manifest, run, budget>>

(* Retained quarantines are carried over while they are still there.       *)
Generated ==
  /\ pc = "generate" /\ mem.write = {}
  /\ GotoWith("scan", [mem EXCEPT !.next.quarantines = {q \in mem.old : box[q] # None}])
  /\ UNCHANGED <<disk, run, budget>>

Tracks(f) == [mem EXCEPT !.todo = @ \ {f}, !.next.files = @ \union {f}]

(* A file the user removed is forgotten, one the user changed stays        *)
(* tracked, or stops an instruction file's retirement.                     *)
Preserve ==
  /\ pc = "scan"
  /\ \E f \in mem.todo :
       IF at[f] = None THEN GotoWith("scan", [mem EXCEPT !.todo = @ \ {f}])
       ELSE /\ at[f].bytes = "user"
            /\ IF f \in Instructions THEN Abandon(mem) ELSE GotoWith("scan", Tracks(f))
  /\ UNCHANGED <<disk, run, budget>>

(* A slip: the journal is first written when the file has moved.           *)
PlanUnwritten ==
  /\ pc = "scan"
  /\ \E f \in mem.todo :
       /\ at[f] # None /\ at[f].bytes = "stdd"
       /\ run' = IF mem.entries = <<>> THEN run + 1 ELSE run
       /\ LET e == [file |-> f, run |-> run', made |-> at[f].made,
                    phase |-> "planned", keepSource |-> FALSE]
          IN  GotoWith("bind", [mem EXCEPT !.entries = Append(@, e), !.k = Len(mem.entries) + 1,
                                           !.todo = @ \ {f}])
  /\ UNCHANGED <<disk, budget>>

(* The journal names both paths before anything is moved.                  *)
Plan ==
  /\ pc = "scan"
  /\ \E f \in mem.todo :
       /\ at[f] # None /\ at[f].bytes = "stdd"
       /\ run' = IF mem.entries = <<>> THEN run + 1 ELSE run
       /\ LET e == [file |-> f, run |-> run', made |-> at[f].made,
                    phase |-> "planned", keepSource |-> FALSE]
          IN  GotoWith("bind", [mem EXCEPT !.entries = Append(@, e), !.k = Len(mem.entries) + 1,
                                           !.todo = @ \ {f}])
       /\ journal' = Written(mem'.entries)
  /\ UNCHANGED <<at, box, manifest, budget>>

(* The quarantine directory exists, and the journal has its identity.      *)
Bind ==
  /\ pc = "bind"
  /\ Goto("move")
  /\ UNCHANGED <<disk, run, budget>>

(* The entry's fate is unknown: it is journalled so and left to recovery.  *)
FailEntry == LET m == [mem EXCEPT !.entries[mem.k].phase = "unresolved"]
             IN  journal' = Written(m.entries) /\ Abandon(m)

Moves(e) ==
  /\ at' = [at EXCEPT ![e.file] = None]
  /\ box' = [box EXCEPT ![PathOf(e)] = at[e.file]]

(* The helper renames the inode that was inspected, or nothing.            *)
Move ==
  /\ pc = "move"
  /\ UNCHANGED run
  /\ LET e == mem.entries[mem.k] IN
     IF at[e.file] # None /\ at[e.file].made = e.made
     THEN Moves(e) /\ Goto("check") /\ UNCHANGED journal
     ELSE FailEntry /\ UNCHANGED <<at, box>>
  /\ UNCHANGED <<manifest, budget>>

(* What was moved is inspected again before it counts as quarantined.      *)
Check ==
  /\ pc = "check"
  /\ UNCHANGED run
  /\ LET e == mem.entries[mem.k]
         keeps == KeepsSource(e)
         m == [mem EXCEPT !.entries[mem.k].phase = "quarantined",
                          !.entries[mem.k].keepSource = keeps,
                          !.next.quarantines = @ \union {PathOf(e)},
                          !.next.files = IF keeps THEN @ \union {e.file} ELSE @]
     IN  IF StateOf(e) # "quarantined" \/ (keeps /\ e.file \in Instructions)
         THEN FailEntry
         ELSE journal' = Written(m.entries) /\ GotoWith("scan", m)
  /\ UNCHANGED <<at, box, manifest, budget>>

(* The manifest to publish: with moves to commit it records the journal.   *)
Published ==
  IF mem.entries = <<>> THEN mem.next ELSE [mem.next EXCEPT !.tombs = @ \union {run}]

(* The commit point.                                                       *)
Publish ==
  /\ pc = "scan" /\ mem.todo = {}
  /\ manifest' = Published
  /\ IF mem.entries = <<>> THEN End ELSE Goto("zero")
  /\ UNCHANGED <<at, box, journal, run, budget>>

-----------------------------------------------------------------------------
(* A native call fails, before or after it took effect.                    *)
FailRecovery ==
  /\ pc \in {"recover", "generate", "zero", "retire"}
  /\ End
  /\ UNCHANGED disk

FailPreparation == pc \in {"scan", "bind", "check"} /\ Abandon(mem) /\ UNCHANGED disk

FailMove ==
  /\ pc = "move"
  /\ LET e == mem.entries[mem.k]
     IN  \/ UNCHANGED <<at, box>>
         \/ at[e.file] # None /\ at[e.file].made = e.made /\ Moves(e)
  /\ FailEntry \/ (End /\ UNCHANGED journal)
  /\ UNCHANGED manifest

FailRollback ==
  /\ pc \in {"rollback", "returned"} /\ mem.k > 0
  /\ GotoWith("rollback", Unresolved(mem))
  /\ UNCHANGED disk

(* The rename of the new manifest fails, or only what follows it does:     *)
(* then nothing is rolled back.                                            *)
FailPublish ==
  /\ pc = "scan" /\ mem.todo = {}
  /\ End
  /\ manifest' \in {manifest, Published}
  /\ UNCHANGED <<at, box, journal>>

NativeFault ==
  /\ faults < MaxFaults
  /\ faults' = faults + 1
  /\ UNCHANGED <<run, crashes, edits>>
  /\ \/ FailRecovery \/ FailPreparation \/ FailMove \/ FailRollback \/ FailPublish

Crash ==
  /\ pc # "idle" /\ crashes < MaxCrashes
  /\ crashes' = crashes + 1
  /\ End
  /\ UNCHANGED <<disk, run, faults, edits>>

(* An editor writes a file in place or saves a new one over it; a file is  *)
(* removed; the operator removes a quarantine the manifest lists.          *)
UserEdits ==
  /\ edits < MaxEdits
  /\ edits' = edits + 1
  /\ \/ \E f \in Files :
          /\ UNCHANGED box
          /\ \/ at[f] # None /\ at' = [at EXCEPT ![f].bytes = "user"]
             \/ at' = [at EXCEPT ![f] = [made |-> User, bytes |-> "user"]]
             \/ at[f] # None /\ at' = [at EXCEPT ![f] = None]
     \/ \E q \in manifest.quarantines :
          box[q] # None /\ box' = [box EXCEPT ![q] = None] /\ UNCHANGED at
  /\ UNCHANGED <<journal, manifest, run, pc, mem, faults, crashes>>

Step ==
  \/ Start \/ RecoverNothing \/ RecoverBlank \/ RecoverCommitted \/ RecoverRollback
  \/ Rollback \/ Returned \/ RolledBack \/ Zero \/ Retire
  \/ Generate \/ Generated \/ Preserve \/ Plan \/ Bind \/ Move \/ Check \/ Publish

Next == Step \/ NativeFault \/ Crash \/ UserEdits

(* The user runs init again until it succeeds, and a running init goes on. *)
Spec == Init /\ [][Next]_vars /\ WF_vars(Step)

-----------------------------------------------------------------------------
(* What stdd check and doctor report.                                      *)
Inventory ==
  manifest.quarantines \union
    (IF journal = None THEN {}
     ELSE {PathOf(journal.entries[i]) : i \in 1 .. Len(journal.entries)})

Drift ==
  \/ journal # None
  \/ \E f \in manifest.files : at[f] = None \/ at[f].bytes # "stdd"
  \/ \E f \in Outputs \ (manifest.files \union Released) : at[f] # None
  \/ \E q \in manifest.quarantines : box[q] = None

(* No orphan: at every instant, killed or not, a file in quarantine is in  *)
(* doctor's inventory, which reads the manifest and the journal only       *)
(* (generatedQuarantineInventory).                                         *)
InventoryFindsAll == \A q \in Quarantines : box[q] # None => q \in Inventory

(* When check is clean, nothing of an interrupted retirement is left: the  *)
(* quarantines are exactly the committed ones and the load paths hold      *)
(* exactly the tracked outputs.                                            *)
CleanMeansSettled ==
  ~Drift => /\ {q \in Quarantines : box[q] # None} = manifest.quarantines
            /\ \A q \in manifest.quarantines : box[q].bytes = "stdd"

(* A clean checkout is a settled one, and no quarantine is out of sight.   *)
JournalIsSound == TypeOK /\ InventoryFindsAll /\ CleanMeansSettled

(* Once published, a retirement is never undone: only the operator empties *)
(* a quarantine the manifest lists.                                        *)
CommittedIsKept ==
  \A q \in manifest'.quarantines :
    box'[q] = None => q \in manifest.quarantines /\ (box[q] = None \/ edits' # edits)

HasUserBytes(f) ==
  \/ at[f] # None /\ at[f].bytes = "user"
  \/ \E n \in Runs : box[<<f, n>>] # None /\ box[<<f, n>>].bytes = "user"

(* Recovery never destroys what the user wrote: it stays at its path, or   *)
(* where it was moved, except that generating an output overwrites it.     *)
UserBytesSurvive ==
  \A f \in Files : HasUserBytes(f) /\ ~HasUserBytes(f)' =>
    edits' # edits \/ (f \in Outputs /\ pc = "generate")

(* Neither a retirement that was published nor a byte the user wrote is    *)
(* undone by a recovery.                                                   *)
NothingIsLost == [][CommittedIsKept /\ UserBytesSurvive]_vars

(* Recovery cannot prove where an entry's file is, because the user moved  *)
(* it, or cannot read the journal.                                         *)
Stuck ==
  /\ journal # None
  /\ \/ journal.blank /\ ~Recorded(journal)
     \/ ~journal.blank /\ Committed(journal) /\ ~CompletedCleanly(journal)
     \/ \E i \in 1 .. Len(journal.entries) :
          LET e == journal.entries[i]
          IN  StateOf(e) = "unresolved" \/ (StateOf(e) = "quarantined" /\ KeepsSource(e))

(* Every interrupted retirement is settled by the inits that follow,       *)
(* whatever fails and is killed, unless the user changed the very files or *)
(* the rolled-back journal lost its text.                                  *)
RetirementSettles == journal # None ~> (journal = None \/ Stuck)

(* What method/reference-generated-state.md says: a crash leaves the       *)
(* journal authoritative, and the next init can tell whether to resume or  *)
(* to roll back.  It is not an invariant: see README, Disagreements.       *)
JournalStaysAuthoritative ==
  journal # None /\ journal.blank /\ pc = "idle" => Recorded(journal)
=============================================================================
