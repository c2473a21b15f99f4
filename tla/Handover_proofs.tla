--------------------------- MODULE Handover_proofs ---------------------------
(***************************************************************************)
(* Proofs about the parts of Handover, for any constants: that collect,  *)
(* however often it is broken off and run again, destroys nothing of the *)
(* checkout, imports evidence once and leaves what it set aside where it *)
(* can be found; that a review's private brief is there while its request*)
(* is open, is overwritten before it is retained, and that nobody else's *)
(* file is written to; and that no turn ends on a broken claim the agent *)
(* was not told of.                                                      *)
(***************************************************************************)
EXTENDS Handover, TLAPS

-----------------------------------------------------------------------------
(* COLLECT (Worker).                                                     *)
(* What a running command is about: a path of the scope, and while it is *)
(* published, one that is to hold something.                             *)
AtPath ==
  {"inventory", "describe", "move", "rename", "stage", "write", "publish", "settle", "label", "retire"}

Aimed ==
  /\ pc # "copy" => left \intersect Frozen = {}
  /\ pc \in AtPath => path \in Paths \ Frozen
  /\ pc \in {"stage", "write", "publish"} => plan[path].after # None

(* Before the rename the inventory, written into the file just created,  *)
(* describes what the plan found, and that is still there unless the user*)
(* was.                                                                  *)
Inventoried ==
  /\ pc \in {"inventory", "describe", "move", "rename"} => plan[path].source # None
  /\ pc = "describe" => box[path].torn
  /\ pc \in {"move", "rename"} => box[path].inventory = plan[path].source
  /\ pc = "rename" => src[path] \in {None, plan[path].source} \/ src[path].bytes = "user"

(* What is about to be imported is not there yet.                        *)
ToImport == pc # "report" => \A e \in pending : imported[e] = 0

(* A sandbox that is being made holds what was copied so far.            *)
Whole(p) == sandbox[p] = BytesOf(base[p])

Copied ==
  /\ stage = "none" => \A p \in Paths : sandbox[p] = None
  /\ pc = "copy" => /\ stage \in {"partial", "written"}
                    /\ \A p \in left : base[p] # None
                    /\ stage = "partial" => \A p \in Paths \ left : Whole(p)
                    /\ stage = "written" => left = {}
  /\ pc = "copy" /\ stage = "written" /\ worker = 0 => \A p \in Paths : Whole(p)

Counted == user \in Nat /\ worker \in Nat /\ faults \in Nat /\ crashes \in Nat

(* Without a kill or a failing call the only inventory half written is the *)
(* one being written.                                                    *)
Explained ==
  faults = 0 /\ crashes = 0 =>
    /\ \A p \in Paths : box[p].torn => pc = "describe" /\ path = p
    /\ \A p \in Paths : temp[p] = "torn" => pc = "label" /\ path = p

(* A payload has an inventory, and is what that says; an inventory half    *)
(* written says nothing, and has no payload yet.                         *)
Listed(p) ==
  box[p].payload # None =>
    box[p].inventory # None /\ (box[p].payload = box[p].inventory \/ box[p].payload.bytes = "user")

Filed == \A p \in Paths : Listed(p) /\ (box[p].torn => box[p].inventory = None)

(* The invariant, as what is on disk and what the command holds.         *)
DiskTyped ==
  /\ src \in [Paths -> File \union {None}] /\ sandbox \in [Paths -> Bytes \union {None}]
  /\ base \in [Paths -> File \union {None}] /\ stage \in {"none", "partial", "written", "bound"}
  /\ box \in [Paths -> Box]
  /\ temp \in [Paths -> {"none", "made", "torn", "described"}]
  /\ log \subseteq Events /\ imported \in [Events -> Nat]

RunTyped ==
  /\ pending \subseteq Events /\ plan \in [Paths -> Change] /\ left \subseteq Paths
  /\ pc \in {"idle", "copy", "preflight", "apply", "inventory", "describe", "move", "rename",
             "stage", "write", "publish", "settle", "label", "retire", "append", "report"}

Kept == DiskTyped /\ EvidenceOnce /\ Filed /\ BoundIsComplete
Running == RunTyped /\ Aimed /\ Inventoried /\ ToImport

IInv == Kept /\ Running /\ Copied /\ Counted /\ Explained

-----------------------------------------------------------------------------
(* LEMMAS.                                                               *)
LEMMA SoundWhenKept == IInv => CollectionIsSound
<1> SUFFICES ASSUME IInv PROVE CollectionIsSound
  OBVIOUS
<1>1. ASSUME NEW p \in Paths, box[p].payload # None
      PROVE  /\ box[p].inventory # None
             /\ \/ p \in workerQuarantineInventory
                \/ HalfWritten # {} /\ ~Corrupt(p)
                \/ box[p].payload.bytes = "user"
  <2>1. box[p].inventory # None /\ (box[p].payload = box[p].inventory \/ box[p].payload.bytes = "user")
    BY <1>1 DEF IInv, Kept, Filed, Listed
  <2> QED BY <1>1, <2>1 DEF workerQuarantineInventory, Corrupt, Retained
<1>2. HalfWritten # {} => pc \in {"describe", "label"} \/ faults + crashes > 0
  BY DEF IInv, Counted, Explained, HalfWritten
<1>3. PayloadIsListed
  BY <1>1, <1>2 DEF PayloadIsListed
<1> QED BY <1>3 DEF IInv, Kept, Running, DiskTyped, RunTyped, CollectionIsSound, TypeOK

LEMMA Files ==
  ASSUME NEW f \in File \union {None}
  PROVE  /\ BytesOf(f) \in Bytes \union {None} /\ (BytesOf(f) = None <=> f = None)
         /\ f # None => f \in File /\ f.bytes \in Bytes /\ BytesOf(f) = f.bytes
         /\ InodeOf(f) = None => f = None
<1>1. CASE f = None
  BY <1>1, NothingAssumption DEF BytesOf, InodeOf
<1>2. CASE f \in File
  <2>1. f # None /\ f.bytes \in Bytes /\ f.inode \in {"original", "user", "collected"}
    BY <1>2, NothingAssumption DEF File
  <2> QED BY <1>2, <2>1, NothingAssumption DEF BytesOf, InodeOf
<1> QED BY <1>1, <1>2

LEMMA InitInv == Init => IInv
<1> SUFFICES ASSUME Init PROVE IInv
  OBVIOUS
<1>1. DiskTyped
  <2>1. [inode |-> "original", bytes |-> "base"] \in File
    BY DEF File, Bytes
  <2>2. src \in [Paths -> File \union {None}]
    BY <2>1 DEF Init
  <2> QED BY <2>2 DEF Init, DiskTyped, Box
<1>2. RunTyped
  BY DEF Init, RunTyped, Change, Nothing
<1>3. Kept
  BY <1>1 DEF Init, Kept, EvidenceOnce, Filed, Listed, BoundIsComplete
<1>4. Running /\ Copied /\ Counted /\ Explained
  BY <1>2 DEF Init, Running, Aimed, AtPath, Inventoried, ToImport, Copied, Counted, Explained
<1> QED BY <1>3, <1>4 DEF IInv

(* What is not written keeps what it was.                                *)
LEMMA KeptStays ==
  Kept /\ UNCHANGED <<src, box, temp, copy, imported, worker>> => Kept'
BY DEF Kept, DiskTyped, EvidenceOnce, Filed, Listed,
       BoundIsComplete, BytesOf, copy

LEMMA CopiedStays ==
  Copied /\ pc # "copy" /\ pc' # "copy" /\ UNCHANGED <<sandbox, stage>> => Copied'
BY DEF Copied

(* An inventory that is not being written stays what it is.              *)
LEMMA StillExplained ==
  ASSUME IInv, UNCHANGED <<box, temp, faults, crashes>>,
         pc \notin {"describe", "label"} \/ UNCHANGED <<pc, path>>
  PROVE  Explained'
BY DEF IInv, Explained

LEMMA Excused ==
  ASSUME IInv, faults' = faults + 1 \/ crashes' = crashes + 1
  PROVE  Explained'
BY DEF IInv, Counted, Explained

(* An ended command is about nothing.                                    *)
LEMMA Ended == IInv /\ End => Running'
BY DEF End, Running, IInv, RunTyped, Aimed, AtPath, Inventoried, ToImport, Change, Nothing

LEMMA EndKeeps ==
  ASSUME IInv, End, UNCHANGED <<src, box, temp, copy, imported, user, worker, faults>>,
         \/ pc \notin {"describe", "label"} /\ UNCHANGED crashes
         \/ crashes' = crashes + 1
  PROVE  IInv'
<1>1. Copied'
  BY DEF IInv, Copied, End, copy
<1>2. Explained'
  BY StillExplained, Excused
<1> QED BY <1>1, <1>2, KeptStays, Ended DEF IInv, Counted

-----------------------------------------------------------------------------
(* CREATE copies what it has read.                                       *)
LEMMA CreateKeeps == IInv /\ Create => IInv'
<1> SUFFICES ASSUME IInv, Create PROVE IInv'
  OBVIOUS
<1>1. /\ pc = "idle" /\ stage = "none" /\ base' = src /\ stage' = "partial" /\ pc' = "copy"
      /\ left' = {p \in Paths : src[p] # None}
      /\ UNCHANGED <<src, box, temp, sandbox, log, imported, path, plan, pending, user, worker, faults, crashes>>
  BY DEF Create, workerVisiblePaths, tree, budget
<1>2. Kept'
  BY <1>1 DEF IInv, Kept, DiskTyped, EvidenceOnce, Filed, Listed, BoundIsComplete
<1>3. Running'
  BY <1>1 DEF IInv, Running, RunTyped, Aimed, AtPath, Inventoried, ToImport
<1>4. \A p \in Paths \ left' : Whole(p)'
  BY <1>1 DEF IInv, Copied, Whole, BytesOf
<1>5. Copied' /\ Counted' /\ Explained'
  BY <1>1, <1>4, StillExplained DEF IInv, Copied, Counted
<1> QED BY <1>2, <1>3, <1>5 DEF IInv

LEMMA CopyPathKeeps == IInv /\ CopyPath => IInv'
<1> SUFFICES ASSUME IInv, CopyPath PROVE IInv'
  OBVIOUS
<1>1. PICK p \in left : sandbox' = [sandbox EXCEPT ![p] = base[p].bytes] /\ left' = left \ {p}
  BY DEF CopyPath
<1>2. /\ pc = "copy" /\ stage = "partial" /\ p \in Paths /\ base[p] # None
      /\ UNCHANGED <<src, box, temp, base, stage, log, imported, pc, path, plan, pending, user, worker, faults, crashes>>
  BY <1>1 DEF CopyPath, tree, budget, IInv, Running, RunTyped, Copied
<1>3. base[p].bytes \in Bytes /\ base[p].bytes = BytesOf(base[p])
  BY <1>2, Files DEF IInv, Kept, DiskTyped
<1>4. /\ sandbox' \in [Paths -> Bytes \union {None}]
      /\ \A q \in Paths : sandbox'[q] = IF q = p THEN BytesOf(base[p]) ELSE sandbox[q]
  BY <1>1, <1>2, <1>3 DEF IInv, Kept, DiskTyped
<1>5. Kept'
  BY <1>2, <1>4 DEF IInv, Kept, DiskTyped, EvidenceOnce, Filed, Listed, BoundIsComplete
<1>6. Running'
  BY <1>1, <1>2 DEF IInv, Running, RunTyped, Aimed, AtPath, Inventoried, ToImport
<1>7. \A q \in Paths \ left' : Whole(q)'
  BY <1>1, <1>2, <1>4 DEF IInv, Copied, Whole, BytesOf
<1>8. Copied' /\ Counted' /\ Explained'
  BY <1>1, <1>2, <1>7, StillExplained DEF IInv, Copied, Counted
<1> QED BY <1>5, <1>6, <1>8 DEF IInv

LEMMA WriteMetadataKeeps == IInv /\ WriteMetadata => IInv'
<1> SUFFICES ASSUME IInv, WriteMetadata PROVE IInv'
  OBVIOUS
<1>1. /\ pc = "copy" /\ left = {} /\ stage = "partial" /\ stage' = "written"
      /\ UNCHANGED <<src, box, temp, sandbox, base, log, imported, pc, path, plan, left, pending, user, worker, faults, crashes>>
  BY DEF WriteMetadata, Goto, tree, memory, budget
<1>2. Kept'
  BY <1>1 DEF IInv, Kept, DiskTyped, EvidenceOnce, Filed, Listed, BoundIsComplete
<1>3. Running'
  BY <1>1 DEF IInv, Running, RunTyped, Aimed, AtPath, Inventoried, ToImport
<1>4. Copied' /\ Counted' /\ Explained'
  BY <1>1, StillExplained DEF IInv, Copied, Counted, Whole, BytesOf
<1> QED BY <1>2, <1>3, <1>4 DEF IInv

(* Only a whole copy is bound.                                           *)
LEMMA BindWorkerKeeps == IInv /\ BindWorker => IInv'
<1> SUFFICES ASSUME IInv, BindWorker PROVE IInv'
  OBVIOUS
<1>1. /\ pc = "copy" /\ stage = "written" /\ stage' \in {"written", "bound"} /\ End /\ pc' = "idle"
      /\ UNCHANGED <<src, box, temp, sandbox, base, log, imported, user, worker, faults, crashes>>
  BY DEF BindWorker, End, tree, budget
<1>2. Kept'
  BY <1>1 DEF IInv, Kept, Copied, Whole, DiskTyped, EvidenceOnce, Filed, Listed, BytesOf,
              BoundIsComplete
<1>3. Copied' /\ Counted' /\ Explained'
  BY <1>1, StillExplained DEF IInv, Copied, Counted
<1> QED BY <1>1, <1>2, <1>3, Ended DEF IInv

-----------------------------------------------------------------------------
(* COLLECT looks, plans and goes from path to path, all in scope.        *)
LEMMA CollectKeeps == IInv /\ Collect => IInv'
<1> SUFFICES ASSUME IInv, Collect PROVE IInv'
  OBVIOUS
<1>1. pc = "idle" /\ UNCHANGED <<src, box, temp, copy, imported, user, worker, faults, crashes>>
  BY DEF Collect, tree, budget
<1>2. CASE End
  BY <1>1, <1>2, EndKeeps
<1>3. CASE /\ InScope /\ pc' = "preflight" /\ left' = Touched
           /\ plan' = [p \in Paths |-> [Nothing EXCEPT !.after = sandbox[p]]]
           /\ UNCHANGED <<path, pending>>
  <2>1. plan' \in [Paths -> Change]
    BY <1>3 DEF IInv, Kept, DiskTyped, Change, Nothing
  <2>2. Running'
    BY <1>1, <1>3, <2>1 DEF IInv, Running, RunTyped, Aimed, AtPath, Inventoried, ToImport, InScope, Touched
  <2> QED BY <1>1, <1>3, <2>2, KeptStays, CopiedStays, StillExplained DEF IInv, Counted, copy
<1> QED BY <1>2, <1>3 DEF Collect

LEMMA PreflightKeeps == IInv /\ Preflight => IInv'
<1> SUFFICES ASSUME IInv, Preflight PROVE IInv'
  OBVIOUS
<1>1. pc = "preflight" /\ UNCHANGED <<src, box, temp, copy, imported, user, worker, faults, crashes>>
  BY DEF Preflight, tree, budget
<1>2. CASE End
  BY <1>1, <1>2, EndKeeps
<1>3. CASE /\ pc' = "apply" /\ plan' = [p \in Paths |-> PlanFor(p)] /\ pending' = Pending
           /\ UNCHANGED <<path, left>>
  <2>1. plan' \in [Paths -> Change]
    <3>1. \A p \in Paths : PlanFor(p) \in Change
      BY DEF IInv, Kept, DiskTyped, Change, PlanFor
    <3> QED BY <1>3, <3>1
  <2>2. Running'
    BY <1>1, <1>3, <2>1 DEF IInv, Running, RunTyped, Kept, DiskTyped, Aimed, AtPath, Inventoried, ToImport, Pending
  <2> QED BY <1>1, <1>3, <2>2, KeptStays, CopiedStays, StillExplained DEF IInv, Counted, copy
<1> QED BY <1>2, <1>3 DEF Preflight

LEMMA VerifyKeeps == IInv /\ Verify => IInv'
<1> SUFFICES ASSUME IInv, Verify PROVE IInv'
  OBVIOUS
<1>1. pc = "apply" /\ UNCHANGED <<src, box, temp, copy, imported, user, worker, faults, crashes>>
  BY DEF Verify, tree, budget
<1>2. CASE End
  BY <1>1, <1>2, EndKeeps
<1>3. CASE \E p \in left : left' = left \ {p} /\ UNCHANGED <<pc, path, plan, pending>>
  <2>1. Running'
    BY <1>1, <1>3 DEF IInv, Running, RunTyped, Aimed, AtPath, Inventoried, ToImport
  <2> QED BY <1>1, <1>3, <2>1, KeptStays, CopiedStays, StillExplained DEF IInv, Counted, copy
<1>4. ASSUME NEW p \in left, src[p] = plan[p].source, BytesOf(src[p]) # plan[p].after, path' = p,
             pc' = IF src[p] = None THEN "stage" ELSE "inventory", UNCHANGED <<plan, left, pending>>
      PROVE  IInv'
  <2>1. p \in Paths \ Frozen
    BY <1>1 DEF IInv, Running, RunTyped, Aimed
  <2>2. src[p] = None => plan[p].after # None
    BY <1>4 DEF BytesOf
  <2>3. Running'
    BY <1>1, <1>4, <2>1, <2>2 DEF IInv, Running, RunTyped, Aimed, AtPath, Inventoried, ToImport
  <2> QED BY <1>1, <1>4, <2>3, KeptStays, CopiedStays, StillExplained DEF IInv, Counted, copy
<1> QED BY <1>2, <1>3, <1>4 DEF Verify

-----------------------------------------------------------------------------
(* ONE PATH.  A step that goes on past the move.                         *)
LEMMA Onward ==
  ASSUME IInv, NEW label \in {"stage", "write", "publish", "settle", "label", "retire", "append", "report"}, Goto(label),
         label \in AtPath => pc \in AtPath,
         label \in {"stage", "write", "publish"} => plan[path].after # None,
         pc \notin {"copy", "report"}, label # "report" => UNCHANGED imported, UNCHANGED <<sandbox, stage>>
  PROVE  Running' /\ Copied'
<1>1. /\ pc' = label /\ UNCHANGED <<path, plan, left, pending>>
  BY DEF Goto, memory
<1>2. Running'
  BY <1>1 DEF IInv, Running, RunTyped, Aimed, AtPath, Inventoried, ToImport
<1> QED BY <1>1, <1>2, CopiedStays DEF IInv

LEMMA NextPath ==
  ASSUME IInv, Applied, pc \notin {"copy", "report"}, UNCHANGED <<imported, sandbox, stage>>
  PROVE  Running' /\ Copied'
<1>1. pc' = "apply" /\ path' = None /\ left' = left \ {path} /\ UNCHANGED <<plan, pending>>
  BY DEF Applied
<1>2. Running'
  BY <1>1 DEF IInv, Running, RunTyped, Aimed, AtPath, Inventoried, ToImport
<1> QED BY <1>1, <1>2, CopiedStays DEF IInv

(* The inventory.json just created: what it is to say is not in it.      *)
LEMMA TornIsFiled ==
  ASSUME IInv, pc = "inventory", box[path].inventory = None,
         box' = [box EXCEPT ![path].torn = TRUE], UNCHANGED <<src, temp, copy, imported, worker>>
  PROVE  Kept' /\ box'[path].torn
<1>1. PICK p \in Paths : p = path
  BY DEF IInv, Running, Aimed, AtPath
<1>2. /\ box' \in [Paths -> Box] /\ box'[p].torn /\ box'[p].inventory = None
      /\ box'[p].payload = box[p].payload /\ \A q \in Paths \ {p} : box'[q] = box[q]
  BY <1>1 DEF IInv, Kept, DiskTyped, Box
<1>3. DiskTyped'
  BY <1>2 DEF IInv, Kept, DiskTyped, copy
<1>4. Filed'
  BY <1>1, <1>2 DEF IInv, Kept, Filed, Listed
<1> QED BY <1>1, <1>2, <1>3, <1>4 DEF IInv, Kept, EvidenceOnce, BoundIsComplete, BytesOf, copy

LEMMA OpenInventoryKeeps == IInv /\ OpenInventory => IInv'
<1> SUFFICES ASSUME IInv, OpenInventory PROVE IInv'
  OBVIOUS
<1>1. /\ pc = "inventory" /\ UNCHANGED <<src, temp, copy, imported, user, worker, faults, crashes>>
      /\ path \in Paths \ Frozen
  BY DEF OpenInventory, budget, IInv, Running, Aimed, AtPath
<1>2. CASE End /\ UNCHANGED box
  BY <1>1, <1>2, EndKeeps
<1>3. CASE /\ box[path].inventory = None
           /\ box' = [box EXCEPT ![path].torn = TRUE] /\ Goto("describe")
  <2>1. Kept' /\ box'[path].torn
    BY <1>1, <1>3, TornIsFiled
  <2>2. Running'
    BY <1>1, <1>3, <2>1 DEF IInv, Running, RunTyped, Aimed, AtPath, Inventoried, ToImport, Goto, memory
  <2>3. Explained'
    BY <1>1, <1>3 DEF IInv, Kept, DiskTyped, Box, Explained, Goto, memory
  <2> QED BY <1>1, <1>3, <2>1, <2>2, <2>3, CopiedStays DEF IInv, Counted, copy, Goto
<1>4. CASE box[path].inventory = plan[path].source /\ Goto("move") /\ UNCHANGED box
  <2>1. Running'
    BY <1>1, <1>4 DEF IInv, Running, RunTyped, Aimed, AtPath, Inventoried, ToImport, Goto, memory
  <2> QED BY <1>1, <1>4, <2>1, KeptStays, CopiedStays, StillExplained DEF IInv, Counted, copy, Goto
<1> QED BY <1>2, <1>3, <1>4 DEF OpenInventory, Unmoved

LEMMA DescribedIsFiled ==
  ASSUME IInv, pc = "describe", Described, UNCHANGED <<src, temp, copy, imported, worker>>
  PROVE  /\ Kept' /\ box'[path].inventory = plan[path].source
         /\ \A q \in Paths : box'[q].torn => q # path /\ box[q].torn
<1>1. PICK p \in Paths : p = path
  BY DEF IInv, Running, Aimed, AtPath
<1>2. /\ box[p].torn /\ box[p].inventory = None /\ box[p].payload = None
      /\ plan[p].source \in File \union {None} /\ plan[p].source # None
  BY <1>1 DEF IInv, Kept, DiskTyped, Box, Filed, Listed, Running, RunTyped, Change, Inventoried
<1>3. /\ box' \in [Paths -> Box] /\ ~box'[p].torn /\ box'[p].inventory = plan[p].source
      /\ box'[p].payload = None /\ \A q \in Paths \ {p} : box'[q] = box[q]
  BY <1>1, <1>2 DEF IInv, Kept, DiskTyped, Box, Described
<1>4. DiskTyped'
  BY <1>3 DEF IInv, Kept, DiskTyped, copy
<1>5. Filed'
  BY <1>1, <1>3 DEF IInv, Kept, Filed, Listed
<1> QED BY <1>1, <1>3, <1>4, <1>5 DEF IInv, Kept, EvidenceOnce, BoundIsComplete, BytesOf, copy

LEMMA WriteInventoryKeeps == IInv /\ WriteInventory => IInv'
<1> SUFFICES ASSUME IInv, WriteInventory PROVE IInv'
  OBVIOUS
<1>1. /\ pc = "describe" /\ Described /\ Goto("move")
      /\ UNCHANGED <<src, temp, copy, imported, user, worker, faults, crashes>>
  BY DEF WriteInventory, budget
<1>2. /\ Kept' /\ box'[path].inventory = plan[path].source
      /\ \A q \in Paths : box'[q].torn => q # path /\ box[q].torn
  BY <1>1, DescribedIsFiled
<1>3. Running'
  BY <1>1, <1>2 DEF IInv, Running, RunTyped, Aimed, AtPath, Inventoried, ToImport, Goto, memory
<1>4. Explained'
  BY <1>1, <1>2 DEF IInv, Explained
<1> QED BY <1>1, <1>2, <1>3, <1>4, CopiedStays DEF IInv, Counted, copy, Goto

LEMMA CheckMoveKeeps == IInv /\ CheckMove => IInv'
<1> SUFFICES ASSUME IInv, CheckMove PROVE IInv'
  OBVIOUS
<1>1. pc = "move" /\ UNCHANGED <<src, box, temp, copy, imported, user, worker, faults, crashes>>
  BY DEF CheckMove, tree, budget
<1>2. CASE End
  BY <1>1, <1>2, EndKeeps
<1>3. CASE Unmoved /\ Goto("rename")
  <2>1. Running'
    BY <1>1, <1>3 DEF IInv, Running, RunTyped, Aimed, AtPath, Inventoried, ToImport, Unmoved, Goto, memory
  <2> QED BY <1>1, <1>3, <2>1, KeptStays, CopiedStays, StillExplained DEF IInv, Counted, copy, Goto
<1> QED BY <1>2, <1>3 DEF CheckMove

(* What is moved aside is what the inventory says, or the user's.        *)
LEMMA MovedIsListed ==
  ASSUME IInv, pc = "rename", Movable, Moved, UNCHANGED <<temp, copy, imported, worker>>
  PROVE  Kept' /\ \A q \in Paths : box'[q].torn = box[q].torn
<1>1. PICK p \in Paths : p = path
  BY DEF IInv, Running, Aimed, AtPath
<1>2. /\ src' = [src EXCEPT ![p] = None] /\ box' = [box EXCEPT ![p].payload = src[p]]
      /\ src[p] \in File \union {None} /\ InodeOf(src[p]) = InodeOf(plan[p].source)
      /\ plan[p].source \in File /\ box[p].inventory = plan[p].source /\ plan[p].source # None
      /\ src[p] \in {None, plan[p].source} \/ src[p].bytes = "user"
  BY <1>1 DEF IInv, Kept, DiskTyped, Running, RunTyped, Inventoried, Change, Movable, Moved
<1>3. src[p] # None
  <2>1. InodeOf(plan[p].source) # None
    BY <1>2, Files, NothingAssumption
  <2> QED BY <1>2, <2>1 DEF InodeOf
<1>4. /\ box' \in [Paths -> Box] /\ box'[p].payload = src[p] /\ box'[p].inventory = box[p].inventory
      /\ box'[p].torn = box[p].torn /\ \A q \in Paths \ {p} : box'[q] = box[q]
      /\ src' \in [Paths -> File \union {None}]
  BY <1>2 DEF IInv, Kept, DiskTyped, Box
<1>5. DiskTyped'
  BY <1>4 DEF IInv, Kept, DiskTyped, copy
<1>6. Filed'
  BY <1>2, <1>3, <1>4 DEF IInv, Kept, Filed, Listed
<1> QED BY <1>4, <1>5, <1>6 DEF IInv, Kept, EvidenceOnce, BoundIsComplete, BytesOf, copy

LEMMA MoveAsideKeeps == IInv /\ MoveAside => IInv'
<1> SUFFICES ASSUME IInv, MoveAside PROVE IInv'
  OBVIOUS
<1>1. pc = "rename" /\ UNCHANGED <<temp, copy, imported, user, worker, faults, crashes>>
  BY DEF MoveAside, budget
<1>2. CASE End /\ UNCHANGED <<src, box>>
  BY <1>1, <1>2, EndKeeps
<1>3. CASE Movable /\ Moved /\ IF plan[path].after = None THEN Applied ELSE Goto("stage")
  <2>1. Kept' /\ \A q \in Paths : box'[q].torn = box[q].torn
    BY <1>1, <1>3, MovedIsListed
  <2>2. Running' /\ Copied'
    BY <1>1, <1>3, Onward, NextPath DEF AtPath, copy
  <2>3. Explained'
    BY <1>1, <2>1 DEF IInv, Explained
  <2> QED BY <1>1, <2>1, <2>2, <2>3 DEF IInv, Counted
<1> QED BY <1>2, <1>3 DEF MoveAside

(* A temporary changes nothing else.                                     *)
LEMMA TemporaryKeeps ==
  ASSUME IInv, UNCHANGED <<src, box, copy, imported, worker>>,
         path \in Paths, NEW t \in {"none", "made", "torn", "described"},
         temp' = [temp EXCEPT ![path] = t]
  PROVE  /\ Kept'
         /\ \A q \in Paths : temp'[q] = IF q = path THEN t ELSE temp[q]
<1>1. temp' \in [Paths -> {"none", "made", "torn", "described"}]
  BY DEF IInv, Kept, DiskTyped
<1>2. \A q \in Paths : temp'[q] = IF q = path THEN t ELSE temp[q]
  BY DEF IInv, Kept, DiskTyped
<1> QED BY <1>1, <1>2 DEF IInv, Kept, DiskTyped, EvidenceOnce, Filed, Listed, BoundIsComplete, BytesOf, copy

LEMMA StagingKeeps == IInv /\ (StageFile \/ WriteFile) => IInv'
<1> SUFFICES ASSUME IInv, StageFile \/ WriteFile PROVE IInv'
  OBVIOUS
<1>1. /\ pc \in {"stage", "write"} /\ UNCHANGED <<src, box, copy, imported, user, worker, faults, crashes>>
      /\ temp' = temp \/ temp' = [temp EXCEPT ![path] = "made"]
      /\ Goto("settle") \/ Goto("write") \/ Goto("publish")
      /\ path \in Paths /\ plan[path].after # None
  BY DEF StageFile, WriteFile, tree, budget, IInv, Running, Aimed, AtPath
<1>2. Kept' /\ Explained'
  <2>1. CASE temp' = temp
    BY <1>1, <2>1, KeptStays, StillExplained DEF IInv
  <2>2. CASE temp' = [temp EXCEPT ![path] = "made"]
    <3>1. Kept' /\ \A q \in Paths : temp'[q] = IF q = path THEN "made" ELSE temp[q]
      BY <1>1, <2>2, TemporaryKeeps
    <3> QED BY <1>1, <3>1 DEF IInv, Explained
  <2> QED BY <1>1, <2>1, <2>2
<1>3. Running' /\ Copied'
  BY <1>1, Onward DEF AtPath, copy
<1> QED BY <1>1, <1>2, <1>3 DEF IInv, Counted

LEMMA PublishedIsKept ==
  ASSUME IInv, pc = "publish", Published, UNCHANGED <<box, copy, imported, worker>>
  PROVE  Kept' /\ \A q \in Paths : temp'[q] \in {temp[q], "none"}
<1>1. path \in Paths /\ plan[path].after \in Bytes
  BY DEF IInv, Running, RunTyped, Aimed, AtPath, Change
<1>2. /\ src' \in [Paths -> File \union {None}]
      /\ temp' \in [Paths -> {"none", "made", "torn", "described"}]
      /\ \A q \in Paths : temp'[q] \in {temp[q], "none"}
  <2>1. [inode |-> "collected", bytes |-> plan[path].after] \in File
    BY <1>1 DEF File
  <2> QED BY <1>1, <2>1 DEF IInv, Kept, DiskTyped, Published
<1> QED BY <1>2 DEF IInv, Kept, DiskTyped, EvidenceOnce, Filed, Listed, BoundIsComplete, BytesOf, copy

LEMMA PublishKeeps == IInv /\ Publish => IInv'
<1> SUFFICES ASSUME IInv, Publish PROVE IInv'
  OBVIOUS
<1>1. pc = "publish" /\ UNCHANGED <<box, copy, imported, user, worker, faults, crashes>>
  BY DEF Publish, budget
<1>2. CASE Published /\ Applied
  <2>1. Kept' /\ \A q \in Paths : temp'[q] \in {temp[q], "none"}
    BY <1>1, <1>2, PublishedIsKept
  <2>2. Running' /\ Copied'
    BY <1>1, <1>2, NextPath DEF copy
  <2>3. Explained'
    BY <1>1, <2>1 DEF IInv, Explained
  <2> QED BY <1>1, <2>1, <2>2, <2>3 DEF IInv, Counted
<1>3. CASE Goto("settle") /\ UNCHANGED <<src, temp>>
  <2>1. Running' /\ Copied'
    BY <1>1, <1>3, Onward DEF AtPath, copy
  <2> QED BY <1>1, <1>3, <2>1, KeptStays, StillExplained DEF IInv, Counted
<1> QED BY <1>2, <1>3 DEF Publish

(* A temporary on its way to its quarantine.                             *)
LEMMA SettleKeeps == IInv /\ (Settle \/ LabelTemporary \/ RetireTemporary) => IInv'
<1> SUFFICES ASSUME IInv, Settle \/ LabelTemporary \/ RetireTemporary PROVE IInv'
  OBVIOUS
<1>1. /\ UNCHANGED <<src, box, copy, imported, user, worker, faults, crashes>>
      /\ pc \in {"settle", "label", "retire"} /\ path \in Paths
  BY DEF Settle, LabelTemporary, RetireTemporary, budget, IInv, Running, Aimed, AtPath
<1>2. CASE End /\ UNCHANGED temp /\ pc # "label"
  BY <1>1, <1>2, EndKeeps
<1>3. CASE Goto("retire") /\ UNCHANGED temp /\ pc # "label"
  <2>1. Running' /\ Copied'
    BY <1>1, <1>3, Onward DEF AtPath, copy
  <2> QED BY <1>1, <1>3, <2>1, KeptStays, StillExplained DEF IInv, Counted
<1>4. CASE pc = "settle" /\ temp' = [temp EXCEPT ![path] = "torn"] /\ Goto("label")
  <2>1. Kept' /\ \A q \in Paths : temp'[q] = IF q = path THEN "torn" ELSE temp[q]
    BY <1>1, <1>4, TemporaryKeeps
  <2>2. Running' /\ Copied'
    BY <1>1, <1>4, Onward DEF AtPath, copy
  <2>3. Explained'
    BY <1>1, <1>4, <2>1 DEF IInv, Explained, Goto, memory
  <2> QED BY <1>1, <2>1, <2>2, <2>3 DEF IInv, Counted
<1>5. CASE pc = "label" /\ temp' = [temp EXCEPT ![path] = "described"] /\ Goto("retire")
  <2>1. Kept' /\ \A q \in Paths : temp'[q] = IF q = path THEN "described" ELSE temp[q]
    BY <1>1, <1>5, TemporaryKeeps
  <2>2. Running' /\ Copied'
    BY <1>1, <1>5, Onward DEF AtPath, copy
  <2>3. Explained'
    BY <1>1, <1>5, <2>1 DEF IInv, Explained
  <2> QED BY <1>1, <2>1, <2>2, <2>3 DEF IInv, Counted
<1>6. CASE pc = "retire" /\ temp' = [temp EXCEPT ![path] = "none"] /\ End
  <2>1. Kept' /\ \A q \in Paths : temp'[q] = IF q = path THEN "none" ELSE temp[q]
    BY <1>1, <1>6, TemporaryKeeps
  <2>2. Copied'
    BY <1>1, <1>6, CopiedStays DEF IInv, End, copy
  <2>3. Explained'
    BY <1>1, <1>6, <2>1 DEF IInv, Explained
  <2> QED BY <1>1, <1>6, <2>1, <2>2, <2>3, Ended DEF IInv, Counted
<1> QED BY <1>2, <1>3, <1>4, <1>5, <1>6 DEF Settle, LabelTemporary, RetireTemporary

-----------------------------------------------------------------------------
(* EVIDENCE comes last, and once.                                        *)
LEMMA SweepKeeps == IInv /\ (Sweep \/ Report) => IInv'
<1> SUFFICES ASSUME IInv, Sweep \/ Report PROVE IInv'
  OBVIOUS
<1>1. pc \in {"apply", "report"} /\ UNCHANGED <<src, box, temp, copy, imported, user, worker, faults, crashes>>
  BY DEF Sweep, Report, tree, budget
<1>2. CASE End
  BY <1>1, <1>2, EndKeeps
<1>3. CASE pc = "apply" /\ (Goto("append") \/ Goto("report"))
  <2>1. Running' /\ Copied'
    BY <1>1, <1>3, Onward DEF AtPath, copy
  <2> QED BY <1>1, <1>3, <2>1, KeptStays, StillExplained DEF IInv, Counted
<1> QED BY <1>2, <1>3 DEF Sweep, Report

LEMMA ImportedOnce ==
  ASSUME IInv, pc = "append", Import, UNCHANGED <<src, box, temp, copy, worker>>
  PROVE  Kept'
<1>1. /\ imported \in [Events -> Nat] /\ \A e \in pending : imported[e] = 0
      /\ \A e \in Events : imported[e] <= 1
      /\ imported' = [e \in Events |-> imported[e] + IF e \in pending THEN 1 ELSE 0]
  BY DEF IInv, Kept, DiskTyped, EvidenceOnce, Running, ToImport, Import
<1>2. imported' \in [Events -> Nat] /\ \A e \in Events : imported'[e] <= 1
  BY <1>1
<1> QED BY <1>2 DEF IInv, Kept, DiskTyped, EvidenceOnce, Filed, Listed, BoundIsComplete, BytesOf, copy

LEMMA AppendEvidenceKeeps == IInv /\ AppendEvidence => IInv'
<1> SUFFICES ASSUME IInv, AppendEvidence PROVE IInv'
  OBVIOUS
<1>1. pc = "append" /\ UNCHANGED <<src, box, temp, copy, user, worker, faults, crashes>>
  BY DEF AppendEvidence, tree, budget
<1>2. CASE End /\ UNCHANGED imported
  BY <1>1, <1>2, EndKeeps
<1>3. CASE Import /\ Goto("report")
  <2>1. Kept'
    BY <1>1, <1>3, ImportedOnce
  <2>2. Running' /\ Copied'
    BY <1>1, <1>3, Onward DEF AtPath, copy
  <2> QED BY <1>1, <1>3, <2>1, <2>2, StillExplained DEF IInv, Counted
<1> QED BY <1>2, <1>3 DEF AppendEvidence

-----------------------------------------------------------------------------
(* WHAT INTERFERES: a failing call, after its effect too; a kill; others.*)
LEMMA NativeFaultKeeps == IInv /\ NativeFault => IInv'
<1> SUFFICES ASSUME IInv, NativeFault PROVE IInv'
  OBVIOUS
<1>1. /\ UNCHANGED <<copy, user, worker, crashes>> /\ faults' = faults + 1
      /\ End \/ (pc \in {"stage", "write", "publish"} /\ Goto("settle"))
  BY DEF NativeFault
<1>2. Kept'
  <2>1. CASE UNCHANGED <<src, box, temp, imported>>
    <3>1. UNCHANGED <<src, box, temp, copy, imported, worker>>
      BY <1>1, <2>1
    <3> QED BY <3>1, KeptStays DEF IInv
  <2>2. CASE /\ pc = "inventory" /\ box[path].inventory = None
             /\ box' = [box EXCEPT ![path].torn = TRUE] /\ UNCHANGED <<src, temp, imported>>
    BY <1>1, <2>2, TornIsFiled
  <2>3. CASE pc = "describe" /\ Described /\ UNCHANGED <<src, temp, imported>>
    BY <1>1, <2>3, DescribedIsFiled
  <2>4. CASE pc = "rename" /\ Movable /\ Moved /\ UNCHANGED <<temp, imported>>
    BY <1>1, <2>4, MovedIsListed
  <2>5. CASE /\ pc \in {"stage", "settle", "label"} /\ UNCHANGED <<src, box, imported>>
             /\ \E t \in {"made", "torn", "described"} : temp' = [temp EXCEPT ![path] = t]
    <3>1. path \in Paths
      BY <2>5 DEF IInv, Running, Aimed, AtPath
    <3> QED BY <1>1, <2>5, <3>1, TemporaryKeeps
  <2>6. CASE pc = "publish" /\ Published /\ UNCHANGED <<box, imported>>
    BY <1>1, <2>6, PublishedIsKept
  <2>7. CASE pc = "append" /\ Import /\ UNCHANGED <<src, box, temp>>
    BY <1>1, <2>7, ImportedOnce
  <2> QED BY <2>1, <2>2, <2>3, <2>4, <2>5, <2>6, <2>7 DEF NativeFault
<1>3. CASE pc \in {"stage", "write", "publish"} /\ Goto("settle")
  <2>1. UNCHANGED imported
    BY <1>3 DEF NativeFault
  <2>2. Running' /\ Copied'
    BY <1>1, <1>3, <2>1, Onward DEF AtPath, copy
  <2> QED BY <1>1, <1>2, <2>2, Excused DEF IInv, Counted
<1>4. CASE End
  <2>1. Copied'
    BY <1>1, <1>4 DEF IInv, Copied, End, copy
  <2> QED BY <1>1, <1>2, <1>4, <2>1, Ended, Excused DEF IInv, Counted
<1> QED BY <1>1, <1>3, <1>4

LEMMA CrashKeeps == IInv /\ Crash => IInv'
BY EndKeeps DEF Crash, tree

LEMMA UserActsKeeps == IInv /\ UserActs => IInv'
<1> SUFFICES ASSUME IInv, UserActs PROVE IInv'
  OBVIOUS
<1>1. /\ UNCHANGED <<box, temp, copy, imported, pc, memory, worker, faults, crashes>> /\ user' = user + 1
      /\ \/ UNCHANGED src
         \/ \E p \in Paths :
              \/ src[p] # None /\ src' = [src EXCEPT ![p].bytes = "user"]
              \/ src' = [src EXCEPT ![p] = [inode |-> "user", bytes |-> "user"]]
              \/ src' = [src EXCEPT ![p] = None]
  BY DEF UserActs
<1>2. /\ src' \in [Paths -> File \union {None}]
      /\ \A q \in Paths : src'[q] \in {src[q], None} \/ src'[q].bytes = "user"
  <2>1. CASE UNCHANGED src
    BY <2>1 DEF IInv, Kept, DiskTyped
  <2>2. ASSUME NEW p \in Paths, src[p] # None, src' = [src EXCEPT ![p].bytes = "user"]
        PROVE  /\ src' \in [Paths -> File \union {None}]
               /\ \A q \in Paths : src'[q] \in {src[q], None} \/ src'[q].bytes = "user"
    <3>1. src \in [Paths -> File \union {None}] /\ src[p] \in File
      BY <2>2 DEF IInv, Kept, DiskTyped
    <3>2. [src[p] EXCEPT !.bytes = "user"] \in File /\ [src[p] EXCEPT !.bytes = "user"].bytes = "user"
      BY <3>1 DEF File, Bytes
    <3> QED BY <2>2, <3>1, <3>2
  <2>3. ASSUME NEW p \in Paths,
               src' = [src EXCEPT ![p] = [inode |-> "user", bytes |-> "user"]] \/ src' = [src EXCEPT ![p] = None]
        PROVE  /\ src' \in [Paths -> File \union {None}]
               /\ \A q \in Paths : src'[q] \in {src[q], None} \/ src'[q].bytes = "user"
    <3>1. src \in [Paths -> File \union {None}] /\ [inode |-> "user", bytes |-> "user"] \in File
      BY DEF IInv, Kept, DiskTyped, File, Bytes
    <3> QED BY <2>3, <3>1
  <2> QED BY <1>1, <2>1, <2>2, <2>3
<1>3. Kept'
  BY <1>1, <1>2 DEF IInv, Kept, DiskTyped, EvidenceOnce, Filed, Listed, BoundIsComplete, BytesOf, copy
<1>4. Running'
  <2>1. pc = "rename" => path \in Paths
    BY DEF IInv, Running, Aimed, AtPath
  <2> QED BY <1>1, <1>2, <2>1 DEF IInv, Running, RunTyped, Aimed, AtPath, Inventoried, ToImport, memory
<1>5. Copied' /\ Counted' /\ Explained'
  BY <1>1, StillExplained DEF IInv, Copied, Counted, Whole, BytesOf, copy, memory
<1> QED BY <1>3, <1>4, <1>5 DEF IInv

LEMMA WorkerActsKeeps == IInv /\ WorkerActs => IInv'
<1> SUFFICES ASSUME IInv, WorkerActs PROVE IInv'
  OBVIOUS
<1>1. /\ stage \in {"written", "bound"} /\ worker' = worker + 1
      /\ UNCHANGED <<src, box, temp, base, stage, imported, pc, path, plan, left, pending, user, faults, crashes>>
      /\ \/ \E p \in Paths, b \in {None, "one", "two"} :
              sandbox' = [sandbox EXCEPT ![p] = b] /\ UNCHANGED log
         \/ \E e \in Events \ log : log' = log \union {e} /\ UNCHANGED sandbox
  BY DEF WorkerActs, tree, memory
<1>2. sandbox' \in [Paths -> Bytes \union {None}] /\ log' \subseteq Events /\ worker' \in Nat /\ worker' # 0
  BY <1>1 DEF IInv, Kept, DiskTyped, Bytes, Counted
<1>3. Kept'
  BY <1>1, <1>2 DEF IInv, Kept, DiskTyped, EvidenceOnce, Filed, Listed, BoundIsComplete
<1>4. Running'
  BY <1>1 DEF IInv, Running, RunTyped, Aimed, AtPath, Inventoried, ToImport
<1>5. Copied' /\ Counted' /\ Explained'
  BY <1>1, <1>2, StillExplained DEF IInv, Copied, Counted
<1> QED BY <1>3, <1>4, <1>5 DEF IInv

-----------------------------------------------------------------------------
(* THE THEOREMS.                                                         *)
LEMMA StepInv == IInv /\ [Next]_vars => IInv'
<1> SUFFICES ASSUME IInv, [Next]_vars PROVE IInv'
  OBVIOUS
<1>1. CASE Step
  BY <1>1, CreateKeeps, CopyPathKeeps, WriteMetadataKeeps, BindWorkerKeeps, CollectKeeps, PreflightKeeps,
     VerifyKeeps, OpenInventoryKeeps, WriteInventoryKeeps, CheckMoveKeeps, MoveAsideKeeps, StagingKeeps, PublishKeeps,
     SettleKeeps, SweepKeeps, AppendEvidenceKeeps DEF Step
<1>2. CASE NativeFault \/ Crash \/ UserActs \/ WorkerActs
  BY <1>2, NativeFaultKeeps, CrashKeeps, UserActsKeeps, WorkerActsKeeps
<1>3. CASE UNCHANGED vars
  <2>1. UNCHANGED <<src, box, temp, copy, imported, worker, user, pc, path, plan, left, pending, faults, crashes>>
    BY <1>3 DEF vars, copy
  <2>2. Running'
    BY <2>1 DEF IInv, Running, RunTyped, Aimed, AtPath, Inventoried, ToImport
  <2>3. Copied' /\ Counted' /\ Explained'
    BY <2>1, StillExplained DEF IInv, Copied, Counted, Whole, BytesOf, copy
  <2> QED BY <2>1, <2>2, <2>3, KeptStays DEF IInv
<1> QED BY <1>1, <1>2, <1>3 DEF Next

(* CollectionIsSound: a bound sandbox is a full copy, an event of the    *)
(* worker is one record of the ledger however often collect is run, and  *)
(* what was set aside is described by the inventory beside it, from which*)
(* the next collect resumes; doctor lists it unless an inventory is half *)
(* written, which only a kill or a failing call leaves.                  *)
THEOREM CollectionStaysSound == Spec => []CollectionIsSound
BY InitInv, StepInv, SoundWhenKept, PTL DEF Spec

(* Only the rename and the publication write to the checkout, and both   *)
(* know what is there.                                                   *)
LEMMA Writes ==
  ASSUME IInv, [Next]_vars
  PROVE  \/ src' = src
         \/ user' # user
         \/ pc = "rename" /\ Moved
         \/ pc = "publish" /\ src[path] = None /\ Published
<1>1. user' = user + 1 => user' # user
  BY DEF IInv, Counted
<1> QED BY <1>1 DEF Next, Step, vars, tree, Create, CopyPath, WriteMetadata, BindWorker, Collect, Preflight,
                Verify, OpenInventory, WriteInventory, CheckMove, MoveAside, StageFile, WriteFile, Publish,
                Settle, LabelTemporary, RetireTemporary, Sweep, AppendEvidence, Report, NativeFault, Crash, UserActs, WorkerActs

LEMMA Sparing == IInv /\ [Next]_vars => NothingOverwritten /\ ScopeHolds
<1>1. ASSUME IInv, [Next]_vars PROVE NothingOverwritten /\ ScopeHolds
  <2>1. CASE pc = "rename" /\ Moved
    BY <1>1, <2>1 DEF IInv, Kept, DiskTyped, Box, Running, Aimed, AtPath, Moved, NothingOverwritten, ScopeHolds
  <2>2. CASE pc = "publish" /\ src[path] = None /\ Published
    BY <1>1, <2>2 DEF IInv, Kept, DiskTyped, Running, Aimed, AtPath, Published, NothingOverwritten, ScopeHolds
  <2>3. CASE src' = src \/ user' # user
    BY <2>3 DEF NothingOverwritten, ScopeHolds
  <2> QED BY <1>1, <2>1, <2>2, <2>3, Writes
<1> QED BY <1>1

(* CheckoutIsSpared: a file leaves its path by collect's hand only into  *)
(* its quarantine, and only where the worker's scope allows.             *)
THEOREM CheckoutStaysSpared == Spec => CheckoutIsSpared
<1>1. IInv /\ [Next]_vars => [NothingOverwritten /\ ScopeHolds]_vars
  BY Sparing
<1> QED BY <1>1, InitInv, StepInv, PTL DEF Spec, CheckoutIsSpared

-----------------------------------------------------------------------------
(* THE BRIEF (BriefStorage).                                             *)
Making == {"create", "bind", "record", "undo"}
Settling == {"zero", "check", "quarantine", "stage", "publish", "names", "move", "verify"}
Emptied == {"empty", "foreign"}

Is(s, command) == session[s].cmd = command

(* The brief is made by one command, of which nobody knows until its     *)
(* request is recorded; undisturbed, it holds what was written so far.   *)
MadeSoFar(s, a) == files[a] = IF Brief!At(s, "create") /\ a \in session[s].todo THEN "absent" ELSE "text"

Made(s) ==
  /\ session[s].pc \in Making => Is(s, "dispatch") /\ request = "none"
  /\ Is(s, "dispatch") /\ ~Brief!At(s, "idle") => request = "none" \/ unknown
  /\ session[s].pc \in {"create", "bind", "record"} /\ touches = 0 =>
       directory = "source" /\ \A a \in Artifacts : MadeSoFar(s, a)

(* A request is closed before its brief is overwritten, every file is    *)
(* overwritten before the directory moves, and the inventory is out.     *)
Overwritten(s, a) == (Brief!At(s, "zero") /\ a \in session[s].todo) \/ files[a] \in Emptied

Settled(s) ==
  /\ session[s].pc \in Settling => Is(s, "dispatch") \/ request = "closed"
  /\ session[s].pc \in Settling \ {"verify"} /\ directory # "removed" =>
       \A a \in Artifacts : Overwritten(s, a)
  /\ session[s].pc \in {"names", "move"} => "published" \in inventory
  /\ Brief!At(s, "terminal") => ~Is(s, "dispatch") /\ session[s].todo = Artifacts

OneDispatch ==
  /\ \A r, s \in Sessions : Is(r, "dispatch") /\ Is(s, "dispatch") => r = s
  /\ request = "none" => \A s \in Sessions : Brief!At(s, "idle") \/ Is(s, "dispatch")

BeforeDispatch ==
  directory = "none" =>
    /\ request = "none" /\ \A s \in Sessions : session[s] = Brief!Idle
    /\ \A a \in Artifacts : files[a] = "absent"

BriefInv ==
  /\ Brief!BriefIsSafe /\ OneDispatch /\ BeforeDispatch
  /\ \A s \in Sessions : Made(s) /\ Settled(s)
  /\ touches \in Nat /\ (touches = 0 => directory # "removed")

(* What a session may be.                                                *)
BriefSession ==
  [pc : {"idle"} \union Making \union Settling \union {"prepare", "terminal"},
   cmd : {"none", "dispatch", "answer", "cleanup"},
   todo : SUBSET Artifacts, retained : BOOLEAN]

LEMMA BriefSessions ==
  [pc : {"idle", "create", "bind", "record", "undo", "prepare",
         "terminal", "zero", "check", "quarantine", "stage", "publish", "names",
         "move", "verify"}, cmd : {"none", "dispatch", "answer", "cleanup"},
   todo : SUBSET Artifacts, retained : BOOLEAN] = BriefSession
BY DEF BriefSession, Making, Settling

LEMMA BriefInitInv == Brief!Init => BriefInv
<1> SUFFICES ASSUME Brief!Init PROVE BriefInv
  OBVIOUS
<1>1. \A s \in Sessions : session[s] = Brief!Idle
  BY DEF Brief!Init
<1>2. Brief!Idle \in BriefSession /\ Brief!Idle.pc = "idle" /\ Brief!Idle.cmd = "none"
  BY DEF Brief!Idle, BriefSession
<1>3. Brief!TypeOK
  BY <1>2, BriefSessions DEF Brief!TypeOK, Brief!Init, Brief!Bytes
<1>4. \A s \in Sessions : Made(s) /\ Settled(s)
  BY <1>1, <1>2 DEF Made, Settled, Making, Settling, Is, Brief!At
<1> QED BY <1>1, <1>2, <1>3, <1>4 DEF BriefInv, Brief!BriefIsSafe, Brief!RetainedIsWiped,
           Brief!OpenKeepsItsBrief, OneDispatch, BeforeDispatch, Is, Brief!At, Brief!Init

(* One session goes on, the others stay.                                 *)
Goes(s, next) == next \in BriefSession /\ session' = [session EXCEPT ![s] = next]

LEMMA GoesOn ==
  ASSUME Brief!TypeOK, NEW s \in Sessions, NEW next, Goes(s, next)
  PROVE  /\ session' \in [Sessions -> BriefSession] /\ session'[s] = next
         /\ \A r \in Sessions \ {s} : session'[r] = session[r]
BY BriefSessions DEF Brief!TypeOK, Goes

LEMMA IdleIsSession ==
  Brief!Idle \in BriefSession /\ Brief!Idle.pc = "idle" /\ Brief!Idle.cmd = "none"
BY DEF Brief!Idle, BriefSession

LEMMA Going ==
  ASSUME Brief!TypeOK, NEW s \in Sessions, NEW label, NEW rest \in SUBSET Artifacts,
         label \in {"idle"} \union Making \union Settling \union {"prepare", "terminal"}
  PROVE  /\ Brief!End(s) => Goes(s, Brief!Idle)
         /\ Brief!Goto(s, label) => Goes(s, [session[s] EXCEPT !.pc = label])
         /\ Brief!Toward(s, label, rest) => Goes(s, [session[s] EXCEPT !.pc = label, !.todo = rest])
<1>1. session[s] \in BriefSession
  BY BriefSessions DEF Brief!TypeOK
<1>2. [session[s] EXCEPT !.pc = label] \in BriefSession
  BY <1>1 DEF BriefSession
<1>3. [session[s] EXCEPT !.pc = label, !.todo = rest] \in BriefSession
  BY <1>1 DEF BriefSession
<1>4. ASSUME Brief!Goto(s, label) PROVE session' = [session EXCEPT ![s] = [session[s] EXCEPT !.pc = label]]
  BY <1>4, BriefSessions DEF Brief!TypeOK, Brief!Goto
<1>5. ASSUME Brief!Toward(s, label, rest)
      PROVE session' = [session EXCEPT ![s] = [session[s] EXCEPT !.pc = label, !.todo = rest]]
  BY <1>5, BriefSessions DEF Brief!TypeOK, Brief!Toward
<1> QED BY <1>2, <1>3, <1>4, <1>5, IdleIsSession DEF Goes, Brief!End

(* Nobody else is at work while a brief is made, nor makes one later.    *)
LEMMA NobodyElse ==
  ASSUME BriefInv, NEW s \in Sessions, ~Brief!At(s, "idle") \/ request # "none"
  PROVE  /\ request = "none" => Is(s, "dispatch") /\ \A r \in Sessions \ {s} : Brief!At(r, "idle")
         /\ request # "none" => \A r \in Sessions : session[r].pc \notin Making
         /\ directory # "none"
<1>1. request = "none" => Is(s, "dispatch") /\ \A r \in Sessions \ {s} : Brief!At(r, "idle")
  BY DEF BriefInv, OneDispatch
<1>2. request # "none" => \A r \in Sessions : session[r].pc \notin Making
  BY DEF BriefInv, Made
<1>3. directory # "none"
  BY IdleIsSession DEF BriefInv, BeforeDispatch, Brief!At
<1> QED BY <1>1, <1>2, <1>3

(* What is true of the others stays so, whatever one session does that   *)
(* neither reopens a request nor brings bytes back.                      *)
Onwards ==
  /\ unknown => unknown'
  /\ request = "closed" => request' = "closed"
  /\ directory' # "removed" => directory # "removed"
  /\ "published" \in inventory => "published" \in inventory'
  /\ \A a \in Artifacts : files[a] \in Emptied => files'[a] \in Emptied

LEMMA OthersStay ==
  ASSUME BriefInv, NEW s \in Sessions, NEW next, Goes(s, next),
         ~Brief!At(s, "idle") \/ request # "none", request # "none" => Onwards
  PROVE  \A r \in Sessions \ {s} : Made(r)' /\ Settled(r)'
<1> SUFFICES ASSUME NEW r \in Sessions \ {s} PROVE Made(r)' /\ Settled(r)'
  OBVIOUS
<1>1. session'[r] = session[r]
  BY GoesOn DEF BriefInv, Brief!BriefIsSafe
<1>2. CASE request = "none"
  <2>1. session'[r].pc = "idle"
    BY <1>1, <1>2, NobodyElse DEF Brief!At
  <2> QED BY <2>1 DEF Made, Settled, Making, Settling, Brief!At
<1>3. CASE request # "none"
  <2>1. session'[r].pc \notin Making
    BY <1>1, <1>3, NobodyElse
  <2>2. Made(r)'
    BY <1>1, <1>3, <2>1 DEF BriefInv, Made, Making, Is, Brief!At, Onwards
  <2>3. Settled(r)'
    <3>1. Settled(r)
      BY DEF BriefInv
    <3>2. \A a \in Artifacts : Overwritten(r, a) => Overwritten(r, a)'
      BY <1>1, <1>3 DEF Overwritten, Onwards, Brief!At
    <3> QED BY <1>1, <1>3, <3>1, <3>2 DEF Settled, Is, Brief!At, Onwards
  <2> QED BY <2>2, <2>3
<1> QED BY <1>2, <1>3

BriefDisk ==
  /\ directory \in {"none", "source", "retained", "removed"}
  /\ files \in [Artifacts -> Brief!Bytes] /\ stray \in BOOLEAN
  /\ retained \in BOOLEAN /\ inventory \subseteq {"staged", "published"}
  /\ request \in {"none", "open", "closed"} /\ unknown \in BOOLEAN

LEMMA DiskIsTyped == BriefInv => BriefDisk /\ session \in [Sessions -> BriefSession]
BY BriefSessions DEF BriefInv, Brief!BriefIsSafe, Brief!TypeOK, BriefDisk

(* One step of one session.                                              *)
LEMMA Assemble ==
  ASSUME BriefInv, NEW s \in Sessions, NEW next, Goes(s, next),
         ~Brief!At(s, "idle") \/ request # "none", request # "none" => Onwards,
         BriefDisk', directory' # "none", touches' = touches,
         directory' = "removed" => directory = "removed",
         next.cmd = "dispatch" => Is(s, "dispatch"),
         request' = "none" => request = "none" /\ (next.pc = "idle" \/ next.cmd = session[s].cmd),
         Made(s)', Settled(s)', Brief!RetainedIsWiped', Brief!OpenKeepsItsBrief'
  PROVE  BriefInv'
<1>1. /\ session' \in [Sessions -> BriefSession] /\ session'[s] = next
      /\ \A r \in Sessions \ {s} : session'[r] = session[r]
  BY GoesOn DEF BriefInv, Brief!BriefIsSafe
<1>2. Brief!TypeOK'
  BY <1>1, BriefSessions DEF BriefDisk, Brief!TypeOK
<1>3. \A r \in Sessions : Made(r)' /\ Settled(r)'
  BY OthersStay
<1>4. OneDispatch'
  <2>1. \A r \in Sessions : Is(r, "dispatch")' => Is(r, "dispatch")
    BY <1>1 DEF Is
  <2>2. request' = "none" => \A r \in Sessions : Brief!At(r, "idle")' \/ Is(r, "dispatch")'
    BY <1>1, NobodyElse DEF Is, Brief!At
  <2> QED BY <2>1, <2>2 DEF BriefInv, OneDispatch
<1> QED BY <1>2, <1>3, <1>4 DEF BriefInv, Brief!BriefIsSafe, BeforeDispatch

(* A session goes on and leaves the disk and the ledger alone.           *)
Elsewhere == UNCHANGED <<directory, files, stray, retained, inventory, request, unknown, touches>>

LEMMA LooksOn ==
  ASSUME BriefInv, NEW s \in Sessions, NEW next, Goes(s, next), Elsewhere,
         ~Brief!At(s, "idle") \/ request # "none",
         next.cmd = "dispatch" => Is(s, "dispatch"),
         request # "none" \/ next.pc = "idle" \/ next.cmd = session[s].cmd,
         Made(s)', Settled(s)'
  PROVE  BriefInv'
<1>1. Onwards
  BY DEF Onwards, Elsewhere
<1>2. BriefDisk'
  BY DiskIsTyped DEF BriefDisk, Elsewhere
<1>3. Brief!RetainedIsWiped' /\ Brief!OpenKeepsItsBrief'
  BY DEF BriefInv, Brief!BriefIsSafe, Brief!RetainedIsWiped, Brief!OpenKeepsItsBrief, Elsewhere
<1> QED BY <1>1, <1>2, <1>3, NobodyElse, Assemble DEF Elsewhere

(* It may always end.                                                    *)
LEMMA IdleIsFine ==
  ASSUME NEW s \in Sessions, session'[s].pc = "idle" PROVE Made(s)' /\ Settled(s)'
BY DEF Made, Settled, Making, Settling, Brief!At

LEMMA EndsWell ==
  ASSUME BriefInv, NEW s \in Sessions, ~Brief!At(s, "idle"), Brief!End(s), Elsewhere
  PROVE  BriefInv'
<1>1. Goes(s, Brief!Idle)
  BY IdleIsSession DEF Brief!End, Goes
<1>2. session'[s].pc = "idle"
  BY <1>1, GoesOn, IdleIsSession DEF BriefInv, Brief!BriefIsSafe
<1> QED BY <1>1, <1>2, IdleIsFine, IdleIsSession, LooksOn

LEMMA CreateDirectoryKeeps ==
  ASSUME BriefInv, NEW s \in Sessions, Brief!CreateDirectory(s) PROVE BriefInv'
<1> DEFINE next == [Brief!Idle EXCEPT !.pc = "create", !.cmd = "dispatch", !.todo = Artifacts]
<1>1. next \in BriefSession /\ next.pc = "create" /\ next.cmd = "dispatch" /\ next.todo = Artifacts
  BY DEF Brief!Idle, BriefSession, Making
<1>2. Goes(s, next)
  BY <1>1 DEF Brief!CreateDirectory, Goes
<1> HIDE DEF next
<1>3. /\ session' \in [Sessions -> BriefSession] /\ session'[s] = next
      /\ \A r \in Sessions \ {s} : session'[r] = session[r]
  BY <1>2, GoesOn DEF BriefInv, Brief!BriefIsSafe
<1>4. \A r \in Sessions \ {s} : session'[r].pc = "idle" /\ session'[r].cmd = "none"
  BY <1>3, IdleIsSession DEF Brief!CreateDirectory
<1>5. /\ directory = "none" /\ directory' = "source"
      /\ UNCHANGED <<files, stray, retained, inventory, request, unknown, touches>>
      /\ request = "none" /\ \A a \in Artifacts : files[a] = "absent"
  BY DEF Brief!CreateDirectory, Brief!ledger, Brief!budget, BriefInv, BeforeDispatch
<1>6. Brief!BriefIsSafe'
  <2>1. Brief!TypeOK'
    BY <1>3, <1>5, DiskIsTyped, BriefSessions DEF BriefDisk, Brief!TypeOK
  <2> QED BY <2>1, <1>5 DEF Brief!BriefIsSafe, Brief!RetainedIsWiped, Brief!OpenKeepsItsBrief
<1>7. Made(s)' /\ Settled(s)'
  BY <1>1, <1>3, <1>5 DEF Made, MadeSoFar, Settled, Making, Settling, Is, Brief!At
<1>8. \A r \in Sessions : Made(r)' /\ Settled(r)'
  BY <1>4, <1>7, IdleIsFine
<1>9. OneDispatch'
  BY <1>1, <1>3, <1>4 DEF OneDispatch, Is, Brief!At
<1> QED BY <1>5, <1>6, <1>8, <1>9 DEF BriefInv, BeforeDispatch

LEMMA BeginKeeps ==
  ASSUME BriefInv, NEW s \in Sessions, NEW c \in {"answer", "cleanup"}, Brief!Begin(s, c)
  PROVE  BriefInv'
<1> DEFINE next == [Brief!Idle EXCEPT !.pc = "prepare", !.cmd = c]
<1>1. next \in BriefSession /\ next.pc = "prepare" /\ next.cmd = c
  BY DEF Brief!Idle, BriefSession, Making
<1>2. Goes(s, next) /\ request # "none" /\ Elsewhere
  BY <1>1 DEF Brief!Begin, Goes, Elsewhere, Brief!disk, Brief!ledger, Brief!budget
<1> HIDE DEF next
<1>3. session'[s] = next
  BY <1>2, GoesOn DEF BriefInv, Brief!BriefIsSafe
<1>4. Made(s)' /\ Settled(s)'
  BY <1>1, <1>3 DEF Made, Settled, Making, Settling, Is, Brief!At
<1> QED BY <1>1, <1>2, <1>4, LooksOn

LEMMA CreateFileKeeps ==
  ASSUME BriefInv, NEW s \in Sessions, Brief!CreateFile(s) PROVE BriefInv'
<1> DEFINE me == session[s]
<1>1. me \in BriefSession /\ me.pc = "create" /\ Is(s, "dispatch") /\ request = "none" /\ ~Brief!At(s, "idle")
  BY DiskIsTyped DEF Brief!CreateFile, Brief!At, BriefInv, Made, Making
<1>2. UNCHANGED <<directory, stray, retained, inventory, request, unknown, touches>>
  BY DEF Brief!CreateFile, Brief!ledger, Brief!budget
<1>3. Made(s)
  BY DEF BriefInv
<1>4. PICK a \in me.todo :
        IF directory # "source" \/ files[a] # "absent"
        THEN Brief!Toward(s, "undo", Artifacts \ me.todo) /\ UNCHANGED files
        ELSE /\ files' = [files EXCEPT ![a] = "text"]
             /\ Brief!Toward(s, IF me.todo = {a} THEN "bind" ELSE "create", me.todo \ {a})
  BY DEF Brief!CreateFile
<1>5. me.todo \subseteq Artifacts /\ a \in Artifacts
  BY <1>1 DEF BriefSession
<1>6. CASE directory # "source" \/ files[a] # "absent"
  <2> DEFINE next == [me EXCEPT !.pc = "undo", !.todo = Artifacts \ me.todo]
  <2>1. Goes(s, next) /\ next.pc = "undo" /\ next.cmd = "dispatch"
    BY <1>1, <1>4, <1>6, Going DEF BriefInv, Brief!BriefIsSafe, Making, Is, BriefSession
  <2> HIDE DEF next
  <2>2. session'[s] = next
    BY <2>1, GoesOn DEF BriefInv, Brief!BriefIsSafe
  <2>3. Made(s)' /\ Settled(s)'
    BY <1>1, <1>2, <2>1, <2>2 DEF Made, Settled, Making, Settling, Is, Brief!At
  <2>4. Elsewhere
    BY <1>2, <1>4, <1>6 DEF Elsewhere
  <2> QED BY <1>1, <2>1, <2>3, <2>4, LooksOn DEF Is
<1>7. CASE directory = "source" /\ files[a] = "absent"
  <2> DEFINE next == [me EXCEPT !.pc = IF me.todo = {a} THEN "bind" ELSE "create",
                                !.todo = me.todo \ {a}]
  <2>1. /\ Goes(s, next) /\ next.pc = (IF me.todo = {a} THEN "bind" ELSE "create")
        /\ next.cmd = "dispatch" /\ next.todo = me.todo \ {a}
    BY <1>1, <1>4, <1>5, <1>7, Going DEF BriefInv, Brief!BriefIsSafe, Making, Is, BriefSession
  <2> HIDE DEF next
  <2>2. session'[s] = next
    BY <2>1, GoesOn DEF BriefInv, Brief!BriefIsSafe
  <2>3. /\ files' \in [Artifacts -> Brief!Bytes] /\ files'[a] = "text"
        /\ \A b \in Artifacts \ {a} : files'[b] = files[b]
    BY <1>4, <1>5, <1>7, DiskIsTyped DEF BriefDisk, Brief!Bytes
  <2>4. Made(s)'
    <3>1. ASSUME touches = 0, NEW b \in Artifacts PROVE MadeSoFar(s, b)'
      BY <1>1, <1>3, <1>5, <2>1, <2>2, <2>3, <3>1 DEF Made, MadeSoFar, Brief!At
    <3> QED BY <1>1, <1>2, <1>7, <2>1, <2>2, <3>1 DEF Made, Making, Is, Brief!At
  <2>5. Settled(s)'
    BY <2>1, <2>2 DEF Settled, Settling, Brief!At
  <2>6. BriefDisk' /\ Brief!RetainedIsWiped' /\ Brief!OpenKeepsItsBrief'
    BY <1>1, <1>2, <1>7, <2>3, DiskIsTyped DEF BriefDisk, Brief!RetainedIsWiped, Brief!OpenKeepsItsBrief
  <2> QED BY <1>1, <1>2, <1>7, <2>1, <2>4, <2>5, <2>6, Assemble DEF Is
<1> QED BY <1>6, <1>7

LEMMA BindDirectoryKeeps ==
  ASSUME BriefInv, NEW s \in Sessions, Brief!BindDirectory(s) PROVE BriefInv'
<1> DEFINE me == session[s]
<1>1. me \in BriefSession /\ me.pc = "bind" /\ Is(s, "dispatch") /\ request = "none" /\ ~Brief!At(s, "idle")
  BY DiskIsTyped DEF Brief!BindDirectory, Brief!At, BriefInv, Made, Making
<1>2. Elsewhere
  BY DEF Brief!BindDirectory, Elsewhere, Brief!disk, Brief!ledger, Brief!budget
<1>3. Made(s)
  BY DEF BriefInv
<1>4. PICK next : Goes(s, next) /\ next.pc \in {"record", "undo"} /\ next.cmd = me.cmd
  <2>1. CASE directory = "source"
    <3>1. Goes(s, [me EXCEPT !.pc = "record"])
      BY <2>1, Going DEF BriefInv, Brief!BriefIsSafe, Brief!BindDirectory, Making
    <3>2. [me EXCEPT !.pc = "record"].pc = "record" /\ [me EXCEPT !.pc = "record"].cmd = me.cmd
      BY <1>1 DEF BriefSession
    <3> QED BY <3>1, <3>2
  <2>2. CASE directory # "source"
    <3>1. Goes(s, [me EXCEPT !.pc = "undo", !.todo = Artifacts])
      BY <2>2, Going DEF BriefInv, Brief!BriefIsSafe, Brief!BindDirectory, Making
    <3>2. /\ [me EXCEPT !.pc = "undo", !.todo = Artifacts].pc = "undo"
          /\ [me EXCEPT !.pc = "undo", !.todo = Artifacts].cmd = me.cmd
      BY <1>1 DEF BriefSession
    <3> QED BY <3>1, <3>2
  <2> QED BY <2>1, <2>2
<1>5. session'[s] = next
  BY <1>4, GoesOn DEF BriefInv, Brief!BriefIsSafe
<1>6. Made(s)' /\ Settled(s)'
  BY <1>1, <1>2, <1>3, <1>4, <1>5 DEF Made, MadeSoFar, Settled, Making, Settling, Is, Brief!At, Elsewhere
<1> QED BY <1>1, <1>2, <1>4, <1>6, LooksOn DEF Is

LEMMA UndoCreationKeeps ==
  ASSUME BriefInv, NEW s \in Sessions, Brief!UndoCreation(s) PROVE BriefInv'
<1>1. Is(s, "dispatch") /\ request = "none" /\ ~Brief!At(s, "idle")
  BY DEF Brief!UndoCreation, Brief!At, BriefInv, Made, Making
<1>2. UNCHANGED <<directory, stray, retained, inventory, request, unknown, touches>>
  BY DEF Brief!UndoCreation, Brief!ledger, Brief!budget
<1>3. Goes(s, Brief!Idle) /\ session'[s].pc = "idle"
  BY IdleIsSession, GoesOn DEF Brief!UndoCreation, Brief!End, Goes, BriefInv, Brief!BriefIsSafe
<1>4. /\ files' \in [Artifacts -> Brief!Bytes]
      /\ \A a \in Artifacts : files'[a] = files[a] \/ files'[a] = "empty"
  <2>1. files' = [a \in Artifacts |->
                   IF a \in session[s].todo /\ files[a] = "text" THEN "empty" ELSE files[a]]
    BY DEF Brief!UndoCreation
  <2> QED BY <2>1, DiskIsTyped DEF BriefDisk, Brief!Bytes
<1>5. BriefDisk' /\ Brief!RetainedIsWiped' /\ Brief!OpenKeepsItsBrief'
  <2>1. Brief!RetainedIsWiped
    BY DEF BriefInv, Brief!BriefIsSafe
  <2> QED BY <1>1, <1>2, <1>4, <2>1, DiskIsTyped DEF BriefDisk, Brief!RetainedIsWiped, Brief!OpenKeepsItsBrief
<1> QED BY <1>1, <1>2, <1>3, <1>5, IdleIsFine, IdleIsSession, NobodyElse, Assemble

LEMMA RecordRequestKeeps ==
  ASSUME BriefInv, NEW s \in Sessions, Brief!RecordRequest(s) PROVE BriefInv'
<1> DEFINE me == session[s]
<1>1. me \in BriefSession /\ me.pc = "record" /\ Is(s, "dispatch") /\ request = "none" /\ ~Brief!At(s, "idle")
  BY DiskIsTyped DEF Brief!RecordRequest, Brief!At, BriefInv, Made, Making
<1>2. UNCHANGED <<directory, files, stray, retained, inventory, touches>>
  BY DEF Brief!RecordRequest, Brief!disk
<1>3. touches = 0 => directory = "source" /\ \A a \in Artifacts : files[a] = "text"
  BY <1>1 DEF BriefInv, Made, MadeSoFar, Brief!At
<1>4. PICK next : /\ Goes(s, next) /\ next.pc \in {"idle", "prepare"}
                  /\ next.pc = "idle" => request' = "open" /\ unknown' = unknown /\ next.cmd = "none"
                  /\ next.pc = "prepare" =>
                       /\ next.cmd = "dispatch"
                       /\ UNCHANGED <<request, unknown>> \/ (request' = "open" /\ unknown')
  <2>1. CASE request' = "open" /\ Brief!End(s) /\ UNCHANGED <<unknown, failures>>
    BY <2>1, IdleIsSession DEF Brief!End, Goes
  <2>2. CASE Brief!Goto(s, "prepare") /\ (UNCHANGED <<Brief!ledger, failures>> \/ (request' = "open" /\ unknown'))
    <3>1. Goes(s, [me EXCEPT !.pc = "prepare"])
      BY <2>2, Going DEF BriefInv, Brief!BriefIsSafe
    <3>2. UNCHANGED <<request, unknown>> \/ (request' = "open" /\ unknown')
      BY <2>2 DEF Brief!ledger
    <3> QED BY <1>1, <3>1, <3>2 DEF BriefSession, Is
  <2> QED BY <2>1, <2>2 DEF Brief!RecordRequest
<1>5. session'[s] = next
  BY <1>4, GoesOn DEF BriefInv, Brief!BriefIsSafe
<1>6. Made(s)' /\ Settled(s)'
  BY <1>1, <1>4, <1>5 DEF Made, Settled, Making, Settling, Is, Brief!At
<1>7. BriefDisk'
  BY <1>1, <1>2, <1>4, DiskIsTyped DEF BriefDisk
<1>8. Brief!RetainedIsWiped' /\ Brief!OpenKeepsItsBrief'
  BY <1>1, <1>2, <1>3, <1>4 DEF BriefInv, Brief!BriefIsSafe, Brief!RetainedIsWiped, Brief!OpenKeepsItsBrief
<1>9. request' = "none" => next.cmd = me.cmd
  BY <1>1, <1>4 DEF Is
<1> QED BY <1>1, <1>2, <1>4, <1>6, <1>7, <1>8, <1>9, NobodyElse, Assemble DEF Is

LEMMA PrepareKeeps ==
  ASSUME BriefInv, NEW s \in Sessions, Brief!Prepare(s) PROVE BriefInv'
<1> DEFINE me == session[s]
<1>1. me \in BriefSession /\ ~Brief!At(s, "idle") /\ me.pc = "prepare"
  BY DiskIsTyped DEF Brief!Prepare, Brief!At
<1>2. Elsewhere
  BY DEF Brief!Prepare, Elsewhere, Brief!disk, Brief!ledger, Brief!budget
<1>3. ASSUME NEW seen \in BOOLEAN, Brief!Continues(s, seen) PROVE BriefInv'
  <2> DEFINE label == IF me.cmd # "dispatch" THEN "terminal" ELSE IF seen THEN "idle" ELSE "zero"
             next == [me EXCEPT !.retained = seen, !.todo = Artifacts, !.pc = label]
  <2>1. /\ next \in BriefSession /\ next.pc = label /\ next.cmd = me.cmd /\ next.todo = Artifacts
    BY <1>1 DEF BriefSession, Settling
  <2>2. session' = [session EXCEPT ![s] = next]
    BY <1>3, DiskIsTyped DEF Brief!Continues
  <2> HIDE DEF next
  <2>3. Goes(s, next) /\ session'[s] = next
    BY <2>1, <2>2, GoesOn DEF Goes, BriefInv, Brief!BriefIsSafe
  <2>4. Made(s)' /\ Settled(s)'
    <3>1. Made(s)
      BY DEF BriefInv
    <3> QED BY <1>1, <1>2, <2>1, <2>3, <3>1
            DEF Made, Settled, Making, Settling, Overwritten, Is, Brief!At, Elsewhere
  <2> QED BY <1>1, <1>2, <2>1, <2>3, <2>4, LooksOn DEF Is
<1> QED BY <1>1, <1>2, <1>3, EndsWell DEF Brief!Prepare

LEMMA TerminalKeeps ==
  ASSUME BriefInv, NEW s \in Sessions, Brief!Terminal(s) PROVE BriefInv'
<1> DEFINE me == session[s]
<1>1. me \in BriefSession /\ ~Brief!At(s, "idle") /\ me.pc = "terminal"
  BY DiskIsTyped DEF Brief!Terminal, Brief!At
<1>2. ~Is(s, "dispatch") /\ me.todo = Artifacts /\ request # "none"
  BY <1>1, NobodyElse DEF BriefInv, Settled, Brief!At
<1>3. request' = "closed" /\ UNCHANGED <<directory, files, stray, retained, inventory, unknown, touches>>
  BY DEF Brief!Terminal, Brief!disk, Brief!budget
<1>4. PICK next : /\ Goes(s, next) /\ next.pc \in {"idle", "zero"} /\ next.cmd # "dispatch"
                  /\ next.pc = "zero" => next.todo = Artifacts
  <2>1. CASE Brief!End(s)
    BY <2>1, IdleIsSession DEF Brief!End, Goes
  <2>2. CASE Brief!Goto(s, "zero")
    <3>1. Goes(s, [me EXCEPT !.pc = "zero"])
      BY <2>2, Going DEF BriefInv, Brief!BriefIsSafe, Settling
    <3>2. /\ [me EXCEPT !.pc = "zero"].pc = "zero" /\ [me EXCEPT !.pc = "zero"].cmd = me.cmd
          /\ [me EXCEPT !.pc = "zero"].todo = Artifacts
      BY <1>1, <1>2 DEF BriefSession
    <3> QED BY <1>2, <3>1, <3>2 DEF Is
  <2> QED BY <2>1, <2>2 DEF Brief!Terminal
<1>5. session'[s] = next
  BY <1>4, GoesOn DEF BriefInv, Brief!BriefIsSafe
<1>6. Made(s)' /\ Settled(s)'
  BY <1>3, <1>4, <1>5 DEF Made, Settled, Making, Settling, Overwritten, Is, Brief!At
<1>7. Onwards
  BY <1>3 DEF Onwards
<1>8. BriefDisk' /\ Brief!RetainedIsWiped' /\ Brief!OpenKeepsItsBrief'
  BY <1>3, DiskIsTyped DEF BriefDisk, BriefInv, Brief!BriefIsSafe, Brief!RetainedIsWiped, Brief!OpenKeepsItsBrief
<1> QED BY <1>1, <1>3, <1>4, <1>6, <1>7, <1>8, NobodyElse, Assemble

(* What overwriting and moving share: a session past the request's end.  *)
LEMMA Settles ==
  ASSUME BriefInv, NEW s \in Sessions, session[s].pc \in Settling
  PROVE  /\ session[s] \in BriefSession /\ ~Brief!At(s, "idle") /\ session[s].pc \notin Making
         /\ Is(s, "dispatch") \/ request = "closed"
         /\ Is(s, "dispatch") => request = "none" \/ unknown
         /\ request = "open" => unknown
         /\ directory # "none"
<1>1. session[s] \in BriefSession /\ ~Brief!At(s, "idle") /\ session[s].pc \notin Making
  BY DiskIsTyped DEF Settling, Making, Brief!At
<1>2. /\ Is(s, "dispatch") \/ request = "closed"
      /\ Is(s, "dispatch") => request = "none" \/ unknown
  BY <1>1 DEF BriefInv, Made, Settled
<1> QED BY <1>1, <1>2, NobodyElse

(* It stays one, whatever its next step.                                 *)
LEMMA SettlesOn ==
  ASSUME BriefInv, NEW s \in Sessions, session[s].pc \in Settling,
         UNCHANGED <<request, unknown>>, session'[s].cmd = session[s].cmd,
         session'[s].pc \in Settling,
         session'[s].pc # "verify" /\ directory' # "removed" =>
           \A a \in Artifacts : Overwritten(s, a)',
         session'[s].pc \in {"names", "move"} => "published" \in inventory'
  PROVE  Made(s)' /\ Settled(s)'
BY Settles DEF Made, Settled, Making, Settling, Is, Brief!At

LEMMA ZeroKeeps ==
  ASSUME BriefInv, NEW s \in Sessions, Brief!Zero(s) PROVE BriefInv'
<1> DEFINE me == session[s]
<1>1. me.pc = "zero" /\ me.pc \in Settling
  BY DEF Brief!Zero, Brief!At, Settling
<1>2. UNCHANGED <<directory, stray, retained, inventory, request, unknown, touches>>
  BY DEF Brief!Zero, Brief!ledger, Brief!budget
<1>3. me \in BriefSession /\ me.todo \subseteq Artifacts /\ ~Brief!At(s, "idle") /\ directory # "none"
  BY <1>1, Settles DEF BriefSession
<1>4. directory # "removed" => \A a \in Artifacts : Overwritten(s, a)
  BY <1>1 DEF BriefInv, Settled
<1>5. CASE me.todo = {}
  <2> DEFINE next == [me EXCEPT !.pc = "check"]
  <2>1. Goes(s, next) /\ next.pc = "check" /\ next.cmd = me.cmd
    BY <1>3, <1>5, Going DEF Brief!Zero, BriefInv, Brief!BriefIsSafe, Settling, BriefSession
  <2> HIDE DEF next
  <2>2. session'[s] = next /\ UNCHANGED files
    BY <1>5, <2>1, GoesOn DEF BriefInv, Brief!BriefIsSafe, Brief!Zero
  <2>3. \A a \in Artifacts : Overwritten(s, a) => Overwritten(s, a)'
    BY <1>5, <2>2 DEF Overwritten
  <2>4. Made(s)' /\ Settled(s)'
    BY <1>1, <1>2, <1>4, <2>1, <2>2, <2>3, SettlesOn DEF Settling
  <2> QED BY <1>2, <1>3, <2>1, <2>2, <2>4, LooksOn DEF Elsewhere, Is
<1>6. ASSUME NEW a \in me.todo, files[a] \in {"absent", "foreign"}, Brief!End(s), UNCHANGED files
      PROVE  BriefInv'
  BY <1>2, <1>3, <1>6, EndsWell DEF Elsewhere
<1>7. ASSUME NEW a \in me.todo, NEW b \in {"zeroes", "empty"},
             files[a] \notin {"absent", "foreign"}, b = "zeroes" => files[a] = "text",
             files' = [files EXCEPT ![a] = b],
             \/ b = "zeroes" /\ UNCHANGED session
             \/ b = "empty" /\ Brief!Toward(s, "zero", me.todo \ {a})
      PROVE  BriefInv'
  <2>1. /\ files' \in [Artifacts -> Brief!Bytes] /\ files'[a] = b
        /\ \A c \in Artifacts \ {a} : files'[c] = files[c]
    BY <1>3, <1>7, DiskIsTyped DEF BriefDisk, Brief!Bytes
  <2>2. PICK next : /\ Goes(s, next) /\ next.pc = "zero" /\ next.cmd = me.cmd
                    /\ next.todo = IF b = "empty" THEN me.todo \ {a} ELSE me.todo
    <3>1. CASE b = "zeroes"
      <4>1. session' = [session EXCEPT ![s] = me]
        BY <1>7, <3>1, DiskIsTyped
      <4> QED BY <1>1, <1>3, <3>1, <4>1 DEF Goes
    <3>2. CASE b = "empty"
      <4>1. Goes(s, [me EXCEPT !.pc = "zero", !.todo = me.todo \ {a}])
        BY <1>3, <1>7, <3>2, Going DEF BriefInv, Brief!BriefIsSafe, Settling
      <4>2. /\ [me EXCEPT !.pc = "zero", !.todo = me.todo \ {a}].pc = "zero"
            /\ [me EXCEPT !.pc = "zero", !.todo = me.todo \ {a}].cmd = me.cmd
            /\ [me EXCEPT !.pc = "zero", !.todo = me.todo \ {a}].todo = me.todo \ {a}
        BY <1>3 DEF BriefSession
      <4> QED BY <3>2, <4>1, <4>2
    <3> QED BY <3>1, <3>2
  <2>3. session'[s] = next
    BY <2>2, GoesOn DEF BriefInv, Brief!BriefIsSafe
  <2>4. ASSUME directory' # "removed", NEW c \in Artifacts PROVE Overwritten(s, c)'
    BY <1>1, <1>2, <1>3, <1>4, <2>1, <2>2, <2>3, <2>4 DEF Overwritten, Emptied, Brief!At
  <2>5. Made(s)' /\ Settled(s)'
    BY <1>1, <1>2, <2>2, <2>3, <2>4, SettlesOn
  <2>6. Onwards
    BY <1>2, <1>7, <2>1 DEF Onwards, Emptied
  <2>7. BriefDisk' /\ Brief!RetainedIsWiped' /\ Brief!OpenKeepsItsBrief'
    <3>1. Brief!RetainedIsWiped
      BY DEF BriefInv, Brief!BriefIsSafe
    <3>2. Brief!RetainedIsWiped'
      BY <1>2, <1>3, <1>7, <2>1, <3>1 DEF Brief!RetainedIsWiped
    <3>3. Brief!OpenKeepsItsBrief'
      BY <1>1, <1>2, Settles DEF Brief!OpenKeepsItsBrief
    <3> QED BY <1>2, <2>1, <3>2, <3>3, DiskIsTyped DEF BriefDisk
  <2> QED BY <1>2, <1>3, <2>2, <2>5, <2>6, <2>7, Assemble DEF Is
<1>8. CASE me.todo # {}
  <2>1. PICK a \in me.todo :
          CASE files[a] \in {"absent", "foreign"} -> Brief!End(s) /\ UNCHANGED files
            [] files[a] = "text" -> files' = [files EXCEPT ![a] = "zeroes"] /\ UNCHANGED session
            [] OTHER -> /\ files' = [files EXCEPT ![a] = "empty"]
                        /\ Brief!Toward(s, "zero", me.todo \ {a})
    BY <1>8 DEF Brief!Zero
  <2>2. CASE files[a] \in {"absent", "foreign"}
    <3>1. Brief!End(s) /\ UNCHANGED files
      BY <2>1, <2>2
    <3> QED BY <1>6, <2>2, <3>1
  <2>3. CASE files[a] = "text"
    <3>1. files' = [files EXCEPT ![a] = "zeroes"] /\ UNCHANGED session
      BY <2>1, <2>3
    <3> QED BY <1>7, <2>3, <3>1
  <2>4. CASE files[a] \notin {"absent", "foreign", "text"}
    <3>1. files' = [files EXCEPT ![a] = "empty"] /\ Brief!Toward(s, "zero", me.todo \ {a})
      BY <2>1, <2>4
    <3> QED BY <1>7, <2>4, <3>1
  <2> QED BY <2>2, <2>3, <2>4
<1> QED BY <1>5, <1>8

(* A session whose files are overwritten goes on: on what lies beside    *)
(* them, or, its inventory being out, with the move.                     *)
LEMMA Advances ==
  ASSUME BriefInv, NEW s \in Sessions, NEW label \in Settling \ {"zero"},
         session[s].pc \in Settling \ {"zero", "verify"}, Brief!Goto(s, label),
         UNCHANGED <<files, stray, request, unknown, touches>>,
         retained' \in BOOLEAN, inventory' \subseteq {"staged", "published"},
         "published" \in inventory => "published" \in inventory',
         directory' = directory
           \/ (directory = "source" /\ directory' = "retained" /\ "published" \in inventory'),
         label \in {"names", "move"} => "published" \in inventory'
  PROVE  BriefInv'
<1> DEFINE next == [session[s] EXCEPT !.pc = label]
<1>1. /\ session[s] \in BriefSession /\ ~Brief!At(s, "idle") /\ directory # "none"
      /\ request = "open" => unknown
  BY Settles
<1>2. Goes(s, next) /\ next.pc = label /\ next.cmd = session[s].cmd
  BY <1>1, Going DEF BriefInv, Brief!BriefIsSafe, BriefSession
<1> HIDE DEF next
<1>3. session'[s] = next
  BY <1>2, GoesOn DEF BriefInv, Brief!BriefIsSafe
<1>4. directory # "removed" => \A a \in Artifacts : files[a] \in Emptied
  BY DEF BriefInv, Settled, Overwritten, Brief!At
<1>5. directory' # "removed" => \A a \in Artifacts : Overwritten(s, a)'
  BY <1>4 DEF Overwritten
<1>6. Made(s)' /\ Settled(s)'
  BY <1>2, <1>3, <1>5, SettlesOn
<1>7. Onwards
  BY DEF Onwards
<1>8. Brief!RetainedIsWiped' /\ Brief!OpenKeepsItsBrief'
  BY <1>1, <1>4 DEF BriefInv, Brief!BriefIsSafe, Brief!RetainedIsWiped, Brief!OpenKeepsItsBrief, Emptied
<1>9. BriefDisk' /\ directory' # "none" /\ (directory' = "removed" => directory = "removed")
  BY <1>1, DiskIsTyped DEF BriefDisk
<1> QED BY <1>1, <1>2, <1>6, <1>7, <1>8, <1>9, Assemble DEF Is

LEMMA CheckEntriesKeeps ==
  ASSUME BriefInv, NEW s \in Sessions, Brief!CheckEntries(s) PROVE BriefInv'
<1>1. Elsewhere
  BY DEF Brief!CheckEntries, Elsewhere, Brief!disk, Brief!ledger, Brief!budget
<1>2. CASE Brief!Goto(s, "quarantine")
  BY <1>1, <1>2, DiskIsTyped, Advances DEF Brief!CheckEntries, Brief!At, Settling, Elsewhere, BriefDisk
<1>3. CASE Brief!End(s)
  BY <1>1, <1>3, EndsWell DEF Brief!CheckEntries, Brief!At
<1> QED BY <1>2, <1>3 DEF Brief!CheckEntries

LEMMA MakeQuarantineKeeps ==
  ASSUME BriefInv, NEW s \in Sessions, Brief!MakeQuarantine(s) PROVE BriefInv'
<1>1. /\ UNCHANGED <<directory, files, stray, inventory, request, unknown, touches>> /\ retained' = TRUE
      /\ session[s].pc = "quarantine"
      /\ Brief!Goto(s, IF "published" \in inventory THEN "names" ELSE "stage")
  BY DEF Brief!MakeQuarantine, Brief!At, Brief!ledger, Brief!budget
<1> QED BY <1>1, DiskIsTyped, Advances DEF Settling, BriefDisk

LEMMA StageKeeps ==
  ASSUME BriefInv, NEW s \in Sessions, Brief!Stage(s) PROVE BriefInv'
<1>1. /\ UNCHANGED <<directory, files, stray, retained, request, unknown, touches>>
      /\ inventory' = inventory \union {"staged"}
      /\ session[s].pc = "stage" /\ Brief!Goto(s, "publish")
  BY DEF Brief!Stage, Brief!At, Brief!ledger, Brief!budget
<1> QED BY <1>1, DiskIsTyped, Advances DEF Settling, BriefDisk

LEMMA BriefPublishKeeps ==
  ASSUME BriefInv, NEW s \in Sessions, Brief!Publish(s) PROVE BriefInv'
<1>1. /\ UNCHANGED <<directory, files, stray, retained, request, unknown, touches>>
      /\ session[s].pc = "publish"
  BY DEF Brief!Publish, Brief!At, Brief!ledger, Brief!budget
<1>2. CASE inventory' = {"published"} /\ Brief!Goto(s, "names")
  BY <1>1, <1>2, DiskIsTyped, Advances DEF Settling, BriefDisk
<1>3. CASE Brief!End(s) /\ UNCHANGED inventory
  BY <1>1, <1>3, EndsWell DEF Elsewhere, Brief!At
<1> QED BY <1>2, <1>3 DEF Brief!Publish

LEMMA CheckNamesKeeps ==
  ASSUME BriefInv, NEW s \in Sessions, Brief!CheckNames(s) PROVE BriefInv'
<1>1. Elsewhere /\ session[s].pc = "names"
  BY DEF Brief!CheckNames, Brief!At, Elsewhere, Brief!disk, Brief!ledger, Brief!budget
<1>2. CASE Brief!Goto(s, "move")
  <2>1. "published" \in inventory
    BY <1>1 DEF BriefInv, Settled
  <2> QED BY <1>1, <1>2, <2>1, DiskIsTyped, Advances DEF Settling, Elsewhere, BriefDisk
<1>3. CASE Brief!End(s)
  BY <1>1, <1>3, EndsWell DEF Brief!At
<1> QED BY <1>2, <1>3 DEF Brief!CheckNames

LEMMA MoveKeeps ==
  ASSUME BriefInv, NEW s \in Sessions, Brief!Move(s) PROVE BriefInv'
<1>1. /\ UNCHANGED <<files, stray, retained, inventory, request, unknown, touches>>
      /\ session[s].pc = "move"
  BY DEF Brief!Move, Brief!At, Brief!ledger, Brief!budget
<1>2. CASE directory = "source" /\ directory' = "retained" /\ Brief!Goto(s, "verify")
  <2>1. "published" \in inventory
    BY <1>1 DEF BriefInv, Settled
  <2> QED BY <1>1, <1>2, <2>1, DiskIsTyped, Advances DEF Settling, BriefDisk
<1>3. CASE Brief!End(s) /\ UNCHANGED directory
  BY <1>1, <1>3, EndsWell DEF Elsewhere, Brief!At
<1> QED BY <1>2, <1>3 DEF Brief!Move

LEMMA BriefVerifyKeeps ==
  ASSUME BriefInv, NEW s \in Sessions, Brief!Verify(s) PROVE BriefInv'
BY EndsWell DEF Brief!Verify, Brief!At, Elsewhere, Brief!disk, Brief!ledger, Brief!budget

LEMMA BriefFaultKeeps ==
  ASSUME BriefInv, NEW s \in Sessions, Brief!Fault(s) PROVE BriefInv'
<1> DEFINE me == session[s]
<1>1. Elsewhere /\ ~Brief!At(s, "idle") /\ me \in BriefSession
  BY DiskIsTyped DEF Brief!Fault, Elsewhere, Brief!disk, Brief!ledger
<1>2. CASE Brief!End(s)
  BY <1>1, <1>2, EndsWell
<1>3. CASE Brief!At(s, "create") /\ Brief!Toward(s, "undo", Artifacts \ me.todo)
  <2> DEFINE next == [me EXCEPT !.pc = "undo", !.todo = Artifacts \ me.todo]
  <2>1. Goes(s, next) /\ next.pc = "undo" /\ next.cmd = me.cmd
    BY <1>1, <1>3, Going DEF BriefInv, Brief!BriefIsSafe, Making, BriefSession
  <2> HIDE DEF next
  <2>2. session'[s] = next
    BY <2>1, GoesOn DEF BriefInv, Brief!BriefIsSafe
  <2>3. Is(s, "dispatch") /\ request = "none"
    BY <1>3 DEF BriefInv, Made, Making, Brief!At
  <2>4. Made(s)' /\ Settled(s)'
    BY <1>1, <2>1, <2>2, <2>3 DEF Made, Settled, Making, Settling, Is, Brief!At, Elsewhere
  <2> QED BY <1>1, <2>1, <2>4, LooksOn DEF Is
<1> QED BY <1>2, <1>3 DEF Brief!Fault

LEMMA TouchKeeps == BriefInv /\ Brief!Touch => BriefInv'
<1> SUFFICES ASSUME BriefInv, Brief!Touch PROVE BriefInv'
  OBVIOUS
<1>1. /\ UNCHANGED <<retained, inventory, request, unknown, session>>
      /\ touches' \in Nat /\ touches' # 0 /\ directory \in {"source", "retained"}
  BY DEF Brief!Touch, Brief!ledger, BriefInv
<1>2. /\ directory' \in {directory, "removed"} /\ directory' # "none"
      /\ stray' \in BOOLEAN /\ files' \in [Artifacts -> Brief!Bytes]
      /\ directory' # "removed" =>
           directory' = directory /\ \A a \in Artifacts : files'[a] \in {files[a], "foreign"}
  BY <1>1, DiskIsTyped DEF Brief!Touch, BriefDisk, Brief!Bytes
<1>3. BriefDisk' /\ session' \in [Sessions -> BriefSession]
  BY <1>1, <1>2, DiskIsTyped DEF BriefDisk
<1>4. Brief!BriefIsSafe'
  <2>1. Brief!TypeOK'
    BY <1>3, BriefSessions DEF BriefDisk, Brief!TypeOK
  <2>2. Brief!RetainedIsWiped' /\ Brief!OpenKeepsItsBrief'
    BY <1>1, <1>2 DEF BriefInv, Brief!BriefIsSafe, Brief!RetainedIsWiped, Brief!OpenKeepsItsBrief
  <2> QED BY <2>1, <2>2 DEF Brief!BriefIsSafe
<1>5. ASSUME NEW s \in Sessions PROVE Made(s)' /\ Settled(s)'
  <2>1. Made(s) /\ Settled(s)
    BY DEF BriefInv
  <2>2. directory' # "removed" => \A a \in Artifacts : Overwritten(s, a) => Overwritten(s, a)'
    BY <1>1, <1>2 DEF Overwritten, Emptied, Brief!At
  <2>3. Made(s)'
    BY <1>1, <2>1 DEF Made, Is, Brief!At
  <2>4. Settled(s)'
    BY <1>1, <1>2, <2>1, <2>2 DEF Settled, Is, Brief!At
  <2> QED BY <2>3, <2>4
<1>6. OneDispatch' /\ BeforeDispatch'
  BY <1>1, <1>2 DEF BriefInv, OneDispatch, BeforeDispatch, Is, Brief!At
<1> QED BY <1>1, <1>4, <1>5, <1>6 DEF BriefInv

LEMMA BriefStepInv == BriefInv /\ [Brief!Next]_closing => BriefInv'
<1> SUFFICES ASSUME BriefInv, [Brief!Next]_closing PROVE BriefInv'
  OBVIOUS
<1>1. CASE UNCHANGED closing
  BY <1>1 DEF closing, BriefInv, Brief!BriefIsSafe, Brief!TypeOK, Brief!RetainedIsWiped,
              Brief!OpenKeepsItsBrief, OneDispatch, BeforeDispatch, Made, MadeSoFar, Settled,
              Overwritten, Is, Brief!At
<1>2. CASE Brief!Touch
  BY <1>2, TouchKeeps
<1>3. ASSUME NEW s \in Sessions, Brief!CreateDirectory(s) \/ Brief!Begin(s, "answer") \/ Brief!Begin(s, "cleanup")
      PROVE  BriefInv'
  BY <1>3, CreateDirectoryKeeps, BeginKeeps
<1>4. ASSUME NEW s \in Sessions, Brief!Fault(s) PROVE BriefInv'
  BY <1>4, BriefFaultKeeps
<1>5. ASSUME NEW s \in Sessions, Brief!Step(s) PROVE BriefInv'
  BY <1>5, CreateFileKeeps, BindDirectoryKeeps, UndoCreationKeeps, RecordRequestKeeps,
     PrepareKeeps, TerminalKeeps, ZeroKeeps, CheckEntriesKeeps, MakeQuarantineKeeps, StageKeeps,
     BriefPublishKeeps, CheckNamesKeeps, MoveKeeps, BriefVerifyKeeps DEF Brief!Step
<1> QED BY <1>1, <1>2, <1>3, <1>4, <1>5 DEF Brief!Next

(* No command writes to a file that somebody put in the place of one.    *)
LEMMA WritesItsOwn == BriefInv /\ [Brief!Next]_closing => Brief!OthersAreSpared
<1> SUFFICES ASSUME BriefInv, [Brief!Next]_closing, touches' = touches,
                    NEW a \in Artifacts, files[a] = "foreign"
             PROVE  files'[a] = "foreign"
  BY DEF Brief!OthersAreSpared
<1>1. ~Brief!Touch
  BY DEF Brief!Touch, BriefInv
<1>2. CASE UNCHANGED files
  BY <1>2
<1>3. ASSUME NEW s \in Sessions, Brief!CreateFile(s) PROVE files'[a] = "foreign"
  <2>1. PICK b \in session[s].todo :
          UNCHANGED files \/ (files[b] = "absent" /\ files' = [files EXCEPT ![b] = "text"])
    BY <1>3 DEF Brief!CreateFile
  <2> QED BY <2>1, DiskIsTyped DEF BriefDisk
<1>4. ASSUME NEW s \in Sessions, Brief!UndoCreation(s) PROVE files'[a] = "foreign"
  BY <1>4 DEF Brief!UndoCreation
<1>5. ASSUME NEW s \in Sessions, Brief!Zero(s) PROVE files'[a] = "foreign"
  <2>1. UNCHANGED files \/ \E b \in session[s].todo, v \in {"zeroes", "empty"} :
          files[b] # "foreign" /\ files' = [files EXCEPT ![b] = v]
    BY <1>5 DEF Brief!Zero
  <2> QED BY <2>1, DiskIsTyped DEF BriefDisk
<1> QED BY <1>1, <1>2, <1>3, <1>4, <1>5
    DEF closing, Brief!Next, Brief!Step, Brief!CreateDirectory, Brief!Begin, Brief!Fault, Brief!BindDirectory,
        Brief!RecordRequest, Brief!Prepare, Brief!Terminal, Brief!CheckEntries, Brief!MakeQuarantine,
        Brief!Stage, Brief!Publish, Brief!CheckNames, Brief!Move, Brief!Verify, Brief!disk

-----------------------------------------------------------------------------
(* THE GATE (StopHook).                                                  *)
(* A host has no hooks but the project's and the plugin's.               *)
OnlyOurHooks == \A s \in Setups : s.installed \subseteq Gate!Hooks

-----------------------------------------------------------------------------
(* Hooks answer while the agent stops, and only those there are.         *)
HooksAtWork ==
  /\ Gate!Installed \subseteq Gate!Hooks
  /\ \A h \in Gate!Hooks : hook[h] # "done" => turn = "stop" /\ h \in Gate!Installed

(* Whatever lets a hook pass was set by a refusal, of which the agent was*)
(* told since it was last prompted: the host's flag, and under Pi that of*)
(* an extension, which is left only by one that refused this very stop.  *)
FlagsAreEarned ==
  /\ active \/ skip # {} \/ blocked # {} => prompt.told
  /\ turn = "idle" => skip = {} /\ blocked = {} /\ ~active
  /\ turn = "stop" => \A h \in skip : hook[h] # "asked" => h \in blocked

(* Undisturbed and not told, a hook that has answered found nothing.     *)
Untold == prompt.calm /\ ~prompt.told

NothingMissed ==
  /\ turn = "stop" /\ Untold => \A h \in Gate!Installed : hook[h] = "done" => ~Gate!Refuses(h)
  /\ turn = "idle" /\ prompts > 0 /\ Untold => \A h \in Gate!Installed : ~Gate!Refuses(h)

ToldOfItsOwn ==
  prompt.told /\ Gate!Installed = {"plugin"} /\ place.marker = "inner" => "inner" \in place.adopted

Shapes ==
  /\ Gate!TypeOK
  /\ prompt \in [told : BOOLEAN, calm : BOOLEAN] /\ prompts \in Nat

GateInv == Shapes /\ HooksAtWork /\ FlagsAreEarned /\ NothingMissed /\ ToldOfItsOwn

-----------------------------------------------------------------------------
LEMMA GateInitInv == ASSUME OnlyOurHooks PROVE Gate!Init => GateInv
<1> SUFFICES ASSUME Gate!Init PROVE GateInv
  OBVIOUS
<1>1. Shapes
  BY DEF Gate!Init, Shapes, Gate!TypeOK
<1>2. HooksAtWork /\ FlagsAreEarned /\ NothingMissed /\ ToldOfItsOwn
  BY DEF OnlyOurHooks, Gate!Init, HooksAtWork, FlagsAreEarned, NothingMissed, ToldOfItsOwn, Gate!Installed
<1> QED BY <1>1, <1>2 DEF GateInv

(* The plugin refuses a stop only where its own checkout has adopted STDD. *)
LEMMA PluginRefusesAtHome ==
  Gate!Refuses("plugin") /\ place.marker = "inner" => "inner" \in place.adopted
BY DEF Gate!Refuses, Gate!RootOf, Gate!AdoptingRoot, Gate!Levels

LEMMA PromptKeeps == GateInv /\ Gate!Prompt => GateInv'
<1> SUFFICES ASSUME GateInv, Gate!Prompt PROVE GateInv'
  OBVIOUS
<1>1. Shapes' /\ HooksAtWork'
  <2>1. prompt' = [told |-> FALSE, calm |-> TRUE] /\ prompts' \in Nat
    BY DEF GateInv, Shapes, Gate!Prompt
  <2>2. UNCHANGED <<setup, hook, skip, blocked>> /\ turn = "idle" /\ turn' = "work" /\ active' = FALSE
    BY DEF Gate!Prompt
  <2>3. Shapes'
    BY <2>1, <2>2 DEF GateInv, Shapes, Gate!TypeOK, Gate!Installed
  <2>4. HooksAtWork'
    BY <2>2 DEF GateInv, HooksAtWork, Gate!Installed
  <2> QED BY <2>3, <2>4
<1>2. FlagsAreEarned' /\ NothingMissed' /\ ToldOfItsOwn'
  BY DEF GateInv, FlagsAreEarned, NothingMissed, ToldOfItsOwn, Gate!Installed, Gate!Prompt
<1> QED BY <1>1, <1>2 DEF GateInv

LEMMA ChangeKeeps == GateInv /\ Gate!Change => GateInv'
<1> SUFFICES ASSUME GateInv, Gate!Change PROVE GateInv'
  OBVIOUS
<1>1. prompt'.told = prompt.told /\ ~prompt'.calm /\ prompt' \in [told : BOOLEAN, calm : BOOLEAN]
  BY DEF GateInv, Shapes, Gate!Change
<1>2. Shapes' /\ HooksAtWork'
  BY <1>1 DEF GateInv, Shapes, Gate!TypeOK, HooksAtWork, Gate!Installed, Gate!Change
<1>3. FlagsAreEarned' /\ NothingMissed' /\ ToldOfItsOwn'
  BY <1>1 DEF GateInv, FlagsAreEarned, NothingMissed, Untold, ToldOfItsOwn, Gate!Installed, Gate!Change
<1> QED BY <1>2, <1>3 DEF GateInv

LEMMA GateSettleKeeps == GateInv /\ Gate!Settle => GateInv'
<1> SUFFICES ASSUME GateInv, Gate!Settle PROVE GateInv'
  OBVIOUS
<1>1. \A h \in Gate!Hooks : hook'[h] = IF h \in Gate!Installed THEN "asked" ELSE "done"
  BY DEF Gate!Settle
<1>2. Shapes' /\ HooksAtWork'
  BY <1>1 DEF GateInv, Shapes, Gate!TypeOK, HooksAtWork, Gate!Installed, Gate!Settle
<1>3. FlagsAreEarned' /\ NothingMissed' /\ ToldOfItsOwn'
  BY <1>1 DEF GateInv, Shapes, Gate!TypeOK, HooksAtWork, FlagsAreEarned, NothingMissed, Untold,
              ToldOfItsOwn, Gate!Installed, Gate!Settle
<1> QED BY <1>2, <1>3 DEF GateInv

LEMMA AskKeeps == ASSUME GateInv, NEW h \in Gate!Hooks, Gate!Ask(h) PROVE GateInv'
<1>1. /\ hook'[h] = (IF active \/ h \in skip THEN "done" ELSE "judging")
      /\ \A k \in Gate!Hooks \ {h} : hook'[k] = hook[k]
      /\ hook' \in [Gate!Hooks -> {"asked", "judging", "done"}]
  BY DEF GateInv, Shapes, Gate!TypeOK, Gate!Ask
<1>2. Shapes' /\ HooksAtWork'
  BY <1>1 DEF GateInv, Shapes, Gate!TypeOK, HooksAtWork, Gate!Installed, Gate!Ask
<1>3. FlagsAreEarned' /\ ToldOfItsOwn'
  BY <1>1 DEF GateInv, Shapes, Gate!TypeOK, HooksAtWork, FlagsAreEarned, ToldOfItsOwn, Gate!Installed, Gate!Ask
<1>4. hook'[h] = "done" => prompt.told
  BY <1>1 DEF GateInv, FlagsAreEarned
<1>5. \A k : Gate!Refuses(k)' <=> Gate!Refuses(k)
  BY DEF Gate!Ask, Gate!Refuses, Gate!RootOf, Gate!AdoptingRoot, Gate!RepoDir
<1>6. NothingMissed'
  BY <1>1, <1>4, <1>5 DEF GateInv, HooksAtWork, NothingMissed, Untold, Gate!Installed, Gate!Ask
<1> QED BY <1>2, <1>3, <1>6 DEF GateInv

LEMMA JudgeKeeps == ASSUME GateInv, NEW h \in Gate!Hooks, Gate!Judge(h) PROVE GateInv'
<1>1. /\ hook'[h] = "done" /\ \A k \in Gate!Hooks \ {h} : hook'[k] = hook[k]
      /\ hook' \in [Gate!Hooks -> {"asked", "judging", "done"}]
      /\ h \in Gate!Installed /\ turn = "stop"
  BY DEF GateInv, Shapes, Gate!TypeOK, HooksAtWork, Gate!Judge
<1>2. \A k : Gate!Refuses(k)' <=> Gate!Refuses(k)
  BY DEF Gate!Judge, Gate!Refuses, Gate!RootOf, Gate!AdoptingRoot, Gate!RepoDir
<1>3. CASE Gate!Refuses(h)
  <2>1. /\ blocked' = blocked \union {h} /\ skip' \in {skip, skip \union {h}}
        /\ prompt' = [prompt EXCEPT !.told = TRUE]
    BY <1>3 DEF Gate!Judge
  <2>2. prompt'.told /\ prompt' \in [told : BOOLEAN, calm : BOOLEAN]
    BY <2>1 DEF GateInv, Shapes
  <2>3. Shapes' /\ HooksAtWork'
    BY <1>1, <2>1, <2>2 DEF GateInv, Shapes, Gate!TypeOK, HooksAtWork, Gate!Installed, Gate!Judge
  <2>4. FlagsAreEarned' /\ NothingMissed'
    BY <1>1, <2>1, <2>2 DEF GateInv, FlagsAreEarned, NothingMissed, Untold, Gate!Judge
  <2>5. ToldOfItsOwn'
    BY <1>1, <1>3, <2>2, PluginRefusesAtHome DEF ToldOfItsOwn, Gate!Installed, Gate!Judge
  <2> QED BY <2>3, <2>4, <2>5 DEF GateInv
<1>4. CASE ~Gate!Refuses(h)
  <2>1. UNCHANGED <<blocked, skip, prompt, setup, place, broken, turn, active, prompts>>
    BY <1>4 DEF Gate!Judge
  <2>2. Shapes' /\ HooksAtWork'
    BY <1>1, <2>1 DEF GateInv, Shapes, Gate!TypeOK, HooksAtWork, Gate!Installed
  <2>3. FlagsAreEarned' /\ ToldOfItsOwn'
    <3>1. \A k \in skip : hook'[k] # "asked" => k \in blocked
      BY <1>1 DEF GateInv, Shapes, Gate!TypeOK, HooksAtWork, FlagsAreEarned, Gate!Judge
    <3> QED BY <1>1, <2>1, <3>1 DEF GateInv, FlagsAreEarned, ToldOfItsOwn, Gate!Installed
  <2>4. NothingMissed'
    BY <1>1, <1>2, <1>4, <2>1 DEF GateInv, HooksAtWork, NothingMissed, Untold, Gate!Installed
  <2> QED BY <2>2, <2>3, <2>4 DEF GateInv
<1> QED BY <1>3, <1>4

LEMMA FailOpenKeeps == ASSUME GateInv, NEW h \in Gate!Hooks, Gate!FailOpen(h) PROVE GateInv'
<1>1. /\ hook'[h] = "done" /\ hook[h] = "judging" /\ turn = "stop"
      /\ \A k \in Gate!Hooks \ {h} : hook'[k] = hook[k]
      /\ hook' \in [Gate!Hooks -> {"asked", "judging", "done"}]
      /\ prompt'.told = prompt.told /\ ~prompt'.calm /\ prompt' \in [told : BOOLEAN, calm : BOOLEAN]
      /\ UNCHANGED <<setup, place, broken, turn, active, skip, blocked, prompts>>
  BY DEF GateInv, Shapes, Gate!TypeOK, HooksAtWork, Gate!FailOpen
<1>2. Shapes' /\ HooksAtWork'
  BY <1>1 DEF GateInv, Shapes, Gate!TypeOK, HooksAtWork, Gate!Installed
<1>3. FlagsAreEarned'
  BY <1>1 DEF GateInv, Shapes, Gate!TypeOK, HooksAtWork, FlagsAreEarned
<1>4. NothingMissed' /\ ToldOfItsOwn'
  BY <1>1 DEF GateInv, NothingMissed, Untold, ToldOfItsOwn, Gate!Installed
<1> QED BY <1>2, <1>3, <1>4 DEF GateInv

LEMMA ProceedKeeps == GateInv /\ Gate!Proceed => GateInv'
<1> SUFFICES ASSUME GateInv, Gate!Proceed PROVE GateInv'
  OBVIOUS
<1>1. /\ turn = "stop" /\ \A h \in Gate!Hooks : hook[h] = "done"
      /\ turn' = (IF blocked = {} THEN "idle" ELSE "work")
      /\ active' \in BOOLEAN /\ (active' => blocked # {})
      /\ UNCHANGED <<setup, place, broken, skip, hook, blocked, prompt, prompts>>
  BY DEF Gate!Proceed
<1>2. Shapes' /\ HooksAtWork'
  BY <1>1 DEF GateInv, Shapes, Gate!TypeOK, HooksAtWork, Gate!Installed
<1>3. skip \subseteq blocked
  BY <1>1 DEF GateInv, Shapes, Gate!TypeOK, HooksAtWork, FlagsAreEarned
<1>4. FlagsAreEarned' /\ ToldOfItsOwn'
  BY <1>1, <1>3 DEF GateInv, FlagsAreEarned, ToldOfItsOwn, Gate!Installed
<1>5. \A k : Gate!Refuses(k)' <=> Gate!Refuses(k)
  BY <1>1 DEF Gate!Refuses, Gate!RootOf, Gate!AdoptingRoot, Gate!RepoDir
<1>6. NothingMissed'
  BY <1>1, <1>5 DEF GateInv, HooksAtWork, NothingMissed, Untold, Gate!Installed
<1> QED BY <1>2, <1>4, <1>6 DEF GateInv

LEMMA GateStepInv == GateInv /\ [Gate!Next]_stopping => GateInv'
<1> SUFFICES ASSUME GateInv, [Gate!Next]_stopping PROVE GateInv'
  OBVIOUS
<1>1. CASE Gate!Prompt
  BY <1>1, PromptKeeps
<1>2. CASE Gate!Change
  BY <1>2, ChangeKeeps
<1>3. CASE Gate!Settle
  BY <1>3, GateSettleKeeps
<1>4. CASE Gate!Proceed
  BY <1>4, ProceedKeeps
<1>5. ASSUME NEW h \in Gate!Hooks, Gate!Ask(h) \/ Gate!Judge(h) \/ Gate!FailOpen(h) PROVE GateInv'
  BY <1>5, AskKeeps, JudgeKeeps, FailOpenKeeps
<1>6. CASE UNCHANGED stopping
  BY <1>6 DEF stopping, GateInv, Shapes, Gate!TypeOK, HooksAtWork, FlagsAreEarned, NothingMissed, Untold,
              ToldOfItsOwn, Gate!Installed, Gate!Refuses, Gate!RootOf, Gate!AdoptingRoot, Gate!RepoDir
<1> QED BY <1>1, <1>2, <1>3, <1>4, <1>5, <1>6 DEF Gate!Next, Gate!Run

(* GateIsHonest: on every host with any of the two hooks, undisturbed, a *)
(* turn that ends on a broken claim has told the agent of it since the   *)
(* last prompt, and the plugin alone stops nobody for another checkout's *)
(* claims.                                                               *)
THEOREM GateStaysHonest == ASSUME OnlyOurHooks PROVE Gate!Spec => []Gate!GateIsHonest
<1>1. Gate!Init => GateInv
  BY GateInitInv
<1>2. GateInv /\ [Gate!Next]_(Gate!vars) => GateInv'
  BY GateStepInv DEF Gate!vars, stopping
<1>3. GateInv => Gate!GateIsHonest
  BY DEF GateInv, Shapes, NothingMissed, Untold, ToldOfItsOwn, Gate!GateIsHonest
<1> QED BY <1>1, <1>2, <1>3, PTL DEF Gate!Spec

-----------------------------------------------------------------------------
(* THE PARTS TOGETHER.                                                   *)
LEMMA PartsAreApart ==
  [AllNext]_<<part, vars, closing, stopping>> =>
    /\ [Next]_vars /\ [Brief!Next]_closing
    /\ part' = part /\ (part = "stop" => [Gate!Next]_stopping)
BY DEF AllNext, closing, stopping, vars

(* BriefStorage alone: BriefIsSafe, for any sessions, files, faults and  *)
(* changes by others.                                                    *)
THEOREM BriefIsAlwaysSafe == Brief!Spec => []Brief!BriefIsSafe
<1>1. Brief!Init => BriefInv
  BY BriefInitInv
<1>2. BriefInv /\ [Brief!Next]_(Brief!vars) => BriefInv'
  <2>1. UNCHANGED Brief!vars => UNCHANGED closing
    BY DEF Brief!vars, Brief!disk, Brief!ledger, Brief!budget, closing
  <2> QED BY <2>1, BriefStepInv
<1>3. BriefInv => Brief!BriefIsSafe
  BY DEF BriefInv
<1> QED BY <1>1, <1>2, <1>3, PTL DEF Brief!Spec

(* BriefIsKept: the brief is there while its request is open, whatever   *)
(* fails and whoever cleans up, unless an append that was reported as    *)
(* failed recorded the request; what is retained holds no byte of it and *)
(* is described by its inventory; no foreign file is written to.         *)
THEOREM BriefStaysKept == AllSpec => BriefIsKept
<1>1. AllInit => BriefInv
  BY BriefInitInv DEF AllInit
<1>2. BriefInv /\ [AllNext]_<<part, vars, closing, stopping>> =>
        BriefInv' /\ [Brief!BriefIsSafe' /\ Brief!OthersAreSpared]_closing
  <2>1. BriefInv' => Brief!BriefIsSafe'
    BY DEF BriefInv
  <2> QED BY <2>1, PartsAreApart, BriefStepInv, WritesItsOwn
<1> QED BY <1>1, <1>2, PTL DEF AllSpec, BriefIsKept

(* CollectionIsSound, beside the other parts.                            *)
THEOREM CollectionStaysSoundHere == AllSpec => []CollectionIsSound
<1>1. AllInit => IInv
  BY InitInv DEF AllInit
<1>2. IInv /\ [AllNext]_<<part, vars, closing, stopping>> => IInv'
  BY PartsAreApart, StepInv
<1>3. IInv => CollectionIsSound
  BY SoundWhenKept
<1> QED BY <1>1, <1>2, <1>3, PTL DEF AllSpec

(* CheckoutIsSpared, beside the other parts.                             *)
THEOREM CheckoutStaysSparedHere == AllSpec => CheckoutIsSpared
<1>1. AllInit => IInv
  BY InitInv DEF AllInit
<1>2. IInv /\ [AllNext]_<<part, vars, closing, stopping>> =>
        IInv' /\ [NothingOverwritten /\ ScopeHolds]_vars
  BY PartsAreApart, StepInv, Sparing
<1> QED BY <1>1, <1>2, PTL DEF AllSpec, CheckoutIsSpared

(* GateIsHonest, beside the other parts: no turn ends undisturbed on a   *)
(* broken claim of which the agent was not told.                         *)
THEOREM GateStaysHonestHere == ASSUME OnlyOurHooks PROVE AllSpec => []GateIsHonest
<1> DEFINE Told == part = "stop" => GateInv
<1>1. AllInit => Told
  BY GateInitInv DEF AllInit
<1>2. Told /\ [AllNext]_<<part, vars, closing, stopping>> => Told'
  BY PartsAreApart, GateStepInv
<1>3. Told => GateIsHonest
  <2>1. GateInv => Gate!GateIsHonest
    BY DEF GateInv, Shapes, NothingMissed, Untold, ToldOfItsOwn, Gate!GateIsHonest
  <2> QED BY <2>1 DEF GateIsHonest
<1> QED BY <1>1, <1>2, <1>3, PTL DEF AllSpec
=============================================================================
