------------------------------- MODULE Worker -------------------------------
(***************************************************************************)
(* A gitless worker: worker create copies a checkout into a sandbox and    *)
(* binds the copy in the ledger; worker collect brings the changed paths   *)
(* and the new evidence back (cli/worker.mjs, cli/worker-fs.mjs).  Collect *)
(* is no transaction: it moves a replaced file into a private quarantine   *)
(* behind an inventory, publishes the new one through a temporary whose    *)
(* name is always the same, and goes on to the next path.  What makes it   *)
(* safe is that it may be run again: a killed collect is resumed by the    *)
(* next one from what the checkout and the quarantine hold.                *)
(*                                                                         *)
(* One create or collect runs at a time.  Its native calls may fail and it *)
(* may be killed between any two of them, while the user edits the         *)
(* checkout or leaves the branch and the worker goes on in its sandbox.    *)
(***************************************************************************)
EXTENDS Naturals, FiniteSets

CONSTANTS
  Paths, Baseline,  \* the paths, and those the checkout begins with
  Frozen,           \* paths outside the worker's scope
  Events,           \* evidence the worker may record
  None,
  MaxUser, MaxWorker, MaxFaults, MaxCrashes  \* bounds on what interferes

ASSUME WorkerAssumption ==
  /\ Baseline \subseteq Paths /\ Frozen \subseteq Paths
  /\ MaxUser \in Nat /\ MaxWorker \in Nat /\ MaxFaults \in Nat /\ MaxCrashes \in Nat

VARIABLES
  src,       \* src[p]: the checkout's file, inode and bytes
  sandbox,   \* sandbox[p]: the bytes the sandbox holds
  base,      \* base[p]: the file as it was copied (.stdd/worker.json)
  stage,     \* how far create got
  bound,     \* the checkout is on the bound branch, head and task
  box,       \* box[p]: p's quarantine, its inventory and its payload
  temp,      \* temp[p]: p's collection temporary, and if a quarantine awaits it
  log, imported,   \* evidence in the sandbox; times[e]: copies in the ledger
  pc, path, plan, left, pending,   \* the running command
  user, worker, faults, crashes

vars == <<src, sandbox, base, stage, bound, box, temp, log, imported,
          pc, path, plan, left, pending, user, worker, faults, crashes>>
tree == <<src, box, temp>>
copy == <<sandbox, base, stage, log>>
memory == <<path, plan, left, pending>>
budget == <<user, worker, faults, crashes>>

Bytes == {"base", "one", "two", "user"}
File == [inode : {"original", "user", "collected"}, bytes : Bytes]
Box == [torn : BOOLEAN, inventory : File \union {None}, payload : File \union {None}]
Change == [after : Bytes \union {None}, source : File \union {None}, prepared : BOOLEAN]
Nothing == [after |-> None, source |-> None, prepared |-> FALSE]

(* "None" is no path, no file and no content.                              *)
ASSUME NothingAssumption ==
  /\ None \notin Paths /\ None \notin File /\ None \notin Bytes
  /\ None \notin {"original", "user", "collected"}

TypeOK ==
  /\ src \in [Paths -> File \union {None}]
  /\ sandbox \in [Paths -> Bytes \union {None}]
  /\ base \in [Paths -> File \union {None}]
  /\ stage \in {"none", "partial", "written", "bound"}
  /\ box \in [Paths -> Box]
  /\ temp \in [Paths -> {"none", "made", "torn", "described"}]
  /\ log \subseteq Events /\ imported \in [Events -> Nat] /\ pending \subseteq Events
  /\ plan \in [Paths -> Change] /\ left \subseteq Paths
  /\ pc \in {"idle", "copy", "preflight", "apply", "inventory", "describe", "move", "rename",
             "stage", "write", "publish", "settle", "label", "retire", "append", "report"}

Init ==
  /\ src = [p \in Paths |-> IF p \in Baseline THEN [inode |-> "original", bytes |-> "base"]
                            ELSE None]
  /\ sandbox = [p \in Paths |-> None]
  /\ base = [p \in Paths |-> None]
  /\ stage = "none" /\ bound = TRUE
  /\ box = [p \in Paths |-> [torn |-> FALSE, inventory |-> None, payload |-> None]]
  /\ temp = [p \in Paths |-> "none"] /\ log = {} /\ imported = [e \in Events |-> 0]
  /\ pc = "idle" /\ path = None /\ left = {} /\ pending = {}
  /\ plan = [p \in Paths |-> Nothing]
  /\ user = 0 /\ worker = 0 /\ faults = 0 /\ crashes = 0

BytesOf(file) == IF file = None THEN None ELSE file.bytes
InodeOf(file) == IF file = None THEN None ELSE file.inode

Goto(label) == pc' = label /\ UNCHANGED memory

(* The command ends, with its answer or an error.                          *)
End ==
  /\ pc' = "idle" /\ path' = None /\ left' = {} /\ pending' = {}
  /\ plan' = [p \in Paths |-> Nothing]

(* The next path.                                                          *)
Applied == pc' = "apply" /\ path' = None /\ left' = left \ {path} /\ UNCHANGED <<plan, pending>>

-----------------------------------------------------------------------------
(* What git tracks or would track.                                         *)
workerVisiblePaths == {p \in Paths : src[p] # None}

(* worker create: every source file is read before the destination exists. *)
Create ==
  /\ pc = "idle" /\ stage = "none" /\ bound
  /\ base' = src
  /\ stage' = "partial"
  /\ pc' = "copy" /\ left' = workerVisiblePaths
  /\ UNCHANGED <<tree, sandbox, bound, log, imported, path, plan, pending, budget>>

CopyPath ==
  /\ pc = "copy"
  /\ \E p \in left :
       /\ sandbox' = [sandbox EXCEPT ![p] = base[p].bytes]
       /\ left' = left \ {p}
  /\ UNCHANGED <<tree, base, stage, bound, log, imported, pc, path, plan, pending, budget>>

(* The metadata and the sandbox's own ledger come last ...                 *)
WriteMetadata ==
  /\ pc = "copy" /\ left = {} /\ stage = "partial"
  /\ stage' = "written"
  /\ Goto("copy")
  /\ UNCHANGED <<tree, sandbox, base, bound, log, imported, budget>>

(* ... and only then is the worker bound, if the checkout stayed.          *)
BindWorker ==
  /\ pc = "copy" /\ stage = "written"
  /\ stage' = IF bound THEN "bound" ELSE stage
  /\ End
  /\ UNCHANGED <<tree, sandbox, base, bound, log, imported, budget>>

-----------------------------------------------------------------------------
(* What the quarantine of p proves: a payload that is the inventory's.     *)
Retained(p) == IF box[p].inventory = None THEN None ELSE box[p].payload

Corrupt(p) == Retained(p) # None /\ Retained(p) # box[p].inventory

(* An inventory.json was created, and its bytes were not all written.      *)
HalfWritten == {p \in Paths : box[p].torn \/ temp[p] = "torn"}

(* What doctor lists: payloads that are what the inventory beside them     *)
(* says; anything else is not yet, or no longer, proven to be retained.  At*)
(* an inventory that cannot be read it gives up the whole list.            *)
workerQuarantineInventory ==
  {p \in Paths : HalfWritten = {} /\ Retained(p) # None /\ ~Corrupt(p)}

Touched == {p \in Paths : BytesOf(base[p]) # sandbox[p]}

(* A slip: the scope is not looked at.                                     *)
InScopeAlways == TRUE

InScope == Touched \intersect Frozen = {}

Pending == {e \in log : imported[e] = 0}

PlanFor(p) ==
  [after |-> sandbox[p], source |-> src[p],
   prepared |-> base[p] # None /\ src[p] = None /\ BytesOf(Retained(p)) = base[p].bytes]

(* The source is what was copied, is already what the worker made, or was  *)
(* moved aside by an earlier collect.                                      *)
Expected(p) ==
  /\ ~Corrupt(p)
  /\ \/ /\ BytesOf(src[p]) = BytesOf(base[p])
        /\ InodeOf(src[p]) = InodeOf(base[p])
     \/ BytesOf(src[p]) = sandbox[p] /\ BytesOf(src[p]) # BytesOf(base[p])
     \/ PlanFor(p).prepared

Collectable(p) == Expected(p) /\ ~box[p].torn

(* worker collect: the bound checkout, the sandbox as it stands, its scope.*)
Collect ==
  /\ pc = "idle" /\ stage = "bound"
  /\ IF bound /\ InScope
     THEN /\ pc' = "preflight"
          /\ left' = Touched
          /\ plan' = [p \in Paths |-> [Nothing EXCEPT !.after = sandbox[p]]]
          /\ UNCHANGED <<path, pending>>
     ELSE End
  /\ UNCHANGED <<tree, copy, bound, imported, budget>>

(* Every path is examined before the first is changed.                     *)
Preflight ==
  /\ pc = "preflight"
  /\ IF \A p \in left : Collectable(p) /\ sandbox[p] = plan[p].after
     THEN /\ pc' = "apply"
          /\ plan' = [p \in Paths |-> PlanFor(p)]
          /\ pending' = Pending
          /\ UNCHANGED <<path, left>>
     ELSE End
  /\ UNCHANGED <<tree, copy, bound, imported, budget>>

(* One path: nothing about it may have changed since.                      *)
Verify ==
  /\ pc = "apply"
  /\ \E p \in left :
       LET change == plan[p] IN
       IF ~bound \/ sandbox[p] # change.after \/ src[p] # change.source THEN End
       ELSE IF BytesOf(src[p]) = change.after
       THEN left' = left \ {p} /\ UNCHANGED <<pc, path, plan, pending>>
       ELSE /\ path' = p
            /\ pc' = IF src[p] = None THEN "stage" ELSE "inventory"
            /\ UNCHANGED <<plan, left, pending>>
  /\ UNCHANGED <<tree, copy, bound, imported, budget>>

Unmoved == bound /\ src[path] = plan[path].source

(* An inventory left by an earlier collect must be this one ...            *)
OpenInventory ==
  /\ pc = "inventory"
  /\ LET found == box[path].inventory IN
     IF ~Unmoved \/ box[path].torn \/ found \notin {None, src[path]} THEN End /\ UNCHANGED box
     ELSE IF found = None THEN box' = [box EXCEPT ![path].torn = TRUE] /\ Goto("describe")
     ELSE Goto("move") /\ UNCHANGED box
  /\ UNCHANGED <<src, temp, copy, bound, imported, budget>>

(* A slip: the move does not wait for the inventory.                       *)
WriteLater ==
  /\ pc = "describe"
  /\ Goto("move")
  /\ UNCHANGED <<tree, copy, bound, imported, budget>>

Described == box' = [box EXCEPT ![path].torn = FALSE, ![path].inventory = plan[path].source]

(* ... or the file just created is written, and is durable before the move *)
(* it describes.                                                           *)
WriteInventory ==
  /\ pc = "describe"
  /\ Described
  /\ Goto("move")
  /\ UNCHANGED <<src, temp, copy, bound, imported, budget>>

CheckMove ==
  /\ pc = "move"
  /\ IF Unmoved THEN Goto("rename") ELSE End
  /\ UNCHANGED <<tree, copy, bound, imported, budget>>

Moved ==
  /\ src' = [src EXCEPT ![path] = None]
  /\ box' = [box EXCEPT ![path].payload = src[path]]

Movable == InodeOf(src[path]) = InodeOf(plan[path].source) /\ box[path].payload = None

(* The rename itself compares the inode alone.                             *)
MoveAside ==
  /\ pc = "rename"
  /\ IF ~Movable THEN End /\ UNCHANGED <<src, box>>
     ELSE /\ Moved
          /\ IF plan[path].after = None THEN Applied ELSE Goto("stage")
  /\ UNCHANGED <<temp, copy, bound, imported, budget>>

Obstructed == ~bound \/ src[path] # None \/ temp[path] # "none"

(* A slip: a leftover temporary stays in the way.                          *)
StageOrFail ==
  /\ pc = "stage"
  /\ IF Obstructed THEN End /\ UNCHANGED temp
     ELSE temp' = [temp EXCEPT ![path] = "made"] /\ Goto("write")
  /\ UNCHANGED <<src, box, copy, bound, imported, budget>>

(* The temporary's name is the worker's and the path's: a leftover of a    *)
(* killed collect is in the way, and is quarantined for the next.          *)
StageFile ==
  /\ pc = "stage"
  /\ IF Obstructed THEN Goto("settle") /\ UNCHANGED temp
     ELSE temp' = [temp EXCEPT ![path] = "made"] /\ Goto("write")
  /\ UNCHANGED <<src, box, copy, bound, imported, budget>>

WriteFile ==
  /\ pc = "write"
  /\ Goto(IF bound /\ src[path] = None THEN "publish" ELSE "settle")
  /\ UNCHANGED <<tree, copy, bound, imported, budget>>

(* Symbolic links are published the same way, prepared under such a name.  *)
Published ==
  /\ src' = [src EXCEPT ![path] = [inode |-> "collected", bytes |-> plan[path].after]]
  /\ temp' = [temp EXCEPT ![path] = "none"]

(* A slip: the publication replaces what it finds.                         *)
PublishOver ==
  /\ pc = "publish"
  /\ Published /\ Applied
  /\ UNCHANGED <<box, copy, bound, imported, budget>>

(* The rename never replaces.                                              *)
Publish ==
  /\ pc = "publish"
  /\ IF src[path] = None THEN Published /\ Applied
     ELSE Goto("settle") /\ UNCHANGED <<src, temp>>
  /\ UNCHANGED <<box, copy, bound, imported, budget>>

(* After an error the temporary is zeroed and moved to a quarantine of its *)
(* own, named by its inode, in the way a replaced file is; the checkout    *)
(* must be the bound one still.                                            *)
Settle ==
  /\ pc = "settle"
  /\ IF ~bound \/ temp[path] \in {"none", "torn"} THEN End /\ UNCHANGED temp
     ELSE IF temp[path] = "made" THEN temp' = [temp EXCEPT ![path] = "torn"] /\ Goto("label")
     ELSE Goto("retire") /\ UNCHANGED temp
  /\ UNCHANGED <<src, box, copy, bound, imported, budget>>

LabelTemporary ==
  /\ pc = "label"
  /\ temp' = [temp EXCEPT ![path] = "described"]
  /\ Goto("retire")
  /\ UNCHANGED <<src, box, copy, bound, imported, budget>>

RetireTemporary ==
  /\ pc = "retire"
  /\ temp' = IF bound THEN [temp EXCEPT ![path] = "none"] ELSE temp
  /\ End
  /\ UNCHANGED <<src, box, copy, bound, imported, budget>>

-----------------------------------------------------------------------------
(* Both sides are what the plan says.                                      *)
FinalStates ==
  \A p \in Paths : BytesOf(base[p]) # plan[p].after =>
    sandbox[p] = plan[p].after /\ BytesOf(src[p]) = plan[p].after

Sweep ==
  /\ pc = "apply" /\ left = {}
  /\ IF bound /\ FinalStates THEN Goto(IF pending = {} THEN "report" ELSE "append") ELSE End
  /\ UNCHANGED <<tree, copy, bound, imported, budget>>

Import == imported' = [e \in Events |-> imported[e] + IF e \in pending THEN 1 ELSE 0]

(* Evidence enters the ledger when every file is in place.                 *)
AppendEvidence ==
  /\ pc = "append"
  /\ IF bound /\ FinalStates THEN Import /\ Goto("report") ELSE End /\ UNCHANGED imported
  /\ UNCHANGED <<tree, copy, bound, budget>>

Report ==
  /\ pc = "report"
  /\ End
  /\ UNCHANGED <<tree, copy, bound, imported, budget>>

-----------------------------------------------------------------------------
(* A native call fails, before its effect or after it; a failure while the *)
(* new file is staged leads to the temporary, if the helper still answers. *)
NativeFault ==
  /\ pc # "idle" /\ faults < MaxFaults
  /\ faults' = faults + 1
  /\ \/ End
     \/ pc \in {"stage", "write", "publish"} /\ Goto("settle")
  /\ \/ UNCHANGED <<src, box, temp, imported>>
     \/ /\ pc = "inventory" /\ Unmoved /\ box[path].inventory = None
        /\ box' = [box EXCEPT ![path].torn = TRUE] /\ UNCHANGED <<src, temp, imported>>
     \/ pc = "describe" /\ Described /\ UNCHANGED <<src, temp, imported>>
     \/ pc = "rename" /\ Movable /\ Moved /\ UNCHANGED <<temp, imported>>
     \/ /\ pc = "stage" /\ ~Obstructed
        /\ temp' = [temp EXCEPT ![path] = "made"] /\ UNCHANGED <<src, box, imported>>
     \/ /\ pc \in {"settle", "label"} /\ bound /\ temp[path] = (IF pc = "settle" THEN "made" ELSE "torn")
        /\ temp' = [temp EXCEPT ![path] = IF pc = "settle" THEN "torn" ELSE "described"]
        /\ UNCHANGED <<src, box, imported>>
     \/ pc = "publish" /\ src[path] = None /\ Published /\ UNCHANGED <<box, imported>>
     \/ pc = "append" /\ Import /\ UNCHANGED <<src, box, temp>>
  /\ UNCHANGED <<copy, bound, user, worker, crashes>>

Crash ==
  /\ pc # "idle" /\ crashes < MaxCrashes
  /\ crashes' = crashes + 1
  /\ End
  /\ UNCHANGED <<tree, copy, bound, imported, user, worker, faults>>

UserActs ==
  /\ user < MaxUser
  /\ user' = user + 1
  /\ \/ /\ \E p \in Paths :
             \/ src[p] # None /\ src' = [src EXCEPT ![p].bytes = "user"]
             \/ src' = [src EXCEPT ![p] = [inode |-> "user", bytes |-> "user"]]
             \/ src[p] # None /\ src' = [src EXCEPT ![p] = None]
        /\ UNCHANGED bound
     \/ bound' = ~bound /\ UNCHANGED src
  /\ UNCHANGED <<box, temp, copy, imported, pc, memory, worker, faults, crashes>>

WorkerActs ==
  /\ stage \in {"written", "bound"} /\ worker < MaxWorker
  /\ worker' = worker + 1
  /\ \/ \E p \in Paths, b \in {None, "one", "two"} :
          sandbox[p] # b /\ sandbox' = [sandbox EXCEPT ![p] = b] /\ UNCHANGED log
     \/ \E e \in Events \ log : log' = log \union {e} /\ UNCHANGED sandbox
  /\ UNCHANGED <<tree, base, stage, bound, imported, pc, memory, user, faults, crashes>>

Step ==
  \/ Create \/ CopyPath \/ WriteMetadata \/ BindWorker
  \/ Collect \/ Preflight \/ Verify \/ OpenInventory \/ WriteInventory
  \/ CheckMove \/ MoveAside \/ StageFile \/ WriteFile \/ Publish
  \/ Settle \/ LabelTemporary \/ RetireTemporary \/ Sweep \/ AppendEvidence \/ Report

Next == Step \/ NativeFault \/ Crash \/ UserActs \/ WorkerActs

(* The running command goes on, and collect is run again until it is done. *)
Spec == Init /\ [][Next]_vars /\ WF_vars(Step)

-----------------------------------------------------------------------------
(* Collect never destroys what the checkout held: a file that leaves its   *)
(* path, by collect's hand, is the payload of its quarantine.              *)
NothingOverwritten ==
  \A p \in Paths : src[p] # None /\ src'[p] # src[p] =>
    user' # user \/ box'[p].payload = src[p]

(* Whatever is killed and retried, one event of the worker is one record   *)
(* of the ledger, and it is there only if a collect found every change it  *)
(* had planned in place.                                                   *)
EvidenceOnce == \A e \in Events : imported[e] <= 1

(* A worker's change outside its scope never reaches the checkout, not     *)
(* even one made after the scope was checked.                              *)
ScopeHolds == \A p \in Frozen : src'[p] # src[p] => user' # user

(* Of what the checkout holds, collect takes away or changes nothing that  *)
(* is not set aside or out of the worker's scope.                          *)
CheckoutIsSpared == [][NothingOverwritten /\ ScopeHolds]_vars

(* A payload in quarantine is described by the inventory beside it, from   *)
(* which the next collect resumes: unless the user wrote into that very    *)
(* inode between the last look and the move.  Doctor lists it, unless an   *)
(* inventory somewhere is being written, or was left half written by a     *)
(* kill or a failing call.                                                 *)
PayloadIsListed ==
  /\ \A p \in Paths : box[p].payload # None =>
       /\ box[p].inventory # None
       /\ \/ p \in workerQuarantineInventory
          \/ HalfWritten # {} /\ ~Corrupt(p)
          \/ box[p].payload.bytes = "user"
  /\ HalfWritten # {} => pc \in {"describe", "label"} \/ faults + crashes > 0

(* A worker is bound only when its sandbox is a full copy.                 *)
BoundIsComplete ==
  stage = "bound" /\ worker = 0 => \A p \in Paths : sandbox[p] = BytesOf(base[p])

(* However often creation and collection are broken off: sandboxes are     *)
(* whole, evidence comes once, and what was set aside can be found.        *)
CollectionIsSound == TypeOK /\ EvidenceOnce /\ PayloadIsListed /\ BoundIsComplete

Collected ==
  /\ \A p \in Touched : BytesOf(src[p]) = sandbox[p]
  /\ \A e \in log : imported[e] > 0

(* The checkout is another, or a path is in conflict.                      *)
Conflict ==
  ~bound \/ stage # "bound" \/ ~InScope \/ \E p \in Touched : ~Expected(p)

(* What no retry gets past: a conflict, or an inventory half written.      *)
Blocked == Conflict \/ Touched \intersect HalfWritten # {}
=============================================================================
