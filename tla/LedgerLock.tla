----------------------------- MODULE LedgerLock -----------------------------
(***************************************************************************)
(* The cross-process ledger lock of cli/ledger.mjs: withLedgerLock, the    *)
(* recovery of an abandoned lock, and the conditional retirement both use. *)
(*                                                                         *)
(* The lock is one name in the temporary directory.  A process writes its  *)
(* owner record to a private file, flushes it, and publishes the inode     *)
(* under the shared name with link(2), which fails when the name exists.   *)
(* There is no unlink-if-this-inode call, so a lock is taken down in four  *)
(* separate system calls: lstat the name and compare, rename it to a       *)
(* random name, compare what was moved, and put it back when it was        *)
(* something else.  Processes interleave between any two of them, and may  *)
(* die between any two of them.                                            *)
(***************************************************************************)
EXTENDS Naturals

CONSTANTS
  Pids,        \* process ids; a pid may be used again after its process ended
  NoInode,     \* nothing at the shared name
  Legacy,      \* an inode without a readable owner record (left by an old release)
  MaxTokens,   \* bound: acquisitions attempted per pid
  MaxCrashes   \* bound: processes killed outright

ASSUME LockAssumption ==
  /\ NoInode # Legacy
  /\ MaxTokens \in Nat
  /\ MaxCrashes \in Nat

(* One inode per acquisition attempt: its content is the owner record.     *)
Inode == [pid : Pids, token : Nat]

ASSUME InodeAssumption == NoInode \notin Inode /\ Legacy \notin Inode

Entry == Inode \union {NoInode, Legacy}

VARIABLES
  lock,      \* the inode at the shared lock name
  owners,    \* inodes whose private owner name still exists
  alive,     \* the pids for which kill(pid, 0) succeeds
  used,      \* used[p]: tokens drawn by processes with pid p
  pc,        \* where p stands in withLedgerLock
  mine,      \* the inode p created for this acquisition
  seen,      \* the inode p observed at the shared name before judging it
  blamed,    \* the inode whose owner record p read
  moved,     \* the inode p renamed away and has not yet disposed of
  why,       \* what p retires the shared name for
  crashes,   \* processes killed so far
  misfired   \* history: some rename moved an inode other than the checked one

vars == <<lock, owners, alive, used, pc, mine, seen, blamed, moved, why,
          crashes, misfired>>

local == <<mine, seen, blamed, moved, why>>

PCs == {"idle", "link", "linked", "held", "observe", "readOwner", "probe",
        "wait", "check", "move", "compare", "restore", "close", "exited"}

Purposes == {"recover", "release", "backout"}

TypeOK ==
  /\ lock \in Entry
  /\ owners \in SUBSET Inode
  /\ alive \in SUBSET Pids
  /\ used \in [Pids -> Nat]
  /\ pc \in [Pids -> PCs]
  /\ mine \in [Pids -> Inode \union {NoInode}]
  /\ seen \in [Pids -> Entry]
  /\ blamed \in [Pids -> Entry]
  /\ moved \in [Pids -> Entry]
  /\ why \in [Pids -> Purposes]
  /\ crashes \in Nat
  /\ misfired \in BOOLEAN

Init ==
  /\ lock \in {NoInode, Legacy}
  /\ owners = {}
  /\ alive = Pids
  /\ used = [p \in Pids |-> 0]
  /\ pc = [p \in Pids |-> "idle"]
  /\ mine = [p \in Pids |-> NoInode]
  /\ seen = [p \in Pids |-> NoInode]
  /\ blamed = [p \in Pids |-> NoInode]
  /\ moved = [p \in Pids |-> NoInode]
  /\ why = [p \in Pids |-> "release"]
  /\ crashes = 0
  /\ misfired = FALSE

Goto(p, label) == pc' = [pc EXCEPT ![p] = label]

-----------------------------------------------------------------------------
(* Acquisition.                                                            *)

(* The owner record is complete and flushed before the shared name can     *)
(* show its inode.                                                         *)
OpenOwner(p) ==
  /\ pc[p] = "idle"
  /\ used[p] < MaxTokens
  /\ LET inode == [pid |-> p, token |-> used[p] + 1]
     IN  /\ mine' = [mine EXCEPT ![p] = inode]
         /\ owners' = owners \union {inode}
  /\ used' = [used EXCEPT ![p] = used[p] + 1]
  /\ Goto(p, "link")
  /\ UNCHANGED <<lock, alive, seen, blamed, moved, why, crashes, misfired>>

(* A slip: publishing with rename(2), which replaces, instead of link(2).  *)
LinkLockReplacing(p) ==
  /\ pc[p] = "link"
  /\ lock' = mine[p]
  /\ Goto(p, "linked")
  /\ UNCHANGED <<owners, alive, used, local, crashes, misfired>>

LinkLock(p) ==
  /\ pc[p] = "link"
  /\ lock = NoInode
  /\ lock' = mine[p]
  /\ Goto(p, "linked")
  /\ UNCHANGED <<owners, alive, used, local, crashes, misfired>>

LinkExists(p) ==
  /\ pc[p] = "link"
  /\ lock # NoInode
  /\ Goto(p, "observe")
  /\ UNCHANGED <<lock, owners, alive, used, local, crashes, misfired>>

(* The private name goes away once the shared one is held; when it cannot  *)
(* be retired the acquisition is undone and the command fails.             *)
RetireOwner(p) ==
  /\ pc[p] = "linked"
  /\ \/ /\ owners' = owners \ {mine[p]}
        /\ Goto(p, "held")
        /\ UNCHANGED why
     \/ /\ Goto(p, "check")
        /\ why' = [why EXCEPT ![p] = "backout"]
        /\ UNCHANGED owners
  /\ UNCHANGED <<lock, alive, used, mine, seen, blamed, moved, crashes, misfired>>

(* The locked action and its ledger mutation are over; release the lock.   *)
EndAction(p) ==
  /\ pc[p] = "held"
  /\ Goto(p, "check")
  /\ why' = [why EXCEPT ![p] = "release"]
  /\ UNCHANGED <<lock, owners, alive, used, mine, seen, blamed, moved, crashes,
                 misfired>>

-----------------------------------------------------------------------------
(* Judging a lock held by someone else: lstat, read the owner record by    *)
(* name, probe the owner's pid.                                            *)

ObserveLock(p) ==
  /\ pc[p] = "observe"
  /\ IF lock = NoInode
     THEN /\ Goto(p, "wait")
          /\ UNCHANGED seen
     ELSE /\ seen' = [seen EXCEPT ![p] = lock]
          /\ Goto(p, "readOwner")
  /\ UNCHANGED <<lock, owners, alive, used, mine, blamed, moved, why, crashes,
                 misfired>>

(* No owner record could be read (a malformed inode, or the name vanished  *)
(* after the lstat): the observed inode counts as abandoned once it is     *)
(* older than the grace period, which any inode may be by now.             *)
ReadNoOwner(p) ==
  /\ pc[p] = "readOwner"
  /\ lock \in {NoInode, Legacy}
  /\ blamed' = [blamed EXCEPT ![p] = NoInode]
  /\ \/ /\ Goto(p, "check")
        /\ why' = [why EXCEPT ![p] = "recover"]
     \/ /\ Goto(p, "wait")
        /\ UNCHANGED why
  /\ UNCHANGED <<lock, owners, alive, used, mine, seen, moved, crashes, misfired>>

ReadOwner(p) ==
  /\ pc[p] = "readOwner"
  /\ lock \notin {NoInode, Legacy}
  /\ blamed' = [blamed EXCEPT ![p] = lock]
  /\ Goto(p, "probe")
  /\ UNCHANGED <<lock, owners, alive, used, mine, seen, moved, why, crashes, misfired>>

(* A slip: the owner is judged by its record alone.                        *)
ProbeNobody(p) ==
  /\ pc[p] = "probe"
  /\ Goto(p, "check")
  /\ why' = [why EXCEPT ![p] = "recover"]
  /\ UNCHANGED <<lock, owners, alive, used, mine, seen, blamed, moved, crashes,
                 misfired>>

(* The record read may be of another inode than the one observed, and its  *)
(* process may have ended since.                                           *)
ProbeOwner(p) ==
  /\ pc[p] = "probe"
  /\ IF blamed[p].pid \in alive
     THEN /\ Goto(p, "wait")
          /\ UNCHANGED why
     ELSE /\ Goto(p, "check")
          /\ why' = [why EXCEPT ![p] = "recover"]
  /\ UNCHANGED <<lock, owners, alive, used, mine, seen, blamed, moved, crashes,
                 misfired>>

(* Every failed attempt is followed by a recovery attempt; only then is    *)
(* the ten second deadline looked at.                                      *)
Retry(p) ==
  /\ pc[p] = "wait"
  /\ Goto(p, "link")
  /\ UNCHANGED <<lock, owners, alive, used, local, crashes, misfired>>

GiveUp(p) ==
  /\ pc[p] = "wait"
  /\ Goto(p, "close")
  /\ UNCHANGED <<lock, owners, alive, used, local, crashes, misfired>>

-----------------------------------------------------------------------------
(* retirePortableTempMetadata on the shared name.                          *)

Target(p) == IF why[p] = "recover" THEN seen[p] ELSE mine[p]

(* What the three callers do with the outcome.  A recovered lock also      *)
(* loses the dead owner's private name when it still holds that inode.     *)
Retired(p) ==
  IF why[p] = "recover"
  THEN /\ Goto(p, "link")
       /\ owners' = owners \ ({seen[p]} \intersect {blamed[p]})
       /\ UNCHANGED why
  ELSE /\ Goto(p, "close")
       /\ UNCHANGED <<owners, why>>

(* A slip: recovery tries the same observation again, deadline or not.     *)
NotRetiredInsisting(p) ==
  /\ Goto(p, IF why[p] = "recover" THEN "check" ELSE "close")
  /\ UNCHANGED <<owners, why>>

NotRetired(p) ==
  /\ \/ why[p] = "recover" /\ Goto(p, "wait") /\ UNCHANGED why
     \/ why[p] = "release" /\ Goto(p, "close") /\ UNCHANGED why
     \/ /\ why[p] = "backout"
        /\ Goto(p, "check")
        /\ why' = [why EXCEPT ![p] = "release"]
  /\ UNCHANGED owners

CheckIdentity(p) ==
  /\ pc[p] = "check"
  /\ IF lock = Target(p)
     THEN Goto(p, "move") /\ UNCHANGED <<why, owners>>
     ELSE NotRetired(p)
  /\ UNCHANGED <<lock, alive, used, mine, seen, blamed, moved, crashes, misfired>>

(* rename(2) takes whatever is at the name now.                            *)
MoveAside(p) ==
  /\ pc[p] = "move"
  /\ IF lock = NoInode
     THEN NotRetired(p) /\ UNCHANGED <<lock, moved, misfired>>
     ELSE /\ moved' = [moved EXCEPT ![p] = lock]
          /\ lock' = NoInode
          /\ misfired' = (misfired \/ lock # Target(p))
          /\ Goto(p, "compare")
          /\ UNCHANGED <<why, owners>>
  /\ UNCHANGED <<alive, used, mine, seen, blamed, crashes>>

CompareMoved(p) ==
  /\ pc[p] = "compare"
  /\ IF moved[p] # Target(p) /\ lock = NoInode
     THEN Goto(p, "restore") /\ UNCHANGED <<why, owners, moved>>
     ELSE /\ IF moved[p] = Target(p) THEN Retired(p) ELSE NotRetired(p)
          /\ moved' = [moved EXCEPT ![p] = NoInode]
  /\ UNCHANGED <<lock, alive, used, mine, seen, blamed, crashes, misfired>>

(* The name was free when it was tested; rename(2) replaces what has been  *)
(* linked there since.                                                     *)
RestoreMoved(p) ==
  /\ pc[p] = "restore"
  /\ lock' = moved[p]
  /\ moved' = [moved EXCEPT ![p] = NoInode]
  /\ NotRetired(p)
  /\ UNCHANGED <<alive, used, mine, seen, blamed, crashes, misfired>>

(* Last, the private name when it is still there; the attempt may fail.    *)
CloseAttempt(p) ==
  /\ pc[p] = "close"
  /\ owners' \in {owners, owners \ {mine[p]}}
  /\ mine' = [mine EXCEPT ![p] = NoInode]
  /\ Goto(p, "idle")
  /\ UNCHANGED <<lock, alive, used, seen, blamed, moved, why, crashes, misfired>>

-----------------------------------------------------------------------------
(* Processes end, are killed, and pids come back.                          *)

EndProcess(p) ==
  /\ alive' = alive \ {p}
  /\ Goto(p, "exited")
  /\ mine' = [mine EXCEPT ![p] = NoInode]
  /\ seen' = [seen EXCEPT ![p] = NoInode]
  /\ blamed' = [blamed EXCEPT ![p] = NoInode]
  /\ moved' = [moved EXCEPT ![p] = NoInode]
  /\ why' = [why EXCEPT ![p] = "release"]
  /\ UNCHANGED <<lock, owners, used, misfired>>

Exit(p) ==
  /\ pc[p] = "idle"
  /\ EndProcess(p)
  /\ UNCHANGED crashes

Crash(p) ==
  /\ pc[p] \notin {"idle", "exited"}
  /\ crashes < MaxCrashes
  /\ crashes' = crashes + 1
  /\ EndProcess(p)

Spawn(p) ==
  /\ pc[p] = "exited"
  /\ used[p] < MaxTokens
  /\ alive' = alive \union {p}
  /\ Goto(p, "idle")
  /\ UNCHANGED <<lock, owners, used, local, crashes, misfired>>

Acquire(p) ==
  \/ OpenOwner(p) \/ LinkLock(p) \/ LinkExists(p) \/ RetireOwner(p)
Judge(p) ==
  \/ ObserveLock(p) \/ ReadNoOwner(p) \/ ReadOwner(p) \/ ProbeOwner(p)
  \/ Retry(p) \/ GiveUp(p)
Retire(p) ==
  \/ CheckIdentity(p) \/ MoveAside(p) \/ CompareMoved(p) \/ RestoreMoved(p)

Next ==
  \E p \in Pids :
    \/ Acquire(p) \/ Judge(p) \/ Retire(p)
    \/ EndAction(p) \/ CloseAttempt(p)
    \/ Exit(p) \/ Crash(p) \/ Spawn(p)

Spec == Init /\ [][Next]_vars

(* A running process keeps running, and the ten second deadline is reached *)
(* by any process that keeps waiting.                                      *)
Fairness ==
  \A p \in Pids :
    /\ WF_vars(LinkLock(p) \/ LinkExists(p) \/ RetireOwner(p) \/ EndAction(p))
    /\ WF_vars(ObserveLock(p) \/ ReadNoOwner(p) \/ ReadOwner(p) \/ ProbeOwner(p)
                \/ Retry(p))
    /\ WF_vars(Retire(p) \/ CloseAttempt(p))
    /\ SF_vars(GiveUp(p))

FairSpec == Spec /\ Fairness

-----------------------------------------------------------------------------
Holding(p) == pc[p] \in {"linked", "held"}

(* At most one process runs a locked action at a time, as long as every    *)
(* retirement's rename moved the inode that its own lstat had compared.    *)
(* (withLedgerLock; the race the comment of retirePortableTempMetadata     *)
(* narrows but cannot close is the only way to two holders.)               *)
ExclusiveUnlessMisfired ==
  ~misfired => \A p, q \in Pids : Holding(p) /\ Holding(q) => p = q

(* A process that holds the lock finds its own inode at the shared name,   *)
(* under the same proviso: nobody recovered or released it from under the  *)
(* holder, whoever died and whichever pid was used again.                  *)
HolderOwnsName ==
  ~misfired => \A p \in Pids : Holding(p) => lock = mine[p]

(* A lock inode has been taken down, by whatever sequence of crashes and   *)
(* recoveries, only after its process was through with it: a process still *)
(* trying to link an inode never finds it at the shared name already, nor  *)
(* in another process's hands.                                             *)
Contending(p) ==
  \/ pc[p] \in {"link", "observe", "readOwner", "probe", "wait"}
  \/ pc[p] \in {"check", "move", "compare", "restore"} /\ why[p] = "recover"

UnlinkedInodeIsPrivate ==
  \A p, q \in Pids :
    Contending(p) => mine[p] \notin {lock, seen[q], blamed[q], moved[q]}

(* Whatever is recovered, retried or released, the names and the inodes    *)
(* stay where the protocol believes them to be.                            *)
LockIsSound == TypeOK /\ HolderOwnsName /\ UnlinkedInodeIsPrivate

(* What test/ledger.test.mjs says, "a contender never removes a live       *)
(* owner's lock".  It is not an invariant: see README, Disagreements.      *)
ContenderNeverRemovesLiveLock ==
  \A p, q \in Pids :
    p # q /\ Holding(q) => moved[p] # mine[q]

(* An acquisition ends: the process gets the lock, gives up as busy, or is *)
(* killed; recovery never loops for ever.                                  *)
AcquisitionEnds ==
  \A p \in Pids : pc[p] = "link" ~> pc[p] \in {"held", "idle", "exited"}
=============================================================================
