-------------------------- MODULE LedgerLock_proofs --------------------------
(* Proofs about LedgerLock, for every set of pids and every bound.       *)
EXTENDS LedgerLock, TLAPS

(* A token in circulation has been drawn.                                *)
Drawn(i) == i \in Inode => i.token <= used[i.pid]

TokensDrawn ==
  /\ Drawn(lock)
  /\ \A p \in Pids : /\ Drawn(mine[p]) /\ Drawn(seen[p])
                     /\ Drawn(blamed[p]) /\ Drawn(moved[p])

(* Only an ended process is not alive, and a process inside withLedgerLock *)
(* has an inode of its own.                                              *)
BusyOwnsInode ==
  \A p \in Pids :
    /\ pc[p] # "exited" => p \in alive
    /\ pc[p] \notin {"idle", "exited"} => mine[p] \in Inode /\ mine[p].pid = p

(* An inode judged abandoned is not one that a process holds.            *)
JudgedNotHeld ==
  ~misfired =>
    \A p, q \in Pids :
      pc[p] \in {"check", "move"} /\ why[p] = "recover" /\ Holding(q)
        => seen[p] # mine[q]

(* The owner record of a lock that is still held was read from its inode.*)
HolderIsBlamed ==
  ~misfired =>
    \A p, q \in Pids :
      pc[p] = "probe" /\ Holding(q) /\ seen[p] = mine[q] => blamed[p] = mine[q]

(* Nothing but a misfired rename leads to putting an inode back.         *)
RestoreMeansMisfired ==
  ~misfired => \A p \in Pids : /\ pc[p] # "restore"
                               /\ pc[p] = "compare" => moved[p] = Target(p)

IInv ==
  /\ TypeOK
  /\ TokensDrawn
  /\ BusyOwnsInode
  /\ UnlinkedInodeIsPrivate
  /\ HolderIsBlamed
  /\ JudgedNotHeld
  /\ RestoreMeansMisfired
  /\ HolderOwnsName

USE LockAssumption, InodeAssumption

-----------------------------------------------------------------------------
(* The variables of the model keep their types.                          *)
LEMMA TypeStep == TypeOK /\ [Next]_vars => TypeOK'
<1> SUFFICES ASSUME TypeOK, [Next]_vars PROVE TypeOK'
  OBVIOUS
<1> USE DEF TypeOK, Goto, local, PCs, Purposes, Entry
<1>1. ASSUME NEW p \in Pids, Acquire(p) PROVE TypeOK'
  <2>1. CASE OpenOwner(p)
    <3>1. [pid |-> p, token |-> used[p] + 1] \in Inode
      BY DEF Inode
    <3>2. QED BY <2>1, <3>1 DEF OpenOwner
  <2>2. CASE LinkLock(p)
    BY <2>2 DEF LinkLock
  <2>3. CASE LinkExists(p)
    BY <2>3 DEF LinkExists
  <2>4. CASE RetireOwner(p)
    BY <2>4 DEF RetireOwner
  <2>5. QED BY <1>1, <2>1, <2>2, <2>3, <2>4 DEF Acquire
<1>2. ASSUME NEW p \in Pids, Judge(p) PROVE TypeOK'
  BY <1>2 DEF Judge, ObserveLock, ReadNoOwner, ReadOwner, ProbeOwner, Retry, GiveUp
<1>3. ASSUME NEW p \in Pids, Retire(p) PROVE TypeOK'
  <2>1. CASE CheckIdentity(p)
    BY <2>1 DEF CheckIdentity, NotRetired
  <2>2. CASE MoveAside(p)
    <3>1. misfired' \in BOOLEAN
      BY <2>2, Zenon DEF MoveAside
    <3>2. QED BY <2>2, <3>1 DEF MoveAside, NotRetired
  <2>3. CASE CompareMoved(p)
    BY <2>3 DEF CompareMoved, Retired, NotRetired
  <2>4. CASE RestoreMoved(p)
    BY <2>4 DEF RestoreMoved, NotRetired
  <2>5. QED BY <1>3, <2>1, <2>2, <2>3, <2>4 DEF Retire
<1>4. ASSUME NEW p \in Pids, EndAction(p) PROVE TypeOK'
  BY <1>4 DEF EndAction
<1>5. ASSUME NEW p \in Pids, CloseAttempt(p) PROVE TypeOK'
  BY <1>5 DEF CloseAttempt
<1>6. ASSUME NEW p \in Pids, Exit(p) \/ Crash(p) PROVE TypeOK'
  BY <1>6 DEF Exit, Crash, EndProcess
<1>7. ASSUME NEW p \in Pids, Spawn(p) PROVE TypeOK'
  BY <1>7 DEF Spawn
<1>8. CASE UNCHANGED vars
  BY <1>8 DEF vars
<1>9. QED
  BY <1>1, <1>2, <1>3, <1>4, <1>5, <1>6, <1>7, <1>8 DEF Next

LEMMA InitType == Init => TypeOK
<1>1. Init => misfired \in BOOLEAN
  BY Zenon DEF Init
<1>2. QED BY <1>1 DEF Init, TypeOK, PCs, Purposes, Entry

(* Every reachable state of the lock protocol is well typed.             *)
THEOREM TypeCorrect == Spec => []TypeOK
BY InitType, TypeStep, PTL DEF Spec

-----------------------------------------------------------------------------
(* What each step keeps of the strengthening, conjunct by conjunct.      *)

LEMMA InitIInv == Init => IInv
<1> SUFFICES ASSUME Init PROVE IInv
  OBVIOUS
<1>1. TypeOK
  BY InitType
<1>2. TokensDrawn
  BY DEF Init, TokensDrawn, Drawn
<1>3. BusyOwnsInode /\ UnlinkedInodeIsPrivate /\ HolderIsBlamed /\ JudgedNotHeld
      /\ RestoreMeansMisfired /\ HolderOwnsName
  BY DEF Init, BusyOwnsInode, UnlinkedInodeIsPrivate, HolderIsBlamed, JudgedNotHeld,
         RestoreMeansMisfired, HolderOwnsName, Contending, Holding
<1>4. QED BY <1>1, <1>2, <1>3 DEF IInv

LEMMA AcquireStep ==
  ASSUME IInv, NEW p \in Pids, Acquire(p), TypeOK'
  PROVE  IInv'
<1> USE DEF TypeOK, IInv, Goto, local
<1>1. CASE OpenOwner(p)
  <2>1. PICK inode \in Inode : /\ inode.pid = p /\ inode.token = used[p] + 1
                               /\ mine' = [mine EXCEPT ![p] = inode]
    <3> DEFINE new == [pid |-> p, token |-> used[p] + 1]
    <3>1. new \in Inode /\ new.pid = p /\ new.token = used[p] + 1
      BY DEF Inode
    <3>2. mine' = [mine EXCEPT ![p] = new]
      BY <1>1 DEF OpenOwner
    <3> HIDE DEF new
    <3>3. QED BY <3>1, <3>2
  <2>2. ~Drawn(inode)
    BY <2>1 DEF Drawn
  <2>3. used' = [used EXCEPT ![p] = used[p] + 1]
    BY <1>1 DEF OpenOwner
  <2>4. \A i : Drawn(i) => (i \in Inode => i.token <= used'[i.pid])
    BY <2>3 DEF Drawn, Inode
  <2>5. inode.token <= used'[inode.pid]
    BY <2>1, <2>3
  <2>6. TokensDrawn'
    BY <1>1, <2>1, <2>4, <2>5 DEF OpenOwner, TokensDrawn, Drawn
  <2>7. BusyOwnsInode'
    BY <1>1, <2>1 DEF OpenOwner, BusyOwnsInode
  <2>8. UnlinkedInodeIsPrivate'
    BY <1>1, <2>1, <2>2 DEF OpenOwner, UnlinkedInodeIsPrivate, Contending, TokensDrawn
  <2>9. (HolderIsBlamed /\ JudgedNotHeld /\ RestoreMeansMisfired /\ HolderOwnsName)'
    BY <1>1, <2>1 DEF OpenOwner, HolderIsBlamed, JudgedNotHeld, RestoreMeansMisfired,
                      HolderOwnsName, Holding, Target
  <2>10. QED BY <2>6, <2>7, <2>8, <2>9
<1>2. CASE LinkLock(p)
  <2>1. (TokensDrawn /\ BusyOwnsInode)'
    BY <1>2 DEF LinkLock, TokensDrawn, Drawn, BusyOwnsInode
  <2>2. UnlinkedInodeIsPrivate'
    BY <1>2 DEF LinkLock, UnlinkedInodeIsPrivate, Contending, BusyOwnsInode
  <2>3. (HolderIsBlamed /\ JudgedNotHeld)'
    BY <1>2 DEF LinkLock, HolderIsBlamed, JudgedNotHeld,
                UnlinkedInodeIsPrivate, Contending, Holding
  <2>4. RestoreMeansMisfired'
    BY <1>2 DEF LinkLock, RestoreMeansMisfired, Target
  <2>5. HolderOwnsName'
    BY <1>2 DEF LinkLock, HolderOwnsName, Holding, BusyOwnsInode
  <2>6. QED BY <2>1, <2>2, <2>3, <2>4, <2>5
<1>3. CASE LinkExists(p)
  BY <1>3 DEF LinkExists, TokensDrawn, Drawn, BusyOwnsInode, UnlinkedInodeIsPrivate,
              HolderIsBlamed, JudgedNotHeld, RestoreMeansMisfired, HolderOwnsName,
              Contending, Holding, Target
<1>4. CASE RetireOwner(p)
  BY <1>4 DEF RetireOwner, TokensDrawn, Drawn, BusyOwnsInode, UnlinkedInodeIsPrivate,
              HolderIsBlamed, JudgedNotHeld, RestoreMeansMisfired, HolderOwnsName,
              Contending, Holding, Target
<1>5. QED BY <1>1, <1>2, <1>3, <1>4 DEF Acquire

LEMMA JudgeStep ==
  ASSUME IInv, NEW p \in Pids, Judge(p), TypeOK'
  PROVE  IInv'
<1> USE DEF TypeOK, IInv, Goto, local
<1>1. TokensDrawn'
  BY DEF Judge, ObserveLock, ReadNoOwner, ReadOwner, ProbeOwner, Retry, GiveUp,
         TokensDrawn, Drawn
<1>2. BusyOwnsInode'
  BY DEF Judge, ObserveLock, ReadNoOwner, ReadOwner, ProbeOwner, Retry, GiveUp,
         BusyOwnsInode
<1>3. UnlinkedInodeIsPrivate'
  <2> USE DEF UnlinkedInodeIsPrivate, Contending
  <2>1. CASE ObserveLock(p)
    BY <2>1 DEF ObserveLock
  <2>2. CASE ReadNoOwner(p)
    BY <2>2 DEF ReadNoOwner, BusyOwnsInode
  <2>3. CASE ReadOwner(p) \/ ProbeOwner(p)
    BY <2>3 DEF ReadOwner, ProbeOwner
  <2>4. CASE Retry(p) \/ GiveUp(p)
    BY <2>4 DEF Retry, GiveUp
  <2>5. QED BY <2>1, <2>2, <2>3, <2>4 DEF Judge
<1>4. JudgedNotHeld'
  <2>1. CASE ObserveLock(p) \/ Retry(p) \/ GiveUp(p)
    BY <2>1 DEF ObserveLock, Retry, GiveUp, JudgedNotHeld, Holding
  <2>2. CASE ReadNoOwner(p)
    BY <2>2 DEF ReadNoOwner, JudgedNotHeld, Holding, HolderOwnsName, BusyOwnsInode
  <2>3. CASE ReadOwner(p)
    BY <2>3 DEF ReadOwner, JudgedNotHeld, Holding
  <2>4. CASE ProbeOwner(p)
    BY <2>4 DEF ProbeOwner, JudgedNotHeld, Holding, HolderIsBlamed, BusyOwnsInode
  <2>5. QED BY <2>1, <2>2, <2>3, <2>4 DEF Judge
<1>5. HolderIsBlamed'
  <2>1. CASE ReadOwner(p)
    BY <2>1 DEF ReadOwner, HolderIsBlamed, Holding, HolderOwnsName
  <2>2. CASE ObserveLock(p) \/ ReadNoOwner(p) \/ ProbeOwner(p) \/ Retry(p) \/ GiveUp(p)
    BY <2>2 DEF ObserveLock, ReadNoOwner, ProbeOwner, Retry, GiveUp, HolderIsBlamed,
                Holding
  <2>3. QED BY <2>1, <2>2 DEF Judge
<1>6. RestoreMeansMisfired'
  BY DEF Judge, ObserveLock, ReadNoOwner, ReadOwner, ProbeOwner, Retry, GiveUp,
         RestoreMeansMisfired, Target
<1>7. HolderOwnsName'
  BY DEF Judge, ObserveLock, ReadNoOwner, ReadOwner, ProbeOwner, Retry, GiveUp,
         HolderOwnsName, Holding
<1>8. QED BY <1>1, <1>2, <1>3, <1>4, <1>5, <1>6, <1>7

LEMMA RetireStep ==
  ASSUME IInv, NEW p \in Pids, Retire(p), TypeOK'
  PROVE  IInv'
<1> USE DEF TypeOK, IInv, Goto, local
<1>1. CASE CheckIdentity(p)
  BY <1>1 DEF CheckIdentity, NotRetired, TokensDrawn, Drawn, BusyOwnsInode,
              UnlinkedInodeIsPrivate, HolderIsBlamed, JudgedNotHeld,
              RestoreMeansMisfired,
              HolderOwnsName, Contending, Holding, Target
<1>2. CASE MoveAside(p)
  <2>1. (TokensDrawn /\ BusyOwnsInode)'
    BY <1>2 DEF MoveAside, NotRetired, TokensDrawn, Drawn, BusyOwnsInode
  <2>2. UnlinkedInodeIsPrivate'
    BY <1>2 DEF MoveAside, NotRetired, UnlinkedInodeIsPrivate, Contending, BusyOwnsInode
  <2>3. (HolderIsBlamed /\ JudgedNotHeld /\ RestoreMeansMisfired)'
    BY <1>2 DEF MoveAside, NotRetired, HolderIsBlamed, JudgedNotHeld,
                RestoreMeansMisfired, Holding, Target
  <2>4. HolderOwnsName'
    <3> SUFFICES ASSUME ~misfired', NEW q \in Pids, Holding(q)' PROVE lock' = mine'[q]
      BY DEF HolderOwnsName
    <3>1. q # p /\ Holding(q) /\ mine'[q] = mine[q] /\ ~misfired
      BY <1>2 DEF MoveAside, NotRetired, Holding
    <3>2. lock = mine[q]
      BY <3>1 DEF HolderOwnsName
    <3>3. CASE lock = NoInode
      BY <1>2, <3>1, <3>2, <3>3 DEF MoveAside
    <3>4. CASE lock # NoInode
      <4>1. lock = Target(p)
        BY <1>2, <3>4 DEF MoveAside
      <4>2. CASE why[p] = "recover"
        BY <1>2, <3>1, <3>2, <4>1, <4>2 DEF MoveAside, JudgedNotHeld, Target
      <4>3. CASE why[p] # "recover"
        <5>1. mine[p] = mine[q]
          BY <3>2, <4>1, <4>3 DEF Target
        <5>2. pc[p] \notin {"idle", "exited"} /\ pc[q] \notin {"idle", "exited"}
          BY <1>2, <3>1 DEF MoveAside, Holding
        <5>3. mine[p].pid = p /\ mine[q].pid = q
          BY <5>2 DEF BusyOwnsInode
        <5>4. QED BY <3>1, <5>1, <5>3
      <4>4. QED BY <4>2, <4>3
    <3>5. QED BY <3>3, <3>4
  <2>5. QED BY <2>1, <2>2, <2>3, <2>4
<1>3. CASE CompareMoved(p)
  BY <1>3 DEF CompareMoved, Retired, NotRetired, TokensDrawn, Drawn, BusyOwnsInode,
              UnlinkedInodeIsPrivate, HolderIsBlamed, JudgedNotHeld,
              RestoreMeansMisfired,
              HolderOwnsName, Contending, Holding, Target
<1>4. CASE RestoreMoved(p)
  BY <1>4 DEF RestoreMoved, NotRetired, TokensDrawn, Drawn, BusyOwnsInode,
              UnlinkedInodeIsPrivate, HolderIsBlamed, JudgedNotHeld,
              RestoreMeansMisfired,
              HolderOwnsName, Contending, Holding, Target
<1>5. QED BY <1>1, <1>2, <1>3, <1>4 DEF Retire

LEMMA ProcessStep ==
  ASSUME IInv, NEW p \in Pids, TypeOK',
         EndAction(p) \/ CloseAttempt(p) \/ Exit(p) \/ Crash(p) \/ Spawn(p)
  PROVE  IInv'
<1> USE DEF TypeOK, IInv, Goto, local, EndAction, CloseAttempt, Exit, Crash, Spawn,
            EndProcess
<1>1. TokensDrawn'
  BY DEF TokensDrawn, Drawn
<1>2. BusyOwnsInode'
  BY DEF BusyOwnsInode
<1>3. UnlinkedInodeIsPrivate'
  BY DEF UnlinkedInodeIsPrivate, Contending, BusyOwnsInode
<1>4. (HolderIsBlamed /\ JudgedNotHeld)'
  BY DEF HolderIsBlamed, JudgedNotHeld, Holding
<1>5. RestoreMeansMisfired'
  BY DEF RestoreMeansMisfired, Target
<1>6. HolderOwnsName'
  BY DEF HolderOwnsName, Holding
<1>7. QED BY <1>1, <1>2, <1>3, <1>4, <1>5, <1>6

LEMMA StutterStep ==
  ASSUME IInv, UNCHANGED vars
  PROVE  IInv'
BY DEF vars, IInv, TypeOK, TokensDrawn, Drawn, BusyOwnsInode, UnlinkedInodeIsPrivate,
       HolderIsBlamed, JudgedNotHeld, RestoreMeansMisfired, HolderOwnsName, Contending,
       Holding, Target

LEMMA NextIInv == IInv /\ [Next]_vars => IInv'
<1> SUFFICES ASSUME IInv, [Next]_vars PROVE IInv'
  OBVIOUS
<1>1. TypeOK'
  BY TypeStep DEF IInv
<1>2. ASSUME NEW p \in Pids,
             \/ Acquire(p) \/ Judge(p) \/ Retire(p)
             \/ EndAction(p) \/ CloseAttempt(p)
             \/ Exit(p) \/ Crash(p) \/ Spawn(p)
      PROVE  IInv'
  BY <1>1, <1>2, AcquireStep, JudgeStep, RetireStep, ProcessStep
<1>3. QED BY <1>2, StutterStep DEF Next

LEMMA Invariance == Spec => []IInv
BY InitIInv, NextIInv, PTL DEF Spec

-----------------------------------------------------------------------------
(* A process that holds the ledger lock finds its own inode at the shared*)
(* name unless some rename moved an inode nobody had compared.           *)
THEOREM HolderOwnsNameAlways == Spec => []HolderOwnsName
<1>1. IInv => HolderOwnsName
  BY DEF IInv
<1>2. QED BY <1>1, Invariance, PTL

(* The ledger lock is exclusive under the same proviso, for any number of*)
(* processes, crashes, recoveries and pids used again.                   *)
THEOREM Exclusive == Spec => []ExclusiveUnlessMisfired
<1>1. IInv => ExclusiveUnlessMisfired
  <2> SUFFICES ASSUME IInv, ~misfired, NEW p \in Pids, NEW q \in Pids,
                      Holding(p), Holding(q)
               PROVE  p = q
    BY DEF ExclusiveUnlessMisfired
  <2>1. mine[p] = mine[q]
    BY DEF IInv, HolderOwnsName
  <2>2. mine[p].pid = p /\ mine[q].pid = q
    BY DEF IInv, BusyOwnsInode, Holding
  <2>3. QED BY <2>1, <2>2
<1>2. QED BY <1>1, Invariance, PTL

(* An inode its process is still trying to link is at no shared name and *)
(* in no other process's hands.                                          *)
THEOREM UnlinkedPrivate == Spec => []UnlinkedInodeIsPrivate
<1>1. IInv => UnlinkedInodeIsPrivate
  BY DEF IInv
<1>2. QED BY <1>1, Invariance, PTL

(* The three together: types, the holder's name, the contender's inode.  *)
THEOREM LockSound == Spec => []LockIsSound
<1>1. TypeOK /\ HolderOwnsName /\ UnlinkedInodeIsPrivate => LockIsSound
  BY DEF LockIsSound
<1>2. QED BY <1>1, TypeCorrect, HolderOwnsNameAlways, UnlinkedPrivate, PTL
=============================================================================
