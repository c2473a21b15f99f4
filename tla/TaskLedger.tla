------------------------------ MODULE TaskLedger ------------------------------
(***************************************************************************)
(* The task commands (start, finish, reset) and the evidence recorders     *)
(* (docs, red, verify, note) of concurrent sessions in one checkout whose  *)
(* branch and files change under them.                                     *)
(*                                                                         *)
(* A recorder captures branch and task, runs its command without the lock, *)
(* fingerprints the checkout, and under the ledger lock compares what it   *)
(* captured with what is there.  Records are published by a helper process *)
(* which outlives the command that started it.  LedgerLock models how the  *)
(* lock is taken and recovered, LedgerTransaction how records are written; *)
(* here each is one step.                                                  *)
(***************************************************************************)
EXTENDS TaskBoundary, FiniteSets

CONSTANTS
  Sessions,   \* processes running stdd
  Branches,   \* branches of the repository
  Base,       \* the branch config.baseRef names
  Trees,      \* contents of the checkout, as fingerprints
  Clean,      \* the one without a change relative to the base
  Recorders,  \* the recorders that run something first: docs, red, verify
  MaxEvents,  \* bound: no command begins once the ledger holds this many
  MaxKills    \* bound: commands killed

ASSUME TaskLedgerAssumption ==
  /\ Base \in Branches /\ Clean \in Trees
  /\ Recorders \subseteq {"docs", "red", "verify"}
  /\ None \notin Sessions /\ None \notin Trees
  /\ MaxEvents \in Nat /\ MaxKills \in Nat
  /\ IsFiniteSet(Sessions)

VARIABLES
  ledger,   \* the events of every branch, in order
  head,     \* the branch checked out
  tree,     \* per branch, the content a checkout of it has
  lock,     \* the session that holds the ledger lock
  session,  \* per session, the command it runs
  kills     \* commands killed so far

vars == <<ledger, head, tree, lock, session, kills>>

Transitions == {"task-start", "task-finish", "task-reset"}
Evidences == Recorders \union {"note"}

TaskIds == 1 .. MaxEvents + 2 * Cardinality(Sessions)

ASSUME NoTaskAssumption == None \notin TaskIds

NoCommand ==
  [pc |-> "idle", cmd |-> "none", branch |-> Base, seen |-> Legacy,
   snapshot |-> None, queue |-> <<>>, orphan |-> FALSE]

-----------------------------------------------------------------------------
Record(name, t, b, s, marked) ==
  [event |-> name, task |-> t, branch |-> b, snapshot |-> s, legacyFlow |-> marked]

Boundary(cmd, t, b) == Record(cmd, t, b, None, FALSE)

(* The events of a branch, in their order.                                 *)
OfBranch(events, b) ==
  LET kept[n \in 0 .. Len(events)] ==
        IF n = 0 THEN <<>>
        ELSE IF events[n].branch = b THEN Append(kept[n - 1], events[n]) ELSE kept[n - 1]
  IN  kept[Len(events)]

On(b) == OfBranch(ledger, b)

(* A base checkout without changes has no work in flight, so old events    *)
(* without a task and without the marker of a managed flow do not count.   *)
CleanBase(b) ==
  /\ b = Base /\ tree[b] = Clean
  /\ On(b) # <<>> /\ \A i \in 1 .. Len(On(b)) : ~On(b)[i].legacyFlow

ScopedState(b) ==
  LET state == DeriveTask(On(b)) IN IF state = Legacy /\ CleanBase(b) THEN Idle ELSE state

AcceptsEvidence(b) == ScopedState(b).state \in {"legacy", "active"}

(* Random ids: never one that is recorded or about to be.                  *)
UsedIds ==
  LET named(s) == {s[i].task : i \in 1 .. Len(s)}
  IN  named(ledger) \union UNION {named(session[p].queue) : p \in Sessions}

FreshId == CHOOSE t \in TaskIds : t \notin UsedIds /\ \A u \in 1 .. t - 1 : u \in UsedIds

(* The ledger is new, or one whose evidence predates tasks.                *)
Init ==
  /\ ledger \in {<<>>} \union {<<Record("note", None, b, None, FALSE)>> : b \in Branches}
  /\ head = Base
  /\ tree = [b \in Branches |-> Clean]
  /\ lock = None
  /\ session = [p \in Sessions |-> NoCommand]
  /\ kills = 0

-----------------------------------------------------------------------------
(* The checkout, changed by its owner at any time.                         *)
Checkout(b) ==
  /\ head' = b
  /\ UNCHANGED <<ledger, tree, lock, session, kills>>

Edit(t) ==
  /\ tree' = [tree EXCEPT ![head] = t]
  /\ UNCHANGED <<ledger, head, lock, session, kills>>

-----------------------------------------------------------------------------
(* A slip: a failed command leaves the lock behind.                        *)
ReleaseIdle(p) == lock' = IF lock = p /\ session[p].pc = "commit" THEN None ELSE lock

(* Ending a command, and the lock if it is the one holding it.             *)
Release(p) == lock' = IF lock = p THEN None ELSE lock

End(p) ==
  /\ session' = [session EXCEPT ![p] = NoCommand]
  /\ Release(p)
  /\ UNCHANGED <<head, tree, kills>>

Begins(p) == session[p].pc = "idle" /\ Len(ledger) < MaxEvents

(* What taskTransition permits and appends; anything else is an error that *)
(* changes nothing.                                                        *)
Permits(cmd, state) ==
  IF cmd = "task-start" THEN state.state \in {"legacy", "idle"} ELSE state.state = "active"

Records(cmd, state, b) ==
  CASE cmd = "task-start" -> <<Boundary("task-start", FreshId, b)>>
    [] cmd = "task-finish" -> <<Boundary("task-finish", state.task, b)>>
    [] cmd = "task-reset" ->
         <<Boundary("task-reset", state.task, b), Boundary("task-start", FreshId, b)>>

(* A slip: the state is read before the lock is taken.                     *)
TransitionUnlocked(p, cmd) ==
  LET state == DeriveTask(On(head))
  IN  /\ Begins(p) /\ Permits(cmd, state)
      /\ session' = [session EXCEPT ![p] =
                       [NoCommand EXCEPT !.pc = "helper", !.cmd = cmd, !.branch = head,
                                         !.seen = state, !.queue = Records(cmd, state, head)]]
      /\ UNCHANGED <<ledger, head, tree, lock, kills>>

Transition(p, cmd) ==
  LET state == DeriveTask(On(head))
  IN  /\ Begins(p) /\ lock = None /\ Permits(cmd, state)
      /\ lock' = p
      /\ session' = [session EXCEPT ![p] =
                       [NoCommand EXCEPT !.pc = "helper", !.cmd = cmd, !.branch = head,
                                         !.seen = state, !.queue = Records(cmd, state, head)]]
      /\ UNCHANGED <<ledger, head, tree, kills>>

(* A note names the task it finds under the lock.                          *)
Note(p) ==
  LET state == ScopedState(head)
  IN  /\ Begins(p) /\ lock = None /\ AcceptsEvidence(head)
      /\ lock' = p
      /\ session' = [session EXCEPT ![p] =
                       [NoCommand EXCEPT !.pc = "helper", !.cmd = "note", !.branch = head,
                                         !.seen = state,
                                         !.queue = <<Record("note", state.task, head, None,
                                                            state = Legacy)>>]]
      /\ UNCHANGED <<ledger, head, tree, kills>>

(* ledgerAppendContext, and the command starts.                            *)
Capture(p, cmd) ==
  /\ Begins(p) /\ AcceptsEvidence(head)
  /\ session' = [session EXCEPT ![p] =
                   [NoCommand EXCEPT !.pc = "running", !.cmd = cmd, !.branch = head,
                                     !.seen = ScopedState(head)]]
  /\ UNCHANGED <<ledger, head, tree, lock, kills>>

(* checkoutSnapshot, after the command has ended.                          *)
Fingerprint(p) ==
  /\ session[p].pc = "running"
  /\ session' = [session EXCEPT ![p].pc = "decide", ![p].snapshot = tree[head]]
  /\ UNCHANGED <<ledger, head, tree, lock, kills>>

Evidence(p) ==
  Record(session[p].cmd, session[p].seen.task, session[p].branch, session[p].snapshot,
         session[p].seen = Legacy)

Unmoved(p) ==
  /\ head = session[p].branch
  /\ SameBoundary(session[p].seen, DeriveTask(On(session[p].branch)))
  /\ AcceptsEvidence(head)

(* A slip: the recorder trusts what it captured.                           *)
DecideRecordTrusting(p) ==
  /\ session[p].pc = "decide" /\ lock = None /\ head = session[p].branch
  /\ lock' = p
  /\ session' = [session EXCEPT ![p].pc = "helper", ![p].queue = <<Evidence(p)>>]
  /\ UNCHANGED <<ledger, head, tree, kills>>

DecideRecord(p) ==
  /\ session[p].pc = "decide" /\ lock = None /\ Unmoved(p)
  /\ lock' = p
  /\ session' = [session EXCEPT ![p].pc = "helper", ![p].queue = <<Evidence(p)>>]
  /\ UNCHANGED <<ledger, head, tree, kills>>

(* A slip: waiting for the lock without a deadline.                        *)
RefuseMoved(p) ==
  session[p].pc = "decide" /\ lock = None /\ ~Unmoved(p) /\ End(p) /\ UNCHANGED ledger

(* The checkout or the task moved, or the lock stayed taken until the      *)
(* deadline: nothing is recorded.                                          *)
RefuseRecord(p) ==
  /\ session[p].pc = "decide"
  /\ lock # None \/ ~Unmoved(p)
  /\ End(p)
  /\ UNCHANGED ledger

-----------------------------------------------------------------------------
(* The helper: beforeCommit compares the branch, then the records appear.  *)
BeforeCommit(p) ==
  /\ session[p].pc = "helper" /\ head = session[p].branch
  /\ session' = [session EXCEPT ![p].pc = "commit"]
  /\ UNCHANGED <<ledger, head, tree, lock, kills>>

(* A slip: the first record becomes visible without the second.            *)
CommitOneByOne(p) ==
  /\ session[p].pc = "commit"
  /\ ledger' = Append(ledger, Head(session[p].queue))
  /\ IF Len(session[p].queue) = 1 THEN End(p)
     ELSE /\ session' = [session EXCEPT ![p].queue = Tail(session[p].queue)]
          /\ UNCHANGED <<head, tree, lock, kills>>

Commit(p) ==
  /\ session[p].pc = "commit"
  /\ ledger' = ledger \o session[p].queue
  /\ End(p)

HelperFails(p) ==
  /\ session[p].pc \in {"helper", "commit"}
  /\ End(p)
  /\ UNCHANGED ledger

(* The command is killed.  Its lock is recovered from the dead owner, but  *)
(* a helper it started goes on.                                            *)
Kill(p) ==
  /\ session[p].pc # "idle" /\ ~session[p].orphan /\ kills < MaxKills
  /\ kills' = kills + 1
  /\ Release(p)
  /\ session' = [session EXCEPT ![p] = IF session[p].pc \in {"helper", "commit"}
                                       THEN [session[p] EXCEPT !.orphan = TRUE]
                                       ELSE NoCommand]
  /\ UNCHANGED <<ledger, head, tree>>

Proceed(p) ==
  \/ Fingerprint(p) \/ DecideRecord(p) \/ RefuseRecord(p)
  \/ BeforeCommit(p) \/ Commit(p) \/ HelperFails(p)

Command(p) ==
  \/ \E cmd \in Transitions : Transition(p, cmd)
  \/ \E cmd \in Recorders : Capture(p, cmd)
  \/ Note(p) \/ Proceed(p) \/ Kill(p)

Next ==
  \/ \E b \in Branches : Checkout(b)
  \/ \E t \in Trees : Edit(t)
  \/ \E p \in Sessions : Command(p)

Spec == Init /\ [][Next]_vars

(* A command once begun proceeds, what it runs ends, and so does a helper. *)
FairSpec == Spec /\ \A p \in Sessions : WF_vars(Proceed(p))

-----------------------------------------------------------------------------
Event ==
  [event : Transitions \union {"note"}, task : TaskIds \union {None}, branch : Branches,
   snapshot : {None}, legacyFlow : BOOLEAN]
    \union
  [event : Recorders, task : TaskIds \union {None}, branch : Branches,
   snapshot : Trees, legacyFlow : BOOLEAN]

(* Every variable keeps its type; a recorder's event carries a snapshot.   *)
TypeOK ==
  /\ \A i \in 1 .. Len(ledger) : ledger[i] \in Event
  /\ head \in Branches /\ tree \in [Branches -> Trees] /\ kills \in 0 .. MaxKills
  /\ \A p \in Sessions :
       /\ session[p].pc \in {"idle", "running", "decide", "helper", "commit"}
       /\ \A i \in 1 .. Len(session[p].queue) : session[p].queue[i] \in Event

HelperAtWork(s) == s.pc \in {"helper", "commit"}

(* The lock is held exactly by the living command whose helper is at work: *)
(* no command ends, fails or is killed and leaves it behind, and no helper *)
(* of a living command works without it (withLedgerLock).                  *)
HelperHoldsLock ==
  /\ lock \in Sessions \union {None}
  /\ \A p \in Sessions : lock = p <=> HelperAtWork(session[p]) /\ ~session[p].orphan

(* However sessions, branch switches and edits interleave, no branch's     *)
(* boundaries become malformed: a start never replaces an active task, a   *)
(* close never names another one (startTask, finishTask, resetTask); as    *)
(* long as no command is killed, whose helper would write outside the lock.*)
BoundariesAlternate == kills = 0 => \A b \in Branches : DeriveTask(On(b)) # Invalid

(* The ledger stays well formed, and locked for as long as a living        *)
(* command's helper works on it.                                           *)
LedgerIsSound == TypeOK /\ HelperHoldsLock /\ BoundariesAlternate

(* Evidence stands in the ledger between the start and the close of the    *)
(* task it was captured for, or, captured without a task, before the first *)
(* task of its branch: work of one task never counts for another, as long  *)
(* as no command is killed (withCapturedLedgerIdentity).                   *)
EvidenceInsideTask ==
  kills = 0 => \A b \in Branches : LET events == On(b) IN
    \A i \in 1 .. Len(events) : events[i].event \in Evidences =>
      DeriveTask(SubSeq(events, 1, i - 1)) =
        IF events[i].task = None THEN Legacy ELSE Active(events[i].task)

(* While a session holds the lock the ledger does not change under it,     *)
(* except by the helper of a command that was killed (withLedgerLock, and  *)
(* runNativeLedgerMutation whose child outlives its parent).               *)
LockGuardsLedger ==
  [][\A p \in Sessions :
       lock = p /\ lock' = p /\ ledger' # ledger
         => \E q \in Sessions : session[q].orphan /\ session'[q].pc = "idle"]_vars

(* Every command ends, though lock owners are killed and the lock is       *)
(* always taken by someone else: the wait has a deadline (withLedgerLock). *)
EveryCommandEnds ==
  \A p \in Sessions : session[p].pc # "idle" ~> session[p].pc = "idle"

(* The commands implement the abstract tasks: each start, finish and reset *)
(* is one step, recorders none, and a reset never shows the branch idle;   *)
(* as long as no command is killed.                                        *)
TasksOf(name) == {ledger[i].task : i \in {j \in 1 .. Len(ledger) : ledger[j].event = name}}

AbstractTasks ==
  INSTANCE Tasks WITH task <- [b \in Branches |-> DeriveTask(On(b))],
                      opened <- TasksOf("task-start"), finished <- TasksOf("task-finish")

ImplementsTasks ==
  /\ AbstractTasks!Init
  /\ [][kills' = 0 => [AbstractTasks!Next]_AbstractTasks!vars]_vars
=============================================================================
