-------------------------------- MODULE Tasks --------------------------------
(***************************************************************************)
(* What the task commands promise about a branch: at most one task at a    *)
(* time, opened and closed explicitly, and never a task id used twice.  A  *)
(* reset swaps one task for the next in a single step.                     *)
(***************************************************************************)
CONSTANTS Branches, TaskIds, None

VARIABLES task,     \* per branch: legacy, idle, or the active task
          opened,   \* the ids of the tasks ever started
          finished \* the ids of those that were finished, not abandoned

vars == <<task, opened, finished>>

Legacy == [state |-> "legacy", task |-> None]
Idle == [state |-> "idle", task |-> None]
Active(t) == [state |-> "active", task |-> t]

Init == task = [b \in Branches |-> Legacy] /\ opened = {} /\ finished = {}

Open(b, t) ==
  /\ t \notin opened
  /\ task' = [task EXCEPT ![b] = Active(t)]
  /\ opened' = opened \union {t}
  /\ UNCHANGED finished

Start(b, t) == task[b].state # "active" /\ Open(b, t)

Reset(b, t) == task[b].state = "active" /\ Open(b, t)

Finish(b) ==
  /\ task[b].state = "active"
  /\ task' = [task EXCEPT ![b] = Idle]
  /\ finished' = finished \union {task[b].task}
  /\ UNCHANGED opened

Next == \E b \in Branches : Finish(b) \/ \E t \in TaskIds : Start(b, t) \/ Reset(b, t)

Spec == Init /\ [][Next]_vars
=============================================================================
