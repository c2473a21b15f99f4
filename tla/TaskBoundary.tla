---------------------------- MODULE TaskBoundary ----------------------------
(***************************************************************************)
(* Deriving the task of a branch from its ledger events                    *)
(* (deriveTaskState and scopeTaskEvents of sdk/workflow.mjs), and the      *)
(* comparison of two derived states (sameTaskBoundary of cli/ledger.mjs).  *)
(* No state: operators over sequences of events.                           *)
(***************************************************************************)
EXTENDS Naturals, Sequences

CONSTANT None  \* no task

Closes == {"task-finish", "task-reset"}
Boundaries == Closes \union {"task-start"}

Legacy == [state |-> "legacy", task |-> None]
Idle == [state |-> "idle", task |-> None]
Invalid == [state |-> "invalid", task |-> None]
Active(t) == [state |-> "active", task |-> t]

(* The element of a singleton: TLC computes it once, however often it is   *)
(* used afterwards.                                                        *)
TheOne(S) == CHOOSE x \in S : TRUE

IsBoundary(e) == e.event \in Boundaries

StartsBefore(events, n, t) ==
  \E i \in 1 .. n - 1 : events[i].event = "task-start" /\ events[i].task = t

(* The derived state after event n, given the one before it.               *)
AfterStart(events, n, before) ==
  IF StartsBefore(events, n, events[n].task) \/ before.state = "active"
  THEN Invalid
  ELSE Active(events[n].task)

AfterClose(events, n, before) == IF before = Active(events[n].task) THEN Idle ELSE Invalid

(* A slip: the walk goes on after a malformed event.                       *)
AfterEventRecovering(events, n, before) ==
  IF ~IsBoundary(events[n]) THEN before
  ELSE IF events[n].event = "task-start" THEN AfterStart(events, n, before)
  ELSE AfterClose(events, n, before)

AfterEvent(events, n, before) ==
  IF before = Invalid \/ ~IsBoundary(events[n]) THEN before
  ELSE IF events[n].event = "task-start" THEN AfterStart(events, n, before)
  ELSE AfterClose(events, n, before)

DeriveTask(events) ==
  LET derived[n \in 0 .. Len(events)] ==
        IF n = 0 THEN Legacy
        ELSE TheOne({AfterEvent(events, n, before) : before \in {derived[n - 1]}})
  IN  derived[Len(events)]

StartOfTask(events, t) ==
  CHOOSE i \in 1 .. Len(events) : events[i].event = "task-start" /\ events[i].task = t

(* The events that name a task, from the first-th on.                      *)
EventsOf(events, first, t) ==
  LET kept[n \in 0 .. Len(events)] ==
        IF n < first THEN <<>>
        ELSE IF events[n].task = t THEN Append(kept[n - 1], events[n]) ELSE kept[n - 1]
  IN  kept[Len(events)]

(* Only the active task's events are in scope; a branch without any task   *)
(* boundary keeps all of its events.                                       *)
ScopeTask(events, state) ==
  CASE state = Legacy -> events
    [] state.state = "active" -> EventsOf(events, StartOfTask(events, state.task), state.task)
    [] OTHER -> <<>>

SameBoundary(expected, current) == expected = current /\ expected # Invalid

-----------------------------------------------------------------------------
(* What a well-formed history is, said without walking it: it begins with  *)
(* a start, starts and closes alternate, no task is started twice, and a   *)
(* close is of the task just started.                                      *)
Bounds(events) == {i \in 1 .. Len(events) : IsBoundary(events[i])}
Starts(events) == {i \in Bounds(events) : events[i].event = "task-start"}

Follows(events, i, j) == i < j /\ \A k \in Bounds(events) : k <= i \/ j <= k

WellFormed(events) ==
  /\ \A i \in Bounds(events) :
       (\A j \in Bounds(events) : i <= j) => i \in Starts(events)
  /\ \A i, j \in Bounds(events) : Follows(events, i, j) =>
       /\ i \in Starts(events) <=> j \notin Starts(events)
       /\ i \in Starts(events) => events[j].task = events[i].task
  /\ \A i, j \in Starts(events) : i # j => events[i].task # events[j].task

StateAfter(events, last) ==
  IF last \in Starts(events) THEN Active(events[last].task) ELSE Idle

ReferenceState(events) ==
  IF Bounds(events) = {} THEN Legacy
  ELSE IF ~WellFormed(events) THEN Invalid
  ELSE StateAfter(events, CHOOSE i \in Bounds(events) : \A j \in Bounds(events) : j <= i)
=============================================================================
