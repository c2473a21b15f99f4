--------------------------- MODULE ReviewLifecycle ---------------------------
(***************************************************************************)
(* The life of a review request (cli/review.mjs): dispatched with a brief  *)
(* written outside the repository, recorded in the ledger, answered by the *)
(* runner the command waits for, by a result handed in later, or by a      *)
(* cleanup; its brief wiped once it is closed.                             *)
(*                                                                         *)
(* Sessions race each other, and the checkout, its branch and its task     *)
(* change under them.  Tasks change as module Tasks says.                  *)
(*                                                                         *)
(* Under the ledger lock a command compares and then hands its record to a *)
(* helper process, which publishes it: two steps, between which the lock   *)
(* keeps other commands out of the ledger and nobody out of the checkout.  *)
(* Of a killed command the helper may live on.                             *)
(***************************************************************************)
EXTENDS Naturals, Sequences, FiniteSets

CONSTANTS
  Sessions,     \* processes running stdd review
  Branches, TaskIds, Trees, None,
  MaxRequests,  \* bound: briefs written
  MaxRounds,    \* config.review.maxRounds
  MaxFaults     \* bound: commands killed, helpers that fail

ASSUME ReviewAssumption ==
  /\ Branches # {} /\ Trees # {}
  /\ MaxRequests \in Nat /\ MaxRounds \in Nat \ {0} /\ MaxFaults \in Nat

VARIABLES
  task, opened, finished,  \* per branch, the task: module Tasks
  head,      \* the branch checked out
  tree,      \* per branch, what reviewSnapshot would be
  requests,  \* the review requests of the ledger, each with its outcomes
  brief,     \* per id, the private brief: absent, kept or wiped
  session,   \* per session, the command it runs
  faults     \* faults so far

checkout == <<task, opened, finished, head, tree>>
vars == <<checkout, requests, brief, session, faults>>

Lifecycle == INSTANCE Tasks

Ids == 1 .. MaxRequests
Routes == {"subagent", "cli"}
Verdicts == {"approved", "changes-requested", "error"}

NoSession ==
  [pc |-> "idle", id |-> None, via |-> None, branch |-> None, task |-> None,
   snapshot |-> None, output |-> None, todo |-> {}]

-----------------------------------------------------------------------------
Index(id) == CHOOSE i \in 1 .. Len(requests) : requests[i].id = id
Recorded(id) == \E i \in 1 .. Len(requests) : requests[i].id = id
Request(id) == requests[Index(id)]
Open(id) == Recorded(id) /\ Request(id).outcomes = <<>>

(* Where the ledger has the requests of the task in progress on a branch.  *)
Scoped(b) ==
  {i \in 1 .. Len(requests) :
     task[b].state = "active" /\ requests[i].branch = b /\ requests[i].task = task[b]}

VerdictIs(v, r) == \E i \in 1 .. Len(r.outcomes) : r.outcomes[i].verdict = v

Spent(b) == Cardinality({i \in Scoped(b) : VerdictIs("changes-requested", requests[i])})

Unmoved(p) == head = session[p].branch /\ task[head] = session[p].task

(* The ledger lock is held from the comparison to the publication; that of *)
(* a killed command is recovered.                                          *)
Free == \A p \in Sessions : session[p].pc # "publishing"

Init ==
  /\ Lifecycle!Init
  /\ head \in Branches
  /\ tree \in {[b \in Branches |-> t] : t \in Trees}
  /\ requests = <<>>
  /\ brief = [id \in Ids |-> "absent"]
  /\ session = [p \in Sessions |-> NoSession]
  /\ faults = 0

-----------------------------------------------------------------------------
(* The checkout changes at any time.                                       *)
Checkout(b) ==
  /\ head' = b
  /\ UNCHANGED <<task, opened, finished, tree, requests, brief, session, faults>>

Edit(t) ==
  /\ tree' = [tree EXCEPT ![head] = t]
  /\ UNCHANGED <<task, opened, finished, head, requests, brief, session, faults>>

(* A task command waits for the lock; the helper of a killed one does not. *)
ChangeTask ==
  /\ Lifecycle!Finish(head)
       \/ \E t \in TaskIds : Lifecycle!Start(head, t) \/ Lifecycle!Reset(head, t)
  /\ IF Free THEN UNCHANGED faults ELSE faults < MaxFaults /\ faults' = faults + 1
  /\ UNCHANGED <<head, tree, requests, brief, session>>

-----------------------------------------------------------------------------
Become(p, s) == session' = [session EXCEPT ![p] = s]
Quit(p) == Become(p, NoSession)
At(p, pc) == session[p].pc = pc

(* reviewRun: the context and the budget, then the material.  That a round *)
(* past the budget was forced is recorded, and read by nobody here.        *)
Dispatch(p, via, forced) ==
  /\ At(p, "idle") /\ task[head].state = "active"
  /\ forced \/ Spent(head) < MaxRounds
  /\ Become(p, [NoSession EXCEPT !.pc = "building", !.via = via, !.branch = head,
                                 !.task = task[head], !.snapshot = tree[head]])
  /\ UNCHANGED <<checkout, requests, brief, faults>>

(* The brief is built, and the checkout compared with what was captured;   *)
(* the id is random, its private directory new.                            *)
BuildBrief(p) ==
  /\ At(p, "building") /\ Unmoved(p) /\ tree[head] = session[p].snapshot
  /\ \E id \in Ids :
       /\ brief[id] = "absent" /\ \A j \in 1 .. id - 1 : brief[j] # "absent"
       /\ brief' = [brief EXCEPT ![id] = "kept"]
       /\ Become(p, [session[p] EXCEPT !.pc = "requesting", !.id = id])
  /\ UNCHANGED <<checkout, requests, faults>>

RefuseBrief(p) ==
  /\ At(p, "building")
  /\ ~(Unmoved(p) /\ tree[head] = session[p].snapshot)
  /\ Quit(p)
  /\ UNCHANGED <<checkout, requests, brief, faults>>

Wipe(p) == brief' = [brief EXCEPT ![session[p].id] = "wiped"]

(* What a command hands to its helper: a request, an outcome of one.       *)
NewRequest(p) ==
  [id |-> session[p].id, via |-> session[p].via, branch |-> session[p].branch,
   task |-> session[p].task, snapshot |-> session[p].snapshot, outcomes |-> <<>>]

Outcome(p, by) ==
  [verdict |-> session[p].output, by |-> by,
   snapshot |-> IF session[p].output = "cancelled" THEN None ELSE session[p].snapshot]

Published(p, by) ==
  IF session[p].output = "request" THEN Append(requests, NewRequest(p))
  ELSE [requests EXCEPT ![Index(session[p].id)].outcomes = Append(@, Outcome(p, by))]

HandOver(p, id, output, todo) ==
  Become(p, [session[p] EXCEPT !.pc = "publishing", !.id = id, !.output = output, !.todo = todo])

RecordRequest(p) ==
  /\ At(p, "requesting") /\ Free /\ Unmoved(p)
  /\ HandOver(p, session[p].id, "request", {})
  /\ UNCHANGED <<checkout, requests, brief, faults>>

(* A slip: the brief of a request that is not recorded stays.              *)
RefuseRequestKeeping(p) ==
  /\ At(p, "requesting") /\ ~(Free /\ Unmoved(p))
  /\ Quit(p)
  /\ UNCHANGED <<checkout, requests, brief, faults>>

(* Refused, or the lock not to be had in time.                             *)
RefuseRequest(p) ==
  /\ At(p, "requesting") /\ ~(Free /\ Unmoved(p))
  /\ Wipe(p) /\ Quit(p)
  /\ UNCHANGED <<checkout, requests, faults>>

-----------------------------------------------------------------------------
(* The runner ends, or is ended at its timeout; then the checkout and the  *)
(* task are compared with those at dispatch.                               *)
RunnerReturns(p, output) ==
  /\ At(p, "reviewing")
  /\ Become(p, [session[p] EXCEPT !.pc = "returned", !.output = output])
  /\ UNCHANGED <<checkout, requests, brief, faults>>

JudgeMoved(p) ==
  /\ At(p, "returned") /\ ~Unmoved(p)
  /\ Become(p, [session[p] EXCEPT !.pc = "cancel"])
  /\ UNCHANGED <<checkout, requests, brief, faults>>

(* A result for another checkout than the dispatched one is an error.      *)
Graded(p, output) == IF tree[head] = session[p].snapshot THEN output ELSE "error"

(* A slip: the result is taken as it comes.                                *)
JudgeHasty(p) ==
  /\ At(p, "returned") /\ Unmoved(p)
  /\ Become(p, [session[p] EXCEPT !.pc = "verdict", !.snapshot = tree[head]])
  /\ UNCHANGED <<checkout, requests, brief, faults>>

Judge(p) ==
  /\ At(p, "returned") /\ Unmoved(p)
  /\ Become(p, [session[p] EXCEPT !.pc = "verdict", !.snapshot = tree[head],
                                  !.output = Graded(p, session[p].output)])
  /\ UNCHANGED <<checkout, requests, brief, faults>>

(* reviewSubmit: the newest request of the task, if open and a subagent's. *)
Submit(p) ==
  \E i \in Scoped(head) :
    LET last == requests[i]
    IN  /\ At(p, "idle") /\ \A j \in Scoped(head) : j <= i
        /\ last.outcomes = <<>> /\ last.via = "subagent"
        /\ Become(p, [NoSession EXCEPT !.pc = "submitting", !.id = last.id, !.via = last.via,
                                       !.branch = head, !.task = task[head],
                                       !.snapshot = last.snapshot])
        /\ UNCHANGED <<checkout, requests, brief, faults>>

GradeSubmission(p, output) ==
  /\ At(p, "submitting") /\ Unmoved(p) /\ brief[session[p].id] = "kept"
  /\ Become(p, [session[p] EXCEPT !.pc = "verdict", !.snapshot = tree[head],
                                  !.output = Graded(p, output)])
  /\ UNCHANGED <<checkout, requests, brief, faults>>

RefuseSubmission(p) ==
  /\ At(p, "submitting") /\ ~(Unmoved(p) /\ brief[session[p].id] = "kept")
  /\ Quit(p)
  /\ UNCHANGED <<checkout, requests, brief, faults>>

-----------------------------------------------------------------------------
(* recordReview: compared under the lock.                                  *)
VerdictFits(p) == Unmoved(p) /\ tree[head] = session[p].snapshot

(* A slip: whether the request is still open is not looked at again.       *)
RecordVerdictAgain(p) ==
  /\ At(p, "verdict") /\ Free /\ VerdictFits(p)
  /\ HandOver(p, session[p].id, session[p].output, {})
  /\ UNCHANGED <<checkout, requests, brief, faults>>

RecordVerdict(p) ==
  /\ At(p, "verdict") /\ Free /\ VerdictFits(p) /\ Open(session[p].id)
  /\ HandOver(p, session[p].id, session[p].output, {})
  /\ UNCHANGED <<checkout, requests, brief, faults>>

RefuseVerdict(p) ==
  /\ At(p, "verdict") /\ ~(Free /\ VerdictFits(p) /\ Open(session[p].id))
  /\ Quit(p)
  /\ UNCHANGED <<checkout, requests, brief, faults>>

(* cancelCapturedReviewRequest, wherever the checkout is by now.           *)
CancelCaptured(p) ==
  /\ At(p, "cancel") /\ Free /\ Open(session[p].id)
  /\ HandOver(p, session[p].id, "cancelled", {})
  /\ UNCHANGED <<checkout, requests, brief, faults>>

AlreadyClosed(p) ==
  /\ At(p, "cancel") /\ ~(Free /\ Open(session[p].id))
  /\ Quit(p)
  /\ UNCHANGED <<checkout, requests, brief, faults>>

-----------------------------------------------------------------------------
(* reviewCleanup: all requests of the branch, of whichever task, one by    *)
(* one; the open ones are cancelled, the closed ones settled again.  Those *)
(* with two outcomes are left alone.                                       *)
Contested(id) == Recorded(id) /\ Len(Request(id).outcomes) > 1

Cleanup(p) ==
  LET mine == {requests[i].id : i \in {j \in 1 .. Len(requests) :
                                         requests[j].branch = head /\ ~Contested(requests[j].id)}}
  IN  /\ At(p, "idle") /\ mine # {}
      /\ Become(p, [NoSession EXCEPT !.pc = "cleaning", !.branch = head, !.task = task[head],
                                     !.todo = mine])
      /\ UNCHANGED <<checkout, requests, brief, faults>>

Done(p, id) == session[p].todo \ {id}
Proceed(p, todo) ==
  IF todo = {} THEN Quit(p) ELSE Become(p, [session[p] EXCEPT !.pc = "cleaning", !.todo = todo])

CleanOpen(p, id) ==
  /\ At(p, "cleaning") /\ id \in session[p].todo /\ Free /\ Unmoved(p) /\ Open(id)
  /\ HandOver(p, id, "cancelled", Done(p, id))
  /\ UNCHANGED <<checkout, requests, brief, faults>>

CleanClosed(p, id) ==
  /\ At(p, "cleaning") /\ id \in session[p].todo /\ Free /\ Unmoved(p)
  /\ ~Open(id) /\ ~Contested(id)
  /\ Become(p, [session[p] EXCEPT !.pc = "settle", !.id = id, !.todo = Done(p, id)])
  /\ UNCHANGED <<checkout, requests, brief, faults>>

(* The checkout or the task moved, or the lock is not to be had: left.     *)
CleanRefused(p, id) ==
  /\ At(p, "cleaning") /\ id \in session[p].todo
  /\ ~(Free /\ Unmoved(p)) \/ Contested(id)
  /\ Proceed(p, Done(p, id))
  /\ UNCHANGED <<checkout, requests, brief, faults>>

-----------------------------------------------------------------------------
(* The helper publishes.  For a verdict and a request it looks at the      *)
(* branch before the rename, and the branch may change after that look.    *)
Publish(p) ==
  /\ At(p, "publishing")
  /\ requests' = Published(p, "command")
  /\ IF session[p].output # "request" THEN Become(p, [session[p] EXCEPT !.pc = "settle"])
     ELSE IF session[p].via = "cli" THEN Become(p, [session[p] EXCEPT !.pc = "reviewing"])
     ELSE Quit(p)
  /\ UNCHANGED <<checkout, brief, faults>>

(* What the command does at an error: a request's brief is wiped, a        *)
(* cleanup goes on to the next.                                            *)
Failed(p) ==
  /\ IF session[p].output = "request" THEN Wipe(p) ELSE UNCHANGED brief
  /\ Proceed(p, session[p].todo)

HelperRefuses(p) ==
  /\ At(p, "publishing") /\ session[p].output # "cancelled" /\ head # session[p].branch
  /\ Failed(p)
  /\ UNCHANGED <<checkout, requests, faults>>

(* The helper fails: before the record is published, or after it, which    *)
(* the command takes for the same.                                         *)
HelperFails(p) ==
  /\ At(p, "publishing") /\ faults < MaxFaults
  /\ requests' \in {requests, Published(p, "command")}
  /\ faults' = faults + 1
  /\ Failed(p)
  /\ UNCHANGED checkout

(* The helper of a killed command publishes all the same, or does not.     *)
OrphanEnds(p) ==
  /\ At(p, "orphan")
  /\ requests' \in {requests, Published(p, "orphan")}
  /\ Quit(p)
  /\ UNCHANGED <<checkout, brief, faults>>

(* settlePreparedReviewBrief, once the outcome is recorded.                *)
Settle(p) ==
  /\ At(p, "settle")
  /\ Wipe(p) /\ Proceed(p, session[p].todo)
  /\ UNCHANGED <<checkout, requests, faults>>

(* The command is killed, whatever it was about to do.                     *)
Crash(p) ==
  /\ session[p].pc \notin {"idle", "orphan"} /\ faults < MaxFaults
  /\ faults' = faults + 1
  /\ IF At(p, "publishing") THEN Become(p, [session[p] EXCEPT !.pc = "orphan", !.todo = {}])
     ELSE Quit(p)
  /\ UNCHANGED <<checkout, requests, brief>>

Command(p) ==
  \/ \E via \in Routes, forced \in BOOLEAN : Dispatch(p, via, forced)
  \/ BuildBrief(p) \/ RefuseBrief(p)
  \/ RecordRequest(p) \/ RefuseRequest(p)
  \/ \E output \in Verdicts : RunnerReturns(p, output) \/ GradeSubmission(p, output)
  \/ JudgeMoved(p) \/ Judge(p) \/ Submit(p) \/ RefuseSubmission(p)
  \/ RecordVerdict(p) \/ RefuseVerdict(p) \/ CancelCaptured(p) \/ AlreadyClosed(p)
  \/ Cleanup(p) \/ Settle(p)
  \/ \E id \in Ids : CleanOpen(p, id) \/ CleanClosed(p, id) \/ CleanRefused(p, id)
  \/ Publish(p) \/ HelperRefuses(p) \/ HelperFails(p) \/ OrphanEnds(p)
  \/ Crash(p)

Next ==
  \/ \E b \in Branches : Checkout(b)
  \/ \E t \in Trees : Edit(t)
  \/ ChangeTask
  \/ \E p \in Sessions : Command(p)

Spec == Init /\ [][Next]_vars
-----------------------------------------------------------------------------
(* Every variable keeps its type.                                          *)
TypeOK ==
  /\ head \in Branches /\ tree \in [Branches -> Trees]
  /\ brief \in [Ids -> {"absent", "kept", "wiped"}]
  /\ \A i \in 1 .. Len(requests) :
       /\ requests[i].id \in Ids /\ requests[i].via \in Routes
       /\ requests[i].branch \in Branches /\ requests[i].snapshot \in Trees
       /\ \A k \in 1 .. Len(requests[i].outcomes) :
            requests[i].outcomes[k].verdict \in Verdicts \union {"cancelled"}
  /\ \A i, j \in 1 .. Len(requests) : requests[i].id = requests[j].id => i = j

(* Runner, hand-fed result, cancellation and cleanup race for a request:   *)
(* exactly one terminal outcome wins (recordReview,                        *)
(* cancelCapturedReviewRequest, reviewCleanup).  What the helper of a      *)
(* killed command publishes after all is not counted.                      *)
OneOutcome ==
  \A i \in 1 .. Len(requests) :
    \A k, l \in 1 .. Len(requests[i].outcomes) :
      requests[i].outcomes[k].by = "command" /\ requests[i].outcomes[l].by = "command" => k = l

(* An approval is handed to the helper only while the checkout, its branch *)
(* and its task are those the request was dispatched for; and the approval *)
(* published later, when the checkout may have moved, names the content of *)
(* the request, for readers to compare, while the task is still that of    *)
(* the request unless a killed command left a helper behind (recordReview, *)
(* commitActiveLedgerMutation).                                            *)
ApprovalOfWhatWasDispatched ==
  [][/\ \A p \in Sessions :
          session'[p].pc = "publishing" /\ ~At(p, "publishing")
            /\ session'[p].output = "approved"
          => LET r == Request(session'[p].id)
             IN  head = r.branch /\ task[head] = r.task /\ tree[head] = r.snapshot
     /\ \A i \in 1 .. Len(requests) :
          VerdictIs("approved", requests'[i]) /\ ~VerdictIs("approved", requests[i])
          => /\ \A k \in 1 .. Len(requests'[i].outcomes) :
                  requests'[i].outcomes[k].verdict = "approved" =>
                    requests'[i].outcomes[k].snapshot = requests[i].snapshot
             /\ faults = 0 => task[requests[i].branch] = requests[i].task]_vars

(* As long as no command is killed and no helper fails, the brief of an    *)
(* open request is there for its reviewer: it is wiped only once an        *)
(* outcome is recorded (reviewRun, settlePreparedReviewBrief).             *)
OpenKeepsItsBrief ==
  faults = 0 => \A id \in Ids : Open(id) => brief[id] = "kept"

(* And a brief left on disk can be found: its request is in the ledger,    *)
(* where cleanup looks, or the command that wrote it is about to record    *)
(* the request or to wipe the brief (reviewRun, reviewCleanup).            *)
BriefIsReachable ==
  faults = 0 => \A id \in Ids : brief[id] = "kept" =>
    Recorded(id) \/ \E p \in Sessions :
      session[p].pc \in {"requesting", "publishing"} /\ session[p].id = id

(* The brief on disk and the request in the ledger live and end together.  *)
BriefFollowsRequest == TypeOK /\ OpenKeepsItsBrief /\ BriefIsReachable
=============================================================================
