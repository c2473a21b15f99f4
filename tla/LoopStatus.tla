----------------------------- MODULE LoopStatus -----------------------------
(***************************************************************************)
(* What stdd tells an agent (cli/status.mjs): the next step of the loop,   *)
(* and the gate's reasons to refuse the end of a session; both derived     *)
(* from the ledger's events, the checkout and the plan, each in its own    *)
(* way.  Around them the agent that does what it is told, a forge, and     *)
(* everything else that happens in the repository meanwhile: edits while a *)
(* command runs, commits, plan boxes ticked by hand, results imported from *)
(* a worker, tasks closed, scope cuts deferred.                            *)
(*                                                                         *)
(* The ledger is that of one branch, and begins with whatever earlier      *)
(* sessions, merges and hands left in it.  Commands are one step, but for  *)
(* the run recorders, whose command takes its time.                        *)
(*                                                                         *)
(* The specification is LoopSpec, and the names TaskLedger has too are     *)
(* others here, so that one module may extend both.                        *)
(***************************************************************************)
EXTENDS TaskBoundary, FiniteSets

CONSTANTS
  TaskNames,
  Via,         \* config.review.via
  MaxCode,     \* bound: contents of the files, 0 being that of the base ref
  MaxTurns,    \* bound: changes nobody asked for, failures
  MaxPast, MaxHistory, MaxLoop
               \* bounds: events of the past; of one that is worked on; of all

ASSUME LoopAssumption ==
  /\ Via \in {"subagent", "codex"}
  /\ MaxCode \in Nat \ {0, 1} /\ MaxTurns \in Nat
  /\ MaxPast \in Nat /\ MaxHistory \in Nat
  /\ MaxLoop \in Nat

VARIABLES
  phase,      \* "past", then "now"
  events,     \* .stdd/ledger.jsonl, the events of this branch
  code,       \* content of the files that are neither canonical docs nor config
  written,    \* contents written so far
  docs,       \* the canonical docs differ from the base ref
  caps,       \* config.capabilities, a file like any other
  commits,    \* HEAD: commits so far
  committed,  \* the files of HEAD
  plan,       \* .stdd/plan.md
  onBase,     \* the branch is that of config.baseRef
  pr,         \* the pull request, as the forge tells it
  run,        \* the command a recorder waits for
  turns

files == <<code, docs, caps>>
checkout == <<files, written, commits, committed>>
loopVars == <<phase, events, checkout, plan, onBase, pr, run, turns>>

Code == 0 .. MaxCode
AllCaps == {"subagents", "crossCli"}
Routes == [subagent |-> "subagents", codex |-> "crossCli"]
Tree == Code \X BOOLEAN \X SUBSET AllCaps
Plans == [words : 0 .. 2, boxes : [slice : BOOLEAN, review : BOOLEAN], cuts : 0 .. 2]

(* No snapshot is the mark of none.                                        *)
ASSUME SnapshotAssumption == None \notin Nat \X Tree

(* What is stored has its type.                                            *)
LoopTypeOK ==
  /\ phase \in {"past", "now"}
  /\ \A i \in 1 .. Len(events) : events[i].task \in TaskNames \union {None}
  /\ written \in Code /\ code \in 0 .. written /\ docs \in BOOLEAN /\ caps \subseteq AllCaps
  /\ commits \in Nat /\ committed \in Tree
  /\ plan \in Plans \union {None} /\ onBase \in BOOLEAN
  /\ pr \in {"none", "unknown", "pending", "failing", "green"}
  /\ run \in {None} \union
       [kind : {"red", "verify"}, tagged : BOOLEAN, state : {Legacy} \union {Active(t) : t \in TaskNames}]

-----------------------------------------------------------------------------
(* Observations of the checkout.                                           *)
(* HEAD and the dirty files: a commit is another checkout.                 *)
checkoutSnapshot == <<commits, files>>

(* What baseRef...HEAD or git status lists.                                *)
docsChanged == docs \/ committed[2]
nonDocChanged == \E tree \in {files, committed} : tree[1] # 0 \/ tree[3] # AllCaps

(* A branch-only ledger on a clean base branch is no work in progress.     *)
legacyCheckoutIsIdle == onBase /\ ~docsChanged /\ ~nonDocChanged

(* scopeLedgerForCheckout: the state of the task and the events that count *)
(* for it.  What follows is computed from such a record, t.                *)
ScopedAs(state) == [state |-> state, events |-> ScopeTask(events, state)]
Scoped ==
  TheOne({ScopedAs(IF derived = Legacy /\ events # <<>> /\ legacyCheckoutIsIdle THEN Idle ELSE derived)
            : derived \in {DeriveTask(events)}})
State == Scoped.state
Recordable(t) == t.state \in {Legacy, Active(t.state.task)}

LastOf(t, Test(_)) ==
  CHOOSE i \in 0 .. Len(t.events) :
    /\ i = 0 \/ Test(t.events[i])
    /\ \A j \in i + 1 .. Len(t.events) : ~Test(t.events[j])
Some(t, Test(_)) == \E i \in 1 .. Len(t.events) : Test(t.events[i])

(* A plan the task found and nobody changed since is not its plan.         *)
taskPlanContent(t) ==
  IF plan = None \/ ~Recordable(t) THEN None
  ELSE IF t.state # Legacy /\ Head(t.events).plan = plan THEN None
  ELSE plan

(* What differs from the base ref, committed or not.                       *)
changedContentFingerprints == files

(* A slip: the deferred cuts are part of what was reviewed.                *)
PlanWithCuts(t) == IF taskPlanContent(t) = None THEN None ELSE <<plan.words, plan.cuts>>

(* The plan's words: not its boxes, not its deferred cuts.                 *)
normalizedPlanContent(t) == IF taskPlanContent(t) = None THEN None ELSE plan.words

reviewSnapshot(t) == <<changedContentFingerprints, normalizedPlanContent(t)>>

-----------------------------------------------------------------------------
(* deriveLoopState: a red, an implementation, a green after that red.      *)
IsRed(e) == e.event = "red" /\ e.genuine
IsGreen(e) == e.event = "verify" /\ e.passed
LastRed(t) == LastOf(t, IsRed)

ImplDone(t) ==
  /\ LastRed(t) # 0
  /\ LET red == t.events[LastRed(t)]
     IN  IF red.imported THEN nonDocChanged ELSE red.snapshot # checkoutSnapshot

(* An imported green is stale: it was green in the worker's sandbox.  One  *)
(* recorded without a snapshot is taken at its word.                       *)
Stands(e) == ~e.imported /\ e.snapshot \in {None, checkoutSnapshot}

(* A slip: a green of before the red counts.                               *)
VerifyAnyTime(t) == Some(t, IsGreen) /\ Stands(t.events[LastOf(t, IsGreen)])

VerifyDone(t) == LastOf(t, IsGreen) > LastRed(t) /\ Stands(t.events[LastOf(t, IsGreen)])

IsDocs(e) == e.event = "docs"

(* A slip: a decision counts against the diff that contradicts it.         *)
DocsContradicted(t) ==
  IF ~Some(t, IsDocs) THEN docsChanged
  ELSE (t.events[LastOf(t, IsDocs)].decision = "updated-first") # docsChanged

(* The docs decision, as far as the diff does not contradict it.           *)
DocsDone(t) ==
  IF ~Some(t, IsDocs) THEN docsChanged
  ELSE (t.events[LastOf(t, IsDocs)].decision = "updated-first") = docsChanged

IsReview(e) == e.event = "review"
Newest(t) == t.events[LastOf(t, IsReview)]
Verdict(t) == IF Some(t, IsReview) THEN Newest(t).verdict ELSE "none"

(* The newest verdict approves something else than what stands here.       *)
Stale(t) == Verdict(t) = "approved" /\ Newest(t).snapshot # reviewSnapshot(t)
Approved(t) == Verdict(t) = "approved" /\ ~Stale(t)

OpenRequests(t) ==
  {i \in 1 .. Len(t.events) :
     /\ t.events[i].event = "review-request"
     /\ ~Some(t, LAMBDA e : e.event \in {"review", "review-cancelled"}
                            /\ e.request = t.events[i].id)}

(* planProgress: a box is a claim; the proof is a red whose command has    *)
(* the item's tag, or the newest verdict.                                  *)
SliceProven(t) == Some(t, LAMBDA e : IsRed(e) /\ e.tagged)
HasItems(t) == taskPlanContent(t) # None /\ plan.words > 0
PlanNext(t) ==
  CASE ~HasItems(t) -> "none"
    [] HasItems(t) /\ ~(plan.boxes.slice /\ SliceProven(t)) -> "slice"
    [] HasItems(t) /\ plan.boxes.slice /\ SliceProven(t) -> IF Approved(t) THEN "none" ELSE "review"
ReviewClaimed(t) == HasItems(t) /\ plan.boxes.review

(* A slip: a verdict no plan and no slice asked for is not looked at.      *)
ReviewExpectedByPlan(t) ==
  taskPlanContent(t) # None \/ Some(t, LAMBDA e : e.event = "scope")

ReviewExpected(t) ==
  Verdict(t) # "none" \/ taskPlanContent(t) # None \/ Some(t, LAMBDA e : e.event = "scope")

ReviewDue(t) ==
  \/ PlanNext(t) = "review"
  \/ ReviewExpected(t) /\ ~Approved(t) /\ (caps # {} \/ Verdict(t) # "none")

-----------------------------------------------------------------------------
(* status: what to do next.  Nothing of the loop is told without a task.   *)
WithoutTask(t) == IF t.state = Invalid THEN "repair" ELSE "idle"

NextStep(t) ==
  CASE ~Recordable(t) -> WithoutTask(t)
    [] Recordable(t) ->
         IF pr = "failing" THEN "drive"
         ELSE IF ~DocsDone(t) THEN "docs"
         ELSE IF LastRed(t) = 0 THEN "red"
         ELSE IF ~ImplDone(t) THEN "implement"
         ELSE IF ~VerifyDone(t) THEN "verify"
         ELSE IF PlanNext(t) = "slice" THEN IF plan.boxes.slice THEN "prove" ELSE "continue"
         ELSE IF ReviewDue(t) THEN "review"
         ELSE [none |-> "evidence", pending |-> "drive", green |-> "done",
               unknown |-> "unknown"][pr]

(* status --gate and the stop hook: claims that are broken, and routes     *)
(* nothing can be dispatched over.                                         *)
gateReasons(t) ==
  LET refused == {Verdict(t)} \intersect {"changes-requested", "error"}
      stale == IF Stale(t) THEN {"stale"} ELSE {}
      unproven == IF ReviewClaimed(t) /\ Verdict(t) # "approved" THEN {"unproven"} ELSE {}
      broken == refused \union stale \union unproven
      noRoute == \/ \E i \in OpenRequests(t) : Routes[t.events[i].via] \notin caps
                 \/ broken # {} /\ OpenRequests(t) = {} /\ Routes[Via] \notin caps
  IN  CASE t.state = Idle -> {}
        [] t.state = Invalid -> {"malformed"}
        [] Recordable(t) -> broken \union (IF noRoute THEN {"route"} ELSE {})

-----------------------------------------------------------------------------
LoopInit ==
  /\ phase = "past" /\ events = <<>>
  /\ code = 0 /\ written = 0 /\ docs = FALSE /\ caps = AllCaps /\ commits = 0 /\ committed = files
  /\ plan = None /\ onBase = FALSE /\ pr = "none" /\ run = None /\ turns = 0

(* The past: any events, the well-formed and the malformed.                *)
PastEvents ==
  [event : {"task-start"}, task : TaskNames, plan : {None}]
    \union [event : Closes, task : TaskNames]
    \union [event : {"verify"}, task : TaskNames \union {None}, passed : {TRUE}, imported : {FALSE},
            snapshot : {None}]

Remember ==
  /\ phase = "past" /\ Len(events) < MaxPast
  /\ \E e \in PastEvents : events' = Append(events, e)
  /\ UNCHANGED <<phase, checkout, plan, onBase, pr, run, turns>>

OldPlan == [words |-> 1, boxes |-> [slice |-> FALSE, review |-> FALSE], cuts |-> 0]

Arrive ==
  /\ phase = "past" /\ Len(events) <= MaxHistory
  /\ phase' = "now" /\ plan' \in {None, OldPlan}
  /\ onBase' \in BOOLEAN /\ pr' \in {"none", "unknown"}
  /\ UNCHANGED <<events, checkout, run, turns>>

-----------------------------------------------------------------------------
Now == phase = "now" /\ UNCHANGED <<phase, onBase>>
Turn == turns < MaxTurns /\ turns' = turns + 1

(* One event under the ledger lock, for the state its command captured.    *)
RecordEvent(e) == Len(events) < MaxLoop /\ events' = Append(events, e) /\ UNCHANGED <<checkout, plan>>
Write(content) ==
  /\ written < MaxCode /\ code' = content /\ written' = IF content > written THEN content ELSE written
  /\ UNCHANGED <<docs, caps>>
EditFiles(content) == Write(content) /\ UNCHANGED <<events, commits, committed, plan>>
New == written + 1
EditPlan == UNCHANGED <<events, checkout>>
CommitFiles ==
  /\ files # committed /\ committed' = files /\ commits' = commits + 1
  /\ UNCHANGED <<events, files, written, plan>>

(* Each action with a step is what the step tells the agent to do.         *)
DecideDocs(t) ==
  /\ UNCHANGED <<pr, run>>
  /\ \/ /\ ~Some(t, IsDocs)
        /\ docs' = TRUE /\ UNCHANGED <<events, code, written, caps, commits, committed, plan>>
     \/ RecordEvent([event |-> "docs", task |-> t.state.task,
                decision |-> IF docsChanged THEN "updated-first" ELSE "checked"])

(* stdd red and stdd verify check that they may record, then wait for the  *)
(* command.                                                                *)
BeginRun(t, kind, tagged) ==
  /\ Recordable(t)
  /\ run' = [kind |-> kind, tagged |-> tagged, state |-> t.state]
  /\ UNCHANGED <<events, checkout, plan, pr>>

Implement == EditFiles(New) /\ UNCHANGED <<pr, run>>

(* The item is ticked, and sometimes what was not done with it.            *)
TickBoxes ==
  /\ \E review \in {plan.boxes.review, TRUE} :
       plan' = [plan EXCEPT !.boxes = [slice |-> TRUE, review |-> review]]
  /\ EditPlan /\ UNCHANGED <<pr, run>>

(* stdd review: fix what was objected to, then dispatch over a route the   *)
(* configuration has.                                                      *)
EnableRoute ==
  /\ Routes[Via] \notin caps /\ caps' = caps \union {Routes[Via]}
  /\ UNCHANGED <<events, code, written, docs, commits, committed, plan, pr, run>>

Dispatch(t) ==
  /\ Routes[Via] \in caps /\ UNCHANGED <<pr, run>>
  /\ RecordEvent([event |-> "review-request", task |-> t.state.task, id |-> Len(events), via |-> Via,
             snapshot |-> reviewSnapshot(t)])

CloseReview(t) ==
  /\ OpenRequests(t) = {}
  /\ IF Verdict(t) = "changes-requested" /\ Newest(t).snapshot = reviewSnapshot(t)
     THEN Implement ELSE EnableRoute \/ Dispatch(t)

(* stdd evidence, on what is committed; then the pull request.             *)
Publish ==
  /\ UNCHANGED run
  /\ \/ CommitFiles /\ UNCHANGED pr
     \/ files = committed /\ pr' = "pending" /\ UNCHANGED <<events, checkout, plan>>

(* A failing check: rerun it, or push something else.                      *)
Drive ==
  /\ pr = "failing" /\ pr' = "pending" /\ UNCHANGED <<run, plan, events>>
  /\ \/ UNCHANGED checkout
     \/ /\ Write(New)
        /\ committed' = files' /\ commits' = commits + 1

Agent ==
  /\ Now /\ run = None /\ UNCHANGED turns
  /\ \E t \in {Scoped} : \E step \in {NextStep(t)} :
       \/ step = "docs" /\ DecideDocs(t)
       \/ step = "red" /\ \E tagged \in BOOLEAN : BeginRun(t, "red", tagged)
       \/ step = "implement" /\ Implement
       \/ step = "verify" /\ BeginRun(t, "verify", FALSE)
       \/ step = "prove" /\ BeginRun(t, "red", TRUE)
       \/ step = "continue" /\ ~SliceProven(t) /\ BeginRun(t, "red", TRUE)
       \/ step = "continue" /\ SliceProven(t) /\ TickBoxes
       \/ step = "review" /\ CloseReview(t)
       \/ step = "evidence" /\ Publish
       \/ step = "drive" /\ Drive

(* The command has ended: with what it was to show, or not.  The snapshot  *)
(* is that of the checkout now.                                            *)
Outcome(t, shown) ==
  IF run.kind = "red"
  THEN [event |-> "red", task |-> t.state.task, genuine |-> shown, tagged |-> run.tagged,
        imported |-> FALSE, snapshot |-> checkoutSnapshot]
  ELSE [event |-> "verify", task |-> t.state.task, passed |-> shown,
        imported |-> FALSE, snapshot |-> checkoutSnapshot]

EndRun ==
  /\ Now /\ run # None /\ run' = None /\ UNCHANGED pr
  /\ \E t \in {Scoped} :
       IF SameBoundary(run.state, t.state)
       THEN \/ RecordEvent(Outcome(t, TRUE)) /\ UNCHANGED turns
            \/ RecordEvent(Outcome(t, FALSE)) /\ Turn
       ELSE UNCHANGED <<events, checkout, plan, turns>>

(* A slip: what stands here now is taken for what was reviewed.            *)
GradesOfWhatStands(t, request) == {"approved", "changes-requested", "error"}

(* The verdicts a result may be recorded with.                             *)
Grades(t, request) ==
  IF request.snapshot = reviewSnapshot(t) THEN {"approved", "changes-requested", "error"}
  ELSE {"error"}

(* The reviewer answers: stdd review --submit, or the runner's own result. *)
Answer ==
  /\ Now /\ UNCHANGED <<pr, run>>
  /\ \E t \in {Scoped} : \E i \in OpenRequests(t) : \E verdict \in Grades(t, t.events[i]) :
       /\ Recordable(t)
       /\ IF verdict = "approved" \/ t.events[i].snapshot # reviewSnapshot(t)
          THEN UNCHANGED turns ELSE Turn
       /\ RecordEvent([event |-> "review", task |-> t.state.task, request |-> t.events[i].id,
                  verdict |-> verdict, snapshot |-> reviewSnapshot(t)])

Forge ==
  /\ Now /\ pr = "pending" /\ pr' \in {"green", "failing"}
  /\ IF pr' = "green" THEN UNCHANGED turns ELSE Turn
  /\ UNCHANGED <<events, checkout, plan, run>>

-----------------------------------------------------------------------------
(* What else happens, at any time: each costs a turn.                      *)
Unasked == Now /\ Turn /\ UNCHANGED <<pr, run>>

TouchFiles ==
  /\ Unasked
  /\ \/ EditFiles(New)
     \/ code # 0 /\ EditFiles(0)
     \/ docs' = ~docs /\ UNCHANGED <<events, code, written, caps, commits, committed, plan>>
     \/ caps' \in SUBSET AllCaps /\ UNCHANGED <<events, code, written, docs, commits, committed, plan>>
     \/ CommitFiles

TouchPlan ==
  /\ Unasked /\ EditPlan
  /\ \/ plan # None /\ plan' = None
     \/ plan = None /\ plan' = OldPlan
     \/ plan # None /\ plan' = [plan EXCEPT !.words = 2]
     \/ plan # None /\ plan' = [plan EXCEPT !.boxes.slice = ~@]
     \/ plan # None /\ plan' = [plan EXCEPT !.boxes.review = ~@]

(* stdd defer: a scope cut below the plan, which it writes if there is none. *)
Defer ==
  /\ Unasked /\ State.state = "active" /\ EditPlan
  /\ IF plan = None THEN plan' = [OldPlan EXCEPT !.words = 0, !.cuts = 1]
     ELSE plan' = [plan EXCEPT !.cuts = IF @ < 2 THEN @ + 1 ELSE 2]

(* stdd task start, finish and reset; reset is both in one transaction.    *)
StartOf(t) == [event |-> "task-start", task |-> t, plan |-> plan]
Fresh == {t \in TaskNames : \A i \in 1 .. Len(events) : events[i].task # t}
SwitchTask ==
  /\ Unasked /\ UNCHANGED <<checkout, plan>>
  /\ \E state \in {DeriveTask(events)} :
       LET Closing(kind) == Append(events, [event |-> kind, task |-> state.task])
       IN  \/ /\ state \in {Legacy, Idle}
              /\ \E t \in Fresh : events' = Append(events, StartOf(t))
           \/ state.state = "active" /\ events' = Closing("task-finish")
           \/ /\ state.state = "active"
              /\ \E t \in Fresh : events' = Append(Closing("task-reset"), StartOf(t))

(* stdd worker collect brings the loop facts of a sandbox, stdd scope      *)
(* declares a slice, stdd review --cleanup cancels a request.              *)
Collected(task) ==
  [event : {"red"}, task : {task}, genuine : {TRUE}, tagged : BOOLEAN, imported : {TRUE},
   snapshot : {None}]
    \union [event : {"verify"}, task : {task}, passed : {TRUE}, imported : {TRUE},
            snapshot : {None}]
Others(t) ==
  Collected(t.state.task) \union [event : {"scope"}, task : {t.state.task}]
    \union [event : {"review-cancelled"}, task : {t.state.task},
            request : {t.events[i].id : i \in OpenRequests(t)}]

RecordOther ==
  /\ Unasked
  /\ \E t \in {Scoped} : Recordable(t) /\ \E e \in Others(t) : RecordEvent(e)

LoopNext ==
  \/ Remember \/ Arrive
  \/ Agent \/ EndRun \/ Answer \/ Forge
  \/ TouchFiles \/ TouchPlan \/ Defer \/ SwitchTask \/ RecordOther

(* The agent goes on, commands end, reviewers answer and checks finish.    *)
Fairness == WF_loopVars(Agent) /\ WF_loopVars(EndRun) /\ WF_loopVars(Answer) /\ WF_loopVars(Forge)

LoopSpec == LoopInit /\ [][LoopNext]_loopVars /\ Fairness

-----------------------------------------------------------------------------
(* Walking the events finds the same state as looking at the whole history *)
(* at once, and the events in scope are those of the active task alone:    *)
(* what a closed task proved never counts for another.                     *)
DerivationIsSound ==
  \E state \in {DeriveTask(events)} : \E scope \in {ScopeTask(events, state)} :
    /\ state = ReferenceState(events)
    /\ CASE state.state = "active" ->
              /\ scope # <<>> /\ Head(scope).event = "task-start"
              /\ \A i \in 1 .. Len(scope) :
                   scope[i].task = state.task /\ scope[i].event \notin Closes
         [] state = Legacy -> scope = events
         [] OTHER -> scope = <<>>

(* What status and the gate start from.                                    *)
ScopeIsSound == LoopTypeOK /\ DerivationIsSound

Finished(t) == NextStep(t) \in {"evidence", "done", "unknown"}

(* The oracle and the gate are computed apart from the same ledger: the    *)
(* oracle never calls work finished whose claims the gate still refuses.   *)
GateAgreesWithStatus ==
  phase = "now" => \A t \in {Scoped} : Finished(t) => gateReasons(t) \subseteq {"route"}

(* What status and the gate read is of one task, and they read it alike.   *)
StatusIsSound == ScopeIsSound /\ GateAgreesWithStatus

(* Work the oracle calls finished has, within the task, a genuine red and  *)
(* after it nothing but a green that still stands for this checkout.       *)
FinishedIsEarned ==
  phase = "now" => \A t \in {Scoped} : Finished(t) =>
    \E red, green \in 1 .. Len(events) :
      /\ IsRed(events[red]) /\ IsGreen(events[green]) /\ red < green
      /\ events[green].snapshot = checkoutSnapshot
      /\ \A i \in {red, green} : events[i].task = t.state.task
      /\ \A i \in green .. Len(events) : events[i].event \notin Boundaries /\ ~IsRed(events[i])

(* When the gate lets a session end over a checked [review:] box, this     *)
(* task had a request dispatched over exactly what stands here, and its    *)
(* answer, the newest verdict, approves.                                   *)
ClaimsAreProven ==
  phase = "now" => \A t \in {Scoped} : gateReasons(t) = {} /\ ReviewClaimed(t) =>
    \E request, review \in 1 .. Len(events) :
      /\ events[request].event = "review-request" /\ events[request].snapshot = reviewSnapshot(t)
      /\ IsReview(events[review]) /\ events[review].verdict = "approved"
      /\ events[review].request = events[request].id
      /\ \A i \in {request, review} : events[i].task = t.state.task
      /\ \A i \in review + 1 .. Len(events) : ~IsReview(events[i])

(* Neither the oracle's "done" nor the gate's silence is had for less.     *)
DoneIsProven == FinishedIsEarned /\ ClaimsAreProven

(* Ticking a box, recording a deferral or committing what was reviewed     *)
(* leaves an approval standing, where the task has a plan of its own.      *)
BookkeepingKeepsApproval ==
  [][phase = "now" /\ files' = files =>
       \A t \in {Scoped}, u \in {Scoped'} :
         /\ Approved(t) /\ u.state = t.state /\ LastOf(u, IsReview) = LastOf(t, IsReview)
         /\ taskPlanContent(t) # None /\ taskPlanContent(u)' # None /\ plan'.words = plan.words
         => Approved(u)']_loopVars

(* Who keeps doing what the oracle says, undisturbed at last, gets to the  *)
(* end: no advice undoes what an earlier one asked for, for ever.          *)
AdviceLeadsToFinish ==
  <>[](phase = "now" => NextStep(Scoped) \in {"done", "unknown", "repair", "idle"})
=============================================================================
