------------------------- MODULE ReviewLifecycle_proofs -------------------------
(***************************************************************************)
(* Proofs about ReviewLifecycle: one outcome per request, an approval only *)
(* of what was dispatched, and a brief that lives as long as its request.*)
(***************************************************************************)
EXTENDS ReviewLifecycle, SequenceTheorems, TLAPS

-----------------------------------------------------------------------------
(* The types of what the module stores.                                  *)
TaskStates == [state : {"legacy", "idle", "active"}, task : TaskIds \union {None}]
Outcomes ==
  [verdict : Verdicts \union {"cancelled"}, by : {"command", "orphan"},
   snapshot : Trees \union {None}]
RequestRecords ==
  [id : Ids, via : Routes, branch : Branches, task : TaskStates, snapshot : Trees,
   outcomes : Seq(Outcomes)]
PCs == {"idle", "building", "requesting", "reviewing", "returned", "cancel", "submitting",
        "verdict", "cleaning", "publishing", "orphan", "settle"}
Records == Verdicts \union {"cancelled", "request"}
SessionRecords ==
  [pc : PCs, id : Ids \union {None}, via : Routes \union {None}, branch : Branches \union {None},
   task : TaskStates \union {None}, snapshot : Trees \union {None},
   output : Records \union {None}, todo : SUBSET Ids]

Types ==
  /\ task \in [Branches -> TaskStates]
  /\ head \in Branches /\ tree \in [Branches -> Trees]
  /\ requests \in Seq(RequestRecords)
  /\ brief \in [Ids -> {"absent", "kept", "wiped"}]
  /\ session \in [Sessions -> SessionRecords]
  /\ faults \in Nat

(* What a command that has a brief knows of it.                          *)
Knows(s) == s.branch \in Branches /\ s.task \in TaskStates /\ s.snapshot \in Trees

(* A helper has the record of s; a request of s is on its way to the     *)
(* ledger.                                                               *)
HandedOver(s) == s.pc \in {"publishing", "orphan"}
Drawn(s) == s.pc = "requesting" \/ (HandedOver(s) /\ s.output = "request")

WellShaped(s) ==
  /\ s.pc = "building" => s.via \in Routes /\ Knows(s)
  /\ Drawn(s) => s.via \in Routes /\ s.id \in Ids /\ Knows(s)
  /\ s.pc \in {"reviewing", "returned", "cancel", "submitting", "verdict"} =>
       s.id \in Ids /\ Knows(s)
  /\ s.pc \in {"returned", "verdict"} => s.output \in Verdicts
  /\ HandedOver(s) => s.id \in Ids /\ s.output \in Records

SessionShape == \A p \in Sessions : WellShaped(session[p])

(* An id is drawn once, and a request that is about to be recorded has its *)
(* brief.                                                                *)
IdsAreDrawn ==
  /\ \A i, j \in 1 .. Len(requests) : requests[i].id = requests[j].id => i = j
  /\ \A i \in 1 .. Len(requests) : brief[requests[i].id] # "absent"
  /\ \A p \in Sessions : Drawn(session[p]) =>
       brief[session[p].id] = "kept" /\ ~Recorded(session[p].id)
  /\ \A p, q \in Sessions :
       Drawn(session[p]) /\ Drawn(session[q]) /\ session[p].id = session[q].id => p = q

(* The request s is about is r, as s has captured it; an approval it is  *)
(* about to record is one of the snapshot r was dispatched with.         *)
Captures(s, r) ==
  /\ r.id = s.id /\ r.branch = s.branch /\ r.task = s.task
  /\ s.pc \in {"reviewing", "returned", "submitting"} => r.snapshot = s.snapshot
  /\ s.pc \in {"verdict", "publishing", "orphan"} /\ s.output = "approved" =>
       r.snapshot = s.snapshot

CaptureIsTrue(s) ==
  /\ \/ s.pc \in {"reviewing", "returned", "cancel", "submitting", "verdict"}
     \/ HandedOver(s) /\ s.output = "approved"
     => \E i \in 1 .. Len(requests) : Captures(s, requests[i])
  /\ HandedOver(s) /\ s.output # "request" => Recorded(s.id)
  /\ s.pc = "settle" =>
       \E i \in 1 .. Len(requests) : requests[i].id = s.id /\ requests[i].outcomes # <<>>
  /\ \A id \in s.todo : Recorded(id)

CapturesAreTrue == \A p \in Sessions : CaptureIsTrue(session[p])

(* What the lock keeps: one command publishes at a time; nobody else has *)
(* answered the request it answers; the task it compared is still the    *)
(* task.                                                                 *)
Unanswered(r) == \A k \in 1 .. Len(r.outcomes) : r.outcomes[k].by # "command"

HoldIsTrue(s) ==
  /\ s.pc = "publishing" /\ s.output # "request" =>
       \A i \in 1 .. Len(requests) : requests[i].id = s.id => Unanswered(requests[i])
  /\ faults = 0 => s.pc # "orphan"
  /\ faults = 0 /\ s.pc = "publishing" /\ s.output = "approved" => task[s.branch] = s.task

LockIsHeld ==
  /\ \A p, q \in Sessions : At(p, "publishing") /\ At(q, "publishing") => p = q
  /\ \A p \in Sessions : HoldIsTrue(session[p])

IInv ==
  /\ Types /\ SessionShape /\ IdsAreDrawn /\ CapturesAreTrue /\ LockIsHeld
  /\ OneOutcome /\ OpenKeepsItsBrief /\ BriefIsReachable

-----------------------------------------------------------------------------
LEMMA NoSessionIsFine ==
  /\ NoSession \in SessionRecords /\ WellShaped(NoSession) /\ CaptureIsTrue(NoSession)
  /\ NoSession.pc = "idle" /\ ~Drawn(NoSession) /\ HoldIsTrue(NoSession)
BY DEF NoSession, SessionRecords, PCs, WellShaped, CaptureIsTrue, Drawn, HandedOver, HoldIsTrue

LEMMA InitInv == Init => IInv
<1> SUFFICES ASSUME Init PROVE IInv
  OBVIOUS
<1>1. Types
  BY NoSessionIsFine DEF Init, Lifecycle!Init, Lifecycle!Legacy, Types, TaskStates
<1>2. \A p \in Sessions : session[p] = NoSession
  BY DEF Init
<1>3. SessionShape /\ CapturesAreTrue /\ LockIsHeld
  BY <1>2, NoSessionIsFine DEF SessionShape, CapturesAreTrue, LockIsHeld, At
<1>4. Len(requests) = 0 /\ \A id \in Ids : brief[id] = "absent"
  BY DEF Init
<1>5. IdsAreDrawn /\ OneOutcome
  BY <1>2, <1>4, NoSessionIsFine DEF IdsAreDrawn, OneOutcome
<1>6. OpenKeepsItsBrief /\ BriefIsReachable
  BY <1>4 DEF OpenKeepsItsBrief, BriefIsReachable, Open, Recorded
<1> QED BY <1>1, <1>3, <1>5, <1>6 DEF IInv

LEMMA RequestTypes ==
  ASSUME IInv, NEW i \in 1 .. Len(requests)
  PROVE  /\ requests[i] \in RequestRecords /\ requests[i].id \in Ids
         /\ requests[i].snapshot \in Trees
<1>1. requests[i] \in RequestRecords
  BY DEF IInv, Types
<1> QED BY <1>1 DEF RequestRecords

(* An id names the request that has it.                                  *)
LEMMA IndexOf ==
  ASSUME IdsAreDrawn, NEW i \in 1 .. Len(requests)
  PROVE  Index(requests[i].id) = i
BY DEF IdsAreDrawn, Index

LEMMA IndexIsThere ==
  ASSUME NEW id, Recorded(id)
  PROVE  Index(id) \in 1 .. Len(requests) /\ requests[Index(id)].id = id
BY DEF Index, Recorded

(* A command goes on or ends, and the ledger and the briefs stay as they *)
(* are: what the invariant asks of its new record.                       *)
LEMMA SessionMoves ==
  ASSUME IInv, NEW p \in Sessions, NEW s \in SessionRecords, WellShaped(s), CaptureIsTrue(s),
         HoldIsTrue(s)', ~Drawn(s), s.pc = "publishing" => Free,
         session' = [session EXCEPT ![p] = s], UNCHANGED <<checkout, requests, brief>>,
         \/ faults' = faults /\ (~Drawn(session[p]) \/ faults # 0)
         \/ faults' = faults + 1
  PROVE  IInv'
<1>1. /\ session'[p] = s
      /\ \A q \in Sessions \ {p} : session'[q] = session[q]
  BY DEF IInv, Types
<1>2. requests' = requests /\ brief' = brief /\ task' = task
  BY DEF checkout
<1>3. Types'
  BY DEF IInv, Types, checkout
<1>4. SessionShape'
  BY <1>1 DEF IInv, SessionShape, WellShaped, Knows, Drawn, HandedOver
<1>5. IdsAreDrawn'
  BY <1>1, <1>2 DEF IInv, IdsAreDrawn, Recorded, Drawn, HandedOver
<1>6. CapturesAreTrue'
  BY <1>1, <1>2 DEF IInv, CapturesAreTrue, CaptureIsTrue, Captures, Recorded, HandedOver
<1>7. faults' = 0 => faults = 0 /\ ~Drawn(session[p])
  BY DEF IInv, Types
<1>8. LockIsHeld'
  <2>1. ASSUME NEW q \in Sessions PROVE HoldIsTrue(session[q])'
    <3>1. CASE q = p
      BY <1>1, <3>1 DEF HoldIsTrue, Unanswered
    <3>2. CASE q # p
      BY <1>1, <1>2, <1>7, <3>2 DEF IInv, LockIsHeld, HoldIsTrue, Unanswered
    <3> QED BY <3>1, <3>2
  <2>2. \A q \in Sessions : At(q, "publishing")' =>
          (q = p /\ s.pc = "publishing") \/ (q # p /\ At(q, "publishing"))
    BY <1>1 DEF At
  <2> QED BY <2>1, <2>2 DEF IInv, LockIsHeld, Free, At
<1>9. OneOutcome'
  BY <1>2 DEF IInv, OneOutcome
<1>10. OpenKeepsItsBrief'
  BY <1>2, <1>7 DEF IInv, OpenKeepsItsBrief, Open, Recorded, Request, Index
<1>11. BriefIsReachable'
  <2> SUFFICES ASSUME faults' = 0, NEW id \in Ids, brief[id] = "kept", ~Recorded(id)
               PROVE  \E q \in Sessions :
                        session'[q].pc \in {"requesting", "publishing"} /\ session'[q].id = id
    BY <1>2 DEF BriefIsReachable, Recorded
  <2>1. PICK q \in Sessions :
          session[q].pc \in {"requesting", "publishing"} /\ session[q].id = id
    BY <1>7 DEF IInv, BriefIsReachable
  <2>2. q # p
    BY <1>7, <2>1 DEF IInv, CapturesAreTrue, CaptureIsTrue, Drawn, HandedOver
  <2> QED BY <1>1, <2>1, <2>2
<1> QED BY <1>3, <1>4, <1>5, <1>6, <1>8, <1>9, <1>10, <1>11 DEF IInv

LEMMA QuitKeeps ==
  ASSUME IInv, NEW p \in Sessions, Quit(p), UNCHANGED <<checkout, requests, brief>>,
         \/ faults' = faults /\ (~Drawn(session[p]) \/ faults # 0)
         \/ faults' = faults + 1
  PROVE  IInv'
<1>1. HoldIsTrue(NoSession)' /\ NoSession.pc # "publishing"
  BY DEF NoSession, HoldIsTrue
<1> QED BY <1>1, SessionMoves, NoSessionIsFine DEF Quit, Become

(* The same for a command that goes on.                                  *)
LEMMA GoesOn ==
  ASSUME IInv, NEW p \in Sessions, NEW s \in SessionRecords, WellShaped(s), CaptureIsTrue(s),
         s.pc \notin {"requesting", "publishing", "orphan"}, Become(p, s), ~Drawn(session[p]),
         UNCHANGED <<checkout, requests, brief, faults>>
  PROVE  IInv'
<1>1. HoldIsTrue(s)' /\ ~Drawn(s)
  BY DEF HoldIsTrue, Drawn, HandedOver
<1> QED BY <1>1, SessionMoves DEF Become

(* And for one that hands over an outcome of an open request.            *)
LEMMA HandsOver ==
  ASSUME IInv, NEW p \in Sessions, NEW id \in Ids, NEW v \in Verdicts \union {"cancelled"},
         NEW todo, todo \subseteq session[p].todo, HandOver(p, id, v, todo), Free, Open(id),
         ~Drawn(session[p]), UNCHANGED <<checkout, requests, brief, faults>>,
         v = "approved" => At(p, "verdict") /\ Unmoved(p) /\ id = session[p].id
                           /\ v = session[p].output
  PROVE  IInv'
<1> DEFINE goal == [session[p] EXCEPT !.pc = "publishing", !.id = id, !.output = v, !.todo = todo]
<1>1. session[p] \in SessionRecords /\ v \in Records /\ v # "request"
  BY DEF IInv, Types, Records, Verdicts
<1>g. /\ goal \in SessionRecords /\ goal.pc = "publishing" /\ goal.id = id
      /\ goal.output = v /\ goal.todo = todo /\ goal.branch = session[p].branch
      /\ goal.task = session[p].task /\ goal.snapshot = session[p].snapshot
  BY ZenonT(40), <1>1 DEF SessionRecords, PCs
<1>h. Become(p, goal)
  BY DEF HandOver
<1> HIDE DEF goal
<1>2. PICK s \in SessionRecords :
        /\ s.pc = "publishing" /\ s.id = id /\ s.output = v
        /\ s.todo = todo /\ s.branch = session[p].branch /\ s.task = session[p].task
        /\ s.snapshot = session[p].snapshot /\ Become(p, s)
  BY <1>g, <1>h
<1>4. WellShaped(s) /\ ~Drawn(s)
  BY <1>1, <1>2 DEF WellShaped, Drawn, HandedOver
<1>5. Recorded(id)
  BY DEF Open
<1>6. v = "approved" => \E i \in 1 .. Len(requests) : Captures(s, requests[i])
  <2> SUFFICES ASSUME v = "approved" PROVE \E i \in 1 .. Len(requests) : Captures(s, requests[i])
    OBVIOUS
  <2>1. PICK i \in 1 .. Len(requests) : Captures(session[p], requests[i])
    BY DEF IInv, CapturesAreTrue, CaptureIsTrue, At
  <2> QED BY <1>2, <2>1 DEF Captures, At
<1>7. CaptureIsTrue(s)
  BY <1>2, <1>5, <1>6 DEF IInv, CapturesAreTrue, CaptureIsTrue, HandedOver
<1>8. HoldIsTrue(s)'
  <2>1. ASSUME NEW i \in 1 .. Len(requests), requests[i].id = id PROVE Unanswered(requests[i])
    <3>1. requests[i].outcomes = <<>>
      BY <2>1, IndexOf DEF IInv, Open, Request
    <3> QED BY <3>1 DEF Unanswered
  <2>2. v = "approved" => task[s.branch] = s.task
    BY <1>2 DEF Unmoved
  <2>3. \A i \in 1 .. Len(requests') : requests'[i].id = s.id => Unanswered(requests'[i])
    BY <1>2, <2>1
  <2>4. task' = task /\ faults' = faults
    BY DEF checkout
  <2> QED BY <1>2, <2>2, <2>3, <2>4 DEF HoldIsTrue, Unanswered
<1> QED BY <1>2, <1>4, <1>7, <1>8, SessionMoves DEF Become

(* A request on its way to the ledger gets on.                           *)
LEMMA DrawnStays ==
  ASSUME IInv, NEW p \in Sessions, Drawn(session[p]), NEW s \in SessionRecords, WellShaped(s),
         Drawn(s), s.id = session[p].id, s.todo \subseteq session[p].todo,
         session' = [session EXCEPT ![p] = s], UNCHANGED <<checkout, requests, brief>>,
         \/ s.pc = "publishing" /\ faults' = faults /\ Free
         \/ s.pc = "orphan" /\ faults' = faults + 1
  PROVE  IInv'
<1>1. /\ session'[p] = s
      /\ \A q \in Sessions \ {p} : session'[q] = session[q]
  BY DEF IInv, Types
<1>2. requests' = requests /\ brief' = brief /\ task' = task
  BY DEF checkout
<1>3. Types'
  BY DEF IInv, Types, checkout
<1>4. SessionShape'
  BY <1>1 DEF IInv, SessionShape, WellShaped, Knows, Drawn, HandedOver
<1>5. IdsAreDrawn'
  BY <1>1, <1>2 DEF IInv, IdsAreDrawn, Recorded, Drawn, HandedOver
<1>6. s.output = "request"
  BY DEF Drawn
<1>7. CapturesAreTrue'
  BY <1>1, <1>2, <1>6 DEF IInv, CapturesAreTrue, CaptureIsTrue, Captures, Recorded, HandedOver
<1>8. faults' = 0 => faults = 0 /\ s.pc = "publishing"
  BY DEF IInv, Types
<1>9. LockIsHeld'
  <2>1. ASSUME NEW q \in Sessions PROVE HoldIsTrue(session[q])'
    <3>1. CASE q = p
      BY <1>1, <1>6, <1>8, <3>1 DEF HoldIsTrue
    <3>2. CASE q # p
      BY <1>1, <1>2, <1>8, <3>2 DEF IInv, LockIsHeld, HoldIsTrue, Unanswered
    <3> QED BY <3>1, <3>2
  <2>2. \A q \in Sessions : At(q, "publishing")' =>
          (q = p /\ s.pc = "publishing") \/ (q # p /\ At(q, "publishing"))
    BY <1>1 DEF At
  <2> QED BY <2>1, <2>2 DEF IInv, LockIsHeld, Free, At
<1>10. OneOutcome'
  BY <1>2 DEF IInv, OneOutcome
<1>11. OpenKeepsItsBrief'
  BY <1>2, <1>8 DEF IInv, OpenKeepsItsBrief, Open, Recorded, Request, Index
<1>12. BriefIsReachable'
  BY <1>1, <1>2, <1>8 DEF IInv, BriefIsReachable, Recorded
<1> QED BY <1>3, <1>4, <1>5, <1>7, <1>9, <1>10, <1>11, <1>12 DEF IInv

-----------------------------------------------------------------------------
(* The commands' steps that write neither the ledger nor a brief.        *)
LEMMA DispatchKeeps ==
  ASSUME IInv, NEW p \in Sessions, NEW via \in Routes, NEW forced \in BOOLEAN,
         Dispatch(p, via, forced)
  PROVE  IInv'
<1> DEFINE s == [NoSession EXCEPT !.pc = "building", !.via = via, !.branch = head,
                                  !.task = task[head], !.snapshot = tree[head]]
<1>1. s \in SessionRecords /\ WellShaped(s) /\ CaptureIsTrue(s) /\ s.pc = "building"
  BY DEF IInv, Types, NoSession, SessionRecords, PCs, WellShaped, Knows, CaptureIsTrue, Drawn, HandedOver
<1>2. Become(p, s) /\ ~Drawn(session[p]) /\ UNCHANGED <<checkout, requests, brief, faults>>
  BY DEF Dispatch, At, Drawn, HandedOver
<1> HIDE DEF s
<1> QED BY <1>1, <1>2, GoesOn

(* A record that went on without losing its id, branch or task.          *)
LEMMA RunnerReturnsKeeps ==
  ASSUME IInv, NEW p \in Sessions, NEW output \in Verdicts, RunnerReturns(p, output)
  PROVE  IInv'
<1> DEFINE s == [session[p] EXCEPT !.pc = "returned", !.output = output]
<1>0. /\ session[p] \in SessionRecords /\ session[p].id \in Ids /\ Knows(session[p])
      /\ output \in Records
  BY DEF IInv, Types, RunnerReturns, At, SessionShape, WellShaped, Records
<1>1. s \in SessionRecords /\ WellShaped(s) /\ s.pc = "returned"
  <2>1. /\ s \in SessionRecords /\ s.pc = "returned" /\ s.output = output
        /\ s.id = session[p].id /\ s.branch = session[p].branch /\ s.task = session[p].task
        /\ s.snapshot = session[p].snapshot
    BY <1>0 DEF SessionRecords, PCs
  <2> HIDE DEF s
  <2> QED BY <1>0, <2>1 DEF WellShaped, Knows, Drawn, HandedOver
<1>2. CaptureIsTrue(s)
  <2>1. PICK i \in 1 .. Len(requests) : Captures(session[p], requests[i])
    BY DEF IInv, RunnerReturns, At, CapturesAreTrue, CaptureIsTrue
  <2>2. Captures(s, requests[i]) /\ s.todo = session[p].todo
    BY <2>1 DEF IInv, Types, RunnerReturns, At, SessionRecords, Captures
  <2> HIDE DEF s
  <2> QED BY <1>1, <2>2 DEF IInv, CapturesAreTrue, CaptureIsTrue, HandedOver
<1>3. Become(p, s) /\ ~Drawn(session[p]) /\ UNCHANGED <<checkout, requests, brief, faults>>
  BY DEF RunnerReturns, At, Drawn, HandedOver
<1> HIDE DEF s
<1> QED BY <1>1, <1>2, <1>3, GoesOn

LEMMA JudgeMovedKeeps ==
  ASSUME IInv, NEW p \in Sessions, JudgeMoved(p) PROVE IInv'
<1> DEFINE s == [session[p] EXCEPT !.pc = "cancel"]
<1>1. s \in SessionRecords /\ WellShaped(s) /\ s.pc = "cancel"
  BY DEF IInv, Types, JudgeMoved, At, SessionRecords, PCs, SessionShape, WellShaped, Knows, Drawn, HandedOver
<1>2. CaptureIsTrue(s)
  <2>1. PICK i \in 1 .. Len(requests) : Captures(session[p], requests[i])
    BY DEF IInv, JudgeMoved, At, CapturesAreTrue, CaptureIsTrue
  <2>2. Captures(s, requests[i]) /\ s.todo = session[p].todo
    BY <2>1 DEF IInv, Types, JudgeMoved, At, SessionRecords, Captures
  <2> HIDE DEF s
  <2> QED BY <1>1, <2>2 DEF IInv, CapturesAreTrue, CaptureIsTrue, HandedOver
<1>3. Become(p, s) /\ ~Drawn(session[p]) /\ UNCHANGED <<checkout, requests, brief, faults>>
  BY DEF JudgeMoved, At, Drawn, HandedOver
<1> HIDE DEF s
<1> QED BY <1>1, <1>2, <1>3, GoesOn

(* The grade is an approval only of the checkout that was dispatched.    *)
LEMMA GradedKeeps ==
  ASSUME IInv, NEW p \in Sessions, NEW output \in Verdicts,
         At(p, "returned") \/ At(p, "submitting"),
         Become(p, [session[p] EXCEPT !.pc = "verdict", !.snapshot = tree[head],
                                      !.output = Graded(p, output)]),
         UNCHANGED <<checkout, requests, brief, faults>>
  PROVE  IInv'
<1> DEFINE s == [session[p] EXCEPT !.pc = "verdict", !.snapshot = tree[head],
                                   !.output = Graded(p, output)]
<1>1. Graded(p, output) \in Verdicts /\ tree[head] \in Trees
  BY DEF IInv, Types, Graded, Verdicts
<1>0. /\ session[p] \in SessionRecords /\ session[p].id \in Ids /\ Knows(session[p])
      /\ Graded(p, output) \in Records
  BY <1>1 DEF IInv, Types, At, SessionShape, WellShaped, Records
<1>2. s \in SessionRecords /\ WellShaped(s) /\ s.pc = "verdict"
  <2>1. /\ s \in SessionRecords /\ s.pc = "verdict" /\ s.output = Graded(p, output)
        /\ s.id = session[p].id /\ s.branch = session[p].branch /\ s.task = session[p].task
        /\ s.snapshot = tree[head]
    BY <1>0, <1>1 DEF SessionRecords, PCs
  <2> HIDE DEF s
  <2> QED BY <1>0, <1>1, <2>1 DEF WellShaped, Knows, Drawn, HandedOver
<1>3. PICK i \in 1 .. Len(requests) : Captures(session[p], requests[i])
  BY DEF IInv, CapturesAreTrue, CaptureIsTrue, At
<1>4. Graded(p, output) = "approved" => tree[head] = session[p].snapshot
  BY DEF Graded
<1>5. Captures(s, requests[i])
  BY <1>3, <1>4 DEF IInv, Types, SessionRecords, At, Captures
<1>6. CaptureIsTrue(s)
  <2>1. s.todo = session[p].todo
    BY <1>0 DEF SessionRecords
  <2> HIDE DEF s
  <2> QED BY <1>2, <1>5, <2>1 DEF IInv, CapturesAreTrue, CaptureIsTrue, HandedOver
<1>7. Become(p, s) /\ ~Drawn(session[p])
  BY DEF At, Drawn, HandedOver
<1> HIDE DEF s
<1> QED BY <1>2, <1>6, <1>7, GoesOn

LEMMA SubmitKeeps ==
  ASSUME IInv, NEW p \in Sessions, Submit(p) PROVE IInv'
<1>1. PICK i \in Scoped(head) :
        LET last == requests[i]
        IN  /\ At(p, "idle")
            /\ Become(p, [NoSession EXCEPT !.pc = "submitting", !.id = last.id, !.via = last.via,
                                           !.branch = head, !.task = task[head],
                                           !.snapshot = last.snapshot])
            /\ UNCHANGED <<checkout, requests, brief, faults>>
  BY DEF Submit
<1> DEFINE s == [NoSession EXCEPT !.pc = "submitting", !.id = requests[i].id,
                                  !.via = requests[i].via, !.branch = head,
                                  !.task = task[head], !.snapshot = requests[i].snapshot]
<1>2. /\ i \in 1 .. Len(requests) /\ requests[i] \in RequestRecords
      /\ requests[i].branch = head /\ requests[i].task = task[head]
  BY DEF Scoped, IInv, Types
<1>3. s \in SessionRecords /\ WellShaped(s) /\ s.pc = "submitting"
  BY <1>2 DEF IInv, Types, NoSession, SessionRecords, RequestRecords, PCs, WellShaped, Knows,
              Drawn, HandedOver
<1>4. Captures(s, requests[i]) /\ s.todo = {}
  BY <1>2 DEF NoSession, Captures
<1>5. CaptureIsTrue(s)
  <2> HIDE DEF s
  <2> QED BY <1>2, <1>3, <1>4 DEF CaptureIsTrue, HandedOver
<1>6. Become(p, s) /\ ~Drawn(session[p]) /\ UNCHANGED <<checkout, requests, brief, faults>>
  BY <1>1 DEF At, Drawn, HandedOver
<1> HIDE DEF s
<1> QED BY <1>3, <1>5, <1>6, GoesOn

LEMMA CleanupKeeps ==
  ASSUME IInv, NEW p \in Sessions, Cleanup(p) PROVE IInv'
<1> DEFINE mine == {requests[i].id : i \in {j \in 1 .. Len(requests) :
                                              requests[j].branch = head /\ ~Contested(requests[j].id)}}
           s == [NoSession EXCEPT !.pc = "cleaning", !.branch = head, !.task = task[head],
                                  !.todo = mine]
<1>1. mine \subseteq Ids /\ \A id \in mine : Recorded(id)
  <2>1. ASSUME NEW id \in mine PROVE id \in Ids /\ Recorded(id)
    <3>1. PICK i \in 1 .. Len(requests) : requests[i].id = id
      OBVIOUS
    <3> QED BY <3>1, RequestTypes DEF Recorded
  <2> QED BY <2>1
<1>2. Become(p, s) /\ ~Drawn(session[p]) /\ UNCHANGED <<checkout, requests, brief, faults>>
  BY DEF Cleanup, At, Drawn, HandedOver
<1> HIDE DEF mine
<1>3. s \in SessionRecords /\ WellShaped(s) /\ s.pc = "cleaning" /\ s.todo = mine
  BY <1>1 DEF IInv, Types, NoSession, SessionRecords, PCs, WellShaped, Drawn, HandedOver
<1>4. CaptureIsTrue(s)
  <2> HIDE DEF s
  <2> QED BY <1>1, <1>3 DEF CaptureIsTrue, HandedOver
<1> HIDE DEF s
<1> QED BY <1>2, <1>3, <1>4, GoesOn

(* On to the next request to clean, or to the end.                       *)
LEMMA NextToClean ==
  ASSUME IInv, NEW p \in Sessions, NEW todo, todo \subseteq session[p].todo
  PROVE  LET s == [session[p] EXCEPT !.pc = "cleaning", !.todo = todo]
         IN  s \in SessionRecords /\ WellShaped(s) /\ CaptureIsTrue(s) /\ s.pc = "cleaning"
<1> DEFINE s == [session[p] EXCEPT !.pc = "cleaning", !.todo = todo]
<1>1. todo \subseteq Ids /\ \A id \in todo : Recorded(id)
  BY DEF IInv, Types, SessionRecords, CapturesAreTrue, CaptureIsTrue
<1>2. s \in SessionRecords /\ s.pc = "cleaning" /\ s.todo = todo
  BY ZenonT(40), <1>1 DEF IInv, Types, SessionRecords, PCs
<1>3. WellShaped(s) /\ CaptureIsTrue(s)
  BY <1>1, <1>2 DEF WellShaped, CaptureIsTrue, Drawn, HandedOver
<1> QED BY <1>2, <1>3

LEMMA ProceedsTo ==
  ASSUME IInv, NEW p \in Sessions, NEW todo, todo \subseteq session[p].todo, Proceed(p, todo)
  PROVE  \E s \in SessionRecords :
           /\ WellShaped(s) /\ CaptureIsTrue(s) /\ s.pc \in {"idle", "cleaning"}
           /\ session' = [session EXCEPT ![p] = s]
<1>1. CASE Quit(p)
  BY <1>1, NoSessionIsFine DEF Quit, Become
<1>2. CASE Become(p, [session[p] EXCEPT !.pc = "cleaning", !.todo = todo])
  BY <1>2, NextToClean DEF Become
<1> QED BY <1>1, <1>2 DEF Proceed

LEMMA CleanRefusedKeeps ==
  ASSUME IInv, NEW p \in Sessions, NEW id \in Ids, CleanRefused(p, id) PROVE IInv'
<1>1. /\ ~Drawn(session[p]) /\ Done(p, id) \subseteq session[p].todo
      /\ Proceed(p, Done(p, id)) /\ UNCHANGED <<checkout, requests, brief, faults>>
  BY DEF CleanRefused, At, Done, Drawn, HandedOver
<1>2. PICK s \in SessionRecords :
        /\ WellShaped(s) /\ CaptureIsTrue(s) /\ s.pc \in {"idle", "cleaning"}
        /\ session' = [session EXCEPT ![p] = s]
  BY <1>1, ProceedsTo
<1> QED BY <1>1, <1>2, GoesOn DEF Become

LEMMA CleanClosedKeeps ==
  ASSUME IInv, NEW p \in Sessions, NEW id \in Ids, CleanClosed(p, id) PROVE IInv'
<1> DEFINE s == [session[p] EXCEPT !.pc = "settle", !.id = id, !.todo = Done(p, id)]
<1>1. id \in session[p].todo /\ ~Open(id) /\ At(p, "cleaning")
  BY DEF CleanClosed
<1>2. Recorded(id) /\ \A i \in session[p].todo : Recorded(i)
  BY <1>1 DEF IInv, CapturesAreTrue, CaptureIsTrue
<1>3. /\ s \in SessionRecords /\ s.pc = "settle" /\ s.id = id /\ s.todo \subseteq session[p].todo
  BY ZenonT(40) DEF IInv, Types, SessionRecords, PCs, Done
<1>4. WellShaped(s)
  BY <1>3 DEF WellShaped, Drawn, HandedOver
<1>5. CaptureIsTrue(s)
  BY <1>1, <1>2, <1>3, IndexIsThere DEF CaptureIsTrue, Open, Request, HandedOver
<1>6. Become(p, s) /\ ~Drawn(session[p]) /\ UNCHANGED <<checkout, requests, brief, faults>>
  BY DEF CleanClosed, At, Drawn, HandedOver
<1> HIDE DEF s
<1> QED BY <1>3, <1>4, <1>5, <1>6, GoesOn

-----------------------------------------------------------------------------
(* The steps that write a brief, or a request.                           *)
LEMMA BuildBriefKeeps ==
  ASSUME IInv, NEW p \in Sessions, BuildBrief(p) PROVE IInv'
<1>1. PICK id \in Ids :
        /\ brief[id] = "absent" /\ brief' = [brief EXCEPT ![id] = "kept"]
        /\ Become(p, [session[p] EXCEPT !.pc = "requesting", !.id = id])
  BY DEF BuildBrief
<1> DEFINE s == [session[p] EXCEPT !.pc = "requesting", !.id = id]
<1>2. s \in SessionRecords /\ s.pc = "requesting" /\ s.id = id /\ s.todo = session[p].todo
  BY DEF IInv, Types, SessionRecords, PCs
<1>3. WellShaped(s) /\ session[p].pc = "building"
  BY DEF IInv, Types, SessionRecords, SessionShape, WellShaped, Knows, Drawn, HandedOver, BuildBrief, At
<1>4. session' = [session EXCEPT ![p] = s]
  BY <1>1 DEF Become
<1> HIDE DEF s
<1>5. /\ session'[p] = s
      /\ \A q \in Sessions \ {p} : session'[q] = session[q]
  BY <1>4 DEF IInv, Types
<1>6. brief'[id] = "kept" /\ \A j \in Ids \ {id} : brief'[j] = brief[j]
  BY <1>1 DEF IInv, Types
<1>7. requests' = requests /\ faults' = faults /\ UNCHANGED checkout
  BY DEF BuildBrief
<1>8. Types'
  BY <1>1, <1>2, <1>4, <1>7 DEF IInv, Types, checkout
<1>9. \A i \in 1 .. Len(requests) : requests[i].id \in Ids \ {id}
  BY <1>1, RequestTypes DEF IInv, IdsAreDrawn
<1>10. ~Recorded(id)
  BY <1>9 DEF Recorded
<1>11. \A q \in Sessions : Drawn(session[q]) => session[q].id \in Ids \ {id}
  BY <1>1 DEF IInv, SessionShape, WellShaped, IdsAreDrawn
<1>12. SessionShape'
  BY <1>3, <1>5 DEF IInv, SessionShape, WellShaped, Knows, Drawn, HandedOver
<1>13. IdsAreDrawn'
  BY <1>2, <1>3, <1>5, <1>6, <1>7, <1>9, <1>10, <1>11
  DEF IInv, IdsAreDrawn, Recorded, Drawn, HandedOver
<1>14. CapturesAreTrue'
  BY <1>2, <1>5, <1>7
  DEF IInv, CapturesAreTrue, CaptureIsTrue, Captures, Recorded, HandedOver
<1>15. OneOutcome'
  BY <1>7 DEF IInv, OneOutcome
<1>16. OpenKeepsItsBrief'
  BY <1>6, <1>7 DEF IInv, OpenKeepsItsBrief, Open, Recorded, Request, Index
<1>17. BriefIsReachable'
  BY <1>2, <1>3, <1>5, <1>6, <1>7 DEF IInv, BriefIsReachable, Recorded
<1>18. LockIsHeld'
  <2>1. task' = task
    BY <1>7 DEF checkout
  <2> QED BY <1>2, <1>5, <1>7, <2>1 DEF IInv, LockIsHeld, HoldIsTrue, Unanswered, At
<1> QED BY <1>8, <1>12, <1>13, <1>14, <1>15, <1>16, <1>17, <1>18 DEF IInv

(* A request is appended: the ones there stay where and what they are.   *)
LEMMA Appended ==
  ASSUME IInv, NEW p \in Sessions, Drawn(session[p]),
         requests' = Append(requests, NewRequest(p))
  PROVE  /\ requests' \in Seq(RequestRecords) /\ Len(requests') = Len(requests) + 1
         /\ Len(requests) \in Nat
         /\ \A i \in 1 .. Len(requests) : requests'[i] = requests[i]
         /\ requests'[Len(requests) + 1] = NewRequest(p)
         /\ NewRequest(p).id = session[p].id /\ NewRequest(p).outcomes = <<>>
         /\ NewRequest(p).branch = session[p].branch /\ NewRequest(p).task = session[p].task
         /\ NewRequest(p).snapshot = session[p].snapshot
<1>1. NewRequest(p) \in RequestRecords
  BY DEF IInv, Types, SessionRecords, RequestRecords, SessionShape, WellShaped, Knows, NewRequest
<1>2. requests \in Seq(RequestRecords)
  BY DEF IInv, Types
<1> QED BY <1>1, <1>2, AppendProperties DEF NewRequest

(* The request is recorded, and its command waits for a runner, ends or  *)
(* is dead; its brief is wiped by one that takes the append for failed.  *)
LEMMA RequestAppears ==
  ASSUME IInv, NEW p \in Sessions, HandedOver(session[p]), session[p].output = "request",
         requests' = Append(requests, NewRequest(p)),
         NEW s \in SessionRecords, WellShaped(s), session' = [session EXCEPT ![p] = s],
         \/ CaptureIsTrue(s) /\ s.pc \in {"idle", "cleaning"}
         \/ s.pc = "reviewing" /\ Captures(s, NewRequest(p)) /\ s.todo = session[p].todo,
         \/ brief' = brief /\ faults' = faults
         \/ Wipe(p) /\ faults' = faults + 1,
         UNCHANGED checkout
  PROVE  IInv'
<1> DEFINE n == Len(requests) + 1
           id == session[p].id
<1>1. /\ requests' \in Seq(RequestRecords) /\ Len(requests') = n /\ n - 1 \in Nat
      /\ \A i \in 1 .. n - 1 : requests'[i] = requests[i]
      /\ requests'[n] = NewRequest(p)
      /\ NewRequest(p).id = id /\ NewRequest(p).outcomes = <<>>
      /\ Drawn(session[p])
  BY Appended DEF Drawn
<1>2. /\ session'[p] = s
      /\ \A q \in Sessions \ {p} : session'[q] = session[q]
  BY DEF IInv, Types
<1>3. id \in Ids /\ brief[id] = "kept" /\ ~Recorded(id)
  BY <1>1 DEF IInv, SessionShape, WellShaped, IdsAreDrawn
<1>4. /\ brief' \in [Ids -> {"absent", "kept", "wiped"}] /\ brief'[id] # "absent"
      /\ \A j \in Ids \ {id} : brief'[j] = brief[j]
  BY <1>3 DEF IInv, Types, Wipe
<1>5. faults' = 0 => faults = 0 /\ brief' = brief
  BY DEF IInv, Types
<1>6. Types'
  BY <1>1, <1>4 DEF IInv, Types, checkout
<1>7. ~Drawn(s) /\ s.pc \notin {"requesting", "publishing", "orphan"}
  BY DEF Drawn, HandedOver
<1>8. \A i \in 1 .. n - 1 : requests[i].id \in Ids \ {id}
  BY <1>1, <1>3, RequestTypes DEF Recorded
<1>9. \A j : Recorded(j)' <=> Recorded(j) \/ j = id
  BY <1>1 DEF Recorded
<1> HIDE DEF n, id
<1>10. SessionShape'
  BY <1>2 DEF IInv, SessionShape, WellShaped, Knows, Drawn, HandedOver
<1>11. IdsAreDrawn'
  <2>1. \A i, j \in 1 .. n : requests'[i].id = requests'[j].id => i = j
    BY <1>1, <1>8 DEF IInv, IdsAreDrawn, n
  <2>2. \A i \in 1 .. n : brief'[requests'[i].id] # "absent"
    BY <1>1, <1>4, <1>8 DEF IInv, IdsAreDrawn, n
  <2>3. ASSUME NEW q \in Sessions, Drawn(session[q])'
        PROVE  /\ q # p /\ Drawn(session[q]) /\ session'[q] = session[q]
               /\ session[q].id \in Ids \ {id}
    <3>1. q # p /\ session'[q] = session[q] /\ Drawn(session[q])
      BY <1>2, <1>7, <2>3 DEF Drawn, HandedOver
    <3> QED BY <1>1, <3>1 DEF IInv, SessionShape, WellShaped, IdsAreDrawn, id
  <2> QED BY <1>1, <1>4, <1>9, <2>1, <2>2, <2>3 DEF IInv, IdsAreDrawn
<1>12. CapturesAreTrue'
  <2>1. ASSUME NEW q \in Sessions \ {p} PROVE CaptureIsTrue(session[q])'
    BY <1>1, <1>2, <1>9 DEF IInv, CapturesAreTrue, CaptureIsTrue, Captures, HandedOver, n
  <2>2. CaptureIsTrue(s)'
    <3>1. CASE CaptureIsTrue(s) /\ s.pc \in {"idle", "cleaning"}
      BY <1>9, <3>1 DEF CaptureIsTrue, HandedOver
    <3>2. CASE s.pc = "reviewing" /\ Captures(s, NewRequest(p)) /\ s.todo = session[p].todo
      BY <1>1, <1>9, <3>2 DEF IInv, CapturesAreTrue, CaptureIsTrue, Captures, HandedOver, n
    <3> QED BY <3>1, <3>2
  <2>3. CaptureIsTrue(session[p])'
    BY <1>2, <2>2 DEF CaptureIsTrue, Captures, HandedOver
  <2> QED BY <2>1, <2>3 DEF CapturesAreTrue
<1>13. OneOutcome'
  BY <1>1 DEF IInv, OneOutcome, n
<1>14. OpenKeepsItsBrief'
  <2> SUFFICES ASSUME faults' = 0, NEW j \in Ids, Open(j)' PROVE brief'[j] = "kept"
    BY DEF OpenKeepsItsBrief
  <2>1. CASE j = id
    BY <1>3, <1>5, <2>1
  <2>2. CASE j # id
    <3>1. Recorded(j)
      BY <1>9, <2>2 DEF Open
    <3>2. PICK i \in 1 .. n - 1 : requests[i].id = j
      BY <3>1 DEF Recorded, n
    <3>3. Index(j) = i
      BY <3>2, IndexOf DEF IInv, n
    <3>4. Index(j)' = i
      BY <1>1, <1>11, <3>2 DEF Index, IdsAreDrawn
    <3>5. Open(j)
      BY <1>1, <3>1, <3>2, <3>3, <3>4 DEF Open, Request
    <3> QED BY <1>5, <3>5 DEF IInv, OpenKeepsItsBrief
  <2> QED BY <2>1, <2>2
<1>15. BriefIsReachable'
  BY <1>2, <1>5, <1>9 DEF IInv, BriefIsReachable, id
<1>16. LockIsHeld'
  <2>1. task' = task
    BY DEF checkout
  <2>2. ASSUME NEW q \in Sessions \ {p} PROVE HoldIsTrue(session[q])'
    <3>1. session'[q] = session[q] /\ HoldIsTrue(session[q]) /\ CaptureIsTrue(session[q])
      BY <1>2 DEF IInv, LockIsHeld, CapturesAreTrue
    <3>2. ASSUME session[q].pc = "publishing", session[q].output # "request",
                 NEW i \in 1 .. n, requests'[i].id = session[q].id
          PROVE  Unanswered(requests[i])'
      <4>1. Recorded(session[q].id)
        BY <3>1, <3>2 DEF CaptureIsTrue, HandedOver
      <4>2. i # n
        BY <1>1, <1>3, <3>2, <4>1
      <4>3. i \in 1 .. n - 1 /\ requests'[i] = requests[i] /\ 1 .. Len(requests) = 1 .. n - 1
        BY <1>1, <4>2 DEF n
      <4> QED BY <3>1, <3>2, <4>3 DEF HoldIsTrue, Unanswered
    <3> QED BY <1>1, <1>5, <2>1, <3>1, <3>2 DEF HoldIsTrue
  <2>3. HoldIsTrue(session[p])'
    BY <1>2, <1>7 DEF HoldIsTrue
  <2>4. \A q \in Sessions : At(q, "publishing")' => At(q, "publishing")
    BY <1>2, <1>7 DEF At
  <2> QED BY <2>2, <2>3, <2>4 DEF IInv, LockIsHeld
<1> QED BY <1>6, <1>10, <1>11, <1>12, <1>13, <1>14, <1>15, <1>16 DEF IInv

(* A command wipes the brief of a request that is not open, or fails.    *)
LEMMA WipeKeeps ==
  ASSUME IInv, NEW p \in Sessions, Drawn(session[p]) \/ At(p, "settle"),
         NEW s \in SessionRecords, WellShaped(s), CaptureIsTrue(s), s.pc \in {"idle", "cleaning"},
         session' = [session EXCEPT ![p] = s], Wipe(p), requests' = requests, UNCHANGED checkout,
         (faults' = faults /\ ~Open(session[p].id)) \/ faults' = faults + 1
  PROVE  IInv'
<1> DEFINE id == session[p].id
<1>1. /\ session'[p] = s
      /\ \A q \in Sessions \ {p} : session'[q] = session[q]
  BY DEF IInv, Types
<1>2. id \in Ids
  <2>1. CASE Drawn(session[p])
    BY <2>1 DEF IInv, SessionShape, WellShaped
  <2>2. CASE At(p, "settle")
    BY <2>2, RequestTypes DEF IInv, CapturesAreTrue, CaptureIsTrue, At
  <2> QED BY <2>1, <2>2
<1>3. /\ brief' \in [Ids -> {"absent", "kept", "wiped"}] /\ brief'[id] = "wiped"
      /\ \A j \in Ids \ {id} : brief'[j] = brief[j]
  BY <1>2 DEF IInv, Types, Wipe
<1>4. faults' = 0 => faults = 0 /\ ~Open(id)
  BY DEF IInv, Types
<1>5. Types'
  BY <1>3 DEF IInv, Types, checkout
<1>6. \A q \in Sessions \ {p} : Drawn(session[q]) => session[q].id \in Ids \ {id}
  <2> SUFFICES ASSUME NEW q \in Sessions \ {p}, Drawn(session[q])
               PROVE  session[q].id \in Ids \ {id}
    OBVIOUS
  <2>1. session[q].id \in Ids /\ ~Recorded(session[q].id)
    BY DEF IInv, SessionShape, WellShaped, IdsAreDrawn
  <2>2. CASE Drawn(session[p])
    BY <2>1, <2>2 DEF IInv, IdsAreDrawn
  <2>3. CASE At(p, "settle")
    BY <2>1, <2>3 DEF IInv, CapturesAreTrue, CaptureIsTrue, At, Recorded
  <2> QED BY <2>2, <2>3
<1> HIDE DEF id
<1>7. SessionShape'
  BY <1>1 DEF IInv, SessionShape, WellShaped, Knows, Drawn, HandedOver
<1>8. IdsAreDrawn'
  <2>1. \A i \in 1 .. Len(requests) : brief'[requests[i].id] # "absent"
    BY <1>3, RequestTypes DEF IInv, IdsAreDrawn
  <2>2. \A q \in Sessions : Drawn(session[q])' => q # p /\ session'[q] = session[q] /\ Drawn(session[q])
    BY <1>1 DEF Drawn, HandedOver
  <2> QED BY <1>3, <1>6, <2>1, <2>2 DEF IInv, IdsAreDrawn, Recorded
<1>9. CapturesAreTrue'
  BY <1>1 DEF IInv, CapturesAreTrue, CaptureIsTrue, Captures, Recorded, HandedOver
<1>10. OneOutcome'
  BY DEF IInv, OneOutcome
<1>11. OpenKeepsItsBrief'
  BY ZenonT(40), <1>3, <1>4 DEF IInv, OpenKeepsItsBrief, Open, Recorded, Request, Index
<1>12. BriefIsReachable'
  BY <1>1, <1>3, <1>4 DEF IInv, BriefIsReachable, Recorded, id
<1>13. LockIsHeld'
  <2>1. task' = task
    BY DEF checkout
  <2> QED BY <1>1, <1>4, <2>1 DEF IInv, LockIsHeld, HoldIsTrue, Unanswered, At
<1> QED BY <1>5, <1>7, <1>8, <1>9, <1>10, <1>11, <1>12, <1>13 DEF IInv

LEMMA RecordRequestKeeps ==
  ASSUME IInv, NEW p \in Sessions, RecordRequest(p) PROVE IInv'
<1> DEFINE s == [session[p] EXCEPT !.pc = "publishing", !.id = session[p].id,
                                   !.output = "request", !.todo = {}]
<1>1. /\ At(p, "requesting") /\ Free /\ Become(p, s)
      /\ UNCHANGED <<checkout, requests, brief, faults>>
  BY DEF RecordRequest, HandOver
<1>2. Drawn(session[p]) /\ session[p] \in SessionRecords /\ WellShaped(session[p])
  BY <1>1 DEF Drawn, At, IInv, Types, SessionShape
<1>3. /\ s \in SessionRecords /\ s.pc = "publishing" /\ s.id = session[p].id
      /\ s.output = "request" /\ s.todo = {} /\ s.via = session[p].via
      /\ s.branch = session[p].branch /\ s.task = session[p].task
      /\ s.snapshot = session[p].snapshot
  BY <1>2 DEF SessionRecords, PCs, Records
<1> HIDE DEF s
<1>4. WellShaped(s) /\ Drawn(s)
  BY <1>2, <1>3 DEF WellShaped, Knows, Drawn, HandedOver, Records
<1> QED BY <1>1, <1>2, <1>3, <1>4, DrawnStays DEF Become

LEMMA RefuseRequestKeeps ==
  ASSUME IInv, NEW p \in Sessions, RefuseRequest(p) PROVE IInv'
<1>1. Drawn(session[p])
  BY DEF RefuseRequest, At, Drawn
<1>2. ~Recorded(session[p].id)
  BY <1>1 DEF IInv, IdsAreDrawn
<1>3. /\ session' = [session EXCEPT ![p] = NoSession] /\ Wipe(p)
      /\ requests' = requests /\ faults' = faults /\ UNCHANGED checkout
      /\ ~Open(session[p].id)
  BY <1>2 DEF RefuseRequest, Quit, Become, Open
<1> QED BY <1>1, <1>3, WipeKeeps, NoSessionIsFine

LEMMA SettleKeeps ==
  ASSUME IInv, NEW p \in Sessions, Settle(p) PROVE IInv'
<1>1. /\ At(p, "settle") /\ Wipe(p) /\ requests' = requests /\ faults' = faults
      /\ UNCHANGED checkout
  BY DEF Settle
<1>2. PICK i \in 1 .. Len(requests) : requests[i].id = session[p].id /\ requests[i].outcomes # <<>>
  BY <1>1 DEF IInv, CapturesAreTrue, CaptureIsTrue, At
<1>3. ~Open(session[p].id)
  BY <1>2, IndexOf DEF IInv, Open, Request
<1>4. PICK s \in SessionRecords :
        /\ WellShaped(s) /\ CaptureIsTrue(s) /\ s.pc \in {"idle", "cleaning"}
        /\ session' = [session EXCEPT ![p] = s]
  BY ProceedsTo DEF Settle
<1> QED BY <1>1, <1>3, <1>4, WipeKeeps

-----------------------------------------------------------------------------
(* An outcome is recorded for a request: it has one more from then on    *)
(* and keeps all the rest; the other requests stay as they are.          *)
LEMMA Answered ==
  ASSUME IInv, NEW p \in Sessions, HandedOver(session[p]), session[p].output # "request",
         NEW by \in {"command", "orphan"}, requests' = Published(p, by)
  PROVE  LET i == Index(session[p].id)
             o == Outcome(p, by)
             n == Len(requests[i].outcomes) + 1
         IN  /\ i \in 1 .. Len(requests) /\ requests[i].id = session[p].id
             /\ requests' \in Seq(RequestRecords) /\ Len(requests') = Len(requests)
             /\ \A j \in 1 .. Len(requests) \ {i} : requests'[j] = requests[j]
             /\ requests'[i].id = requests[i].id /\ requests'[i].branch = requests[i].branch
             /\ requests'[i].task = requests[i].task
             /\ requests'[i].snapshot = requests[i].snapshot
             /\ Len(requests[i].outcomes) = n - 1 /\ n - 1 \in Nat
             /\ Len(requests'[i].outcomes) = n
             /\ \A k \in 1 .. n - 1 : requests'[i].outcomes[k] = requests[i].outcomes[k]
             /\ requests'[i].outcomes[n] = o
             /\ o.by = by /\ o.verdict = session[p].output
             /\ o.verdict # "cancelled" => o.snapshot = session[p].snapshot
<1> DEFINE i == Index(session[p].id)
           o == Outcome(p, by)
           n == Len(requests[i].outcomes) + 1
           r == [requests[i] EXCEPT !.outcomes = Append(@, o)]
<1>1. Recorded(session[p].id)
  BY DEF IInv, CapturesAreTrue, CaptureIsTrue
<1>2. i \in 1 .. Len(requests) /\ requests[i].id = session[p].id
  BY <1>1, IndexIsThere
<1>3. session[p] \in SessionRecords /\ session[p].output \in Verdicts \union {"cancelled"}
  BY DEF IInv, Types, SessionShape, WellShaped, Records
<1>4. /\ o \in Outcomes /\ o.by = by /\ o.verdict = session[p].output
      /\ o.verdict # "cancelled" => o.snapshot = session[p].snapshot
  BY <1>3 DEF Outcome, Outcomes, SessionRecords
<1>5. requests \in Seq(RequestRecords) /\ requests[i] \in RequestRecords
  BY <1>2, RequestTypes DEF IInv, Types
<1>6. requests' = [requests EXCEPT ![i] = r]
  BY DEF Published
<1>7. requests[i].outcomes \in Seq(Outcomes)
  BY <1>5 DEF RequestRecords
<1> HIDE DEF o, i
<1>8. /\ Append(requests[i].outcomes, o) \in Seq(Outcomes)
      /\ Len(requests[i].outcomes) = n - 1 /\ n - 1 \in Nat /\ Len(Append(requests[i].outcomes, o)) = n
      /\ \A k \in 1 .. n - 1 : Append(requests[i].outcomes, o)[k] = requests[i].outcomes[k]
      /\ Append(requests[i].outcomes, o)[n] = o
  BY <1>4, <1>7, AppendProperties
<1>9. /\ r \in RequestRecords /\ r.outcomes = Append(requests[i].outcomes, o)
      /\ r.id = requests[i].id /\ r.branch = requests[i].branch
      /\ r.task = requests[i].task /\ r.snapshot = requests[i].snapshot
  BY <1>5, <1>8 DEF RequestRecords
<1> HIDE DEF r
<1>10. /\ requests' \in Seq(RequestRecords) /\ Len(requests') = Len(requests)
       /\ \A j \in 1 .. Len(requests) : requests'[j] = IF j = i THEN r ELSE requests[j]
  BY <1>2, <1>5, <1>6, <1>9, ExceptSeq
<1>11. requests'[i] = r
  BY <1>2, <1>10
<1> QED BY <1>2, <1>4, <1>8, <1>9, <1>10, <1>11 DEF i, o

(* The command whose outcome is published goes on to settle the brief,   *)
(* or takes the answer for a failure, or is dead.                        *)
LEMMA AnswerAppears ==
  ASSUME IInv, NEW p \in Sessions, HandedOver(session[p]), session[p].output # "request",
         NEW by \in {"command", "orphan"}, requests' = Published(p, by),
         by = "command" => At(p, "publishing"), by = "orphan" => At(p, "orphan"),
         NEW s \in SessionRecords, WellShaped(s), session' = [session EXCEPT ![p] = s],
         \/ CaptureIsTrue(s) /\ s.pc \in {"idle", "cleaning"}
         \/ s.pc = "settle" /\ s.id = session[p].id /\ s.todo = session[p].todo,
         faults' = faults \/ faults' = faults + 1, UNCHANGED <<checkout, brief>>
  PROVE  IInv'
<1> DEFINE i == Index(session[p].id)
           o == Outcome(p, by)
           n == Len(requests[i].outcomes) + 1
<1>1. /\ i \in 1 .. Len(requests) /\ requests[i].id = session[p].id
      /\ requests' \in Seq(RequestRecords) /\ Len(requests') = Len(requests)
      /\ \A j \in 1 .. Len(requests) \ {i} : requests'[j] = requests[j]
      /\ requests'[i].id = requests[i].id /\ requests'[i].branch = requests[i].branch
      /\ requests'[i].task = requests[i].task
      /\ requests'[i].snapshot = requests[i].snapshot
      /\ Len(requests[i].outcomes) = n - 1 /\ n - 1 \in Nat
      /\ Len(requests'[i].outcomes) = n
      /\ \A k \in 1 .. n - 1 : requests'[i].outcomes[k] = requests[i].outcomes[k]
      /\ requests'[i].outcomes[n] = o
      /\ o.by = by
  BY Answered
<1> HIDE DEF i, o, n
<1>2. /\ session'[p] = s
      /\ \A q \in Sessions \ {p} : session'[q] = session[q]
  BY DEF IInv, Types
<1>3. brief' = brief /\ task' = task
  BY DEF checkout
<1>4. faults' = 0 => faults = 0
  BY DEF IInv, Types
<1>5. \A j \in 1 .. Len(requests) : requests'[j].id = requests[j].id
  BY <1>1
<1>6. \A j : Recorded(j)' <=> Recorded(j)
  BY <1>1, <1>5 DEF Recorded
<1>7. \A j : Index(j)' = Index(j)
  BY <1>1, <1>5, Zenon DEF Index
<1>8. Types'
  BY <1>1, <1>3, <1>4 DEF IInv, Types, checkout
<1>9. ~Drawn(s) /\ s.pc \notin {"publishing", "orphan"}
  BY DEF Drawn, HandedOver
<1>10. SessionShape'
  BY <1>2 DEF IInv, SessionShape, WellShaped, Knows, Drawn, HandedOver
<1>11. IdsAreDrawn'
  <2>1. \A q \in Sessions : Drawn(session[q])' => q # p /\ session'[q] = session[q] /\ Drawn(session[q])
    BY <1>2, <1>9 DEF Drawn, HandedOver
  <2> QED BY <1>1, <1>3, <1>5, <1>6, <2>1 DEF IInv, IdsAreDrawn
<1>12. requests'[i].outcomes # <<>>
  BY <1>1
<1>13. CapturesAreTrue'
  <2>1. \A t : \A j \in 1 .. Len(requests) : Captures(t, requests[j]) => Captures(t, requests'[j])
    BY <1>1 DEF Captures
  <2>2. \A j \in 1 .. Len(requests) :
          requests[j].outcomes # <<>> => requests'[j].outcomes # <<>>
    BY <1>1, <1>12
  <2>3. ASSUME NEW t, CaptureIsTrue(t) PROVE CaptureIsTrue(t)'
    BY <1>1, <1>5, <1>6, <2>1, <2>2, <2>3 DEF CaptureIsTrue, HandedOver, Captures
  <2>4. ASSUME NEW q \in Sessions PROVE CaptureIsTrue(session[q])'
    <3>1. CASE q # p \/ CaptureIsTrue(s)
      BY <1>2, <2>3, <3>1 DEF IInv, CapturesAreTrue, CaptureIsTrue, Captures, HandedOver
    <3>2. CASE q = p /\ s.pc = "settle" /\ s.id = session[p].id /\ s.todo = session[p].todo
      BY <1>1, <1>2, <1>6, <1>12, <3>2 DEF IInv, CapturesAreTrue, CaptureIsTrue, HandedOver
    <3> QED BY <3>1, <3>2
  <2> QED BY <2>4 DEF CapturesAreTrue
<1>14. by = "command" => Unanswered(requests[i])
  BY <1>1 DEF IInv, LockIsHeld, HoldIsTrue, At
<1>15. OneOutcome'
  <2>1. ASSUME NEW k \in 1 .. n, NEW l \in 1 .. n,
               requests'[i].outcomes[k].by = "command", requests'[i].outcomes[l].by = "command"
        PROVE  k = l
    <3>1. CASE by = "command"
      <4>1. \A m \in 1 .. n - 1 : requests'[i].outcomes[m].by # "command"
        BY <1>1, <1>14, <3>1 DEF Unanswered
      <4>2. k = n /\ l = n
        BY <1>1, <2>1, <4>1
      <4> QED BY <4>2
    <3>2. CASE by = "orphan"
      <4>1. k # n /\ l # n
        BY <1>1, <2>1, <3>2
      <4>2. k \in 1 .. n - 1 /\ l \in 1 .. n - 1
        BY <1>1, <4>1
      <4>3. requests[i].outcomes[k].by = "command" /\ requests[i].outcomes[l].by = "command"
        BY <1>1, <2>1, <4>2
      <4>4. k \in 1 .. Len(requests[i].outcomes) /\ l \in 1 .. Len(requests[i].outcomes)
        BY <1>1, <4>2
      <4> QED BY <1>1, <4>3, <4>4 DEF IInv, OneOutcome
    <3> QED BY <3>1, <3>2
  <2> QED BY <1>1, <2>1 DEF IInv, OneOutcome
<1>16. OpenKeepsItsBrief'
  <2>1. ASSUME NEW j \in Ids, Open(j)' PROVE Open(j)
    <3>1. Recorded(j) /\ Index(j) \in 1 .. Len(requests)
      BY <1>6, <2>1, IndexIsThere DEF Open
    <3>2. Index(j) # i
      BY <1>7, <1>12, <2>1 DEF Open, Request
    <3> QED BY <1>1, <1>7, <2>1, <3>1, <3>2 DEF Open, Request
  <2> QED BY <1>3, <1>4, <2>1 DEF IInv, OpenKeepsItsBrief
<1>17. BriefIsReachable'
  <2>1. session[p].pc # "requesting" /\ Recorded(session[p].id)
    BY <1>1 DEF HandedOver, Recorded
  <2> QED BY <1>2, <1>3, <1>4, <1>6, <2>1 DEF IInv, BriefIsReachable
<1>18. LockIsHeld'
  <2>1. \A q \in Sessions : At(q, "publishing")' => q # p /\ session'[q] = session[q] /\ At(q, "publishing")
    BY <1>2, <1>9 DEF At
  <2>2. HoldIsTrue(session[p])'
    BY <1>2, <1>9 DEF HoldIsTrue
  <2>3. ASSUME NEW q \in Sessions \ {p} PROVE HoldIsTrue(session[q])'
    <3>1. session'[q] = session[q] /\ HoldIsTrue(session[q])
      BY <1>2 DEF IInv, LockIsHeld
    <3>2. ASSUME session[q].pc = "publishing", session[q].output # "request",
                 NEW j \in 1 .. Len(requests), requests'[j].id = session[q].id
          PROVE  Unanswered(requests[j])'
      <4>1. Unanswered(requests[j])
        BY <1>5, <3>1, <3>2 DEF HoldIsTrue
      <4>2. by = "orphan"
        BY <3>2 DEF IInv, LockIsHeld, At
      <4>3. CASE j # i
        BY <1>1, <4>1, <4>3 DEF Unanswered
      <4>4. CASE j = i
        <5>1. \A k \in 1 .. n - 1 : requests'[i].outcomes[k].by # "command"
          BY <1>1, <4>1, <4>4 DEF Unanswered, n
        <5>2. requests'[i].outcomes[n].by # "command"
          BY <1>1, <4>2
        <5> QED BY <1>1, <4>4, <5>1, <5>2 DEF Unanswered
      <4> QED BY <4>3, <4>4
    <3> QED BY <1>1, <1>3, <1>4, <3>1, <3>2 DEF HoldIsTrue
  <2> QED BY <2>1, <2>2, <2>3 DEF IInv, LockIsHeld
<1> QED BY <1>8, <1>10, <1>11, <1>13, <1>15, <1>16, <1>17, <1>18 DEF IInv

-----------------------------------------------------------------------------
(* The outcomes that are handed over, and what becomes of what is handed *)
(* over.                                                                 *)
LEMMA RecordVerdictKeeps ==
  ASSUME IInv, NEW p \in Sessions, RecordVerdict(p) PROVE IInv'
<1>1. /\ At(p, "verdict") /\ Free /\ Unmoved(p) /\ Open(session[p].id)
      /\ HandOver(p, session[p].id, session[p].output, {})
      /\ UNCHANGED <<checkout, requests, brief, faults>>
  BY DEF RecordVerdict, VerdictFits
<1>2. session[p].id \in Ids /\ session[p].output \in Verdicts /\ ~Drawn(session[p])
  BY <1>1 DEF IInv, SessionShape, WellShaped, At, Drawn, HandedOver
<1> QED BY <1>1, <1>2, HandsOver

LEMMA CancelCapturedKeeps ==
  ASSUME IInv, NEW p \in Sessions, CancelCaptured(p) PROVE IInv'
<1>1. /\ At(p, "cancel") /\ Free /\ Open(session[p].id)
      /\ HandOver(p, session[p].id, "cancelled", {})
      /\ UNCHANGED <<checkout, requests, brief, faults>>
  BY DEF CancelCaptured
<1>2. session[p].id \in Ids /\ ~Drawn(session[p])
  BY <1>1 DEF IInv, SessionShape, WellShaped, At, Drawn, HandedOver
<1> QED BY <1>1, <1>2, HandsOver

LEMMA CleanOpenKeeps ==
  ASSUME IInv, NEW p \in Sessions, NEW id \in Ids, CleanOpen(p, id) PROVE IInv'
<1>1. /\ ~Drawn(session[p]) /\ Free /\ Open(id) /\ HandOver(p, id, "cancelled", Done(p, id))
      /\ Done(p, id) \subseteq session[p].todo
      /\ UNCHANGED <<checkout, requests, brief, faults>>
  BY DEF CleanOpen, At, Done, Drawn, HandedOver
<1> QED BY <1>1, HandsOver

LEMMA PublishKeeps ==
  ASSUME IInv, NEW p \in Sessions, Publish(p) PROVE IInv'
<1>1. /\ At(p, "publishing") /\ HandedOver(session[p]) /\ requests' = Published(p, "command")
      /\ session[p] \in SessionRecords /\ WellShaped(session[p])
      /\ UNCHANGED <<checkout, brief, faults>>
  BY DEF Publish, At, HandedOver, IInv, Types, SessionShape
<1>2. CASE session[p].output # "request"
  <2> DEFINE s == [session[p] EXCEPT !.pc = "settle"]
  <2>1. session' = [session EXCEPT ![p] = s]
    BY <1>2 DEF Publish, Become
  <2>2. s \in SessionRecords /\ s.pc = "settle" /\ s.id = session[p].id /\ s.todo = session[p].todo
    BY <1>1 DEF SessionRecords, PCs
  <2> HIDE DEF s
  <2>3. WellShaped(s)
    BY <2>2 DEF WellShaped, Drawn, HandedOver
  <2> QED BY <1>1, <1>2, <2>1, <2>2, <2>3, AnswerAppears
<1>3. CASE session[p].output = "request"
  <2>1. requests' = Append(requests, NewRequest(p))
    BY <1>1, <1>3 DEF Published
  <2>2. CASE Quit(p)
    BY <1>1, <1>3, <2>1, <2>2, NoSessionIsFine, RequestAppears DEF Quit, Become
  <2>3. CASE Become(p, [session[p] EXCEPT !.pc = "reviewing"])
    <3> DEFINE s == [session[p] EXCEPT !.pc = "reviewing"]
    <3>1. /\ s \in SessionRecords /\ s.pc = "reviewing" /\ s.todo = session[p].todo
          /\ s.id = session[p].id /\ s.branch = session[p].branch /\ s.task = session[p].task
          /\ s.snapshot = session[p].snapshot
      BY <1>1 DEF SessionRecords, PCs
    <3>2. session' = [session EXCEPT ![p] = s]
      BY <2>3 DEF Become
    <3> HIDE DEF s
    <3>3. WellShaped(s)
      BY <1>1, <1>3, <3>1 DEF WellShaped, Knows, Drawn, HandedOver
    <3>4. Captures(s, NewRequest(p))
      BY <3>1 DEF Captures, NewRequest
    <3> QED BY <1>1, <1>3, <2>1, <3>1, <3>2, <3>3, <3>4, RequestAppears
  <2> QED BY <1>3, <2>2, <2>3 DEF Publish
<1> QED BY <1>2, <1>3

LEMMA HelperRefusesKeeps ==
  ASSUME IInv, NEW p \in Sessions, HelperRefuses(p) PROVE IInv'
<1>1. /\ At(p, "publishing") /\ Failed(p) /\ UNCHANGED <<checkout, requests, faults>>
  BY DEF HelperRefuses
<1>2. PICK s \in SessionRecords :
        /\ WellShaped(s) /\ CaptureIsTrue(s) /\ s.pc \in {"idle", "cleaning"}
        /\ session' = [session EXCEPT ![p] = s]
  BY <1>1, ProceedsTo DEF Failed
<1>3. CASE session[p].output = "request"
  <2>1. Drawn(session[p]) /\ Wipe(p)
    BY <1>1, <1>3 DEF Drawn, HandedOver, At, Failed
  <2>2. ~Open(session[p].id)
    BY <2>1 DEF IInv, IdsAreDrawn, Open
  <2> QED BY <1>1, <1>2, <2>1, <2>2, WipeKeeps
<1>4. CASE session[p].output # "request"
  <2>1. ~Drawn(session[p]) /\ brief' = brief
    BY <1>1, <1>4 DEF Drawn, At, Failed
  <2>2. ~Drawn(s) /\ HoldIsTrue(s)'
    BY <1>2 DEF Drawn, HandedOver, HoldIsTrue
  <2> QED BY <1>1, <1>2, <2>1, <2>2, SessionMoves
<1> QED BY <1>3, <1>4

LEMMA HelperFailsKeeps ==
  ASSUME IInv, NEW p \in Sessions, HelperFails(p) PROVE IInv'
<1>1. /\ At(p, "publishing") /\ Failed(p) /\ UNCHANGED checkout /\ faults' = faults + 1
      /\ HandedOver(session[p])
      /\ requests' = requests \/ requests' = Published(p, "command")
  BY DEF HelperFails, At, HandedOver
<1>2. PICK s \in SessionRecords :
        /\ WellShaped(s) /\ CaptureIsTrue(s) /\ s.pc \in {"idle", "cleaning"}
        /\ session' = [session EXCEPT ![p] = s]
  BY <1>1, ProceedsTo DEF Failed
<1>3. ~Drawn(s) /\ HoldIsTrue(s)'
  BY <1>2 DEF Drawn, HandedOver, HoldIsTrue
<1>4. CASE session[p].output = "request"
  <2>1. Drawn(session[p]) /\ Wipe(p)
    BY <1>1, <1>4 DEF Drawn, Failed
  <2>2. CASE requests' = requests
    BY <1>1, <1>2, <2>1, <2>2, WipeKeeps
  <2>3. CASE requests' = Append(requests, NewRequest(p))
    BY <1>1, <1>2, <1>4, <2>1, <2>3, RequestAppears
  <2> QED BY <1>1, <1>4, <2>2, <2>3 DEF Published
<1>5. CASE session[p].output # "request"
  <2>1. brief' = brief
    BY <1>5 DEF HelperFails, Failed
  <2>2. CASE requests' = requests
    BY <1>1, <1>2, <1>3, <2>1, <2>2, SessionMoves
  <2>3. CASE requests' = Published(p, "command")
    BY <1>1, <1>2, <1>5, <2>1, <2>3, AnswerAppears
  <2> QED BY <1>1, <2>2, <2>3
<1> QED BY <1>4, <1>5

LEMMA OrphanEndsKeeps ==
  ASSUME IInv, NEW p \in Sessions, OrphanEnds(p) PROVE IInv'
<1>1. /\ At(p, "orphan") /\ Quit(p) /\ UNCHANGED <<checkout, brief, faults>>
      /\ HandedOver(session[p])
      /\ requests' = requests \/ requests' = Published(p, "orphan")
  BY DEF OrphanEnds, At, HandedOver
<1>2. faults # 0
  BY <1>1 DEF IInv, LockIsHeld, HoldIsTrue, At
<1>3. session' = [session EXCEPT ![p] = NoSession]
  BY <1>1 DEF Quit, Become
<1>4. CASE requests' = requests
  BY <1>1, <1>2, <1>4, QuitKeeps
<1>5. CASE requests' = Published(p, "orphan") /\ session[p].output # "request"
  BY <1>1, <1>3, <1>5, NoSessionIsFine, AnswerAppears DEF At
<1>6. CASE requests' = Published(p, "orphan") /\ session[p].output = "request"
  <2>1. requests' = Append(requests, NewRequest(p))
    BY <1>6 DEF Published
  <2> QED BY <1>1, <1>3, <1>6, <2>1, NoSessionIsFine, RequestAppears
<1> QED BY <1>1, <1>4, <1>5, <1>6

LEMMA CrashKeeps ==
  ASSUME IInv, NEW p \in Sessions, Crash(p) PROVE IInv'
<1>1. faults' = faults + 1 /\ UNCHANGED <<checkout, requests, brief>>
  BY DEF Crash
<1>2. CASE Quit(p)
  BY <1>1, <1>2, QuitKeeps
<1>3. CASE At(p, "publishing") /\ Become(p, [session[p] EXCEPT !.pc = "orphan", !.todo = {}])
  <2> DEFINE goal == [session[p] EXCEPT !.pc = "orphan", !.todo = {}]
  <2>1. session[p] \in SessionRecords /\ WellShaped(session[p]) /\ CaptureIsTrue(session[p])
    BY DEF IInv, Types, SessionShape, CapturesAreTrue
  <2>2. /\ goal \in SessionRecords /\ goal.pc = "orphan" /\ goal.todo = {}
        /\ goal.id = session[p].id /\ goal.via = session[p].via
        /\ goal.branch = session[p].branch /\ goal.task = session[p].task
        /\ goal.snapshot = session[p].snapshot /\ goal.output = session[p].output
    BY <2>1 DEF SessionRecords, PCs
  <2>g. session' = [session EXCEPT ![p] = goal]
    BY <1>3 DEF Become
  <2> HIDE DEF goal
  <2>3. PICK s \in SessionRecords :
          /\ s.pc = "orphan" /\ s.todo = {} /\ s.id = session[p].id
          /\ s.via = session[p].via /\ s.branch = session[p].branch /\ s.task = session[p].task
          /\ s.snapshot = session[p].snapshot /\ s.output = session[p].output
          /\ session' = [session EXCEPT ![p] = s]
    BY <2>2, <2>g
  <2>4. WellShaped(s) /\ (Drawn(s) <=> Drawn(session[p]))
    BY <1>3, <2>1, <2>3 DEF WellShaped, Knows, Drawn, HandedOver, At
  <2>5. CaptureIsTrue(s)
    BY <1>3, <2>1, <2>3 DEF CaptureIsTrue, Captures, HandedOver, At
  <2>6. HoldIsTrue(s)'
    BY <1>1, <2>3 DEF HoldIsTrue, IInv, Types
  <2>7. CASE Drawn(s)
    BY <1>1, <2>3, <2>4, <2>7, DrawnStays
  <2>8. CASE ~Drawn(s)
    BY <1>1, <2>3, <2>4, <2>5, <2>6, <2>8, SessionMoves
  <2> QED BY <2>7, <2>8
<1> QED BY <1>2, <1>3 DEF Crash

-----------------------------------------------------------------------------
(* The checkout changes under the commands, a task only while nobody     *)
(* publishes, or by a fault.                                             *)
LEMMA CheckoutKeeps ==
  ASSUME IInv, Types', UNCHANGED <<requests, brief, session>>,
         \/ faults' = faults /\ (task' = task \/ Free)
         \/ faults' = faults + 1
  PROVE  IInv'
<1>1. faults' = 0 => faults = 0 /\ (task' = task \/ Free)
  BY DEF IInv, Types
<1>2. LockIsHeld'
  BY <1>1 DEF IInv, LockIsHeld, HoldIsTrue, Unanswered, Free, At
<1>3. SessionShape' /\ IdsAreDrawn' /\ CapturesAreTrue' /\ OneOutcome'
  BY DEF IInv, SessionShape, WellShaped, Knows, Drawn, HandedOver, IdsAreDrawn, CapturesAreTrue,
         CaptureIsTrue, Captures, OneOutcome, Recorded
<1>4. OpenKeepsItsBrief' /\ BriefIsReachable'
  BY <1>1 DEF IInv, OpenKeepsItsBrief, BriefIsReachable, Recorded, Open, Request, Index
<1> QED BY <1>2, <1>3, <1>4 DEF IInv

LEMMA ChangeTaskTypes ==
  ASSUME IInv, ChangeTask PROVE task' \in [Branches -> TaskStates]
<1>1. head \in Branches /\ task \in [Branches -> TaskStates]
  BY DEF IInv, Types
<1>2. \E s \in TaskStates : task' = [task EXCEPT ![head] = s]
  BY DEF ChangeTask, Lifecycle!Finish, Lifecycle!Start, Lifecycle!Reset, Lifecycle!Open,
         Lifecycle!Active, Lifecycle!Idle, TaskStates
<1> QED BY <1>1, <1>2

(* Every step of a command keeps the invariant.                          *)
LEMMA CommandKeeps ==
  ASSUME IInv, NEW p \in Sessions, Command(p) PROVE IInv'
<1>1. ASSUME RefuseBrief(p) \/ RefuseSubmission(p) \/ RefuseVerdict(p) \/ AlreadyClosed(p)
      PROVE  IInv'
  BY <1>1, QuitKeeps
  DEF RefuseBrief, RefuseSubmission, RefuseVerdict, AlreadyClosed, At, Drawn, HandedOver
<1>2. ASSUME NEW output \in Verdicts, GradeSubmission(p, output) PROVE IInv'
  BY <1>2, GradedKeeps DEF GradeSubmission
<1>3. ASSUME Judge(p) PROVE IInv'
  <2>1. session[p].output \in Verdicts
    BY <1>3 DEF Judge, IInv, SessionShape, WellShaped, At
  <2> QED BY <1>3, <2>1, GradedKeeps DEF Judge
<1> QED
  BY <1>1, <1>2, <1>3, DispatchKeeps, BuildBriefKeeps, RecordRequestKeeps, RefuseRequestKeeps,
     RunnerReturnsKeeps, JudgeMovedKeeps, SubmitKeeps, RecordVerdictKeeps, CancelCapturedKeeps,
     CleanupKeeps, SettleKeeps, CleanOpenKeeps, CleanClosedKeeps, CleanRefusedKeeps,
     PublishKeeps, HelperRefusesKeeps, HelperFailsKeeps, OrphanEndsKeeps, CrashKeeps
  DEF Command

LEMMA StepInv == IInv /\ [Next]_vars => IInv'
<1> SUFFICES ASSUME IInv, [Next]_vars PROVE IInv'
  OBVIOUS
<1>1. ASSUME NEW b \in Branches, Checkout(b) PROVE IInv'
  BY <1>1, CheckoutKeeps DEF Checkout, IInv, Types
<1>2. ASSUME NEW t \in Trees, Edit(t) PROVE IInv'
  BY <1>2, CheckoutKeeps DEF Edit, IInv, Types
<1>3. ASSUME ChangeTask PROVE IInv'
  <2>1. Types'
    BY <1>3, ChangeTaskTypes DEF ChangeTask, IInv, Types
  <2> QED BY <1>3, <2>1, CheckoutKeeps DEF ChangeTask
<1>4. CASE UNCHANGED vars
  BY <1>4, CheckoutKeeps DEF vars, checkout, IInv, Types
<1> QED BY <1>1, <1>2, <1>3, <1>4, CommandKeeps DEF Next

(* A session that comes to publish an approval has compared it.          *)
LEMMA StepHandsOver ==
  ASSUME IInv, Next, NEW p \in Sessions, session'[p].pc = "publishing", ~At(p, "publishing"),
         session'[p].output = "approved"
  PROVE  LET r == Request(session'[p].id)
         IN  head = r.branch /\ task[head] = r.task /\ tree[head] = r.snapshot
<1>1. PICK q \in Sessions : Command(q)
  BY DEF Next, Checkout, Edit, ChangeTask, At
<1>2. \A s : Become(q, s) => session'[q] = s /\ \A t \in Sessions \ {q} : session'[t] = session[t]
  BY DEF Become, IInv, Types
<1>3. \A id, v, todo : HandOver(q, id, v, todo) /\ q = p => v = "approved" /\ session'[p].id = id
  BY DEF HandOver, Become, IInv, Types, SessionRecords
<1>4. q = p
  BY <1>1, <1>2
  DEF Command, Dispatch, BuildBrief, RefuseBrief, RecordRequest, RefuseRequest, RunnerReturns,
      GradeSubmission, JudgeMoved, Judge, Submit, RefuseSubmission, RecordVerdict, RefuseVerdict,
      CancelCaptured, AlreadyClosed, Cleanup, Settle, CleanOpen, CleanClosed, CleanRefused,
      Publish, HelperRefuses, HelperFails, OrphanEnds, Crash, Failed, Proceed, HandOver, Quit, At
<1>5. RecordVerdict(p)
  <2>1. session[p] \in SessionRecords
    BY DEF IInv, Types
  <2>2. \A s : Become(p, s) => s.pc = "publishing"
    BY <1>2, <1>4
  <2>3. ~Quit(p)
    BY <2>2, NoSessionIsFine DEF Quit
  <2>4. ASSUME NEW todo PROVE ~Proceed(p, todo)
    <3>1. [session[p] EXCEPT !.pc = "cleaning", !.todo = todo].pc = "cleaning"
      BY <2>1 DEF SessionRecords
    <3> QED BY ZenonT(30), <2>2, <2>3, <3>1 DEF Proceed
  <2>5. ~Become(p, [session[p] EXCEPT !.pc = "orphan", !.todo = {}])
    <3>1. [session[p] EXCEPT !.pc = "orphan", !.todo = {}].pc = "orphan"
      BY <2>1 DEF SessionRecords
    <3> QED BY ZenonT(30), <2>2, <3>1
  <2>6. ~Crash(p) /\ ~OrphanEnds(p) /\ ~HelperFails(p) /\ ~HelperRefuses(p) /\ ~Settle(p)
    BY <2>3, <2>4, <2>5 DEF Crash, OrphanEnds, HelperFails, HelperRefuses, Settle, Failed
  <2>7. ~RefuseBrief(p) /\ ~RefuseRequest(p) /\ ~RefuseSubmission(p) /\ ~RefuseVerdict(p)
        /\ ~AlreadyClosed(p)
    BY <2>3 DEF RefuseBrief, RefuseRequest, RefuseSubmission, RefuseVerdict, AlreadyClosed
  <2>8. ~RecordRequest(p) /\ ~CancelCaptured(p)
    BY <1>3, <1>4 DEF RecordRequest, CancelCaptured
  <2>9. ASSUME NEW id PROVE ~CleanOpen(p, id) /\ ~CleanRefused(p, id) /\ ~CleanClosed(p, id)
    <3>1. ~CleanOpen(p, id)
      BY <1>3, <1>4 DEF CleanOpen
    <3>2. ~CleanClosed(p, id)
      <4>1. [session[p] EXCEPT !.pc = "settle", !.id = id, !.todo = Done(p, id)].pc = "settle"
        BY <2>1 DEF SessionRecords
      <4> QED BY ZenonT(30), <2>2, <4>1 DEF CleanClosed
    <3> QED BY <2>4, <3>1, <3>2 DEF CleanRefused
  <2>10. ASSUME NEW via, NEW forced PROVE ~Dispatch(p, via, forced)
    <3>1. [NoSession EXCEPT !.pc = "building", !.via = via, !.branch = head,
                            !.task = task[head], !.snapshot = tree[head]].pc = "building"
      BY DEF NoSession
    <3> QED BY ZenonT(30), <2>2, <3>1 DEF Dispatch
  <2>11. ~BuildBrief(p) /\ ~JudgeMoved(p) /\ ~Judge(p)
    <3>1. \A id : [session[p] EXCEPT !.pc = "requesting", !.id = id].pc = "requesting"
      BY <2>1 DEF SessionRecords
    <3>2. [session[p] EXCEPT !.pc = "cancel"].pc = "cancel"
      BY <2>1 DEF SessionRecords
    <3>3. \A snap, out : [session[p] EXCEPT !.pc = "verdict", !.snapshot = snap,
                                            !.output = out].pc = "verdict"
      BY <2>1 DEF SessionRecords
    <3>4. ~BuildBrief(p)
      BY ZenonT(30), <2>2, <3>1 DEF BuildBrief
    <3>5. ~JudgeMoved(p)
      BY ZenonT(30), <2>2, <3>2 DEF JudgeMoved
    <3>6. ~Judge(p)
      BY ZenonT(30), <2>2, <3>3 DEF Judge
    <3> QED BY <3>4, <3>5, <3>6
  <2>12. ASSUME NEW output PROVE ~RunnerReturns(p, output) /\ ~GradeSubmission(p, output)
    <3>1. [session[p] EXCEPT !.pc = "returned", !.output = output].pc = "returned"
      BY <2>1 DEF SessionRecords
    <3>2. \A snap, out : [session[p] EXCEPT !.pc = "verdict", !.snapshot = snap,
                                            !.output = out].pc = "verdict"
      BY <2>1 DEF SessionRecords
    <3>3. ~RunnerReturns(p, output)
      BY ZenonT(30), <2>2, <3>1 DEF RunnerReturns
    <3>4. ~GradeSubmission(p, output)
      BY ZenonT(30), <2>2, <3>2 DEF GradeSubmission
    <3> QED BY <3>3, <3>4
  <2>13. ~Submit(p) /\ ~Cleanup(p)
    <3>1. \A id, via, snap :
            [NoSession EXCEPT !.pc = "submitting", !.id = id, !.via = via, !.branch = head,
                              !.task = task[head], !.snapshot = snap].pc = "submitting"
      BY DEF NoSession
    <3>2. \A mine : [NoSession EXCEPT !.pc = "cleaning", !.branch = head, !.task = task[head],
                                      !.todo = mine].pc = "cleaning"
      BY DEF NoSession
    <3>3. ~Submit(p)
      BY ZenonT(30), <2>2, <3>1 DEF Submit
    <3>4. ~Cleanup(p)
      BY ZenonT(30), <2>2, <3>2 DEF Cleanup
    <3> QED BY <3>3, <3>4
  <2>14. ~Publish(p)
    BY DEF Publish
  <2> QED BY <1>1, <1>4, <2>6, <2>7, <2>8, <2>9, <2>10, <2>11, <2>12, <2>13, <2>14 DEF Command
<1>6. /\ At(p, "verdict") /\ VerdictFits(p) /\ session'[p].id = session[p].id
      /\ session[p].output = "approved"
  BY <1>3, <1>4, <1>5 DEF RecordVerdict
<1>7. PICK i \in 1 .. Len(requests) : Captures(session[p], requests[i])
  BY <1>6 DEF IInv, CapturesAreTrue, CaptureIsTrue, At
<1>8. Request(session[p].id) = requests[i]
  BY <1>7, IndexOf DEF IInv, Request, Captures
<1> QED BY <1>6, <1>7, <1>8 DEF Captures, VerdictFits, Unmoved, At

(* A request becomes approved by what a session has handed over, which   *)
(* names the content the request was dispatched with.                    *)
LEMMA StepPublishes ==
  ASSUME IInv, Next, NEW i \in 1 .. Len(requests),
         VerdictIs("approved", requests'[i]), ~VerdictIs("approved", requests[i])
  PROVE  /\ \A k \in 1 .. Len(requests'[i].outcomes) :
              requests'[i].outcomes[k].verdict = "approved" =>
                requests'[i].outcomes[k].snapshot = requests[i].snapshot
         /\ faults = 0 => task[requests[i].branch] = requests[i].task
<1>1. requests' # requests /\ requests'[i] # requests[i]
  OBVIOUS
<1>2. PICK p \in Sessions, by \in {"command", "orphan"} :
        /\ HandedOver(session[p]) /\ requests' = Published(p, by)
        /\ At(p, "publishing") \/ At(p, "orphan")
  <2>1. PICK p \in Sessions : Command(p)
    BY <1>1 DEF Next, Checkout, Edit, ChangeTask
  <2>2. Publish(p) \/ HelperFails(p) \/ OrphanEnds(p)
    BY <1>1, <2>1
    DEF Command, Dispatch, BuildBrief, RefuseBrief, RecordRequest, RefuseRequest, RunnerReturns,
        GradeSubmission, JudgeMoved, Judge, Submit, RefuseSubmission, RecordVerdict,
        RefuseVerdict, CancelCaptured, AlreadyClosed, Cleanup, Settle, CleanOpen, CleanClosed,
        CleanRefused, HelperRefuses, Crash
  <2> QED BY <1>1, <2>2 DEF Publish, HelperFails, OrphanEnds, HandedOver, At
<1>3. session[p].output # "request"
  <2> SUFFICES ASSUME session[p].output = "request" PROVE FALSE
    OBVIOUS
  <2>1. requests' = Append(requests, NewRequest(p)) /\ Drawn(session[p])
    BY <1>2 DEF Published, Drawn
  <2> QED BY <1>1, <2>1, Appended
<1> DEFINE o == Outcome(p, by)
           n == Len(requests[i].outcomes) + 1
<1>4. /\ i = Index(session[p].id) /\ requests[i].id = session[p].id
      /\ Len(requests[i].outcomes) = n - 1 /\ n - 1 \in Nat
      /\ Len(requests'[i].outcomes) = n
      /\ \A k \in 1 .. n - 1 : requests'[i].outcomes[k] = requests[i].outcomes[k]
      /\ requests'[i].outcomes[n] = o
      /\ o.verdict = session[p].output
      /\ o.verdict # "cancelled" => o.snapshot = session[p].snapshot
  <2> DEFINE a == Index(session[p].id)
  <2>1. /\ requests[a].id = session[p].id
        /\ \A j \in 1 .. Len(requests) \ {a} : requests'[j] = requests[j]
        /\ Len(requests[a].outcomes) \in Nat
        /\ Len(requests'[a].outcomes) = Len(requests[a].outcomes) + 1
        /\ \A k \in 1 .. Len(requests[a].outcomes) :
             requests'[a].outcomes[k] = requests[a].outcomes[k]
        /\ requests'[a].outcomes[Len(requests[a].outcomes) + 1] = o
    BY <1>2, <1>3, Answered
  <2>2. o.verdict = session[p].output /\ (o.verdict # "cancelled" => o.snapshot = session[p].snapshot)
    BY <1>2, <1>3, Answered
  <2>3. i = a
    BY <1>1, <2>1
  <2> QED BY <2>1, <2>2, <2>3
<1> HIDE DEF o
<1>5. \A k \in 1 .. n - 1 : requests'[i].outcomes[k].verdict # "approved"
  BY <1>4 DEF VerdictIs
<1>6. o.verdict = "approved"
  <2>1. PICK k \in 1 .. Len(requests'[i].outcomes) : requests'[i].outcomes[k].verdict = "approved"
    BY DEF VerdictIs
  <2>2. k = n
    BY <1>4, <1>5, <2>1
  <2> QED BY <1>4, <2>1, <2>2
<1>7. PICK j \in 1 .. Len(requests) : Captures(session[p], requests[j])
  BY <1>2, <1>4, <1>6 DEF IInv, CapturesAreTrue, CaptureIsTrue
<1>8. j = i
  BY <1>4, <1>7 DEF IInv, IdsAreDrawn, Captures
<1>9. o.snapshot = requests[i].snapshot
  BY <1>2, <1>4, <1>6, <1>7, <1>8 DEF Captures, At
<1>10. ASSUME NEW k \in 1 .. Len(requests'[i].outcomes),
              requests'[i].outcomes[k].verdict = "approved"
       PROVE  requests'[i].outcomes[k].snapshot = requests[i].snapshot
  <2>1. k = n
    BY <1>4, <1>5, <1>10
  <2> QED BY <1>4, <1>9, <2>1
<1>11. faults = 0 => task[requests[i].branch] = requests[i].task
  BY <1>2, <1>4, <1>6, <1>7, <1>8 DEF IInv, LockIsHeld, HoldIsTrue, Captures, At
<1> QED BY <1>10, <1>11

(* What ApprovalOfWhatWasDispatched says of a step.                      *)
ApprovalStep ==
  /\ \A p \in Sessions :
       session'[p].pc = "publishing" /\ ~At(p, "publishing")
         /\ session'[p].output = "approved"
       => LET r == Request(session'[p].id)
          IN  head = r.branch /\ task[head] = r.task /\ tree[head] = r.snapshot
  /\ \A i \in 1 .. Len(requests) :
       VerdictIs("approved", requests'[i]) /\ ~VerdictIs("approved", requests[i])
       => /\ \A k \in 1 .. Len(requests'[i].outcomes) :
               requests'[i].outcomes[k].verdict = "approved" =>
                 requests'[i].outcomes[k].snapshot = requests[i].snapshot
          /\ faults = 0 => task[requests[i].branch] = requests[i].task

LEMMA StepApproves == IInv /\ [Next]_vars => [ApprovalStep]_vars
<1> SUFFICES ASSUME IInv, Next PROVE ApprovalStep
  OBVIOUS
<1> QED BY StepHandsOver, StepPublishes DEF ApprovalStep

-----------------------------------------------------------------------------
(* Whatever races for a request, exactly one outcome is recorded by the  *)
(* commands (recordReview, cancelCapturedReviewRequest, reviewCleanup),  *)
(* for any number of sessions, branches, contents, requests and faults,  *)
(* and whatever helpers of killed commands publish beside them.          *)
THEOREM OneOutcomeWins == Spec => []OneOutcome
<1>1. IInv => OneOutcome
  BY DEF IInv
<1> QED BY InitInv, StepInv, <1>1, PTL DEF Spec

(* The brief on disk and the request in the ledger live and end together *)
(* as long as nothing is killed, and every variable keeps its type       *)
(* (reviewRun, settlePreparedReviewBrief, reviewCleanup).                *)
THEOREM BriefLivesWithRequest == Spec => []BriefFollowsRequest
<1>1. IInv => TypeOK
  <2> SUFFICES ASSUME IInv PROVE TypeOK
    OBVIOUS
  <2>1. ASSUME NEW i \in 1 .. Len(requests)
        PROVE  /\ requests[i].id \in Ids /\ requests[i].via \in Routes
               /\ requests[i].branch \in Branches /\ requests[i].snapshot \in Trees
               /\ requests[i].outcomes \in Seq(Outcomes)
    BY RequestTypes DEF RequestRecords
  <2>2. ASSUME NEW i \in 1 .. Len(requests), NEW k \in 1 .. Len(requests[i].outcomes)
        PROVE  requests[i].outcomes[k].verdict \in Verdicts \union {"cancelled"}
    <3>1. requests[i].outcomes[k] \in Outcomes
      BY <2>1
    <3> QED BY <3>1 DEF Outcomes
  <2> QED BY <2>1, <2>2 DEF IInv, Types, IdsAreDrawn, TypeOK
<1>2. IInv => BriefFollowsRequest
  BY <1>1 DEF IInv, BriefFollowsRequest
<1> QED BY InitInv, StepInv, <1>2, PTL DEF Spec

(* An approval is handed to the helper only while the checkout, its      *)
(* branch and its task are those the request was dispatched for, however *)
(* often they changed in between; the one published names the content    *)
(* of the request (reviewRun, reviewSubmit, recordReview).               *)
THEOREM ApprovalIsDispatched == Spec => ApprovalOfWhatWasDispatched
<1>1. Spec => []IInv
  BY InitInv, StepInv, PTL DEF Spec
<1>2. IInv /\ [Next]_vars => [ApprovalStep]_vars
  BY StepApproves
<1>3. Spec => [][ApprovalStep]_vars
  BY <1>1, <1>2, PTL DEF Spec
<1> QED BY <1>3 DEF ApprovalOfWhatWasDispatched, ApprovalStep
=============================================================================
