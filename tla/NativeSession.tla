---------------------------- MODULE NativeSession ----------------------------
(***************************************************************************)
(* The session that drives the stdd-fs helper (sdk/native-fs.mjs), with    *)
(* the helper of FsHelper at the other end of its pipes.  The helper's     *)
(* program is verified before and after it is started; requests are        *)
(* numbered, queued and sent one at a time down one pipe, and the answers  *)
(* come back over another, which may bring something else.  Every refused  *)
(* request says whether the file system was touched, and every caller in   *)
(* cli/ decides by that word whether to look again, to roll back or to     *)
(* retry.                                                                  *)
(***************************************************************************)
EXTENDS FsHelper, SequencesExt

CONSTANTS MaxFaults   \* bound: strange lines, deaths, broken pipes and races

ASSUME NativeSessionAssumption == MaxFaults \in Nat

VARIABLES
  phase, package, running,    \* the session's start; the program at the
                              \* package's path, and the one that was started
  out,                        \* how each request's promise was settled
  queue, pending,             \* requests not issued yet, and the issued one
  failure, closed, shutdown,  \* the session's end
  faults

start == <<phase, package, running>>
session == <<op, queue, pending, failure, closed, shutdown, start>>
budget == <<faults, races>>
vars == <<session, out, helper, pipe, names, record, budget>>

TypeOK ==
  /\ HelperTypeOK
  /\ phase \in {"inspect", "verified", "spawn", "attach", "hello", "ready", "refused"}
  /\ package \in {"shipped", "other"} /\ running \in {"shipped", "other", None}
  /\ out \in [Ids -> Words \union {None}]
  /\ queue \in Seq(Ids) /\ pending \in Ids \union {None}
  /\ failure \in {None, "none", "possible"}
  /\ closed \in BOOLEAN /\ shutdown \in {"no", "term", "kill", "done"}

Init ==
  /\ HelperInit
  /\ phase = "inspect" /\ package \in {"shipped", "other"} /\ running = None
  /\ out = [i \in Ids |-> None]
  /\ queue = <<>> /\ pending = None /\ failure = None /\ closed = FALSE /\ shutdown = "no"
  /\ faults = 0

-----------------------------------------------------------------------------
(* openNativeFsSession: the program's bytes are those of the manifest ...  *)
Unstarted ==
  UNCHANGED <<op, queue, pending, failure, closed, shutdown, package, out, inbox, serving, step,
              pipe, names, record, budget>>

Proceed(next) == phase' = IF package = "shipped" THEN next ELSE "refused"

Inspect ==
  /\ phase = "inspect" /\ Proceed("verified")
  /\ UNCHANGED <<running, alive>> /\ Unstarted

(* ... its path still leads to the inode that was read ...                 *)
Attached ==
  /\ phase = "verified" /\ Proceed("spawn")
  /\ UNCHANGED <<running, alive>> /\ Unstarted

(* ... Linux starts that inode, the others what the path leads to ...      *)
Spawn ==
  /\ phase = "spawn" /\ phase' = "attach"
  /\ running' = IF platform = "linux" THEN "shipped" ELSE package
  /\ alive' = TRUE
  /\ Unstarted

(* ... which must be the inode that was read, or the helper is killed ...  *)
Reattached ==
  /\ phase = "attach" /\ Proceed("hello")
  /\ alive' = (package = "shipped")
  /\ UNCHANGED running /\ Unstarted

(* ... and the helper says hello, opens the root and probes its volume.    *)
Hello ==
  /\ phase = "hello"
  /\ \/ phase' = "ready" /\ UNCHANGED alive
     \/ phase' = "refused" /\ alive' = FALSE
  /\ UNCHANGED running /\ Unstarted

(* An upgrade puts another program in the helper's place.                  *)
Upgrade ==
  /\ phase \in {"verified", "spawn", "attach"} /\ package' = "other"
  /\ UNCHANGED <<phase, running, op, queue, pending, failure, closed, shutdown, out, helper, pipe,
                 names, record, budget>>

Called == {i \in Ids : op[i] # None}
Waiting == {i \in Called : out[i] = None}

(* Promise reactions run before the next event: a free queue is taken up.  *)
Quiet == queue = <<>> \/ pending # None

-----------------------------------------------------------------------------
(* The session: request() checks its fields and queues the request.  The   *)
(* callers in cli/ await each mutation; only reads go out together.        *)
Request(o) ==
  /\ phase = "ready" /\ Called # Ids /\ Quiet
  /\ \A i \in Waiting : {op[i], o} \intersect Mutating = {}
  /\ LET i == CHOOSE i \in Ids : Called = 1..(i - 1) IN
     /\ op' = [op EXCEPT ![i] = o]
     /\ \/ queue' = Append(queue, i) /\ UNCHANGED out
        \/ out' = [out EXCEPT ![i] = "none"] /\ UNCHANGED queue
  /\ UNCHANGED <<pending, failure, closed, shutdown, start, helper, pipe, names, record, budget>>

(* requestNow: a line too long or a dead session refuses it unsent.        *)
RequestNow ==
  /\ ~Quiet
  /\ LET i == Head(queue) IN
     \/ /\ failure # None \/ closed
        /\ out' = [out EXCEPT ![i] = IF failure # None THEN failure ELSE "none"]
        /\ UNCHANGED <<pending, inbox>>
     \/ /\ failure = None /\ ~closed
        /\ pending' = i
        /\ inbox' = IF alive THEN Append(inbox, i) ELSE inbox
        /\ UNCHANGED out
  /\ queue' = Tail(queue)
  /\ UNCHANGED <<op, failure, closed, shutdown, start, alive, serving, step, pipe, names, record,
                 budget>>

(* A slip: what was sent and not answered was not done.                    *)
UnknownNone(i) == "none"

(* What is said of a request that was sent and not answered.               *)
Unknown(i) == IF op[i] \in Mutating THEN "possible" ELSE "none"

Settle(i, word) == out' = [out EXCEPT ![i] = word]

Begin == shutdown' = IF shutdown = "no" THEN "term" ELSE shutdown

(* failTransport, with a request pending or none.                          *)
Fail ==
  /\ IF pending = None THEN failure' = "none" /\ UNCHANGED out
     ELSE failure' = Unknown(pending) /\ Settle(pending, Unknown(pending))
  /\ pending' = None /\ Begin

(* validateResponse: this request's number, and a result of its shape.     *)
Accepts(line) == line.id = pending /\ line.word # "malformed"

(* One event of the helper's stdout: a chunk of k lines.  A first line is  *)
(* the answer or the end of the session; a second one has nothing pending. *)
OnData ==
  /\ Quiet /\ pipe # <<>>
  /\ \E k \in 1..Len(pipe) :
       /\ pipe' = SubSeq(pipe, k + 1, Len(pipe))
       /\ IF failure # None \/ closed THEN UNCHANGED <<out, pending, failure, shutdown>>
          ELSE IF pending = None THEN Fail
          ELSE /\ pending' = None
               /\ Settle(pending, IF Accepts(Head(pipe)) THEN Head(pipe).word
                                  ELSE Unknown(pending))
               /\ IF Accepts(Head(pipe)) /\ k = 1 THEN UNCHANGED <<failure, shutdown>>
                  ELSE failure' = "none" /\ Begin
  /\ UNCHANGED <<op, queue, closed, start, helper, names, record, budget>>

(* The pipe's end, the helper's exit (which may overtake its last lines),  *)
(* a broken stdin, too much on stderr.                                     *)
TransportFails ==
  /\ phase = "ready" /\ Quiet /\ failure = None /\ ~closed
  /\ ~alive \/ faults + races < MaxFaults
  /\ faults' = IF alive THEN faults + 1 ELSE faults
  /\ Fail
  /\ UNCHANGED <<op, queue, closed, start, helper, pipe, names, record, races>>

(* A slip: the timer ends the session and forgets who waits.               *)
TimeoutForgets ==
  /\ Quiet /\ pending # None
  /\ failure' = Unknown(pending) /\ pending' = None /\ Begin
  /\ UNCHANGED <<op, queue, closed, start, out, helper, pipe, names, record, budget>>

(* The timer of the pending request fires.                                 *)
Timeout ==
  /\ Quiet /\ pending # None
  /\ Fail
  /\ UNCHANGED <<op, queue, closed, start, helper, pipe, names, record, budget>>

(* A caller closes in a finally: nothing it awaits is a mutation.          *)
MayClose == \A i \in Waiting : op[i] \notin Mutating

Close ==
  /\ phase = "ready" /\ Quiet /\ ~closed /\ MayClose
  /\ closed' = TRUE
  /\ IF pending = None THEN UNCHANGED out ELSE Settle(pending, "none")
  /\ pending' = None /\ Begin
  /\ UNCHANGED <<op, queue, failure, start, helper, pipe, names, record, budget>>

(* A slip: the end of stdin is taken for the end of the helper.            *)
ShutdownTermOnly ==
  /\ Quiet /\ shutdown = "term"
  /\ shutdown' = "done"
  /\ UNCHANGED <<op, queue, pending, failure, closed, start, out, helper, pipe, names, record,
                 budget>>

(* SIGTERM and a grace in which the helper may exit ...                    *)
ShutdownTerm ==
  /\ Quiet /\ shutdown = "term"
  /\ shutdown' = IF alive THEN "kill" ELSE "done"
  /\ UNCHANGED <<op, queue, pending, failure, closed, start, out, helper, pipe, names, record,
                 budget>>

(* ... then SIGKILL, whose grace is taken to outlast the exit.             *)
ShutdownKill ==
  /\ Quiet /\ shutdown = "kill"
  /\ alive' = FALSE /\ serving' = None /\ step' = "idle" /\ inbox' = <<>>
  /\ shutdown' = "done"
  /\ UNCHANGED <<op, queue, pending, failure, closed, start, out, pipe, names, record, budget>>

-----------------------------------------------------------------------------
(* The helper is killed, or exits when its stdin has ended.                *)
HelperExits ==
  /\ phase = "ready" /\ alive /\ (shutdown # "no" \/ faults + races < MaxFaults)
  /\ faults' = IF shutdown # "no" THEN faults ELSE faults + 1
  /\ alive' = FALSE /\ serving' = None /\ step' = "idle" /\ inbox' = <<>>
  /\ UNCHANGED <<session, out, pipe, names, record, races>>

(* A helper that is not the one expected: a line twice, a line for no      *)
(* request, a result of another shape.                                     *)
StrangeLine ==
  /\ phase = "ready" /\ alive /\ faults + races < MaxFaults
  /\ faults' = faults + 1
  /\ \/ \E i \in {0} \union {i \in Called : out[i] # None} :
          pipe' = Append(pipe, [id |-> i, word |-> "ok"])
     \/ pipe # <<>> /\ pipe' = [pipe EXCEPT ![Len(pipe)].word = "malformed"]
  /\ UNCHANGED <<session, out, helper, names, record, races>>

Events ==
  \/ RequestNow \/ OnData \/ TransportFails \/ Timeout \/ ShutdownTerm \/ ShutdownKill

(* What the helper and others do leaves the session alone.                 *)
Unserved == UNCHANGED <<queue, pending, failure, closed, shutdown, start, out, faults>>

Next ==
  \/ \E o \in Ops : Request(o)
  \/ Inspect \/ Attached \/ Spawn \/ Reattached \/ Hello \/ Upgrade
  \/ Events \/ Close \/ HelperExits \/ StrangeLine
  \/ HelperStep /\ Unserved
  \/ faults = 0 /\ Race /\ Unserved

(* Node runs its queued reactions, its timers and its shutdown.            *)
Spec ==
  /\ Init /\ [][Next]_vars
  /\ WF_vars(RequestNow) /\ WF_vars(Timeout) /\ WF_vars(ShutdownTerm) /\ WF_vars(ShutdownKill)

-----------------------------------------------------------------------------
(* The word is true for good: "none" was never done and never will be,     *)
(* although the helper may still be at work when the caller is told;       *)
(* "committed" and "ok" were done by that very request, whatever else came *)
(* down the pipe.                                                          *)
WordIsTrue ==
  \A i \in Called : op[i] \in Mutating =>
    /\ out[i] = "none" => ~did[i] /\ ~(i = serving \/ Contains(inbox, i))
    /\ out[i] \in {"ok", "committed"} => did[i]

(* What is reported as renamed, created or read through a temporary name   *)
(* is the very inode the request was about, although the system call takes *)
(* any; and on Windows no other inode is ever moved, reported or not.      *)
OkTookExpected ==
  \A i \in Called :
    /\ out[i] = "ok" /\ (op[i] \in Renaming \union {"read-link"} \/ Prepares(i)) =>
         took[i] = Expected(i)
    /\ ~Unix => took[i] \in {None, Expected(i)}

(* Nothing is asked of a program other than the one the manifest names,    *)
(* although an upgrade may replace it while the session starts.            *)
HelperIsVerified == phase = "ready" => running = "shipped"

(* What a caller is told is what happened, and to the inode it named, and  *)
(* it is told so by the helper that was shipped.                           *)
AnswersAreTrue == TypeOK /\ WordIsTrue /\ OkTookExpected /\ HelperIsVerified

(* No request but an authorised replacement takes a name from an inode     *)
(* without giving it another, its own unfinished creation excepted.        *)
NothingReplaced ==
  (serving # None /\ op[serving] # "replace" /\ races' = races) =>
    \A n \in Names : dir[n] \in {None, Made(serving)} \/ \E m \in Names : dir'[m] = dir[n]

(* When the session has ended nothing is done any more: what a caller      *)
(* finds on disk after closing is final.                                   *)
NothingAfterShutdown == shutdown = "done" => did' = did

(* Nothing is done that nobody asked for, and nothing any more at the end. *)
NothingUnasked == [][NothingReplaced /\ NothingAfterShutdown]_vars

(* Every promise is settled, behind a hung helper or a broken pipe too.    *)
EveryRequestSettles == \A i \in Ids : [](op[i] # None => <>(out[i] # None))
=============================================================================
