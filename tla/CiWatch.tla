------------------------------- MODULE CiWatch -------------------------------
(***************************************************************************)
(* stdd ci [--watch] (ciCommand of cli/ci.mjs) against a forge whose       *)
(* checks register, end and are run again, and whose pull request head     *)
(* moves, between two polls.                                               *)
(***************************************************************************)
EXTENDS Naturals, Sequences, FiniteSets

CONSTANTS
  Names,    \* the checks the workflows of a head will have
  MaxHead,  \* bound: heads pushed
  MaxRuns,  \* bound: entries of one head
  MaxPolls  \* polls within --timeout

ASSUME CiAssumption == MaxHead \in Nat /\ MaxRuns \in Nat /\ MaxPolls \in Nat \ {0}

VARIABLES
  head,    \* the head of the pull request
  rollup,  \* its check entries, several of a name after a re-run
  watch,   \* what the command remembers between polls
  polled   \* history: what the last two polls saw

vars == <<head, rollup, watch, polled>>

None == [head |-> 0, names |-> {}]

Init ==
  /\ head = 1 /\ rollup = {}
  /\ \E watching \in BOOLEAN :
       watch = [watching |-> watching, last |-> None, stable |-> 0, polls |-> 0,
                verdict |-> "none"]
  /\ polled = <<>>

-----------------------------------------------------------------------------
(* The forge.                                                              *)
RunsOf(n) == {e \in rollup : e.name = n}

Run(n) ==
  /\ Cardinality(rollup) < MaxRuns
  /\ rollup' = rollup \union
       {[name |-> n, startedAt |-> Cardinality(RunsOf(n)) + 1, result |-> "pending"]}
  /\ UNCHANGED <<head, watch, polled>>

Finish(e, result) ==
  /\ e.result = "pending"
  /\ rollup' = (rollup \ {e}) \union {[e EXCEPT !.result = result]}
  /\ UNCHANGED <<head, watch, polled>>

Push ==
  /\ head < MaxHead
  /\ head' = head + 1 /\ rollup' = {}
  /\ UNCHANGED <<watch, polled>>

Forge ==
  \/ \E n \in Names : Run(n)
  \/ \E e \in rollup, result \in {"ok", "failed"} : Finish(e, result)
  \/ Push

-----------------------------------------------------------------------------
(* Of the entries with one name the freshest counts.                       *)
dedupeChecks(entries) ==
  {e \in entries : \A f \in entries : f.name = e.name => f.startedAt <= e.startedAt}

Terminal(c) == c.result # "pending"
Failed(c) == c.result = "failed"
NamesOf(checks) == {c.name : c \in checks}

(* Polls on another head than the last one start over.                     *)
KeepsOld(last) == last
Restarted(last) == IF last.head = head THEN last ELSE [head |-> head, names |-> {}]

(* All settled, at the second poll in a row with the same names.           *)
Stable(checks) ==
  IF /\ \A c \in checks : Terminal(c)
     /\ checks # {}
     /\ NamesOf(checks) = Restarted(watch.last).names
  THEN (IF watch.last.head = head THEN watch.stable ELSE 0) + 1
  ELSE 0

WatchVerdict(checks) ==
  CASE \E c \in checks : Failed(c) -> "red"
    [] (\A c \in checks : ~Failed(c)) /\ Stable(checks) >= 1 -> "green"
    [] OTHER -> IF watch.polls + 1 >= MaxPolls THEN "timeout" ELSE "none"

OneShotVerdict(checks) ==
  CASE \E c \in checks : Failed(c) -> "red"
    [] (\A c \in checks : Terminal(c) /\ ~Failed(c)) /\ checks # {} -> "green"
    [] OTHER -> "unsettled"

Remember ==
  LET before == IF polled = <<>> THEN <<>> ELSE <<[polled[Len(polled)] EXCEPT !.entries = {}]>>
  IN  polled' = Append(before, [head |-> head, entries |-> rollup,
                                registered |-> {e.name : e \in rollup}])

(* A slip: a watch without a deadline.                                     *)
PollForever ==
  /\ watch.verdict = "none"
  /\ LET checks == dedupeChecks(rollup)
         verdict == IF watch.watching THEN WatchVerdict(checks) ELSE OneShotVerdict(checks)
     IN  /\ watch' = [watch EXCEPT !.last = [head |-> head, names |-> NamesOf(checks)],
                                   !.stable = Stable(checks),
                                   !.verdict = IF verdict = "timeout" THEN "none" ELSE verdict]
  /\ Remember
  /\ UNCHANGED <<head, rollup>>

Poll ==
  /\ watch.verdict = "none"
  /\ LET checks == dedupeChecks(rollup)
     IN  watch' = [watch EXCEPT !.last = [head |-> head, names |-> NamesOf(checks)],
                                !.stable = Stable(checks), !.polls = @ + 1,
                                !.verdict = IF watch.watching THEN WatchVerdict(checks)
                                            ELSE OneShotVerdict(checks)]
  /\ Remember
  /\ UNCHANGED <<head, rollup>>

(* gh is missing, finds no pull request, or answers with something else.   *)
PollFails ==
  /\ watch.verdict = "none"
  /\ watch' = [watch EXCEPT !.verdict = "error"]
  /\ UNCHANGED <<head, rollup, polled>>

Next == Forge \/ Poll \/ PollFails

Spec == Init /\ [][Next]_vars

(* The command polls on; the forge owes nothing.                           *)
FairSpec == Spec /\ WF_vars(Poll)

-----------------------------------------------------------------------------
(* The command's conditions                                                *)
Last(k) == polled[Len(polled) - k]
RegisteredAt(k) == Last(k).registered
NewestRuns(entries, n) ==
  {e \in entries : e.name = n /\ ~\E f \in entries : f.name = n /\ f.startedAt > e.startedAt}

(* A green of the watch rests on two polls in a row of one head, which     *)
(* found the same checks, at least one, and at the second of which the     *)
(* newest run of every one had passed: never on its first sight of a set,  *)
(* nor on one carried over from another head (ciCommand).                  *)
GreenNeedsTwoPolls ==
  watch.watching /\ watch.verdict = "green" =>
    /\ Len(polled) >= 2 /\ Last(0).head = Last(1).head
    /\ RegisteredAt(0) = RegisteredAt(1) /\ RegisteredAt(0) # {}
    /\ \A n \in RegisteredAt(0) : \A e \in NewestRuns(Last(0).entries, n) : e.result = "ok"

(* Red is the failure of a run that none has superseded: a cancelled twin  *)
(* of a re-run never counts (dedupeChecks).                                *)
RedIsCurrent ==
  watch.verdict = "red" =>
    \E n \in Names : \E e \in NewestRuns(Last(0).entries, n) : e.result = "failed"

(* A verdict is of what the forge shows, not of a moment nor of the past.  *)
VerdictIsEarned == GreenNeedsTwoPolls /\ RedIsCurrent

(* The command ends, whatever the forge does or fails to do.               *)
WatchEnds == <>(watch.verdict # "none")
=============================================================================
