------------------------------ MODULE StopHook ------------------------------
(***************************************************************************)
(* The gate at the end of an agent's turn: stdd stop-hook (cli/status.mjs) *)
(* as the hosts run it, through the hooks stdd init writes into a project  *)
(* (cli/claude-hooks.mjs) and through those of the plugin, which may both  *)
(* be there.  A stop is refused while a claim is broken, and never twice   *)
(* in a row: Claude Code and Codex say so in stop_hook_active, under Pi    *)
(* every extension keeps a flag of its own.  A hook that fails lets go.    *)
(***************************************************************************)
EXTENDS Naturals, FiniteSets

CONSTANTS
  Setups,     \* the hosts, and which hooks each has
  MaxPrompts, MaxFaults, MaxChanges  \* bounds: prompts, failing hooks, changes by others

VARIABLES
  setup,     \* [host, installed]
  place,     \* the agent's directory: checkouts around it, and what git says
  broken,    \* a claim of the checkout is broken
  turn,      \* idle, at work, stopping
  active,    \* Claude Code, Codex: stop_hook_active
  skip,      \* Pi: the extensions with skipNextGate
  hook,      \* how far each hook is with this stop
  blocked,   \* the hooks that refused this stop
  session,   \* history of the prompt: told of a broken claim, undisturbed
  prompts, faults, changes

vars == <<setup, place, broken, turn, active, skip, hook, blocked, session, prompts, faults, changes>>

Hooks == {"project", "plugin"}
Levels == {"inner", "outer"}
Installed == setup.installed

-----------------------------------------------------------------------------
(* The plugin acts in the checkout that git and the enclosing .git agree   *)
(* on, if it has .stdd (resolveAdoptingRoot); without either, in the       *)
(* nearest directory that has it.                                          *)
AdoptingRoot ==
  IF place.top # "none"
  THEN IF place.marker \in {"none", place.top} /\ place.top \in place.adopted THEN place.top ELSE "none"
  ELSE IF place.marker # "none" THEN "none"
  ELSE IF "inner" \in place.adopted THEN "inner"
  ELSE IF "outer" \in place.adopted THEN "outer" ELSE "none"

(* The project's own hook takes git's word, or the directory it is in.     *)
RepoDir ==
  IF place.top # "none" /\ place.top \in place.adopted THEN place.top
  ELSE IF "inner" \in place.adopted THEN "inner" ELSE "none"

RootOf(h) == IF h = "plugin" THEN AdoptingRoot ELSE RepoDir

(* The gate judges a checkout with a branch, and finds what it finds.      *)
(* softGateInputs, gateReasons: anything unusable is nothing to judge.     *)
Refuses(h) == RootOf(h) # "none" /\ place.usable /\ broken

Init ==
  /\ setup \in Setups
  /\ place \in [marker : Levels \union {"none"}, top : Levels \union {"none"},
                adopted : SUBSET Levels, usable : BOOLEAN]
  /\ place.usable \/ place.adopted = Levels
  /\ broken \in BOOLEAN
  /\ turn = "idle" /\ active = FALSE /\ skip = {} /\ blocked = {}
  /\ hook = [h \in Hooks |-> "done"]
  /\ session = [told |-> FALSE, calm |-> TRUE]
  /\ prompts = 0 /\ faults = 0 /\ changes = 0

TypeOK ==
  /\ turn \in {"idle", "work", "stop"} /\ active \in BOOLEAN
  /\ skip \subseteq Installed /\ blocked \subseteq Installed
  /\ hook \in [Hooks -> {"asked", "judging", "done"}]

-----------------------------------------------------------------------------
(* The user prompts, the agent works, the claims change with its work or   *)
(* by someone else's.                                                      *)
Prompt ==
  /\ turn = "idle" /\ prompts < MaxPrompts
  /\ turn' = "work" /\ active' = FALSE /\ prompts' = prompts + 1
  /\ session' = [told |-> FALSE, calm |-> TRUE]
  /\ UNCHANGED <<setup, place, broken, skip, hook, blocked, faults, changes>>

Change ==
  /\ turn # "idle" /\ changes < MaxChanges
  /\ broken' = ~broken /\ changes' = changes + 1
  /\ session' = [session EXCEPT !.calm = FALSE]
  /\ UNCHANGED <<setup, place, turn, active, skip, hook, blocked, prompts, faults>>

(* It stops (Stop), or has settled with nothing left to do (Pi): every     *)
(* hook is asked.                                                          *)
Settle ==
  /\ turn = "work"
  /\ turn' = "stop" /\ blocked' = {}
  /\ hook' = [h \in Hooks |-> IF h \in Installed THEN "asked" ELSE "done"]
  /\ UNCHANGED <<setup, place, broken, active, skip, session, prompts, faults, changes>>

-----------------------------------------------------------------------------
(* Slips: a hook that does not look at a flag, one that does not clear it. *)
AskAlways(h) ==
  /\ hook[h] = "asked"
  /\ hook' = [hook EXCEPT ![h] = "judging"]
  /\ UNCHANGED <<setup, place, broken, turn, active, skip, blocked, session, prompts, faults, changes>>

AskKeeping(h) ==
  /\ hook[h] = "asked"
  /\ hook' = [hook EXCEPT ![h] = IF active \/ h \in skip THEN "done" ELSE "judging"]
  /\ UNCHANGED <<setup, place, broken, turn, active, skip, blocked, session, prompts, faults, changes>>

(* A hook looks at the flag: the host's, or the extension's own, which it  *)
(* clears.                                                                 *)
Ask(h) ==
  /\ hook[h] = "asked"
  /\ hook' = [hook EXCEPT ![h] = IF active \/ h \in skip THEN "done" ELSE "judging"]
  /\ skip' = skip \ {h}
  /\ UNCHANGED <<setup, place, broken, turn, active, blocked, session, prompts, faults, changes>>

(* Its child answers: exit code 2 with reasons, or Codex's block object    *)
(* (stopHookCmd, stdd-hook.mjs); an extension sets its flag and queues a   *)
(* turn.                                                                   *)
Judge(h) ==
  /\ hook[h] = "judging"
  /\ hook' = [hook EXCEPT ![h] = "done"]
  /\ IF Refuses(h)
     THEN /\ blocked' = blocked \union {h}
          /\ skip' = IF setup.host = "pi" THEN skip \union {h} ELSE skip
          /\ session' = [session EXCEPT !.told = TRUE]
     ELSE UNCHANGED <<blocked, skip, session>>
  /\ UNCHANGED <<setup, place, broken, turn, active, prompts, faults, changes>>

(* It does not: a timeout, a crash, an answer that is none.                *)
FailOpen(h) ==
  /\ hook[h] = "judging" /\ faults < MaxFaults
  /\ hook' = [hook EXCEPT ![h] = "done"] /\ faults' = faults + 1
  /\ session' = [session EXCEPT !.calm = FALSE]
  /\ UNCHANGED <<setup, place, broken, turn, active, skip, blocked, prompts, changes>>

(* All have answered: the turn ends, or goes on with what they said.       *)
Proceed ==
  /\ turn = "stop" /\ \A h \in Hooks : hook[h] = "done"
  /\ turn' = IF blocked = {} THEN "idle" ELSE "work"
  /\ active' = (blocked # {} /\ setup.host # "pi")
  /\ UNCHANGED <<setup, place, broken, skip, hook, blocked, session, prompts, faults, changes>>

Run == Settle \/ Proceed \/ \E h \in Hooks : Ask(h) \/ Judge(h) \/ FailOpen(h)

Next == Prompt \/ Change \/ Run

Spec == Init /\ [][Next]_vars

(* The agent stops at last, and hooks answer or fail within their time.    *)
FairSpec == Spec /\ WF_vars(Run)

-----------------------------------------------------------------------------
(* Undisturbed, a turn that ends on a broken claim has been told of it,    *)
(* with every prompt anew; and a checkout that has not adopted STDD is     *)
(* not stopped by the plugin for the claims of one around it.              *)
GateIsHonest ==
  /\ TypeOK
  /\ turn = "idle" /\ prompts > 0 /\ session.calm /\ (\E h \in Installed : Refuses(h)) => session.told
  /\ session.told /\ Installed = {"plugin"} /\ place.marker = "inner" => "inner" \in place.adopted

(* A hook does not trap the session: each turn ends, though its claims     *)
(* stay broken (status.mjs, stopHookCmd).                                  *)
TurnsEnd == turn # "idle" ~> turn = "idle"
=============================================================================
