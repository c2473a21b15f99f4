------------------------------ MODULE Handover ------------------------------
(* Three parts that share no state, side by side: a worker's changes       *)
(* handed to the checkout, a review's private brief, and the end of an     *)
(* agent's turn.  One of them runs; the others stay where they are.        *)
EXTENDS Worker

CONSTANTS
  Sessions, Artifacts,          \* BriefStorage: the processes, and the brief's files
  MaxFailures, MaxTouches,      \* bounds: its failures and kills, changes by others
  Setups,                       \* StopHook: the hosts and their hooks
  MaxPrompts, MaxFaulty, MaxChanges  \* bounds: its prompts, failing hooks, changes by others

VARIABLES
  part,
  directory, files, stray, retained, inventory, request, unknown, session, failures, touches,
  setup, place, broken, turn, active, skip, hook, blocked, prompt, prompts, faulty, changes

closing == <<directory, files, stray, retained, inventory, request, unknown, session, failures, touches>>
stopping == <<setup, place, broken, turn, active, skip, hook, blocked, prompt, prompts, faulty, changes>>

-----------------------------------------------------------------------------
Brief ==
  INSTANCE BriefStorage WITH
    file <- files, quarantine <- retained, faults <- failures, MaxFaults <- MaxFailures

Gate == INSTANCE StopHook WITH session <- prompt, faults <- faulty, MaxFaults <- MaxFaulty

-----------------------------------------------------------------------------
NoStopping ==
  /\ setup = None /\ place = None /\ broken = FALSE /\ turn = "idle" /\ active = FALSE /\ skip = {}
  /\ hook = None /\ blocked = {} /\ prompt = None /\ prompts = 0 /\ faulty = 0 /\ changes = 0

AllInit ==
  /\ Init /\ Brief!Init
  /\ \/ part \in {"worker", "brief"} /\ NoStopping
     \/ part = "stop" /\ Gate!Init

AllNext ==
  /\ UNCHANGED part
  /\ \/ part = "worker" /\ Next /\ UNCHANGED <<closing, stopping>>
     \/ part = "brief" /\ Brief!Next /\ UNCHANGED <<vars, stopping>>
     \/ part = "stop" /\ Gate!Next /\ UNCHANGED <<vars, closing>>

(* Commands run on, a collect and a cleanup are run again until they are   *)
(* done, an agent stops at last and hooks answer or fail within their time.*)
AllSpec ==
  /\ AllInit
  /\ [][AllNext]_<<part, vars, closing, stopping>>
  /\ WF_vars(part = "worker" /\ Step)
  /\ \A s \in Sessions :
       /\ WF_closing(part = "brief" /\ Brief!Step(s))
       /\ SF_closing(part = "brief" /\ Brief!Begin(s, "cleanup"))
  /\ WF_stopping(part = "stop" /\ Gate!Run)

-----------------------------------------------------------------------------
(* Worker: collects that are killed or fail anywhere are completed by those*)
(* that follow, unless the user or the worker made a conflict, or one      *)
(* stopped between creating an inventory and writing it.                   *)
CollectCompletes == []<>(part = "worker" => Collected \/ Blocked)

(* BriefStorage: the brief is there while its request is open and wiped    *)
(* when what remains of it is retained; nobody else's file is written to.  *)
BriefIsKept == [][Brief!BriefIsSafe' /\ Brief!OthersAreSpared]_closing

(* BriefStorage: cleanups settle a closed request's brief in the end,      *)
(* unless two of them left a temporary beside the inventory.               *)
CleanupSettles == Brief!CleanupSettles

(* StopHook: a turn that ends on a broken claim was told of it, and none   *)
(* is stopped for another checkout's.                                      *)
GateIsHonest == part = "stop" => Gate!GateIsHonest

(* StopHook: no hook traps the session.                                    *)
TurnsEnd == (part = "stop" /\ turn # "idle") ~> (part = "stop" /\ turn = "idle")
=============================================================================
