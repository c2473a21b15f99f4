---------------------------- MODULE BriefStorage ----------------------------
(***************************************************************************)
(* Where a review's private brief is kept and how it is got rid of         *)
(* (cli/review-fs.mjs, driven by cli/review.mjs): one request, its         *)
(* directory under the system's temporary root, the files STDD wrote into  *)
(* it, and the quarantine that receives the directory when its files have  *)
(* been overwritten.  ReviewLifecycle has the rest of a review, and takes  *)
(* all of this for one step.                                               *)
(*                                                                         *)
(* Nothing here is a transaction.  An answer and a cleanup may be at the   *)
(* same brief at once, each may be killed or fail between two native       *)
(* calls, and others may change what lies in the directory; a later        *)
(* cleanup has to find its way from whatever is left.                      *)
(***************************************************************************)
EXTENDS Naturals, FiniteSets

CONSTANTS
  Sessions,    \* processes running stdd review
  Artifacts,   \* the brief, and the runner's last message
  MaxFaults, MaxTouches   \* bounds: failures and kills, changes by others

VARIABLES
  directory,   \* the private directory: where it is
  file,        \* what each artifact's name holds in it
  stray,       \* it holds another entry
  quarantine,  \* the request's quarantine exists
  inventory,   \* the names in it: inventory.json and the temporary it comes from
  request,     \* the request in the ledger
  unknown,     \* its append was reported as failed, and was not
  session,     \* what each session does
  faults, touches

disk == <<directory, file, stray, quarantine, inventory>>
ledger == <<request, unknown>>
budget == <<faults, touches>>
vars == <<disk, ledger, session, budget>>

Bytes == {"absent", "text", "zeroes", "empty", "foreign"}
Idle == [pc |-> "idle", cmd |-> "none", todo |-> {}, retained |-> FALSE]

TypeOK ==
  /\ directory \in {"none", "source", "retained", "removed"}
  /\ file \in [Artifacts -> Bytes] /\ stray \in BOOLEAN
  /\ quarantine \in BOOLEAN /\ inventory \subseteq {"staged", "published"}
  /\ request \in {"none", "open", "closed"} /\ unknown \in BOOLEAN
  /\ session \in [Sessions -> [pc : {"idle", "create", "bind", "record", "undo", "prepare",
       "terminal", "zero", "check", "quarantine", "stage", "publish", "names",
       "move", "verify"}, cmd : {"none", "dispatch", "answer", "cleanup"},
       todo : SUBSET Artifacts, retained : BOOLEAN]]

Init ==
  /\ directory = "none" /\ file = [a \in Artifacts |-> "absent"] /\ stray = FALSE
  /\ quarantine = FALSE /\ inventory = {}
  /\ request = "none" /\ unknown = FALSE
  /\ session = [s \in Sessions |-> Idle]
  /\ faults = 0 /\ touches = 0

At(s, label) == session[s].pc = label
Goto(s, label) == session' = [session EXCEPT ![s].pc = label]
Toward(s, label, left) == session' = [session EXCEPT ![s].pc = label, ![s].todo = left]
End(s) == session' = [session EXCEPT ![s] = Idle]

(* Each artifact's name holds the file that was captured.                  *)
Captured == ~stray /\ \A a \in Artifacts : file[a] \notin {"absent", "foreign"}

(* What doctor lists, and what a cleanup takes for done: the inventory,    *)
(* and beside it only the directory with nothing but its emptied files.    *)
Listed ==
  /\ directory = "retained" /\ quarantine /\ inventory = {"published"}
  /\ ~stray /\ \A a \in Artifacts : file[a] = "empty"

-----------------------------------------------------------------------------
(* stdd review: the directory and its files, one after the other ...       *)
CreateDirectory(s) ==
  /\ At(s, "idle") /\ directory = "none" /\ \A r \in Sessions : session[r] = Idle
  /\ directory' = "source"
  /\ session' = [session EXCEPT ![s] = [Idle EXCEPT !.pc = "create", !.cmd = "dispatch",
                                                    !.todo = Artifacts]]
  /\ UNCHANGED <<file, stray, quarantine, inventory, ledger, budget>>

CreateFile(s) ==
  /\ At(s, "create")
  /\ \E a \in session[s].todo :
       IF directory # "source" \/ file[a] # "absent"
       THEN Toward(s, "undo", Artifacts \ session[s].todo) /\ UNCHANGED file
       ELSE /\ file' = [file EXCEPT ![a] = "text"]
            /\ Toward(s, IF session[s].todo = {a} THEN "bind" ELSE "create", session[s].todo \ {a})
  /\ UNCHANGED <<directory, stray, quarantine, inventory, ledger, budget>>

(* ... which must still be where they were made ...                        *)
BindDirectory(s) ==
  /\ At(s, "bind")
  /\ IF directory = "source" THEN Goto(s, "record") ELSE Toward(s, "undo", Artifacts)
  /\ UNCHANGED <<disk, ledger, budget>>

(* ... or what was created is overwritten where it is.                     *)
UndoCreation(s) ==
  /\ At(s, "undo")
  /\ file' = [a \in Artifacts |-> IF a \in session[s].todo /\ file[a] = "text" THEN "empty"
                                  ELSE file[a]]
  /\ End(s)
  /\ UNCHANGED <<directory, stray, quarantine, inventory, ledger, budget>>

(* The request is recorded, or the append fails and the brief is settled;  *)
(* a failed append may have happened all the same.                         *)
RecordRequest(s) ==
  /\ At(s, "record")
  /\ \/ request' = "open" /\ End(s) /\ UNCHANGED <<unknown, faults>>
     \/ Goto(s, "prepare") /\ UNCHANGED <<ledger, faults>>
     \/ /\ faults < MaxFaults /\ faults' = faults + 1
        /\ request' = "open" /\ unknown' = TRUE /\ Goto(s, "prepare")
  /\ UNCHANGED <<disk, touches>>

-----------------------------------------------------------------------------
(* stdd review --result (and the runner's end) and stdd review --cleanup.  *)
Begin(s, cmd) ==
  /\ At(s, "idle")
  /\ request = "open" \/ (request = "closed" /\ cmd = "cleanup")
  /\ session' = [session EXCEPT ![s] = [Idle EXCEPT !.pc = "prepare", !.cmd = cmd]]
  /\ UNCHANGED <<disk, ledger, budget>>

Continues(s, retained) ==
  session' = [session EXCEPT ![s].retained = retained, ![s].todo = Artifacts,
                ![s].pc = IF session[s].cmd # "dispatch" THEN "terminal"
                          ELSE IF retained THEN "idle" ELSE "zero"]

(* A slip: the brief is settled before its request has its end.            *)
PrepareEager(s) ==
  /\ At(s, "prepare")
  /\ Toward(s, "zero", Artifacts)
  /\ UNCHANGED <<disk, ledger, budget>>

(* The directory and its files are exactly those recorded, and are held    *)
(* open from here on; only an answer looks at the bytes.                   *)
Prepare(s) ==
  /\ At(s, "prepare")
  /\ IF directory = "source"
     THEN IF /\ Captured
             /\ session[s].cmd # "cleanup" => \A a \in Artifacts : file[a] = "text"
          THEN Continues(s, FALSE) ELSE End(s)
     ELSE IF Listed THEN Continues(s, TRUE) ELSE End(s)
  /\ UNCHANGED <<disk, ledger, budget>>

(* One result or cancellation ends the request, under the ledger lock; a   *)
(* cleanup goes on to settle what another session closed.                  *)
Terminal(s) ==
  /\ At(s, "terminal")
  /\ request' = "closed"
  /\ IF session[s].retained \/ (request = "closed" /\ session[s].cmd = "answer") THEN End(s)
     ELSE Goto(s, "zero")
  /\ UNCHANGED <<disk, unknown, budget>>

-----------------------------------------------------------------------------
(* A slip: the file is opened again by its name.                           *)
ZeroByName(s) ==
  /\ At(s, "zero")
  /\ IF session[s].todo = {} THEN Goto(s, "check") /\ UNCHANGED file
     ELSE \E a \in session[s].todo :
       /\ file' = [file EXCEPT ![a] = "empty"]
       /\ Toward(s, "zero", session[s].todo \ {a})
  /\ UNCHANGED <<directory, stray, quarantine, inventory, ledger, budget>>

(* Each captured file is overwritten with zeroes, then truncated; one that *)
(* lost its name is no longer a private one.                               *)
Zero(s) ==
  /\ At(s, "zero")
  /\ IF session[s].todo = {} THEN Goto(s, "check") /\ UNCHANGED file
     ELSE \E a \in session[s].todo :
       CASE file[a] \in {"absent", "foreign"} -> End(s) /\ UNCHANGED file
         [] file[a] = "text" -> file' = [file EXCEPT ![a] = "zeroes"] /\ UNCHANGED session
         [] OTHER -> /\ file' = [file EXCEPT ![a] = "empty"]
                     /\ Toward(s, "zero", session[s].todo \ {a})
  /\ UNCHANGED <<directory, stray, quarantine, inventory, ledger, budget>>

CheckEntries(s) ==
  /\ At(s, "check")
  /\ IF Captured THEN Goto(s, "quarantine") ELSE End(s)
  /\ UNCHANGED <<disk, ledger, budget>>

(* A slip: the quarantine is there, so its inventory is.                   *)
MakeQuarantineBare(s) ==
  /\ At(s, "quarantine")
  /\ quarantine' = TRUE
  /\ Goto(s, IF "published" \in inventory \/ quarantine THEN "names" ELSE "stage")
  /\ UNCHANGED <<directory, file, stray, inventory, ledger, budget>>

(* The quarantine is made, or opened, and its inventory is looked for.     *)
MakeQuarantine(s) ==
  /\ At(s, "quarantine")
  /\ quarantine' = TRUE
  /\ Goto(s, IF "published" \in inventory THEN "names" ELSE "stage")
  /\ UNCHANGED <<directory, file, stray, inventory, ledger, budget>>

(* A slip: an inventory someone left half made is in the way.              *)
StageNew(s) ==
  /\ At(s, "stage")
  /\ IF "staged" \in inventory THEN End(s) /\ UNCHANGED inventory
     ELSE inventory' = inventory \union {"staged"} /\ Goto(s, "publish")
  /\ UNCHANGED <<directory, file, stray, quarantine, ledger, budget>>

(* None was found: it is written under a name of the request's own, whoever*)
(* began it, and also if another has published it meanwhile ...            *)
Stage(s) ==
  /\ At(s, "stage")
  /\ inventory' = inventory \union {"staged"}
  /\ Goto(s, "publish")
  /\ UNCHANGED <<directory, file, stray, quarantine, ledger, budget>>

(* ... and published once: the rename replaces nothing.                    *)
Publish(s) ==
  /\ At(s, "publish")
  /\ IF inventory = {"staged"} THEN inventory' = {"published"} /\ Goto(s, "names")
     ELSE End(s) /\ UNCHANGED inventory
  /\ UNCHANGED <<directory, file, stray, quarantine, ledger, budget>>

(* Whoever's it is, the inventory must be all the quarantine holds.        *)
CheckNames(s) ==
  /\ At(s, "names")
  /\ IF directory = "retained" \/ inventory # {"published"} THEN End(s) ELSE Goto(s, "move")
  /\ UNCHANGED <<disk, ledger, budget>>

Move(s) ==
  /\ At(s, "move")
  /\ IF directory = "source" THEN directory' = "retained" /\ Goto(s, "verify")
     ELSE End(s) /\ UNCHANGED directory
  /\ UNCHANGED <<file, stray, quarantine, inventory, ledger, budget>>

(* It says whether it finds what doctor lists; nothing depends on that.    *)
Verify(s) ==
  /\ At(s, "verify")
  /\ End(s)
  /\ UNCHANGED <<disk, ledger, budget>>

-----------------------------------------------------------------------------
(* A native call fails, or the command is killed; a failing creation is    *)
(* undone if the helper still answers.                                     *)
Fault(s) ==
  /\ ~At(s, "idle") /\ faults < MaxFaults
  /\ faults' = faults + 1
  /\ \/ End(s)
     \/ At(s, "create") /\ Toward(s, "undo", Artifacts \ session[s].todo)
  /\ UNCHANGED <<disk, ledger, touches>>

(* Another process of the user: a file in the place of one, a file more,   *)
(* the directory gone.                                                     *)
Touch ==
  /\ touches < MaxTouches /\ directory \in {"source", "retained"}
  /\ touches' = touches + 1
  /\ \/ /\ \E a \in Artifacts : file' = [file EXCEPT ![a] = "foreign"]
        /\ UNCHANGED <<directory, stray>>
     \/ stray' = TRUE /\ UNCHANGED <<directory, file>>
     \/ /\ directory' = "removed" /\ stray' = FALSE
        /\ file' = [a \in Artifacts |-> "absent"]
  /\ UNCHANGED <<quarantine, inventory, ledger, session, faults>>

Step(s) ==
  \/ CreateFile(s) \/ BindDirectory(s) \/ UndoCreation(s) \/ RecordRequest(s)
  \/ Prepare(s) \/ Terminal(s) \/ Zero(s) \/ CheckEntries(s)
  \/ MakeQuarantine(s) \/ Stage(s) \/ Publish(s) \/ CheckNames(s) \/ Move(s) \/ Verify(s)

Next ==
  \/ \E s \in Sessions :
       \/ CreateDirectory(s) \/ Begin(s, "answer") \/ Begin(s, "cleanup")
       \/ Step(s) \/ Fault(s)
  \/ Touch

(* Commands run on, and the user runs cleanup again and again.             *)
Spec ==
  /\ Init /\ [][Next]_vars
  /\ \A s \in Sessions : WF_vars(Step(s)) /\ SF_vars(Begin(s, "cleanup"))

-----------------------------------------------------------------------------
(* The reviewer of an open request finds its brief: whatever fails and     *)
(* whoever else is cleaning up, it is not overwritten before the request   *)
(* has its terminal event; unless the request was recorded by an append    *)
(* that reported a failure.                                                *)
OpenKeepsItsBrief ==
  request = "open" /\ ~unknown /\ touches = 0 =>
    directory = "source" /\ \A a \in Artifacts : file[a] = "text"

(* A file someone put in the place of STDD's is never written to, although *)
(* names were read long before the files are overwritten.                  *)
OthersAreSpared ==
  touches' = touches => \A a \in Artifacts : file[a] = "foreign" => file'[a] = "foreign"

(* What lies in the quarantine is described by its inventory and holds no  *)
(* byte of the brief, with two sessions settling it and one of them killed.*)
RetainedIsWiped ==
  directory = "retained" =>
    "published" \in inventory /\ \A a \in Artifacts : file[a] \in {"empty", "foreign"}

(* The brief is there while its request is open, and is wiped when what    *)
(* remains of it is retained.                                              *)
BriefIsSafe == TypeOK /\ RetainedIsWiped /\ OpenKeepsItsBrief

(* Cleanups settle a closed request's brief in the end, from whatever the  *)
(* commands that were killed or failed left behind; unless two settlements *)
(* met, and one made its temporary after the other's had been published.   *)
CleanupSettles ==
  (request # "none" /\ touches = 0)
    ~> (Listed \/ touches > 0 \/ inventory = {"staged", "published"})
=============================================================================
