------------------------------ MODULE FsHelper ------------------------------
(***************************************************************************)
(* The bundled stdd-fs helper (native/stdd-fs/src): it serves one request  *)
(* after the other on a held directory, while other processes change the   *)
(* names in it.  Every answer is "ok", or an error that says whether the   *)
(* file system was touched: "none", "possible" or "committed".             *)
(*                                                                         *)
(* The names are those of one held directory: what a rename or a read-link *)
(* takes, where a rename or a creation puts something, and the random name *)
(* under which a creation is prepared.  Unix works on names, and compares  *)
(* what they hold; Windows works on what it holds open.                    *)
(***************************************************************************)
EXTENDS Naturals, Sequences

CONSTANTS
  None,
  Platforms,               \* of "linux" and "win32"; darwin is a "linux" here
  MaxRequests, MaxRaces    \* bounds: requests, changes by other processes

ASSUME FsHelperAssumption ==
  Platforms \subseteq {"linux", "win32"} /\ MaxRequests \in Nat /\ MaxRaces \in Nat

VARIABLES
  platform,
  op,                  \* each request's operation
  alive, inbox, pipe,  \* the process and its two pipes
  serving, step,       \* what it does
  dir, target,  \* dir[n]: the inode under a name; what a caller saw at "to"
  did, took,    \* per request: it changed something; the inode it renamed or read
  races

helper == <<alive, inbox, serving, step>>
names == <<platform, dir, target>>
record == <<did, took>>

Ids == 1..MaxRequests
(* A rename's two names, and the one a creation invents.                   *)
From == <<"from", 0>>
To == <<"to", 0>>
Temporary(i) == <<"temporary", i>>
Names == {From, To} \union {Temporary(i) : i \in Ids}
(* The caller's file, two of others, and what request i creates.           *)
Held == <<"held", 0>>
Old == <<"old", 0>>
Foreign == <<"foreign", 0>>
Made(i) == <<"made", i>>
Inodes == {Held, Old, Foreign} \union {Made(i) : i \in Ids}
Creating == {"create-file", "create-directory", "symlink"}
Renaming == {"rename", "replace"}
Mutating == {"write"} \union Creating \union Renaming
Ops == Mutating \union {"read", "read-link"}
Words == {"ok", "none", "possible", "committed"}
Line == [id : Ids \union {0}, word : Words \union {"malformed"}]

(* "None" is none of all these.                                            *)
ASSUME NothingAssumption ==
  None \notin Ids /\ None \notin Inodes /\ None \notin Ops /\ None \notin Words

HelperTypeOK ==
  /\ platform \in Platforms /\ op \in [Ids -> Ops \union {None}]
  /\ alive \in BOOLEAN /\ inbox \in Seq(Ids) /\ pipe \in Seq(Line)
  /\ serving \in Ids \union {None}
  /\ step \in {"idle", "check", "stage", "recheck", "syscall", "post"}
  /\ dir \in [Names -> Inodes \union {None}] /\ target \in Inodes \union {None}
  /\ did \in [Ids -> BOOLEAN] /\ took \in [Ids -> Inodes \union {None}]

HelperInit ==
  /\ platform \in Platforms /\ op = [i \in Ids |-> None]
  /\ alive = FALSE /\ inbox = <<>> /\ pipe = <<>>
  /\ serving = None /\ step = "idle"
  /\ target \in {None, Old}
  /\ dir = [n \in Names |-> CASE n = From -> Held [] n = To -> target [] OTHER -> None]
  /\ did = [i \in Ids |-> FALSE] /\ took = [i \in Ids |-> None]
  /\ races = 0

Serve ==
  /\ alive /\ serving = None /\ inbox # <<>>
  /\ serving' = Head(inbox) /\ inbox' = Tail(inbox) /\ step' = "check"
  /\ UNCHANGED <<op, alive, pipe, names, record, races>>

At(o, label) == alive /\ serving # None /\ step = label /\ op[serving] \in o
Unix == platform # "win32"

Answer(word) ==
  /\ pipe' = Append(pipe, [id |-> serving, word |-> word])
  /\ serving' = None /\ step' = "idle"

Continue(label) == step' = label /\ UNCHANGED <<pipe, serving>>

Untouched == UNCHANGED <<dir, record>>
Rest == UNCHANGED <<op, alive, inbox, platform, target, races>>

-----------------------------------------------------------------------------
(* What only reads.                                                        *)
Look ==
  /\ At({"read"}, "check")
  /\ \E word \in {"ok", "none"} : Answer(word)
  /\ Untouched /\ Rest

(* read-link: the expected link is there; Unix then reads whatever is at   *)
(* the name, Windows what it opened; and the name still holds it.          *)
CheckLink ==
  /\ At({"read-link"}, "check")
  /\ IF dir[From] = Held THEN Continue("syscall") ELSE Answer("none")
  /\ Untouched /\ Rest

ReadLink ==
  /\ At({"read-link"}, "syscall")
  /\ IF Unix /\ dir[From] = None THEN Answer("none") /\ UNCHANGED took
     ELSE /\ took' = [took EXCEPT ![serving] = IF Unix THEN dir[From] ELSE Held]
          /\ Continue("post")
  /\ UNCHANGED <<dir, did>> /\ Rest

LinkPost ==
  /\ At({"read-link"}, "post")
  /\ Answer(IF dir[From] = Held THEN "ok" ELSE "none")
  /\ Untouched /\ Rest

(* Fields, capability, identity or volume refuse the request, or the       *)
(* system call itself does: nothing was done.                              *)
Refuse ==
  /\ At(Mutating \union {"read-link"}, "check")
  /\ Answer("none")
  /\ Untouched /\ Rest

(* write, truncate, set-mode, flush: one system call on a held inode, and  *)
(* a check of what it left.                                                *)
Write ==
  /\ At({"write"}, "check")
  /\ did' = [did EXCEPT ![serving] = TRUE]
  /\ \E word \in {"ok", "possible", "committed"} : Answer(word)
  /\ UNCHANGED <<dir, took>> /\ Rest

-----------------------------------------------------------------------------
(* A creation makes its inode where it is to be, unless it is prepared     *)
(* elsewhere first: a directory on Unix, a link on Windows.                *)
Prepares(i) == op[i] = IF Unix THEN "create-directory" ELSE "symlink"

MakeAt(name, next) ==
  /\ dir' = [dir EXCEPT ![name] = Made(serving)]
  /\ did' = [did EXCEPT ![serving] = TRUE]
  /\ Continue(next) /\ UNCHANGED took

Create ==
  /\ At(Creating, "check") /\ ~Prepares(serving)
  /\ IF dir[To] # None THEN Answer("none") /\ Untouched ELSE MakeAt(To, "post")
  /\ Rest

MakeTemporary ==
  /\ At(Creating, "check") /\ Prepares(serving)
  /\ IF Unix /\ dir[To] # None THEN Answer("none") /\ Untouched
     ELSE MakeAt(Temporary(serving), "stage")
  /\ Rest

(* What Windows holds open and has not published is deleted when closed,   *)
(* if the system is willing.                                               *)
GiveUp ==
  /\ Answer("possible")
  /\ dir' \in {dir, [n \in Names |-> IF dir[n] = Made(serving) THEN None ELSE dir[n]]}

(* The directory gets its mode, is empty and still there; the link gets    *)
(* its target and its owner.                                               *)
StageTemporary ==
  /\ At(Creating, "stage")
  /\ IF Unix THEN /\ \/ dir[Temporary(serving)] = Made(serving) /\ Continue("recheck")
                     \/ Answer("committed")
                  /\ UNCHANGED dir
             ELSE (Continue("syscall") /\ UNCHANGED dir) \/ GiveUp
  /\ UNCHANGED record /\ Rest

-----------------------------------------------------------------------------
Source(i) == IF op[i] \in Renaming THEN From ELSE Temporary(i)
Expected(i) == IF op[i] \in Creating THEN Made(i) ELSE Held

(* What a failure before the rename leaves of the request.                 *)
Before(i) == IF op[i] \in Renaming THEN "none" ELSE "committed"

Agrees(i) ==
  /\ dir[Source(i)] = Expected(i)
  /\ op[i] = "replace" => dir[To] = target

(* A rename compares the identities it was given once in the session, and  *)
(* again next to the system call.                                          *)
CheckRename ==
  /\ At(Renaming, "check")
  /\ target # None \/ op[serving] = "rename"
  /\ IF Agrees(serving) THEN Continue("recheck") ELSE Answer("none")
  /\ Untouched /\ Rest

RecheckRename ==
  /\ At(Creating \union Renaming, "recheck")
  /\ IF Agrees(serving) THEN Continue("syscall") ELSE Answer(Before(serving))
  /\ Untouched /\ Rest

(* A slip: a rename without RENAME_NOREPLACE.                              *)
RefusedNever(i) == FALSE

RefusedBySystem(i) == op[i] # "replace" /\ dir[To] # None

Renamed(inode, sources) ==
  /\ dir' = [n \in Names |-> IF n = To THEN inode ELSE IF n \in sources THEN None ELSE dir[n]]
  /\ took' = [took EXCEPT ![serving] = inode]
  /\ did' = [did EXCEPT ![serving] = TRUE]
  /\ Continue("post")

(* Unix renames whatever the name now holds ...                            *)
Rename ==
  /\ At(Creating \union Renaming, "syscall") /\ Unix
  /\ LET from == Source(serving) IN
     IF dir[from] = None \/ RefusedBySystem(serving) THEN Answer(Before(serving)) /\ Untouched
     ELSE Renamed(dir[from], {from})
  /\ Rest

(* ... Windows the inode it opened, wherever it is, unless it was deleted. *)
RenameHeld ==
  /\ At(Creating \union Renaming, "syscall") /\ ~Unix
  /\ LET i == serving
         gone == \A n \in Names : dir[n] # Expected(i)
     IN  \/ /\ ~RefusedBySystem(i)
            /\ Renamed(Expected(i), {n \in Names : dir[n] = Expected(i)})
         \/ /\ gone \/ RefusedBySystem(i)
            /\ IF op[i] \in Renaming THEN Answer("none") /\ UNCHANGED dir ELSE GiveUp
            /\ UNCHANGED record
  /\ Rest

(* What is now at the name is what was meant, or the request failed after  *)
(* its effect.  On Unix create-file looks at its own descriptor, and       *)
(* symlink at whatever it finds.                                           *)
Post ==
  /\ At(Creating \union Renaming, "post")
  /\ \/ /\ \/ dir[To] = Expected(serving)
           \/ Unix /\ op[serving] = "create-file"
           \/ Unix /\ op[serving] = "symlink" /\ dir[To] # None
        /\ Answer("ok")
     \/ Answer("committed")
  /\ Untouched /\ Rest

(* Another process puts a file of its own under a name, or takes one away. *)
(* Between two requests it would be as if it came before the first step.   *)
Race ==
  /\ serving # None /\ op[serving] # "read" /\ races < MaxRaces
  /\ races' = races + 1
  /\ \E n \in {n \in Names : n \in {From, To} \/ dir[n] # None}, inode \in {None, Foreign} :
       dir' = [dir EXCEPT ![n] = inode]
  /\ UNCHANGED <<op, helper, pipe, platform, target, record>>

HelperStep ==
  \/ Serve \/ Look \/ CheckLink \/ ReadLink \/ LinkPost \/ Refuse \/ Write
  \/ Create \/ MakeTemporary \/ StageTemporary
  \/ CheckRename \/ RecheckRename \/ Rename \/ RenameHeld \/ Post
=============================================================================
