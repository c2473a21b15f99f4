----------------------------- MODULE RepoFiles -----------------------------
(***************************************************************************)
(* The files of a repository that belong to the user and that stdd edits:  *)
(* stdd policy add and allow append to the policy document, stdd init (and *)
(* configure, which calls it) works on the configuration, the managed      *)
(* section of an agent's instructions, the lifecycle hooks and .gitignore. *)
(* No lock is taken.  A command reads its files, computes what they shall  *)
(* hold and publishes each by a rename bound to what it has read; editors  *)
(* save in place or by a rename of their own, and other commands run.      *)
(***************************************************************************)
EXTENDS PolicyDocument, HookSettings

CONSTANTS
  Commands,
  Crews,              \* who does what at the same time
  MaxEdits,           \* bound: changes by an editor
  PolicyDocuments,    \* documents and settings to begin with, besides the
  SettingsDocuments   \* default ones

VARIABLES
  file,    \* the inode at each path, 0 if none, and what it holds
  fresh,   \* the next inode
  cmd,     \* the commands
  edits,   \* what an editor may still do
  owed     \* history: what users wrote and commands acknowledged, per path

vars == <<file, fresh, cmd, edits, owed>>

Paths == {"config", "instructions", "policy", "settings", "pi", "ignore"}

(* What init does, in its order; the configuration is published once for   *)
(* the capabilities and once more for the review route.                    *)
InitSteps ==
  <<"capabilities", "route", "defaults", "instructions", "seed", "settings", "pi", "ignore">>
PathOf(step) ==
  CASE step \in {"capabilities", "route", "defaults"} -> "config"
    [] step \in {"append", "seed"} -> "policy"
    [] OTHER -> step

NoGroups == [e \in Events |-> <<>>]

(* What a path without a file reads as.                                    *)
Nothing ==
  [config |-> [own |-> {}, capabilities |-> "default", route |-> "default"],
   instructions |-> [own |-> {}, section |-> "none"],
   policy |-> <<>>,
   settings |-> [valid |-> TRUE, hooks |-> NoGroups],
   pi |-> [own |-> {}, hooks |-> {}],
   ignore |-> [own |-> {}, section |-> "none"]]

(* An older installation that its user has gone on from.                   *)
Installed ==
  [config |-> [own |-> {"mine"}, capabilities |-> "old", route |-> "old"],
   instructions |-> [own |-> {"mine"}, section |-> "old"],
   policy |-> <<Plain("notes"), Bullet("mine")>>,
   settings |-> [valid |-> TRUE,
                 hooks |-> [NoGroups EXCEPT !["SessionStart"] =
                              <<[matcher |-> "theirs", hooks |-> <<"mine", "legacy">>]>>]],
   pi |-> [own |-> {}, hooks |-> {"session"}],
   ignore |-> [own |-> {"mine"}, section |-> "none"]]

(* What is asked of init: an agent's tool, a profile, lifecycle hooks.      *)
Update(hooks) == [tool |-> TRUE, profile |-> FALSE, hooks |-> hooks]

Reading(kind, request) ==
  [kind |-> kind, request |-> request, step |-> IF kind = "none" THEN "done" ELSE "read",
   seen |-> [p \in Paths |-> [inode |-> 0, content |-> Nothing[p]]],
   refused |-> FALSE, todo |-> <<>>, compared |-> <<>>, published |-> {}]

-----------------------------------------------------------------------------
(* What users own of a file's content.                                     *)
Parts(p, content) ==
  CASE p = "policy" -> {content[k].text : k \in {k \in DOMAIN content : content[k].kind = "bullet"}}
    [] p = "settings" ->
         IF ~content.valid THEN {<<"broken">>}
         ELSE UNION {{<<e, u>> : u \in Range(UsersOf(content.hooks[e]))} : e \in Events}
    [] OTHER -> content.own

File(documents) ==
  [p \in Paths |-> [inode |-> IF documents[p] = Nothing[p] THEN 0 ELSE 1, content |-> documents[p]]]

(* A checkout with anything in its policy or its settings and one command, *)
(* or a plain one where everybody is busy.  Two inits are two writers of   *)
(* every file without an editor.                                           *)
Crew(tasks) == [c \in Commands |-> Reading(tasks[c].kind, tasks[c].request)]
Alone(kind, hooks) ==
  [c \in Commands |-> IF c = CHOOSE d \in Commands : TRUE THEN Reading(kind, Update(hooks))
                      ELSE Reading("none", Update({}))]

Init ==
  /\ \/ /\ \E d \in PolicyDocuments : file = File([Installed EXCEPT !.policy = d])
        /\ cmd \in {Alone(kind, {}) : kind \in Sections}
        /\ edits = 0
     \/ /\ \E d \in SettingsDocuments : file = File([Installed EXCEPT !.settings = d])
        /\ cmd \in {Alone("init", hooks) : hooks \in SUBSET {"session", "stop"}}
        /\ edits = 0
     \/ /\ file \in {File(Nothing), File(Installed)}
        /\ cmd \in {Crew(tasks) : tasks \in Crews}
        /\ edits = IF \A c \in Commands : cmd[c].kind = "init" THEN 0 ELSE MaxEdits
  /\ fresh = 2
  /\ owed = [p \in Paths |-> Parts(p, file[p].content)]

-----------------------------------------------------------------------------
(* The hook files a request is about.                                      *)
HookFiles(r) ==
  IF r.hooks = {} THEN {} ELSE {"pi"} \union (IF r.tool THEN {"settings"} ELSE {})

Usable(p, content) == IF p = "pi" THEN content.own = {} ELSE content.valid

(* A slip: each file is judged when its turn comes.                        *)
JudgedAlone(seen, r) == FALSE

(* One file that cannot be worked on, and no hook is installed.            *)
HooksRefused(seen, r) == \E p \in HookFiles(r) : ~Usable(p, seen[p].content)

Made(step, content, c) ==
  LET r == cmd[c].request IN
  CASE step = "capabilities" -> [content EXCEPT !.capabilities = "new"]
    [] step = "route" -> [content EXCEPT !.route = "new"]
    [] step = "defaults" -> content
    [] step = "append" -> appendPolicyEntry(content, cmd[c].kind, c)
    [] step = "seed" -> <<Plain("notes"), Plain("permissions")>>
    [] step = "instructions" -> [content EXCEPT !.section = IF r.tool THEN "new" ELSE "none"]
    [] step = "settings" -> [content EXCEPT !.hooks = InstallHooks(@, r.hooks)]
    [] step = "pi" -> [content EXCEPT !.hooks = @ \union r.hooks]
    [] step = "ignore" -> [content EXCEPT !.section = "new"]

(* Which of its steps init takes: a seed and defaults where there is no    *)
(* file, the rest where it changes something.  A section that would leave  *)
(* the file empty is left to the clean-up of generated files.              *)
Takes(step, seen, c) ==
  LET r == cmd[c].request
      f == seen[PathOf(step)]
  IN  CASE step \in {"capabilities", "route"} -> r.profile
        [] step = "defaults" -> ~r.profile /\ f.inode = 0
        [] step = "seed" -> f.inode = 0
        [] step = "instructions" ->
             /\ Made(step, f.content, c) # f.content
             /\ r.tool \/ f.content.own # {}
        [] step \in {"settings", "pi"} ->
             /\ step \in HookFiles(r) /\ ~HooksRefused(seen, r)
             /\ Usable(step, f.content) /\ Made(step, f.content, c) # f.content
        [] OTHER -> Made(step, f.content, c) # f.content

Todo(seen, c) ==
  IF cmd[c].kind = "init" THEN SelectSeq(InitSteps, LAMBDA step : Takes(step, seen, c))
  ELSE <<"append">>

Busy(c) == cmd[c].step \notin {"read", "done", "failed"}
Step(c) == Head(cmd[c].todo)
Path(c) == PathOf(Step(c))
Seen(c) == cmd[c].seen[Path(c)]

Rest == UNCHANGED <<file, fresh, edits, owed>>

(* Two passes over the open file and a stat must agree: what is read is    *)
(* what the inode held at one moment.                                      *)
readNativeFile(p) == file[p].content

(* Every file is read before the first is written; reads of several files  *)
(* commute with what others do to the rest.                                *)
Read(c) ==
  /\ cmd[c].step = "read"
  /\ LET todo == Todo(file, c) IN
     cmd' = [cmd EXCEPT ![c].seen = [p \in Paths |-> [file[p] EXCEPT !.content = readNativeFile(p)]],
                        ![c].todo = todo,
                        ![c].refused = cmd[c].kind = "init" /\ HooksRefused(file, cmd[c].request),
                        ![c].step = IF todo = <<>> THEN "done" ELSE "open"]
  /\ Rest

(* A failed command is gone.                                               *)
Gone(kind) == [Reading("none", Update({})) EXCEPT !.kind = kind, !.step = "failed"]

Continue(c, ok, next) ==
  cmd' = IF ok THEN [cmd EXCEPT ![c].step = next] ELSE [cmd EXCEPT ![c] = Gone(@.kind)]

(* publishNativeRepoFile opens the target, which must be the inode read,   *)
(* and writes its content under a temporary name ...                       *)
Open(c) ==
  /\ cmd[c].step = "open"
  /\ Continue(c, file[Path(c)].inode = Seen(c).inode, "compare")
  /\ Rest

(* A slip: the bytes are not looked at again.                              *)
CompareIdentity(c) ==
  /\ cmd[c].step = "compare"
  /\ cmd' = [cmd EXCEPT ![c].step = "check", ![c].compared = file[Path(c)]]
  /\ Rest

(* ... compares the bytes of the open inode with those read ...            *)
Compare(c) ==
  /\ cmd[c].step = "compare"
  /\ LET changed == /\ Seen(c).inode # 0 /\ file[Path(c)].inode = Seen(c).inode
                    /\ readNativeFile(Path(c)) # Seen(c).content
     IN  \/ /\ ~changed
            /\ cmd' = [cmd EXCEPT ![c].step = "check", ![c].compared = file[Path(c)]]
         \/ changed /\ Continue(c, FALSE, "failed")
  /\ Rest

(* ... and has the helper look at the identity at the name once more ...   *)
Check(c) ==
  /\ cmd[c].step = "check"
  /\ Continue(c, file[Path(c)].inode = Seen(c).inode, "swap")
  /\ Rest

(* ... and rename: over whatever is there now, or only where nothing is.   *)
(* What came since the comparison of bytes is lost with the old inode.     *)
Swap(c) ==
  /\ cmd[c].step = "swap"
  /\ LET p == Path(c)
         new == [inode |-> fresh, content |-> Made(Step(c), Seen(c).content, c)]
         late == file[p] # cmd[c].compared
     IN  \/ /\ Seen(c).inode = 0 /\ file[p].inode # 0
            /\ Continue(c, FALSE, "failed") /\ Rest
         \/ /\ Seen(c).inode # 0 \/ file[p].inode = 0
            /\ file' = [file EXCEPT ![p] = new]
            /\ fresh' = fresh + 1
            /\ owed' = IF late THEN [owed EXCEPT ![p] = @ \intersect Parts(p, new.content)] ELSE owed
            /\ cmd' = [cmd EXCEPT ![c].step = "verify", ![c].seen[p] = new, ![c].compared = <<>>,
                                ![c].published = @ \union {Step(c)}]
            /\ UNCHANGED edits

(* The name must now lead to what was published.                           *)
Verify(c) ==
  /\ cmd[c].step = "verify"
  /\ IF file[Path(c)].inode = Seen(c).inode
     THEN /\ cmd' = [cmd EXCEPT ![c].todo = Tail(@),
                               ![c].step = IF Len(cmd[c].todo) = 1 THEN "done" ELSE "open"]
          /\ owed' = IF cmd[c].kind \in Sections THEN [owed EXCEPT !["policy"] = @ \union {c}] ELSE owed
     ELSE Continue(c, FALSE, "failed") /\ UNCHANGED owed
  /\ UNCHANGED <<file, fresh, edits>>

(* A native call fails, or the command is killed.                          *)
Stop(c) ==
  /\ cmd[c].step = "read" \/ Busy(c)
  /\ Continue(c, FALSE, "failed")
  /\ Rest

-----------------------------------------------------------------------------
(* What an editor may make of a file.                                      *)
Edited(p, content) ==
  CASE p = "policy" -> {Append(content, Bullet("edit"))}
    [] p = "settings" ->
         {[content EXCEPT !.valid = FALSE],
          [content EXCEPT !.hooks["SessionStart"] =
             Append(@, [matcher |-> "ours", hooks |-> <<"edit">>])]}
    [] OTHER -> {[content EXCEPT !.own = @ \union {"edit"}]}

Edit(p) ==
  /\ edits > 0 /\ edits' = edits - 1
  /\ \E content \in Edited(p, file[p].content) :
       /\ \/ file[p].inode # 0 /\ UNCHANGED fresh
             /\ file' = [file EXCEPT ![p].content = content]
          \/ /\ fresh' = fresh + 1
             /\ file' = [file EXCEPT ![p] = [inode |-> fresh, content |-> content]]
       /\ owed' = [owed EXCEPT ![p] = @ \union Parts(p, content)]
  /\ UNCHANGED cmd

Next ==
  \/ \E c \in Commands :
       Read(c) \/ Open(c) \/ Compare(c) \/ Check(c) \/ Swap(c) \/ Verify(c) \/ Stop(c)
  \/ \E p \in Paths : Edit(p)

Spec == Init /\ [][Next]_vars

-----------------------------------------------------------------------------
TypeOK ==
  /\ \A p \in Paths : file[p].inode \in 0..(fresh - 1)
                     /\ file[p].inode = 0 => file[p].content = Nothing[p]
  /\ \A c \in Commands :
       /\ cmd[c].step \in {"read", "open", "compare", "check", "swap", "verify", "done", "failed"}
       /\ Busy(c) => cmd[c].todo # <<>>

(* What users wrote, and what stdd policy reported as recorded, stays in   *)
(* the file whatever commands do to it, unless it came between the last    *)
(* comparison of bytes and the rename (publishNativeRepoFile).             *)
UserPartsSurvive ==
  TypeOK /\ \A p \in Paths :
    (p = "settings" => file[p].content.valid) =>
      owed[p] \ {<<"broken">>} \subseteq Parts(p, file[p].content)

(* A recorded policy entry is one the reader sees in its section, and adds *)
(* nothing else to what it sees: appendPolicyEntry and parsePolicy agree   *)
(* about every document, but for one that never ends a fence or a comment. *)
EntriesAreSeen ==
  \A c \in Commands :
    LET seen == cmd[c].seen["policy"].content
        entry == [read |-> TRUE, section |-> cmd[c].kind, text |-> c]
        IsOther(e) == e # entry
    IN  cmd[c].kind \in Sections /\ cmd[c].step = "open" =>
          LET new == Made("append", seen, c) IN
          /\ SelectSeq(parsePolicy(new), IsOther) = SelectSeq(parsePolicy(seen), IsOther)
          /\ Contains(parsePolicy(new), entry) \/ Unclosed(seen)

(* When init is done, the files nobody has changed since are in order: one *)
(* managed hook per requested event under its matcher and none of an older *)
(* version, the user's hooks in their order under theirs, and nothing left *)
(* for a second run; and one unusable hook file keeps init off the others. *)
InitIsWhole ==
  \A c \in Commands : cmd[c].kind = "init" /\ cmd[c].step = "done" =>
    LET r == cmd[c].request
        After(step) == file[PathOf(step)] = cmd[c].seen[PathOf(step)]
        hooks == file["settings"].content.hooks
    IN  /\ cmd[c].refused => cmd[c].published \intersect {"settings", "pi"} = {}
        /\ \A step \in Range(InitSteps) \ {"capabilities", "route"} :
              After(step) /\ ~cmd[c].refused => ~Takes(step, cmd[c].seen, c)
        /\ After("settings") /\ ~cmd[c].refused /\ "settings" \in HookFiles(r) =>
              /\ "session" \in r.hooks =>
                   /\ ManagedOf(hooks.SessionStart) = <<[matcher |-> "ours", hook |-> "current"]>>
                   /\ ManagedOf(hooks.PostCompact) = <<>>
              /\ "stop" \in r.hooks => /\ Len(ManagedOf(hooks.Stop)) = 1
                                       /\ ManagedOf(hooks.Stop)[1].hook = "current"
=============================================================================
