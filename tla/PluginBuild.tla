---------------------------- MODULE PluginBuild ----------------------------
(***************************************************************************)
(* The plugin build (scripts/build-plugin.mjs): it reads the sources while *)
(* others may write them, moves skills nobody generates any more into a    *)
(* quarantine, and publishes the bundle file by file through the native    *)
(* helper.  It may be killed or fail at any call, and is run again.        *)
(***************************************************************************)
EXTENDS Naturals, Sequences, SequencesExt

CONSTANTS
  Skills,     \* names of skills that are not generated any more
  MaxBuilds,  \* bound: builds
  MaxActs     \* bound: acts of others, failing calls and kills

VARIABLES
  source,      \* which writing of each source is there, 0 if none
  output,      \* what each file of the bundle holds, and from which build
  litter,      \* what lies in the runtime and is no file of the bundle
  skills,      \* the directory tree at each skill's name, 0 if none
  quarantine,  \* the trees retired
  build,       \* the latest build
  fresh,       \* the next writing, content or tree
  acts,        \* what may still happen
  moments,     \* history: the sources since the build began
  kept         \* history: the trees users have made and not removed

vars == <<source, output, litter, skills, quarantine, build, fresh, acts, moments, kept>>

(* Stand-ins, in the order they are read: the package file, the native     *)
(* helper of this platform, playbooks, the runtime's code and one module   *)
(* of it that may come and go: it is read only if it has been listed.      *)
Sources(listed) ==
  IF listed THEN <<"package", "helper", "playbook", "code", "module">>
  ELSE <<"package", "helper", "playbook", "code">>

(* The manifests carry the package's version; the package comes last.      *)
Outputs(listed) ==
  IF listed THEN <<"playbook", "manifests", "code", "module", "helper", "package">>
  ELSE <<"playbook", "manifests", "code", "helper", "package">>

SourceNames == ToSet(Sources(TRUE))
OutputNames == ToSet(Outputs(TRUE))
SourceOf(o) == IF o = "manifests" THEN "package" ELSE o

(* Where a left temporary is in the way of the next build.                 *)
Runtime == {"code", "module", "helper", "package"}

NoFile == [bytes |-> 0, by |-> 0, foreign |-> FALSE]

Idle == [at |-> "idle", number |-> 0, todo |-> <<>>, boot |-> 0, held |-> 0, listed |-> FALSE,
         read |-> [s \in SourceNames |-> 0], stale |-> [n \in Skills |-> 0],
         existing |-> [o \in OutputNames |-> NoFile], calm |-> TRUE]

(* Nothing built yet, or all that was there, a module among it.            *)
Init ==
  /\ \/ /\ \E module \in 0 .. 1 :
               source = [s \in SourceNames |-> IF s = "module" THEN module ELSE 1]
        /\ output = [o \in OutputNames |-> [NoFile EXCEPT !.bytes = 1]]
     \/ /\ source = [s \in SourceNames |-> IF s = "module" THEN 0 ELSE 1]
        /\ output = [o \in OutputNames |-> NoFile]
  /\ litter = {}
  /\ skills \in [Skills -> {0, 1}]
  /\ quarantine = {}
  /\ build = Idle
  /\ fresh = 2
  /\ acts = MaxActs
  /\ moments = {}
  /\ kept = {t \in Range(skills) : t # 0}

Ended == {"idle", "done", "failed", "killed"}
Running == build.at \notin Ended
At(step) == build.at = step
Todo == Head(build.todo)

Outside == UNCHANGED <<source, acts, moments, fresh, kept>>
Bundle == UNCHANGED <<output, litter>>
Registry == UNCHANGED <<skills, quarantine>>

Goto(step) == build' = [build EXCEPT !.at = step]
Check(ok, step) == Goto(IF ok THEN step ELSE "failed") /\ Outside /\ Bundle /\ Registry

(* One item is dealt with: the next, or the next list.                     *)
Advance(step, next, todo) ==
  build' = IF Len(build.todo) > 1 THEN [build EXCEPT !.at = step, !.todo = Tail(@)]
           ELSE [build EXCEPT !.at = next, !.todo = todo]

-----------------------------------------------------------------------------
(* The package file is read before anything else ...                       *)
Begin ==
  /\ ~Running /\ build.number < MaxBuilds
  /\ build' = [Idle EXCEPT !.at = "session", !.number = build.number + 1,
                           !.boot = source["package"]]
  /\ moments' = {source}
  /\ UNCHANGED <<source, acts, fresh, kept>> /\ Bundle /\ Registry

(* ... then the helper is verified, started and held, ...                  *)
OpenSession ==
  /\ At("session")
  /\ build' = [build EXCEPT !.at = "names", !.held = source["helper"]]
  /\ Outside /\ Bundle /\ Registry

(* ... the directories of the sources are listed, once and for all, ...    *)
ListNames ==
  /\ At("names")
  /\ build' = [build EXCEPT !.at = "preflight", !.listed = source["module"] # 0]
  /\ Outside /\ Bundle /\ Registry

(* ... and nothing may lie in the runtime that is not on that list.        *)
Preflight ==
  /\ At("preflight")
  /\ build' = IF litter = {} /\ (output["module"].bytes = 0 \/ build.listed)
              THEN [build EXCEPT !.at = "read", !.todo = Sources(build.listed)]
              ELSE [build EXCEPT !.at = "failed"]
  /\ Outside /\ Bundle /\ Registry

(* A source is there, and the one that was read.                           *)
Still(s) == source[s] = build.read[s] /\ source[s] # 0

(* readExactSource reads a source twice and observes it in between; the    *)
(* running helper is only observed, its bytes are those of the session.    *)
ReadOnce ==
  /\ At("read")
  /\ build' = [build EXCEPT !.at = "again", !.read[Todo] = source[Todo]]
  /\ Outside /\ Bundle /\ Registry

ReadAgain ==
  /\ At("again")
  /\ LET s == Todo IN
     IF Still(s) /\ (s = "package" => build.read[s] = build.boot)
     THEN Advance("read", "plan", Sources(build.listed))
     ELSE Goto("failed")
  /\ Outside /\ Bundle /\ Registry

(* What is there already, and which skills are generated no more.          *)
Plan ==
  /\ At("plan")
  /\ build' = [build EXCEPT !.at = "recheck", !.existing = output, !.stale = skills]
  /\ Outside /\ Bundle /\ Registry

StaleNames == SetToSeq({n \in Skills : build.stale[n] # 0})

(* A slip: only the package is looked at again.                            *)
RecheckPackage ==
  /\ At("recheck")
  /\ IF Todo = "package" => Still(Todo)
     THEN Advance("recheck", "attached", StaleNames)
     ELSE Goto("failed")
  /\ Outside /\ Bundle /\ Registry

(* Every source on the list must still be what was read, one after the     *)
(* other; what is on no list is not looked for ...                         *)
Recheck ==
  /\ At("recheck")
  /\ IF Still(Todo) THEN Advance("recheck", "attached", StaleNames)
     ELSE Goto("failed")
  /\ Outside /\ Bundle /\ Registry

Publishing(b) == [b EXCEPT !.at = "stage", !.todo = Outputs(b.listed)]

(* ... and the helper that runs be the one installed.                      *)
Attached ==
  /\ At("attached")
  /\ build' = IF source["helper"] # build.held THEN [build EXCEPT !.at = "failed"]
              ELSE IF build.todo = <<>> THEN Publishing(build)
              ELSE [build EXCEPT !.at = "retire"]
  /\ Outside /\ Bundle /\ Registry

-----------------------------------------------------------------------------
(* quarantineStaleSkill.  The tree is compared ...                         *)
Tree(n) == build.stale[n]

Retire == At("retire") /\ Check(skills[Todo] = Tree(Todo), "move")

(* ... and moved, whichever is there by now, under a random name ...       *)
Move ==
  /\ At("move")
  /\ IF skills[Todo] = 0 THEN Goto("failed") /\ Registry
     ELSE /\ quarantine' = quarantine \union {skills[Todo]}
          /\ skills' = [skills EXCEPT ![Todo] = 0]
          /\ Goto("postflight")
  /\ Outside /\ Bundle

(* ... after which the name must be free and the right tree retired ...    *)
Postflight ==
  /\ At("postflight")
  /\ IF skills[Todo] = 0 /\ Tree(Todo) \in quarantine
     THEN build' = IF Len(build.todo) > 1 THEN [build EXCEPT !.at = "retire", !.todo = Tail(@)]
                   ELSE Publishing(build)
     ELSE Goto("undo")
  /\ Outside /\ Bundle /\ Registry

(* ... or it goes back to a name that is free.                             *)
Undo == At("undo") /\ Check(skills[Todo] = 0 /\ Tree(Todo) \in quarantine, "back")

(* A slip: the name may be taken by now.                                   *)
PutBackOver ==
  /\ At("back")
  /\ quarantine' = quarantine \ {Tree(Todo)}
  /\ skills' = [skills EXCEPT ![Todo] = Tree(Todo)]
  /\ Goto("failed") /\ Outside /\ Bundle

PutBack ==
  /\ At("back")
  /\ IF skills[Todo] # 0 THEN Registry
     ELSE /\ quarantine' = quarantine \ {Tree(Todo)}
          /\ skills' = [skills EXCEPT ![Todo] = Tree(Todo)]
  /\ Goto("failed") /\ Outside /\ Bundle

-----------------------------------------------------------------------------
(* publishFile writes and verifies a temporary, which no failure removes,  *)
Stage ==
  /\ At("stage")
  /\ litter' = litter \union ({Todo} \intersect Runtime)
  /\ Goto("target") /\ Outside /\ UNCHANGED output /\ Registry

(* looks at what it is about to replace,                                   *)
Target == At("target") /\ Check(output[Todo] = build.existing[Todo], "rename")

Planned(o) == [bytes |-> build.read[SourceOf(o)], by |-> build.number, foreign |-> FALSE]

Renamed ==
  /\ output' = [output EXCEPT ![Todo] = Planned(Todo)]
  /\ litter' = litter \ {Todo}

(* A slip: the rename may not replace.                                     *)
RenameNew ==
  /\ At("rename")
  /\ IF output[Todo].bytes # 0 THEN Goto("failed") /\ Bundle ELSE Goto("verify") /\ Renamed
  /\ Outside /\ Registry

(* replaces it, or whatever came since, but nothing where nothing was,     *)
Rename ==
  /\ At("rename")
  /\ IF build.existing[Todo].bytes = 0 /\ output[Todo].bytes # 0 THEN Goto("failed") /\ Bundle
     ELSE Goto("verify") /\ Renamed
  /\ Outside /\ Registry

(* and finds it at its name.                                               *)
Verify ==
  /\ At("verify")
  /\ Advance("stage", "done", <<>>)
  /\ Outside /\ Bundle /\ Registry

Build ==
  \/ Begin \/ OpenSession \/ ListNames \/ Preflight \/ ReadOnce \/ ReadAgain \/ Plan \/ Recheck
  \/ Attached \/ Retire \/ Move \/ Postflight \/ Undo \/ PutBack
  \/ Stage \/ Target \/ Rename \/ Verify

-----------------------------------------------------------------------------
(* Others, beside a build or after one; a build they work beside is not    *)
(* calm.                                                                   *)
Act == acts > 0 /\ acts' = acts - 1 /\ build.number > 0
Disturbed == build' = [build EXCEPT !.calm = FALSE]

(* A file written in place, where its times tell, or one of another inode  *)
(* at its name, which also makes a module that is new; a running helper's  *)
(* file cannot be written, only replaced.  Only a module is ever removed.  *)
Edit(s) ==
  /\ Act /\ Disturbed
  /\ \/ source' = [source EXCEPT ![s] = fresh]
     \/ s = "module" /\ source[s] # 0 /\ source' = [source EXCEPT ![s] = 0]
  /\ fresh' = fresh + 1
  /\ moments' = IF Running THEN moments \union {source'} ELSE moments
  /\ UNCHANGED kept /\ Bundle /\ Registry

Touch(o) ==
  /\ Act /\ Disturbed
  /\ output' = [output EXCEPT ![o] = [bytes |-> fresh, by |-> 0, foreign |-> TRUE]]
  /\ fresh' = fresh + 1
  /\ UNCHANGED <<source, moments, kept, litter>> /\ Registry

(* A user's tree appears at a name, or takes the place of another.         *)
MakeSkill(n) ==
  /\ Act /\ Disturbed
  /\ skills' = [skills EXCEPT ![n] = fresh]
  /\ kept' = (kept \ {skills[n]}) \union {fresh}
  /\ fresh' = fresh + 1
  /\ UNCHANGED <<source, moments, quarantine>> /\ Bundle

(* What the next build refuses to find in the runtime: temporaries, and    *)
(* the output of a module that is gone.                                    *)
Orphan == output["module"].bytes # 0 /\ source["module"] = 0
InTheWay == litter # {} \/ Orphan

(* The operator settles what a build has complained about.                 *)
Tidy ==
  /\ ~Running /\ InTheWay /\ litter' = {}
  /\ output' = IF Orphan THEN [output EXCEPT !["module"] = NoFile] ELSE output
  /\ Disturbed /\ Outside /\ Registry

Quit(end) == build' = [build EXCEPT !.at = end, !.calm = FALSE]

Kill ==
  /\ Running /\ Act /\ Quit("killed")
  /\ UNCHANGED <<source, moments, fresh, kept>> /\ Bundle /\ Registry

(* A call fails.  What a failed move or rename has done is not known; what *)
(* fails after a move is answered by taking it back.                       *)
Fault ==
  /\ Running /\ Act
  /\ \/ /\ ~At("postflight") /\ Quit("failed") /\ Bundle /\ Registry
     \/ At("postflight") /\ Quit("undo") /\ Bundle /\ Registry
     \/ At("rename") /\ Quit("failed") /\ Renamed /\ Registry
     \/ /\ At("move") /\ skills[Todo] # 0
        /\ quarantine' = quarantine \union {skills[Todo]}
        /\ skills' = [skills EXCEPT ![Todo] = 0]
        /\ Quit("failed") /\ Bundle
  /\ UNCHANGED <<source, moments, fresh, kept>>

Others ==
  \/ \E s \in SourceNames : Edit(s)
  \/ \E o \in OutputNames : Touch(o)
  \/ \E n \in Skills : MakeSkill(n)
  \/ Tidy \/ Kill \/ Fault

Next == Build \/ Others

Spec == Init /\ [][Next]_vars

-----------------------------------------------------------------------------
TypeOK ==
  /\ build.at \in Ended \union
       {"session", "names", "preflight", "read", "again", "plan", "recheck", "attached", "retire",
        "move", "postflight", "undo", "back", "stage", "target", "rename", "verify"}
  /\ litter \subseteq Runtime
  /\ build.number \in 0..MaxBuilds /\ acts \in 0..MaxActs

(* What a build publishes is the listed sources as they all were at one    *)
(* moment of it, though they are listed first, read one by one long after  *)
(* and looked at again later still, while others write, make and remove    *)
(* them.  A source beyond the list is one that came while the build ran:   *)
(* no later step looks for it, and what imports it by then is published    *)
(* without it.  And the runtime's package file is from no later build than *)
(* any file beside it, wherever builds have stopped (buildPlugin, "Publish *)
(* the version-bearing package file last"), unless others have written one *)
(* of them or the source of that file is gone and its output was removed.  *)
BundleIsSound ==
  /\ TypeOK
  /\ build.at \in {"stage", "target", "rename", "verify", "done"} =>
       \E m \in moments : \A s \in SourceNames :
         \/ m[s] = build.read[s]
         \/ s \notin ToSet(Sources(build.listed)) /\ \E earlier \in moments : earlier[s] = 0
  /\ \A o \in OutputNames :
       \/ output[o].foreign \/ output["package"].foreign \/ output[o].by >= output["package"].by
       \/ o = "module" /\ output[o].bytes = 0

(* No tree a user has made is lost, whatever comes between the steps of    *)
(* retiring it and of taking that back; and a build that is done has left  *)
(* none of those it found active (quarantineStaleSkill).                   *)
SkillsAreKept ==
  /\ kept \subseteq Range(skills) \union quarantine
  /\ At("done") => \A n \in Skills : Tree(n) # 0 => skills[n] # Tree(n)

(* A build that nobody disturbs fails for one reason only: it refuses what *)
(* it finds beside its own files, the output of a source that is gone or   *)
(* the temporary of a build that stopped.  Once that is tidied up, running *)
(* it again heals whatever the last one has left behind (buildPlugin).     *)
RetryHeals == At("failed") /\ build.calm => InTheWay
=============================================================================
