----------------------------- MODULE MCCommands -----------------------------
EXTENDS RepoCommands

(* Our commit before and after the base moved, with the documents it may   *)
(* have changed; another's, from either side of that move.                 *)
Everything == {"guide.md", "my guide.md", "notes.txt"}
CommitAt(fork, own, holds) == [fork |-> fork, own |-> own, tree |-> holds]

Pairs ==
  [ours : {CommitAt(fork, own, Everything) : fork \in 0..1, own \in
             {{}, {"guide.md"}, {"my guide.md"}, {"notes.txt"}, {"guide.md", "my guide.md"}}},
   theirs : {CommitAt(1, {}, Everything \ {"guide.md"}), CommitAt(0, {"my guide.md"}, Everything)}]

(* One claim of every kind, and bodies with none, two, or a hidden one.    *)
Naming == {{}} \union {{[doc |-> name[1], quoted |-> name[2]]} : name \in
  {<<"guide.md", FALSE>>, <<"my guide.md", TRUE>>, <<"my guide.md", FALSE>>, <<"notes.txt", FALSE>>}}
Written(kind, label, empty, names) ==
  [kind |-> kind, claim |-> [label |-> label, empty |-> empty, names |-> names]]
Waived == Written("claim", "not-applicable", FALSE, {})
Hedge == Written("fence", "not-applicable", FALSE, {})

Texts ==
  {<<Written("claim", label, FALSE, names)>> : label \in {"updated", "checked"}, names \in Naming}
  \union {<<>>, <<Waived, Waived>>, <<Hedge, Waived, Hedge, Waived>>, <<Hedge, Waived>>,
          <<Written("decorated", "updated", FALSE, {})>>, <<Written("claim", "updated", TRUE, {})>>}

Recorded == {[decision |-> "none", paths |-> {}], [decision |-> "checked", paths |-> {"guide.md"}]}

-----------------------------------------------------------------------------
Policy == INSTANCE PolicyDocument
Hooks == INSTANCE HookSettings

(* Every document of up to four lines.                                     *)
Documents ==
  Policy!BoundedSeq({Policy!Plain(kind) : kind \in Policy!PlainKinds} \union {Policy!Bullet("mine")}, 4)

(* Every two groups of two hooks in one event, and settings that are none. *)
Groups == [matcher : {"ours", "theirs"}, hooks : Policy!BoundedSeq({"legacy", "mine", "current"}, 2)]
Settings ==
  {[valid |-> TRUE, hooks |-> [e \in Hooks!Events |-> IF e = event THEN groups ELSE <<>>]] :
     event \in Hooks!Events, groups \in Policy!BoundedSeq(Groups, 2)}
  \union {[valid |-> FALSE, hooks |-> [e \in Hooks!Events |-> <<>>]]}

(* Two policy commands, one beside an update; two updates, or one beside   *)
(* the choice of a profile without a tool.                                 *)
Task(kind, tool, profile, hooks) ==
  [kind |-> kind, request |-> [tool |-> tool, profile |-> profile, hooks |-> hooks]]

Note == Task("notes", TRUE, FALSE, {})
Permission == Task("permissions", TRUE, FALSE, {})
Refresh == Task("init", TRUE, FALSE, {"session", "stop"})
Profile == Task("init", FALSE, TRUE, {"stop"})

Teams ==
  LET c == CHOOSE d \in Commands : TRUE
  IN  {[d \in Commands |-> IF d = c THEN pair[1] ELSE pair[2]] :
         pair \in {<<Note, Note>>, <<Note, Permission>>, <<Note, Refresh>>,
                   <<Refresh, Refresh>>, <<Refresh, Profile>>}}
=============================================================================
