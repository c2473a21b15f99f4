---------------------------- MODULE HookSettings ----------------------------
(***************************************************************************)
(* The lifecycle hooks in an agent's JSON settings (cli/claude-hooks.mjs): *)
(* per event a sequence of groups, each a matcher and a sequence of hooks. *)
(* A hook is one that stdd manages, as this version writes it ("current")  *)
(* or as an earlier one did ("legacy"), or one of the user's.              *)
(***************************************************************************)
EXTENDS Naturals, Sequences, SequencesExt

Managed == {"current", "legacy"}
Events == {"SessionStart", "PostCompact", "Stop"}

OwnHooks(group) == SelectSeq(group.hooks, LAMBDA h : h \in Managed)
UserHooks(group) == SelectSeq(group.hooks, LAMBDA h : h \notin Managed)

(* The matcher stdd wants for an event; Stop has none.                     *)
Matcher(event) == IF event = "Stop" THEN "any" ELSE "ours"
Entry(event) == [matcher |-> Matcher(event), hooks |-> <<"current">>]

-----------------------------------------------------------------------------
(* installJsonHook, in its order: managed hooks get the current command,   *)
(* those under another matcher leave their group, or take it along when    *)
(* they are alone in it ...                                                *)
Misplaced(group, event) ==
  /\ OwnHooks(group) # <<>>
  /\ Matcher(event) # "any" /\ group.matcher # Matcher(event)

Recommand(group) ==
  [group EXCEPT !.hooks = [k \in DOMAIN @ |-> IF @[k] \in Managed THEN "current" ELSE @[k]]]

(* A slip: the group's matcher is changed, whoever else is in it.          *)
StayTogether(group, event) ==
  IF Misplaced(group, event) THEN [Recommand(group) EXCEPT !.matcher = Matcher(event)]
  ELSE Recommand(group)

Stay(group, event) ==
  IF ~Misplaced(group, event) THEN Recommand(group)
  ELSE IF UserHooks(group) = <<>> THEN Entry(event)
  ELSE [group EXCEPT !.hooks = UserHooks(group)]

(* ... into groups of their own at the end ...                             *)
Leavers(group, event) ==
  IF ~Misplaced(group, event) THEN <<>>
  ELSE LET moved == OwnHooks(group)
           count == IF UserHooks(group) = <<>> THEN Len(moved) - 1 ELSE Len(moved)
       IN  [k \in 1..count |-> Entry(event)]

Moved(groups, event) ==
  [k \in DOMAIN groups |-> Stay(groups[k], event)]
    \o FoldLeft(LAMBDA acc, g : acc \o Leavers(g, event), <<>>, groups)

(* ... and of equal ones the first stays, of groups those with hooks.      *)
HasCurrent(groups) == \E k \in DOMAIN groups : Contains(groups[k].hooks, "current")

FirstOnly(hooks, seen) ==
  LET Stays(k) == hooks[k] # "current" \/ (~seen /\ \A j \in 1..(k - 1) : hooks[j] # "current")
      marked == [k \in DOMAIN hooks |-> [hook |-> hooks[k], stays |-> Stays(k)]]
      kept == SelectSeq(marked, LAMBDA m : m.stays)
  IN  [k \in DOMAIN kept |-> kept[k].hook]

Dedupe(groups) ==
  LET Drop(acc, g) == Append(acc, [g EXCEPT !.hooks = FirstOnly(@, HasCurrent(acc))])
  IN  SelectSeq(FoldLeft(Drop, <<>>, groups), LAMBDA g : g.hooks # <<>>)

(* Nothing managed had to change, but an empty group may have gone.        *)
Settled(groups, event) ==
  /\ \A k \in DOMAIN groups : Stay(groups[k], event) = groups[k]
  /\ Len(FoldLeft(LAMBDA acc, g : acc \o OwnHooks(g), <<>>, groups)) <= 1

installJsonHook(groups, event) ==
  IF ~Settled(groups, event) THEN Dedupe(Moved(groups, event))
  ELSE IF HasCurrent(groups) THEN groups
  ELSE Append(Dedupe(groups), Entry(event))

removeManagedJsonHook(groups) ==
  IF \A k \in DOMAIN groups : OwnHooks(groups[k]) = <<>> THEN groups
  ELSE SelectSeq([k \in DOMAIN groups |-> [groups[k] EXCEPT !.hooks = UserHooks(groups[k])]],
                 LAMBDA g : g.hooks # <<>>)

-----------------------------------------------------------------------------
(* The Claude settings after the requested installs, one after the other.  *)
InstallSession(settings) ==
  [settings EXCEPT !.SessionStart = installJsonHook(@, "SessionStart"),
                   !.PostCompact = removeManagedJsonHook(@)]

InstallStop(settings) == [settings EXCEPT !.Stop = installJsonHook(@, "Stop")]

InstallHooks(settings, requested) ==
  LET started == IF "session" \in requested THEN InstallSession(settings) ELSE settings
  IN  IF "stop" \in requested THEN InstallStop(started) ELSE started

(* The user's hooks of an event, in order, each under its matcher.         *)
UsersOf(groups) ==
  FoldLeft(LAMBDA acc, g : acc \o [k \in DOMAIN UserHooks(g) |->
                                     [matcher |-> g.matcher, hook |-> UserHooks(g)[k]]],
           <<>>, groups)

ManagedOf(groups) ==
  FoldLeft(LAMBDA acc, g : acc \o [k \in DOMAIN OwnHooks(g) |->
                                     [matcher |-> g.matcher, hook |-> OwnHooks(g)[k]]],
           <<>>, groups)
=============================================================================
