----------------------------- MODULE MCHandover -----------------------------
EXTENDS Handover

(* Any hooks of Claude Code and Codex, one extension of Pi (MCStopHook has *)
(* two).                                                                   *)
Kinds == {"project", "plugin"}
Hosts ==
  [host : {"claude", "codex"}, installed : (SUBSET Kinds) \ {{}}]
  \union [host : {"pi"}, installed : {{kind} : kind \in Kinds}]
=============================================================================
