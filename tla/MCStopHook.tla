----------------------------- MODULE MCStopHook -----------------------------
EXTENDS StopHook

(* Pi with both extensions: the project's and the plugin's.                *)
Overlap == {[host |-> "pi", installed |-> Hooks]}

(* method/reference-integration.md: the extension "queues at most one      *)
(* corrective follow-up turn when blocked.  It then fails open rather than *)
(* creating an unbounded feedback loop": a settled agent comes to rest,    *)
(* although the claim stays broken.                                        *)
CorrectionsEnd == turn # "idle" ~> turn = "idle"
=============================================================================
