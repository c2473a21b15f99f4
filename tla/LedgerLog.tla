------------------------------ MODULE LedgerLog ------------------------------
(***************************************************************************)
(* What the ledger promises its writers: an append-only log, and an answer *)
(* that tells the truth about it.  A writer that is told its record was    *)
(* recorded finds it in the log for good; one that is told it failed never *)
(* does; one that got no answer must look for itself.                      *)
(***************************************************************************)
EXTENDS Sequences

CONSTANTS Writers, History

VARIABLES log, answer

logVars == <<log, answer>>

Answers == {"none", "recorded", "failed", "unknown"}

(* A log may begin with what an earlier release left behind.               *)
LogInit ==
  /\ log \in {<<>>, <<History>>}
  /\ answer = [w \in Writers |-> "none"]

Logged(w) == \E i \in DOMAIN log : log[i] = w

AppendRecord(w) ==
  /\ answer[w] = "none"
  /\ ~Logged(w)
  /\ log' = Append(log, w)
  /\ UNCHANGED answer

Answer(w) ==
  /\ answer[w] = "none"
  /\ \/ Logged(w) /\ answer' = [answer EXCEPT ![w] = "recorded"]
     \/ ~Logged(w) /\ answer' = [answer EXCEPT ![w] = "failed"]
     \/ answer' = [answer EXCEPT ![w] = "unknown"]
  /\ UNCHANGED log

LogNext == \E w \in Writers : AppendRecord(w) \/ Answer(w)

LogSpec == LogInit /\ [][LogNext]_logVars
=============================================================================
