----------------------------- MODULE PrEvidence -----------------------------
(***************************************************************************)
(* The docs evidence line of a pull request (cli/evidence.mjs): stdd       *)
(* evidence drafts it from the diff or from the ledger, stdd check-pr      *)
(* holds the line of a body, or of a pull request on the forge, against    *)
(* the diff.  While check-pr --pr asks the forge, fetches and compares,    *)
(* the pull request is pushed to and edited, its base moves on, and the    *)
(* user checks something else out.                                         *)
(***************************************************************************)
EXTENDS Naturals, Sequences, FiniteSets

CONSTANTS
  Pools,     \* the pairs of commits a behaviour is about: ours and another's
  Bodies,    \* the bodies a pull request gets
  Decisions, \* what the ledger may have recorded
  MaxMoves   \* bound: changes by others while a command runs

VARIABLES
  forge,   \* the pull request, the tip of its base, and what that tip's commit changed
  repo,    \* HEAD, the working tree, origin/<base>, and the commits git has
  ledger,  \* the recorded decision
  check,   \* the check-pr that runs
  draft,   \* the line stdd evidence printed, for which HEAD, over which origin
  moves

vars == <<forge, repo, ledger, check, draft, moves>>

-----------------------------------------------------------------------------
(* Documents, as claims name them: written bare, a name with a blank in it *)
(* is read from its last word on (extractDocPaths).                        *)
Docs == {"guide.md", "my guide.md", "notes.txt"}
Spaced == {"my guide.md"}
Canonical == {"guide.md", "my guide.md"}

Name(doc, quoted) == [doc |-> doc, quoted |-> quoted]

Reading(name) ==
  IF name.doc = "notes.txt" THEN {}
  ELSE IF name.doc \in Spaced /\ ~name.quoted THEN {"guide.md"}
  ELSE {name.doc}

ExtractDocPaths(claim) == UNION {Reading(name) : name \in claim.names}

(* Evidence paths with whitespace are quoted.  (A slip: none is.)          *)
EvidencePathBare(doc) == Name(doc, FALSE)
EvidencePath(doc) == Name(doc, doc \in Spaced)

Labels == {"updated", "checked", "not-applicable"}
Claim(label, empty, names) == [label |-> label, empty |-> empty, names |-> names]

(* A body is a sequence of lines: fences, evidence lines, and such lines   *)
(* under a markup that keeps them from being any.                          *)
Line(kind, claim) == [kind |-> kind, claim |-> claim]
Fence == Line("fence", Claim("not-applicable", FALSE, {}))

Fenced(body, i) == Cardinality({j \in 1..(i - 1) : body[j].kind = "fence"}) % 2 = 1
LinesOf(body, kind) == {i \in DOMAIN body : body[i].kind = kind /\ ~Fenced(body, i)}
FindEvidenceLines(body) == LinesOf(body, "claim")

(* What check-pr says of a body without one: the lines that nearly are.    *)
NearMissEvidenceLines(body) == LinesOf(body, "decorated")

-----------------------------------------------------------------------------
(* A commit has left the base at its fork and changed documents of its     *)
(* own.  git diff base...head starts at the merge base: over an origin     *)
(* that lags behind the fork it counts what others landed in between.      *)
Commit(fork, own, tree) == [fork |-> fork, own |-> own, tree |-> tree]

Changed(base, c) ==
  c.own \union UNION {forge.landed[n] : n \in {k \in DOMAIN forge.landed : base < k /\ k <= c.fork}}

Idle ==
  [pc |-> "idle", mode |-> "none", body |-> <<>>, head |-> Commit(0, {}, Docs), symbolic |-> TRUE,
   moved |-> FALSE, verdict |-> "none", remark |-> "none"]

NoDraft == [claim |-> Claim("not-applicable", TRUE, {}), head |-> Idle.head, origin |-> 0, made |-> "none"]

(* The pull request is at either commit, its base may have landed a change *)
(* since our commit's fork, and origin may not have heard of it.           *)
Init ==
  \E pool \in Pools, landed \in SUBSET {"guide.md"}, body \in Bodies, origin \in 0..1 :
  \E head \in {pool.ours, pool.theirs} :
    /\ forge = [base |-> 1, head |-> head, body |-> body, landed |-> <<landed>>,
                commits |-> {pool.ours, pool.theirs}]
    /\ repo = [head |-> pool.ours, work |-> pool.ours.tree, origin |-> origin, has |-> {pool.ours}]
    /\ ledger \in IF body = <<>> THEN Decisions ELSE {[decision |-> "none", paths |-> {}]}
    /\ check = Idle /\ draft = NoDraft /\ moves = 0

TypeOK ==
  /\ forge.base = Len(forge.landed) /\ repo.origin \in 0..forge.base
  /\ repo.head \in repo.has /\ forge.head \in forge.commits
  /\ check.pc \in {"idle", "fetch", "compare", "pull", "read", "verify", "advise", "done"}
  /\ check.verdict \in {"none", "ok", "failed", "rejected"}

-----------------------------------------------------------------------------
(* Others: something lands on the base, the pull request is pushed to or   *)
(* its body written, and the user checks something else out.  (Before a    *)
(* command has run, Init is any state they may have brought about.)        *)
Move ==
  /\ check.pc # "done" /\ (check.pc # "idle" \/ draft.made # "none")
  /\ moves < MaxMoves /\ moves' = moves + 1
  /\ UNCHANGED <<ledger, draft>>

Land ==
  /\ Move
  /\ \E docs \in SUBSET {"guide.md"} :
       forge' = [forge EXCEPT !.base = @ + 1, !.landed = Append(@, docs)]
  /\ UNCHANGED <<repo, check>>

Push ==
  /\ Move
  /\ \E c \in forge.commits \ {forge.head} : forge' = [forge EXCEPT !.head = c]
  /\ UNCHANGED <<repo, check>>

EditBody ==
  /\ Move
  /\ forge' = [forge EXCEPT !.body = <<Fence>>]
  /\ UNCHANGED <<repo, check>>

(* The author takes the drafted line into the body.                        *)
Publish ==
  /\ check.pc = "idle" /\ draft.made # "none" /\ forge.body = <<>>
  /\ forge' = [forge EXCEPT !.body = <<Line("claim", draft.claim)>>]
  /\ UNCHANGED <<repo, ledger, check, draft, moves>>

Checkout ==
  /\ Move
  /\ \E c \in forge.commits \ {repo.head} :
       repo' = [repo EXCEPT !.head = c, !.work = c.tree, !.has = @ \union {c}]
  /\ check' = [check EXCEPT !.moved = @ \/ (check.symbolic /\ check.pc \in {"read", "verify"})]
  /\ UNCHANGED forge

-----------------------------------------------------------------------------
(* stdd evidence, for a pull request without a line: the canonical         *)
(* documents of the diff, else what was recorded, else its author's turn.  *)
Evidence ==
  LET docs == Changed(repo.origin, repo.head) \intersect Canonical
  IN  /\ check.pc = "idle" /\ draft.made = "none" /\ forge.body = <<>>
      /\ draft' = [claim |->
                     IF docs # {} THEN Claim("updated", FALSE, {EvidencePath(d) : d \in docs})
                     ELSE IF ledger.decision \in {"checked", "not-applicable"}
                     THEN Claim(ledger.decision, FALSE, {Name(d, FALSE) : d \in ledger.paths})
                     ELSE NoDraft.claim,
                   head |-> repo.head, origin |-> repo.origin,
                   made |-> IF docs # {} THEN "diff"
                            ELSE IF ledger.decision \in {"checked", "not-applicable"} THEN "ledger"
                            ELSE "nothing"]
      /\ UNCHANGED <<forge, repo, ledger, check, moves>>

-----------------------------------------------------------------------------
Stay == UNCHANGED <<ledger, draft, moves>>
End(verdict, remark) == check' = [check EXCEPT !.pc = "done", !.verdict = verdict, !.remark = remark]

(* check-pr with a body and --base: HEAD and the tree as they are.         *)
CheckFile ==
  /\ check.pc = "idle" /\ draft.made # "none"
  /\ check' = [Idle EXCEPT !.pc = "read", !.mode = "file", !.head = repo.head,
                           !.body = <<Line("claim", draft.claim)>>]
  /\ Stay /\ UNCHANGED <<forge, repo>>

(* check-pr --pr: the forge is asked once, ...                             *)
ViewPr ==
  /\ check.pc = "idle"
  /\ check' = [Idle EXCEPT !.pc = "fetch", !.mode = "pr", !.body = forge.body, !.head = forge.head]
  /\ Stay /\ UNCHANGED <<forge, repo>>

(* ... the base is fetched (a slip: origin is taken as it is), ...         *)
FetchBaseNever ==
  /\ check.pc = "fetch"
  /\ check' = [check EXCEPT !.pc = "compare"]
  /\ Stay /\ UNCHANGED <<forge, repo>>

FetchBase ==
  /\ check.pc = "fetch"
  /\ repo' = [repo EXCEPT !.origin = forge.base]
  /\ check' = [check EXCEPT !.pc = "compare"]
  /\ Stay /\ UNCHANGED forge

(* ... the head is HEAD when they are the same commit, else its object,    *)
(* which may have to be fetched: what is fetched is the head of now.       *)
CompareHead ==
  /\ check.pc = "compare"
  /\ check' = [check EXCEPT !.symbolic = (repo.head = check.head),
                            !.pc = IF check.head \in repo.has THEN "read" ELSE "pull"]
  /\ Stay /\ UNCHANGED <<forge, repo>>

PullHead ==
  /\ check.pc = "pull"
  /\ \E history \in BOOLEAN :
       LET got == repo.has \union {forge.head} \union IF history THEN {check.head} ELSE {}
       IN  /\ repo' = [repo EXCEPT !.has = got]
           /\ IF check.head \in got THEN check' = [check EXCEPT !.pc = "read"] ELSE End("failed", "none")
  /\ Stay /\ UNCHANGED forge

(* Exactly one line, and something after its colon.                        *)
ReadBody ==
  LET found == FindEvidenceLines(check.body)
  IN  /\ check.pc = "read"
      /\ IF Cardinality(found) # 1 \/ \E i \in found : check.body[i].claim.empty
         THEN End("rejected", IF found = {} /\ NearMissEvidenceLines(check.body) # {} THEN "near miss" ELSE "none")
         ELSE check' = [check EXCEPT !.pc = "verify"]
      /\ Stay /\ UNCHANGED <<forge, repo>>

TheClaim == check.body[CHOOSE i \in FindEvidenceLines(check.body) : TRUE].claim
HeadRef == IF check.symbolic THEN repo.head ELSE check.head

(* The claim against the diff, or the paths of a checked claim against the *)
(* head's tree (the working tree without --pr).                            *)
Backed(claim) ==
  LET paths == ExtractDocPaths(claim)
  IN  CASE claim.label = "updated" -> paths # {} /\ paths \subseteq Changed(repo.origin, HeadRef)
        [] claim.label = "checked" -> paths \subseteq IF check.mode = "pr" THEN HeadRef.tree ELSE repo.work
        [] OTHER -> TRUE

VerifyEvidence ==
  /\ check.pc = "verify"
  /\ IF Backed(TheClaim) THEN check' = [check EXCEPT !.pc = "advise"] ELSE End("rejected", "none")
  /\ Stay /\ UNCHANGED <<forge, repo>>

(* The ledger may disagree: a remark, and the pass stands.                 *)
Advise ==
  /\ check.pc = "advise"
  /\ End("ok", IF ledger.decision \in {"none", TheClaim.label} THEN "none" ELSE "contradicted")
  /\ Stay /\ UNCHANGED <<forge, repo>>

(* gh or git fails.                                                        *)
Fault ==
  /\ check.pc \in {"fetch", "compare", "pull"} /\ moves < MaxMoves
  /\ End("failed", "none") /\ moves' = moves + 1
  /\ UNCHANGED <<forge, repo, ledger, draft>>

Next ==
  \/ Land \/ Push \/ EditBody \/ Publish \/ Checkout
  \/ Evidence \/ CheckFile \/ ViewPr \/ FetchBase \/ CompareHead \/ PullHead
  \/ ReadBody \/ VerifyEvidence \/ Advise \/ Fault

Spec == Init /\ [][Next]_vars

-----------------------------------------------------------------------------
(* What a claim means, of the pull request's own changes: the documents it *)
(* names were changed by it, or are in it.                                 *)
True(claim, c) ==
  CASE claim.label = "updated" -> ExtractDocPaths(claim) # {} /\ ExtractDocPaths(claim) \subseteq c.own
    [] claim.label = "checked" -> ExtractDocPaths(claim) \subseteq c.tree
    [] OTHER -> ~claim.empty

(* check-pr --pr judges the pull request it was shown, by the changes that *)
(* are its own: what else is pushed, landed or fetched meanwhile, and      *)
(* whatever origin was before, make it neither accept a false claim nor    *)
(* refuse a true one.  But for a HEAD that was compared and then moved.    *)
VerdictIsOfThePr ==
  check.mode = "pr" /\ check.verdict \in {"ok", "rejected"} /\ ~check.moved =>
    (check.verdict = "ok" <=>
       \E i \in DOMAIN check.body :
         /\ FindEvidenceLines(check.body) = {i} /\ ~check.body[i].claim.empty
         /\ True(check.body[i].claim, check.head))

(* The line stdd evidence drafts from a diff whose base is not behind the  *)
(* branch is read back as the documents it was drafted from, all of them   *)
(* changed by the branch.                                                  *)
DraftIsTrue ==
  draft.made = "diff" /\ draft.origin >= draft.head.fork =>
    /\ True(draft.claim, draft.head)
    /\ ExtractDocPaths(draft.claim) = draft.head.own \intersect Canonical

(* And check-pr accepts it on the checkout it was drafted from, whatever   *)
(* the base.                                                               *)
DraftPasses ==
  check.mode = "file" /\ check.pc = "done" /\ draft.made = "diff" /\ check.head = draft.head /\ ~check.moved =>
    check.verdict = "ok"

EvidenceHolds == TypeOK /\ VerdictIsOfThePr /\ DraftIsTrue /\ DraftPasses
=============================================================================
