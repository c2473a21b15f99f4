------------------------- MODULE RepoCommands_proofs -------------------------
(***************************************************************************)
(* Proofs about three of the parts of RepoCommands, for any constants:   *)
(* that the verdict of stdd ci is earned by what the forge showed, that  *)
(* evidence is judged by the pull request's own changes, and that the    *)
(* plugin's build publishes one moment of its sources and loses nothing. *)
(***************************************************************************)
EXTENDS RepoCommands, SequenceTheorems, FiniteSetTheorems, WellFoundedInduction, TLAPS

LEMMA LeastNumber ==
  ASSUME NEW T, T \subseteq Nat, T # {}
  PROVE  \E m \in T : \A n \in T : m <= n
<1> DEFINE R == OpToRel(<, Nat)
<1>1. IsWellFoundedOn(R, Nat)
  BY NatLessThanWellFounded
<1>2. \A x, y \in Nat : <<x, y>> \in R <=> x < y
  BY DEF OpToRel
<1> HIDE DEF R
<1>3. PICK m \in T : \A n \in T : ~ (<<n, m>> \in R)
  BY <1>1, WFMin
<1>4. \A n \in T : n \in Nat /\ m \in Nat /\ ~ (n < m)
  BY <1>2, <1>3
<1> QED BY <1>4

-----------------------------------------------------------------------------
(* THE WATCH (CiWatch).                                                  *)
CheckEntry == [name : Names, startedAt : 1 .. MaxRuns, result : {"pending", "ok", "failed"}]
PollRecord == [head : Nat \ {0}, entries : SUBSET CheckEntry, registered : SUBSET Names]

WatchMemory ==
  [watching : BOOLEAN, last : [head : Nat, names : SUBSET Names], stable : Nat, polls : Nat,
   verdict : {"none", "red", "green", "timeout", "unsettled", "error"}]

(* What the command remembers is what its latest poll saw.               *)
Saw(p) == p \in PollRecord /\ watch.last = [head |-> p.head, names |-> p.registered]

RemembersPoll ==
  \/ polled = <<>> /\ watch.last = None
  \/ \E q \in PollRecord : polled = <<q>> /\ Saw(q)
  \/ \E p \in PollRecord, q \in PollRecord : polled = <<p, q>> /\ Saw(q)

WatchInv ==
  /\ head \in Nat \ {0} /\ rollup \subseteq CheckEntry /\ IsFiniteSet(rollup)
  /\ watch \in WatchMemory /\ RemembersPoll
  /\ VerdictIsEarned

LEMMA WatchInitInv == Init => WatchInv
<1> SUFFICES ASSUME Init PROVE WatchInv
  OBVIOUS
<1>1. watch \in WatchMemory /\ RemembersPoll /\ VerdictIsEarned
  BY DEF Init, WatchMemory, None, RemembersPoll, VerdictIsEarned, GreenNeedsTwoPolls, RedIsCurrent
<1> QED BY <1>1, FS_EmptySet DEF Init, WatchInv

(* Of the runs of a name one is the newest.                              *)
LEMMA OneIsNewest ==
  ASSUME WatchInv, NEW e \in rollup
  PROVE  \E f \in dedupeChecks(rollup) : f.name = e.name
<1> DEFINE runs == RunsOf(e.name)
           ages == {a \in Nat : \E f \in runs : a = MaxRuns - f.startedAt}
<1>1. \A f \in runs : f \in rollup /\ f \in CheckEntry /\ MaxRuns - f.startedAt \in ages
  BY CiAssumption DEF WatchInv, RunsOf, CheckEntry
<1>2. e \in runs
  BY DEF RunsOf
<1>3. ages \subseteq Nat /\ ages # {}
  BY <1>1, <1>2
<1>4. PICK least \in ages : \A a \in ages : least <= a
  BY <1>3, LeastNumber
<1>5. PICK f \in runs : least = MaxRuns - f.startedAt
  OBVIOUS
<1>6. f \in rollup /\ f.name = e.name /\ f.startedAt \in 1 .. MaxRuns
  BY <1>1, <1>5 DEF RunsOf, CheckEntry
<1>7. ASSUME NEW g \in rollup, g.name = f.name PROVE g.startedAt <= f.startedAt
  <2>1. g \in runs /\ g.startedAt \in 1 .. MaxRuns
    BY <1>1, <1>6, <1>7 DEF RunsOf, CheckEntry
  <2>2. MaxRuns - f.startedAt <= MaxRuns - g.startedAt
    BY <1>1, <1>4, <1>5, <2>1
  <2> QED BY <1>6, <2>1, <2>2, CiAssumption
<1> QED BY <1>6, <1>7 DEF dedupeChecks

(* What a poll judges is the newest run of every name.                   *)
LEMMA ChecksAreNewest ==
  ASSUME WatchInv
  PROVE  /\ NamesOf(dedupeChecks(rollup)) = {e.name : e \in rollup}
         /\ \A n \in Names : \A e \in NewestRuns(rollup, n) : e \in dedupeChecks(rollup)
         /\ \A e \in dedupeChecks(rollup) : e \in CheckEntry /\ e \in NewestRuns(rollup, e.name)
<1>1. NamesOf(dedupeChecks(rollup)) = {e.name : e \in rollup}
  BY OneIsNewest DEF NamesOf, dedupeChecks
<1>2. \A e \in rollup : e \in CheckEntry /\ e.name \in Names /\ e.startedAt \in Nat
  BY CiAssumption DEF WatchInv, CheckEntry
<1>3. \A e, f \in rollup : f.startedAt > e.startedAt <=> ~(f.startedAt <= e.startedAt)
  BY <1>2
<1> QED BY <1>1, <1>2, <1>3 DEF NewestRuns, dedupeChecks

LEMMA ForgeKeepsWatch == WatchInv /\ Forge => WatchInv'
<1> SUFFICES ASSUME WatchInv, Forge PROVE WatchInv'
  OBVIOUS
<1>1. UNCHANGED <<watch, polled>>
  BY DEF Forge, Run, Finish, Push
<1>2. watch' \in WatchMemory /\ RemembersPoll' /\ VerdictIsEarned'
  BY <1>1 DEF WatchInv, RemembersPoll, Saw, VerdictIsEarned, GreenNeedsTwoPolls, RedIsCurrent, Last, RegisteredAt
<1>3. ASSUME NEW n \in Names, Run(n)
      PROVE  head' \in Nat \ {0} /\ rollup' \subseteq CheckEntry /\ IsFiniteSet(rollup')
  <2> DEFINE new == [name |-> n, startedAt |-> Cardinality(RunsOf(n)) + 1, result |-> "pending"]
  <2>1. Cardinality(rollup) < MaxRuns /\ rollup' = rollup \union {new} /\ UNCHANGED head
    BY <1>3 DEF Run
  <2>2. /\ Cardinality(rollup) \in Nat
        /\ Cardinality(RunsOf(n)) \in Nat /\ Cardinality(RunsOf(n)) <= Cardinality(rollup)
    <3>1. IsFiniteSet(rollup) /\ RunsOf(n) \in SUBSET rollup
      BY DEF WatchInv, RunsOf
    <3>2. IsFiniteSet(RunsOf(n)) /\ Cardinality(RunsOf(n)) <= Cardinality(rollup)
      BY <3>1, FS_Subset
    <3> QED BY <3>1, <3>2, FS_CardinalityType
  <2>3. new \in CheckEntry
    BY <2>1, <2>2, CiAssumption DEF CheckEntry
  <2>4. IsFiniteSet(rollup')
    BY <2>1, FS_AddElement DEF WatchInv
  <2> QED BY <2>1, <2>3, <2>4 DEF WatchInv
<1>4. ASSUME NEW e \in rollup, NEW result \in {"ok", "failed"}, Finish(e, result)
      PROVE  head' \in Nat \ {0} /\ rollup' \subseteq CheckEntry /\ IsFiniteSet(rollup')
  <2> DEFINE new == [e EXCEPT !.result = result]
  <2>1. rollup' = (rollup \ {e}) \union {new} /\ UNCHANGED head
    BY <1>4 DEF Finish
  <2>2. new \in CheckEntry
    BY DEF WatchInv, CheckEntry
  <2>3. IsFiniteSet(rollup')
    BY <2>1, FS_AddElement, FS_RemoveElement DEF WatchInv
  <2> QED BY <2>1, <2>2, <2>3 DEF WatchInv
<1>5. ASSUME Push PROVE head' \in Nat \ {0} /\ rollup' \subseteq CheckEntry /\ IsFiniteSet(rollup')
  BY <1>5, FS_EmptySet DEF Push, WatchInv
<1> QED BY <1>2, <1>3, <1>4, <1>5 DEF Forge, WatchInv

LEMMA AppendToOne == \A x, y : Append(<<x>>, y) = <<x, y>>
<1> SUFFICES ASSUME NEW x, NEW y PROVE Append(<<x>>, y) = <<x, y>>
  OBVIOUS
<1> DEFINE S == {x, y}
           long == Append(<<x>>, y)
           pair == <<x, y>>
<1>1. <<x>> \in Seq(S) /\ y \in S /\ Len(<<x>>) = 1
  OBVIOUS
<1>2. long \in Seq(S) /\ Len(long) = 2 /\ pair \in Seq(S) /\ Len(pair) = 2
  BY <1>1
<1>3. long[1] = x /\ long[2] = y /\ pair[1] = x /\ pair[2] = y
  BY <1>1
<1> HIDE DEF long, S, pair
<1>4. \A i \in 1 .. Len(long) : long[i] = pair[i]
  BY <1>2, <1>3
<1>5. long = pair
  BY <1>2, <1>4, SeqEqual
<1> QED BY <1>5 DEF long, pair

LEMMA OneAndTwo ==
  \A x, y : /\ Len(<<x>>) = 1 /\ <<x>>[1] = x /\ <<x>> # <<>>
            /\ Len(<<x, y>>) = 2 /\ <<x, y>> # <<>> /\ <<x, y>>[1] = x /\ <<x, y>>[2] = y
  OBVIOUS

(* A poll and what it remembers, whatever it answers.                    *)
LEMMA PollRemembers ==
  ASSUME WatchInv, Poll
  PROVE  \E q \in PollRecord :
           /\ q = [head |-> head, entries |-> rollup, registered |-> {e.name : e \in rollup}]
           /\ watch'.last = [head |-> q.head, names |-> q.registered]
           /\ \/ polled = <<>> /\ polled' = <<q>>
              \/ \E p \in PollRecord :
                   /\ watch.last = [head |-> p.head, names |-> p.registered]
                   /\ polled' = <<p, q>>
<1> DEFINE q == [head |-> head, entries |-> rollup, registered |-> {e.name : e \in rollup}]
<1>1. q \in PollRecord
  BY DEF WatchInv, PollRecord, CheckEntry
<1>2. watch'.last = [head |-> q.head, names |-> q.registered]
  BY ChecksAreNewest DEF Poll, WatchInv, WatchMemory
<1>3. CASE polled = <<>>
  <2>1. polled' = <<q>>
    BY <1>3 DEF Poll, Remember
  <2> QED BY <1>1, <1>2, <1>3, <2>1
<1>4. ASSUME NEW s \in PollRecord, Saw(s), polled # <<>>, polled[Len(polled)] = s
      PROVE  \E p \in PollRecord :
               watch.last = [head |-> p.head, names |-> p.registered] /\ polled' = <<p, q>>
  <2> DEFINE p == [s EXCEPT !.entries = {}]
  <2>1. p \in PollRecord /\ p.head = s.head /\ p.registered = s.registered
    BY DEF PollRecord
  <2>2. polled' = Append(<<p>>, q)
    BY <1>4 DEF Poll, Remember
  <2> HIDE DEF p, q
  <2>3. polled' = <<p, q>>
    BY <2>2, AppendToOne
  <2> QED BY <1>4, <2>1, <2>3 DEF Saw
<1>5. CASE polled # <<>>
  <2>1. PICK s \in PollRecord : Saw(s) /\ polled[Len(polled)] = s
    BY <1>5 DEF WatchInv, RemembersPoll
  <2> QED BY <1>1, <1>2, <1>4, <1>5, <2>1
<1> QED BY <1>3, <1>5

LEMMA PollKeepsWatch == WatchInv /\ Poll => WatchInv'
<1> SUFFICES ASSUME WatchInv, Poll PROVE WatchInv'
  OBVIOUS
<1> DEFINE checks == dedupeChecks(rollup)
<1>1. PICK q \in PollRecord :
        /\ q = [head |-> head, entries |-> rollup, registered |-> {e.name : e \in rollup}]
        /\ watch'.last = [head |-> q.head, names |-> q.registered]
        /\ \/ polled = <<>> /\ polled' = <<q>>
           \/ \E p \in PollRecord :
                /\ watch.last = [head |-> p.head, names |-> p.registered]
                /\ polled' = <<p, q>>
  BY PollRemembers
<1>2. RemembersPoll'
  BY <1>1 DEF RemembersPoll, Saw
<1>3. Stable(checks) \in Nat
  BY DEF Stable, WatchInv, WatchMemory
<1>4. /\ watch' \in WatchMemory /\ watch'.watching = watch.watching
      /\ watch'.verdict = IF watch.watching THEN WatchVerdict(checks) ELSE OneShotVerdict(checks)
  <2> DEFINE last == [head |-> head, names |-> NamesOf(checks)]
             verdict == IF watch.watching THEN WatchVerdict(checks) ELSE OneShotVerdict(checks)
  <2>1. last \in [head : Nat, names : SUBSET Names]
    BY ChecksAreNewest DEF WatchInv, CheckEntry
  <2>2. verdict \in {"none", "red", "green", "timeout", "unsettled", "error"}
    BY DEF WatchVerdict, OneShotVerdict
  <2>3. watch' = [watch EXCEPT !.last = last, !.stable = Stable(checks), !.polls = @ + 1,
                               !.verdict = verdict]
    BY DEF Poll
  <2> HIDE DEF last, verdict
  <2>4. watch \in WatchMemory /\ watch.polls + 1 \in Nat
    BY DEF WatchInv, WatchMemory
  <2>5. watch' = [watching |-> watch.watching, last |-> last, stable |-> Stable(checks),
                  polls |-> watch.polls + 1, verdict |-> verdict]
    BY <2>3, <2>4 DEF WatchMemory
  <2>6. watch.watching \in BOOLEAN
    BY <2>4 DEF WatchMemory
  <2>7. watch' \in WatchMemory /\ watch'.watching = watch.watching /\ watch'.verdict = verdict
    BY <1>3, <2>1, <2>2, <2>4, <2>5, <2>6 DEF WatchMemory
  <2> QED BY <2>7 DEF verdict
<1>5. Last(0)' = q
  <2>1. CASE polled' = <<q>>
    BY <2>1, OneAndTwo DEF Last
  <2>2. ASSUME NEW p \in PollRecord, polled' = <<p, q>> PROVE Last(0)' = q
    BY <2>2, OneAndTwo DEF Last
  <2> QED BY <1>1, <2>1, <2>2
<1>6. ASSUME watch.watching, WatchVerdict(checks) = "green"
      PROVE  GreenNeedsTwoPolls'
  <2>1. (\A c \in checks : ~Failed(c)) /\ Stable(checks) >= 1
    BY <1>6 DEF WatchVerdict
  <2>2. /\ \A c \in checks : Terminal(c)
        /\ checks # {} /\ NamesOf(checks) = Restarted(watch.last).names
    BY <2>1 DEF Stable
  <2>3. NamesOf(checks) # {}
    BY <2>2 DEF NamesOf
  <2>4. watch.last.head = head /\ watch.last.names = q.registered
    BY <1>1, <2>2, <2>3, ChecksAreNewest DEF Restarted
  <2>5. PICK p \in PollRecord :
          watch.last = [head |-> p.head, names |-> p.registered] /\ polled' = <<p, q>>
    <3>1. head \in Nat \ {0} /\ None.head = 0
      BY DEF WatchInv, None
    <3>2. watch.last # None
      BY <2>4, <3>1
    <3>3. \A x, y : <<x>> # <<>> /\ <<x, y>> # <<>>
      BY OneAndTwo
    <3>4. polled # <<>>
      BY <3>2, <3>3, Zenon DEF WatchInv, RemembersPoll
    <3> QED BY <1>1, <3>4
  <2>6. \A n \in q.registered : \A e \in NewestRuns(q.entries, n) : e.result = "ok"
    <3>1. \A e \in checks : e.result = "ok"
      BY <2>1, <2>2, ChecksAreNewest DEF Failed, Terminal, CheckEntry
    <3> QED BY <1>1, <3>1, ChecksAreNewest DEF PollRecord
  <2>7. Len(polled') = 2 /\ polled'[1] = p /\ polled'[2] = q
    BY <2>5, OneAndTwo
  <2>8. Last(0)' = q /\ Last(1)' = p
    BY <2>7 DEF Last
  <2>9. p.head = head /\ q.head = head /\ p.registered = q.registered
    BY <1>1, <2>4, <2>5
  <2>10. q.registered # {}
    BY <1>1, <2>3, ChecksAreNewest
  <2> QED BY <2>6, <2>7, <2>8, <2>9, <2>10 DEF GreenNeedsTwoPolls, RegisteredAt
<1>7. ASSUME NEW c \in checks, Failed(c) PROVE RedIsCurrent'
  <2>1. c \in NewestRuns(rollup, c.name) /\ c.name \in Names /\ c.result = "failed"
    BY <1>7, ChecksAreNewest DEF Failed, CheckEntry
  <2> QED BY <1>1, <1>5, <2>1 DEF RedIsCurrent
<1>8. VerdictIsEarned'
  <2>1. GreenNeedsTwoPolls'
    BY <1>4, <1>6 DEF GreenNeedsTwoPolls
  <2>2. watch'.verdict = "red" => \E c \in checks : Failed(c)
    BY <1>4 DEF WatchVerdict, OneShotVerdict
  <2>3. RedIsCurrent'
    BY <1>7, <2>2 DEF RedIsCurrent
  <2> QED BY <2>1, <2>3 DEF VerdictIsEarned
<1> QED BY <1>2, <1>4, <1>8 DEF WatchInv, Poll

LEMMA PollFailsKeepsWatch == WatchInv /\ PollFails => WatchInv'
<1> SUFFICES ASSUME WatchInv, PollFails PROVE WatchInv'
  OBVIOUS
<1>1. watch' \in WatchMemory /\ watch'.verdict = "error" /\ watch'.last = watch.last
  BY DEF WatchInv, WatchMemory, PollFails
<1> QED BY <1>1 DEF PollFails, WatchInv, RemembersPoll, Saw, VerdictIsEarned, GreenNeedsTwoPolls, RedIsCurrent

LEMMA WatchStepInv == WatchInv /\ [Next]_vars => WatchInv'
<1>1. ASSUME WatchInv, UNCHANGED vars PROVE WatchInv'
  <2>1. UNCHANGED <<head, rollup, watch, polled>>
    BY <1>1 DEF vars
  <2>2. RemembersPoll'
    BY <1>1, <2>1 DEF WatchInv, RemembersPoll, Saw
  <2>3. VerdictIsEarned'
    BY <1>1, <2>1 DEF WatchInv, VerdictIsEarned, GreenNeedsTwoPolls, RedIsCurrent, Last, RegisteredAt
  <2> QED BY <1>1, <2>1, <2>2, <2>3 DEF WatchInv
<1> QED BY <1>1, ForgeKeepsWatch, PollKeepsWatch, PollFailsKeepsWatch DEF Next

(* VerdictIsEarned: however checks register, end, are run again and the  *)
(* head moves between two polls, a green of the watch rests on two polls *)
(* in a row of one head with the same checks, all of whose newest runs   *)
(* passed, and a red on a failure that no newer run supersedes.          *)
THEOREM WatchEarnsItsVerdict == Spec => []VerdictIsEarned
<1>1. WatchInv => VerdictIsEarned
  BY DEF WatchInv
<1> QED BY <1>1, WatchInitInv, WatchStepInv, PTL DEF Spec

-----------------------------------------------------------------------------
(* THE EVIDENCE LINE (PrEvidence).                                       *)
CheckRecord ==
  [pc : {"idle", "fetch", "compare", "pull", "read", "verify", "advise", "done"},
   mode : {"none", "file", "pr"}, body : Seq(WrittenLines), head : Commits, symbolic : BOOLEAN,
   moved : BOOLEAN, verdict : {"none", "ok", "failed", "rejected"},
   remark : {"none", "near miss", "contradicted"}]

ForgeTypes ==
  /\ forge \in [base : Nat, head : Commits, body : Seq(WrittenLines),
                landed : Seq(SUBSET {"guide.md"}), commits : SUBSET Commits]
  /\ forge.base = Len(forge.landed) /\ forge.base >= 1 /\ forge.head \in forge.commits

RepoTypes ==
  /\ repo \in [head : Commits, work : SUBSET Claiming!Docs, origin : Nat, has : SUBSET Commits]
  /\ repo.origin <= forge.base /\ repo.head \in repo.has

ClaimTypes ==
  /\ ForgeTypes /\ RepoTypes
  /\ ledger \in Recordings /\ check \in CheckRecord
  /\ draft \in [claim : WrittenClaims, head : Commits, origin : Nat,
                made : {"none", "diff", "ledger", "nothing"}]

(* A line drafted from a diff names documents of that diff.              *)
DraftedFrom(docs) ==
  /\ draft.claim = Claiming!Claim("updated", FALSE, {Claiming!EvidencePath(d) : d \in docs})
  /\ docs # {} /\ docs \subseteq Claiming!Canonical
  /\ docs \subseteq Claiming!Changed(draft.origin, draft.head)
  /\ draft.origin >= draft.head.fork => docs = draft.head.own \intersect Claiming!Canonical

DraftInv == draft.made = "diff" => \E docs \in SUBSET Claiming!Docs : DraftedFrom(docs)

(* What the line that is read says, and of which commit it is true.      *)
Found(i) == Claiming!FindEvidenceLines(check.body) = {i} /\ ~check.body[i].claim.empty
HasOneLine == \E i \in DOMAIN check.body : Found(i)
IsTrueOfHead ==
  \E i \in DOMAIN check.body : Found(i) /\ Claiming!True(check.body[i].claim, check.head)

(* check-pr on a body of the checkout: the line is the drafted one and   *)
(* origin is where it was.                                               *)
FileInv ==
  /\ check.pc = "idle" <=> check.mode = "none"
  /\ check.mode # "pr" /\ draft.made # "none" => repo.origin = draft.origin
  /\ check.mode = "file" =>
       /\ check.pc \in {"read", "verify", "advise", "done"} /\ draft.made # "none"
       /\ check.body = <<Claiming!Line("claim", draft.claim)>> /\ check.symbolic
  /\ Claiming!DraftPasses

(* check-pr --pr: origin has been fetched, and HEAD is the head it was   *)
(* compared with, unless it has moved since.                             *)
PrInv ==
  /\ check.mode = "pr" /\ check.pc \in {"compare", "pull", "read", "verify"} => repo.origin >= 1
  /\ check.pc = "pull" => ~check.symbolic
  /\ check.pc \in {"read", "verify"} /\ check.symbolic /\ ~check.moved => repo.head = check.head
  /\ check.pc \in {"verify", "advise"} => HasOneLine
  /\ check.verdict # "none" => check.pc = "done"
  /\ check.mode = "pr" /\ check.pc = "advise" /\ ~check.moved => IsTrueOfHead
  /\ Claiming!VerdictIsOfThePr

ClaimInv == ClaimTypes /\ DraftInv /\ FileInv /\ PrInv

(* A drafted name is read back as the document it stands for.            *)
LEMMA DraftReadsBack ==
  ASSUME NEW docs, docs \subseteq Claiming!Canonical
  PROVE  Claiming!ExtractDocPaths(
           Claiming!Claim("updated", FALSE, {Claiming!EvidencePath(d) : d \in docs})) = docs
<1> DEFINE names == {Claiming!EvidencePath(d) : d \in docs}
<1>1. \A d \in docs : Claiming!Reading(Claiming!EvidencePath(d)) = {d}
  BY DEF Claiming!Canonical, Claiming!Reading, Claiming!EvidencePath, Claiming!Name, Claiming!Spaced
<1>2. Claiming!ExtractDocPaths(Claiming!Claim("updated", FALSE, names))
        = UNION {Claiming!Reading(n) : n \in names}
  BY DEF Claiming!ExtractDocPaths, Claiming!Claim
<1>3. UNION {Claiming!Reading(n) : n \in names} = docs
  BY <1>1
<1> QED BY <1>2, <1>3

(* Over an origin that is not behind the fork, a diff is the branch's    *)
(* own.                                                                  *)
LEMMA DiffAtFork ==
  ASSUME ForgeTypes, NEW c \in Commits, NEW n \in Nat, n >= c.fork
  PROVE  Claiming!Changed(n, c) = c.own
<1>1. \A k \in DOMAIN forge.landed : k \in Nat /\ c.fork \in Nat
  BY DEF ForgeTypes, Commits
<1>2. {k \in DOMAIN forge.landed : n < k /\ k <= c.fork} = {}
  BY <1>1
<1> QED BY <1>2 DEF Claiming!Changed

(* What lands later takes nothing from a diff.                           *)
LEMMA DiffGrows ==
  ASSUME ForgeTypes, NEW docs \in SUBSET {"guide.md"}, NEW n, NEW c,
         forge'.landed = Append(forge.landed, docs)
  PROVE  Claiming!Changed(n, c) \subseteq Claiming!Changed(n, c)'
<1>1. /\ DOMAIN forge.landed \subseteq DOMAIN forge'.landed
      /\ \A k \in DOMAIN forge.landed : forge'.landed[k] = forge.landed[k]
  BY DEF ForgeTypes
<1> QED BY <1>1 DEF Claiming!Changed

LEMMA ClaimInitInv == Claiming!Init => ClaimInv
<1> SUFFICES ASSUME Claiming!Init PROVE ClaimInv
  OBVIOUS
<1>1. PICK pool \in Pools, landed \in SUBSET {"guide.md"}, body \in Bodies, origin \in 0..1 :
      \E tip \in {pool.ours, pool.theirs} :
        /\ forge = [base |-> 1, head |-> tip, body |-> body, landed |-> <<landed>>,
                    commits |-> {pool.ours, pool.theirs}]
        /\ repo = [head |-> pool.ours, work |-> pool.ours.tree, origin |-> origin, has |-> {pool.ours}]
        /\ ledger \in IF body = <<>> THEN Decisions ELSE {[decision |-> "none", paths |-> {}]}
        /\ check = Claiming!Idle /\ draft = Claiming!NoDraft
  BY DEF Claiming!Init
<1>2. pool.ours \in Commits /\ pool.theirs \in Commits /\ body \in Seq(WrittenLines)
  BY ClaimingAssumption
<1>3. <<landed>> \in Seq(SUBSET {"guide.md"}) /\ Len(<<landed>>) = 1
  OBVIOUS
<1>4. ForgeTypes
  BY <1>1, <1>2, <1>3 DEF ForgeTypes
<1>5. RepoTypes
  BY <1>1, <1>2 DEF RepoTypes, Commits
<1>6. ledger \in Recordings
  BY <1>1, ClaimingAssumption DEF Recordings
<1>7. Claiming!Idle \in CheckRecord
  <2>1. <<>> \in Seq(WrittenLines) /\ Claiming!Commit(0, {}, Claiming!Docs) \in Commits
    BY DEF Claiming!Commit, Commits
  <2> QED BY <2>1 DEF CheckRecord, Claiming!Idle
<1>8. Claiming!NoDraft \in [claim : WrittenClaims, head : Commits, origin : Nat,
                            made : {"none", "diff", "ledger", "nothing"}]
  <2>1. Claiming!Claim("not-applicable", TRUE, {}) \in WrittenClaims
    BY DEF Claiming!Claim, WrittenClaims, Claiming!Labels
  <2>2. Claiming!Idle.head \in Commits
    BY <1>7 DEF CheckRecord
  <2> QED BY <2>1, <2>2 DEF Claiming!NoDraft
<1>9. ClaimTypes
  BY <1>1, <1>4, <1>5, <1>6, <1>7, <1>8 DEF ClaimTypes
<1>10. /\ check.pc = "idle" /\ check.mode = "none" /\ check.verdict = "none"
       /\ draft.made = "none"
  BY <1>1 DEF Claiming!Idle, Claiming!NoDraft
<1> QED BY <1>9, <1>10 DEF ClaimInv, DraftInv, FileInv, PrInv, Claiming!DraftPasses, Claiming!VerdictIsOfThePr

(* Others: what lands, is pushed, written and checked out.               *)
LEMMA LandKeepsClaim == ClaimInv /\ Claiming!Land => ClaimInv'
<1> SUFFICES ASSUME ClaimInv, Claiming!Land PROVE ClaimInv'
  OBVIOUS
<1>1. PICK docs \in SUBSET {"guide.md"} :
        /\ forge' = [forge EXCEPT !.base = @ + 1, !.landed = Append(@, docs)]
        /\ UNCHANGED <<repo, ledger, check, draft>>
  BY DEF Claiming!Land, Claiming!Move
<1>2. ForgeTypes /\ forge.landed \in Seq(SUBSET {"guide.md"})
  BY DEF ClaimInv, ClaimTypes, ForgeTypes
<1>3. /\ forge'.landed = Append(forge.landed, docs) /\ forge'.base = forge.base + 1
      /\ forge'.head = forge.head /\ forge'.body = forge.body /\ forge'.commits = forge.commits
      /\ forge' \in [base : Nat, head : Commits, body : Seq(WrittenLines),
                     landed : Seq(SUBSET {"guide.md"}), commits : SUBSET Commits]
  <2> DEFINE longer == Append(forge.landed, docs)
  <2>1. longer \in Seq(SUBSET {"guide.md"}) /\ forge.base + 1 \in Nat
    BY <1>2 DEF ForgeTypes
  <2>2. forge' = [forge EXCEPT !.base = @ + 1, !.landed = longer]
    BY <1>1
  <2> HIDE DEF longer
  <2>3. forge' = [base |-> forge.base + 1, head |-> forge.head, body |-> forge.body,
                  landed |-> longer, commits |-> forge.commits]
    BY <1>2, <2>2 DEF ForgeTypes
  <2>4. /\ forge'.landed = longer /\ forge'.base = forge.base + 1
        /\ forge'.head = forge.head /\ forge'.body = forge.body /\ forge'.commits = forge.commits
        /\ forge' \in [base : Nat, head : Commits, body : Seq(WrittenLines),
                       landed : Seq(SUBSET {"guide.md"}), commits : SUBSET Commits]
    BY <1>2, <2>1, <2>3 DEF ForgeTypes
  <2> QED BY <2>4 DEF longer
<1>4. ForgeTypes' /\ RepoTypes'
  BY <1>1, <1>2, <1>3 DEF ForgeTypes, RepoTypes, ClaimInv, ClaimTypes
<1>5. ASSUME NEW written \in SUBSET Claiming!Docs, DraftedFrom(written) PROVE DraftedFrom(written)'
  BY <1>1, <1>2, <1>3, <1>5, DiffGrows DEF DraftedFrom
<1>6. DraftInv'
  BY <1>1, <1>5 DEF ClaimInv, DraftInv
<1>7. FileInv' /\ PrInv'
  BY <1>1 DEF ClaimInv, FileInv, PrInv, HasOneLine, IsTrueOfHead, Found, Claiming!DraftPasses,
     Claiming!VerdictIsOfThePr
<1> QED BY <1>1, <1>4, <1>6, <1>7 DEF ClaimInv, ClaimTypes

(* What neither lands nor is fetched leaves drafts as they are.          *)
LEMMA DraftStays ==
  ASSUME DraftInv, UNCHANGED draft, forge'.landed = forge.landed
  PROVE  DraftInv'
<1>1. \A n, c : Claiming!Changed(n, c)' = Claiming!Changed(n, c)
  BY DEF Claiming!Changed
<1>2. \A docs : DraftedFrom(docs) => DraftedFrom(docs)'
  BY <1>1 DEF DraftedFrom
<1> QED BY <1>2 DEF DraftInv

LEMMA PushKeepsClaim == ClaimInv /\ Claiming!Push => ClaimInv'
<1> SUFFICES ASSUME ClaimInv, Claiming!Push PROVE ClaimInv'
  OBVIOUS
<1>1. PICK c \in forge.commits :
        forge' = [forge EXCEPT !.head = c] /\ UNCHANGED <<repo, ledger, check, draft>>
  BY DEF Claiming!Push, Claiming!Move
<1>2. ForgeTypes' /\ RepoTypes' /\ forge'.landed = forge.landed
  BY <1>1 DEF ForgeTypes, RepoTypes, ClaimInv, ClaimTypes
<1>3. FileInv' /\ PrInv'
  BY <1>1 DEF ClaimInv, FileInv, PrInv, HasOneLine, IsTrueOfHead, Found, Claiming!DraftPasses,
     Claiming!VerdictIsOfThePr
<1> QED BY <1>1, <1>2, <1>3, DraftStays DEF ClaimInv, ClaimTypes

(* A written body is lines.                                              *)
LEMMA BodyKeepsClaim ==
  ASSUME ClaimInv, NEW line \in WrittenLines,
         forge' = [forge EXCEPT !.body = <<line>>], UNCHANGED <<repo, ledger, check, draft>>
  PROVE  ClaimInv'
<1>1. <<line>> \in Seq(WrittenLines)
  OBVIOUS
<1>2. ForgeTypes' /\ RepoTypes' /\ forge'.landed = forge.landed
  BY <1>1 DEF ForgeTypes, RepoTypes, ClaimInv, ClaimTypes
<1>3. FileInv' /\ PrInv'
  BY DEF ClaimInv, FileInv, PrInv, HasOneLine, IsTrueOfHead, Found, Claiming!DraftPasses,
     Claiming!VerdictIsOfThePr
<1> QED BY <1>2, <1>3, DraftStays DEF ClaimInv, ClaimTypes

LEMMA EditBodyKeepsClaim == ClaimInv /\ Claiming!EditBody => ClaimInv'
<1>1. Claiming!Fence \in WrittenLines
  BY DEF Claiming!Fence, Claiming!Line, Claiming!Claim, Claiming!Labels, WrittenLines, WrittenClaims
<1> QED BY <1>1, BodyKeepsClaim DEF Claiming!EditBody, Claiming!Move

LEMMA PublishKeepsClaim == ClaimInv /\ Claiming!Publish => ClaimInv'
<1> SUFFICES ASSUME ClaimInv, Claiming!Publish PROVE ClaimInv'
  OBVIOUS
<1>1. Claiming!Line("claim", draft.claim) \in WrittenLines
  BY DEF ClaimInv, ClaimTypes, Claiming!Line, WrittenLines
<1> QED BY <1>1, BodyKeepsClaim DEF Claiming!Publish

LEMMA CheckoutKeepsClaim == ClaimInv /\ Claiming!Checkout => ClaimInv'
<1> SUFFICES ASSUME ClaimInv, Claiming!Checkout PROVE ClaimInv'
  OBVIOUS
<1> DEFINE moved == check.moved \/ (check.symbolic /\ check.pc \in {"read", "verify"})
<1>1. PICK c \in forge.commits :
        repo' = [repo EXCEPT !.head = c, !.work = c.tree, !.has = @ \union {c}]
  BY DEF Claiming!Checkout
<1>2. /\ check' = [check EXCEPT !.moved = moved] /\ check.pc # "done"
      /\ UNCHANGED <<forge, ledger, draft>>
  BY DEF Claiming!Checkout, Claiming!Move
<1>3. forge.commits \subseteq Commits /\ c \in Commits /\ c.tree \in SUBSET Claiming!Docs
  BY DEF ClaimInv, ClaimTypes, ForgeTypes, Commits
<1>4. /\ repo' \in [head : Commits, work : SUBSET Claiming!Docs, origin : Nat, has : SUBSET Commits]
      /\ repo'.origin = repo.origin /\ repo'.head \in repo'.has
  BY <1>1, <1>3 DEF ClaimInv, ClaimTypes, RepoTypes
<1>5. moved \in BOOLEAN
  BY DEF ClaimInv, ClaimTypes, CheckRecord
<1>6. /\ check' \in CheckRecord /\ check'.moved = moved
      /\ check'.pc = check.pc /\ check'.mode = check.mode /\ check'.body = check.body
      /\ check'.head = check.head /\ check'.symbolic = check.symbolic
      /\ check'.verdict = check.verdict
  <2> HIDE DEF moved
  <2> QED BY <1>2, <1>5 DEF ClaimInv, ClaimTypes, CheckRecord
<1>7. ClaimTypes'
  BY <1>2, <1>4, <1>6 DEF ClaimInv, ClaimTypes, ForgeTypes, RepoTypes
<1>8. DraftInv'
  BY <1>2, DraftStays DEF ClaimInv
<1>9. FileInv'
  BY <1>2, <1>4, <1>6 DEF ClaimInv, FileInv, Claiming!DraftPasses
<1>10. \A i : Found(i)' <=> Found(i)
  BY <1>6 DEF Found, Claiming!FindEvidenceLines, Claiming!LinesOf, Claiming!Fenced
<1>11. PrInv'
  BY <1>2, <1>4, <1>6, <1>10 DEF ClaimInv, PrInv, HasOneLine, IsTrueOfHead, Claiming!VerdictIsOfThePr
<1> QED BY <1>7, <1>8, <1>9, <1>11 DEF ClaimInv

(* stdd evidence.                                                        *)
LEMMA EvidenceKeepsClaim == ClaimInv /\ Claiming!Evidence => ClaimInv'
<1> SUFFICES ASSUME ClaimInv, Claiming!Evidence PROVE ClaimInv'
  OBVIOUS
<1>0. PICK docs : docs = Claiming!Changed(repo.origin, repo.head) \intersect Claiming!Canonical
  OBVIOUS
<1> DEFINE named == {Claiming!EvidencePath(d) : d \in docs}
           listed == {Claiming!Name(d, FALSE) : d \in ledger.paths}
           claim == IF docs # {} THEN Claiming!Claim("updated", FALSE, named)
                    ELSE IF ledger.decision \in {"checked", "not-applicable"}
                    THEN Claiming!Claim(ledger.decision, FALSE, listed)
                    ELSE Claiming!NoDraft.claim
           made == IF docs # {} THEN "diff"
                   ELSE IF ledger.decision \in {"checked", "not-applicable"} THEN "ledger"
                   ELSE "nothing"
<1>1. /\ check.pc = "idle" /\ UNCHANGED <<forge, repo, ledger, check>>
      /\ draft' = [claim |-> claim, head |-> repo.head, origin |-> repo.origin, made |-> made]
  BY <1>0 DEF Claiming!Evidence
<1>2. docs \subseteq Claiming!Docs /\ docs \subseteq Claiming!Canonical /\ ledger \in Recordings
  BY <1>0 DEF ClaimInv, ClaimTypes, Claiming!Canonical, Claiming!Docs
<1>3. claim \in WrittenClaims
  <2>1. named \in SUBSET [doc : Claiming!Docs, quoted : BOOLEAN]
    <3>1. \A d \in docs : Claiming!EvidencePath(d) \in [doc : Claiming!Docs, quoted : BOOLEAN]
      BY <1>2 DEF Claiming!EvidencePath, Claiming!Name
    <3> QED BY <3>1
  <2>2. listed \in SUBSET [doc : Claiming!Docs, quoted : BOOLEAN]
    <3>1. \A d \in ledger.paths : Claiming!Name(d, FALSE) \in [doc : Claiming!Docs, quoted : BOOLEAN]
      BY <1>2 DEF Claiming!Name, Recordings
    <3> QED BY <3>1
  <2>3. Claiming!Claim("updated", FALSE, named) \in WrittenClaims
    BY <2>1 DEF Claiming!Claim, WrittenClaims, Claiming!Labels
  <2>4. ledger.decision \in {"checked", "not-applicable"} =>
          Claiming!Claim(ledger.decision, FALSE, listed) \in WrittenClaims
    BY <2>2 DEF Claiming!Claim, WrittenClaims, Claiming!Labels
  <2>5. Claiming!NoDraft.claim \in WrittenClaims
    BY DEF Claiming!NoDraft, Claiming!Claim, WrittenClaims, Claiming!Labels
  <2> HIDE DEF named, listed
  <2> QED BY <2>3, <2>4, <2>5
<1>4. made \in {"none", "diff", "ledger", "nothing"} /\ (made = "diff" <=> docs # {})
  OBVIOUS
<1>5. made = "diff" => claim = Claiming!Claim("updated", FALSE, named)
  BY <1>4
<1>6. repo.origin \in Nat /\ repo.head \in Commits /\ ForgeTypes
  BY DEF ClaimInv, ClaimTypes, RepoTypes
<1>7. repo.origin >= repo.head.fork => docs = repo.head.own \intersect Claiming!Canonical
  BY <1>0, <1>6, DiffAtFork
<1>8. docs \subseteq Claiming!Changed(draft.origin, draft.head)'
  BY <1>0, <1>1 DEF Claiming!Changed
<1>9. ClaimTypes'
  <2> HIDE DEF claim, made
  <2> QED BY <1>1, <1>3, <1>4, <1>6 DEF ClaimInv, ClaimTypes, ForgeTypes, RepoTypes
<1>10. made = "diff" => DraftedFrom(docs)'
  <2> SUFFICES ASSUME made = "diff" PROVE DraftedFrom(docs)'
    OBVIOUS
  <2>1. docs # {} /\ claim = Claiming!Claim("updated", FALSE, named)
    BY <1>4, <1>5
  <2> HIDE DEF claim, made
  <2>2. draft'.claim = claim /\ draft'.head = repo.head /\ draft'.origin = repo.origin
    BY <1>1
  <2> QED BY <1>2, <1>7, <1>8, <2>1, <2>2 DEF DraftedFrom
<1>11. DraftInv'
  <2> HIDE DEF claim
  <2>1. draft'.made = made
    BY <1>1
  <2> HIDE DEF made
  <2> QED BY <1>2, <1>10, <2>1 DEF DraftInv
<1>12. FileInv'
  <2> HIDE DEF claim, made
  <2> QED BY <1>1 DEF ClaimInv, FileInv, Claiming!DraftPasses
<1>13. PrInv'
  BY <1>1 DEF ClaimInv, PrInv, HasOneLine, IsTrueOfHead, Found, Claiming!VerdictIsOfThePr
<1> QED BY <1>9, <1>11, <1>12, <1>13 DEF ClaimInv

(* The steps of check-pr leave the forge, the ledger and the draft alone *)
(* and end as End says.                                                  *)
LEMMA EndsCheck ==
  ASSUME check \in CheckRecord, NEW verdict \in {"ok", "failed", "rejected"},
         NEW remark \in {"none", "near miss", "contradicted"}, Claiming!End(verdict, remark)
  PROVE  /\ check' \in CheckRecord /\ check'.pc = "done" /\ check'.verdict = verdict
         /\ check'.mode = check.mode /\ check'.body = check.body /\ check'.head = check.head
         /\ check'.symbolic = check.symbolic /\ check'.moved = check.moved
  BY DEF Claiming!End, CheckRecord

LEMMA GoesOn ==
  ASSUME check \in CheckRecord,
         NEW step \in {"fetch", "compare", "pull", "read", "verify", "advise", "done"},
         check' = [check EXCEPT !.pc = step]
  PROVE  /\ check' \in CheckRecord /\ check'.pc = step /\ check'.verdict = check.verdict
         /\ check'.mode = check.mode /\ check'.body = check.body /\ check'.head = check.head
         /\ check'.symbolic = check.symbolic /\ check'.moved = check.moved
  BY DEF CheckRecord

LEMMA SameLine ==
  ASSUME check'.body = check.body, check'.head = check.head
  PROVE  /\ \A i : Found(i)' <=> Found(i)
         /\ HasOneLine' <=> HasOneLine
         /\ IsTrueOfHead' <=> IsTrueOfHead
<1>1. \A i : Found(i)' <=> Found(i)
  BY DEF Found, Claiming!FindEvidenceLines, Claiming!LinesOf, Claiming!Fenced
<1> QED BY <1>1 DEF HasOneLine, IsTrueOfHead

(* A verdict of the pull request is that its one line is true.           *)
LEMMA VerdictOfThePr ==
  Claiming!VerdictIsOfThePr <=>
    (check.mode = "pr" /\ check.verdict \in {"ok", "rejected"} /\ ~check.moved =>
       (check.verdict = "ok" <=> IsTrueOfHead))
  BY DEF Claiming!VerdictIsOfThePr, IsTrueOfHead, Found

LEMMA CheckFileKeepsClaim == ClaimInv /\ Claiming!CheckFile => ClaimInv'
<1> SUFFICES ASSUME ClaimInv, Claiming!CheckFile PROVE ClaimInv'
  OBVIOUS
<1> DEFINE body == <<Claiming!Line("claim", draft.claim)>>
<1>1. /\ check.pc = "idle" /\ draft.made # "none" /\ UNCHANGED <<forge, repo, ledger, draft>>
      /\ check' = [Claiming!Idle EXCEPT !.pc = "read", !.mode = "file", !.head = repo.head,
                                        !.body = body]
  BY DEF Claiming!CheckFile, Claiming!Stay
<1>2. Claiming!Line("claim", draft.claim) \in WrittenLines
  BY DEF ClaimInv, ClaimTypes, Claiming!Line, WrittenLines
<1>3. body \in Seq(WrittenLines) /\ repo.head \in Commits
  BY <1>2 DEF ClaimInv, ClaimTypes, RepoTypes
<1>4. /\ check' \in CheckRecord /\ check'.pc = "read" /\ check'.mode = "file"
      /\ check'.head = repo.head /\ check'.body = body /\ check'.symbolic /\ ~check'.moved
      /\ check'.verdict = "none"
  <2> HIDE DEF body
  <2> QED BY <1>1, <1>3 DEF Claiming!Idle, CheckRecord
<1>5. ClaimTypes'
  BY <1>1, <1>4 DEF ClaimInv, ClaimTypes, ForgeTypes, RepoTypes
<1>6. DraftInv'
  BY <1>1, DraftStays DEF ClaimInv
<1>7. FileInv' /\ PrInv'
  BY <1>1, <1>4 DEF ClaimInv, FileInv, PrInv, Claiming!DraftPasses, Claiming!VerdictIsOfThePr
<1> QED BY <1>5, <1>6, <1>7 DEF ClaimInv

LEMMA ViewPrKeepsClaim == ClaimInv /\ Claiming!ViewPr => ClaimInv'
<1> SUFFICES ASSUME ClaimInv, Claiming!ViewPr PROVE ClaimInv'
  OBVIOUS
<1>1. /\ check.pc = "idle" /\ UNCHANGED <<forge, repo, ledger, draft>>
      /\ check' = [Claiming!Idle EXCEPT !.pc = "fetch", !.mode = "pr", !.body = forge.body,
                                        !.head = forge.head]
  BY DEF Claiming!ViewPr, Claiming!Stay
<1>2. forge.body \in Seq(WrittenLines) /\ forge.head \in Commits
  BY DEF ClaimInv, ClaimTypes, ForgeTypes
<1>3. /\ check' \in CheckRecord /\ check'.pc = "fetch" /\ check'.mode = "pr" /\ ~check'.moved
      /\ check'.verdict = "none"
  BY <1>1, <1>2 DEF Claiming!Idle, CheckRecord
<1>4. ClaimTypes'
  BY <1>1, <1>3 DEF ClaimInv, ClaimTypes, ForgeTypes, RepoTypes
<1>5. DraftInv'
  BY <1>1, DraftStays DEF ClaimInv
<1>6. FileInv' /\ PrInv'
  BY <1>1, <1>3 DEF ClaimInv, FileInv, PrInv, Claiming!DraftPasses, Claiming!VerdictIsOfThePr
<1> QED BY <1>4, <1>5, <1>6 DEF ClaimInv

LEMMA FetchBaseKeepsClaim == ClaimInv /\ Claiming!FetchBase => ClaimInv'
<1> SUFFICES ASSUME ClaimInv, Claiming!FetchBase PROVE ClaimInv'
  OBVIOUS
<1>1. /\ check.pc = "fetch" /\ UNCHANGED <<forge, ledger, draft>>
      /\ repo' = [repo EXCEPT !.origin = forge.base] /\ check' = [check EXCEPT !.pc = "compare"]
  BY DEF Claiming!FetchBase, Claiming!Stay
<1>2. /\ repo'.origin = forge.base /\ forge.base >= 1 /\ forge.base \in Nat
      /\ repo'.head = repo.head /\ repo' \in [head : Commits, work : SUBSET Claiming!Docs, origin : Nat, has : SUBSET Commits]
      /\ repo'.has = repo.has
  BY <1>1 DEF ClaimInv, ClaimTypes, RepoTypes, ForgeTypes
<1>3. /\ check' \in CheckRecord /\ check'.pc = "compare" /\ check'.verdict = check.verdict
      /\ check'.mode = check.mode /\ check'.moved = check.moved
  BY <1>1, GoesOn DEF ClaimInv, ClaimTypes
<1>4. ClaimTypes'
  <2>1. forge'.base = forge.base /\ repo'.origin <= forge'.base /\ repo.head \in repo.has
    BY <1>1, <1>2 DEF ClaimInv, ClaimTypes, RepoTypes
  <2>2. RepoTypes'
    BY <1>2, <2>1 DEF RepoTypes
  <2> QED BY <1>1, <1>3, <2>2 DEF ClaimInv, ClaimTypes, ForgeTypes
<1>5. DraftInv'
  BY <1>1, DraftStays DEF ClaimInv
<1>6. check.mode = "pr" /\ check.verdict = "none"
  BY <1>1 DEF ClaimInv, ClaimTypes, CheckRecord, FileInv, PrInv
<1>7. FileInv' /\ PrInv'
  BY <1>1, <1>2, <1>3, <1>6 DEF FileInv, PrInv, Claiming!DraftPasses, Claiming!VerdictIsOfThePr
<1> QED BY <1>4, <1>5, <1>7 DEF ClaimInv

LEMMA CompareHeadKeepsClaim == ClaimInv /\ Claiming!CompareHead => ClaimInv'
<1> SUFFICES ASSUME ClaimInv, Claiming!CompareHead PROVE ClaimInv'
  OBVIOUS
<1> DEFINE same == repo.head = check.head
           next == IF check.head \in repo.has THEN "read" ELSE "pull"
<1>1. /\ check.pc = "compare" /\ UNCHANGED <<forge, repo, ledger, draft>>
      /\ check' = [check EXCEPT !.symbolic = same, !.pc = next]
  BY DEF Claiming!CompareHead, Claiming!Stay
<1>2. same \in BOOLEAN /\ next \in {"read", "pull"} /\ (next = "pull" => ~same)
  BY DEF ClaimInv, ClaimTypes, RepoTypes
<1>3. /\ check' \in CheckRecord /\ check'.pc = next /\ check'.symbolic = same
      /\ check'.mode = check.mode /\ check'.moved = check.moved /\ check'.head = check.head
      /\ check'.verdict = check.verdict
  <2> HIDE DEF same, next
  <2> QED BY <1>1, <1>2 DEF ClaimInv, ClaimTypes, CheckRecord
<1>4. ClaimTypes'
  BY <1>1, <1>3 DEF ClaimInv, ClaimTypes, ForgeTypes, RepoTypes
<1>5. DraftInv'
  BY <1>1, DraftStays DEF ClaimInv
<1>6. check.mode = "pr" /\ check.verdict = "none" /\ repo.origin >= 1
  BY <1>1 DEF ClaimInv, ClaimTypes, CheckRecord, FileInv, PrInv
<1>7. FileInv' /\ PrInv'
  BY <1>1, <1>2, <1>3, <1>6 DEF FileInv, PrInv, Claiming!DraftPasses, Claiming!VerdictIsOfThePr
<1> QED BY <1>4, <1>5, <1>7 DEF ClaimInv

(* What fails before the body is read is no verdict of the pull request. *)
LEMMA FailedKeepsClaim ==
  ASSUME ClaimInv, check.pc \in {"fetch", "compare", "pull"}, Claiming!End("failed", "none"),
         UNCHANGED <<forge, ledger, draft>>, RepoTypes'
  PROVE  ClaimInv'
<1>1. /\ check' \in CheckRecord /\ check'.pc = "done" /\ check'.verdict = "failed"
      /\ check'.mode = check.mode
  BY EndsCheck DEF ClaimInv, ClaimTypes
<1>2. check.mode = "pr"
  BY DEF ClaimInv, ClaimTypes, CheckRecord, FileInv
<1>3. DraftInv'
  BY DraftStays DEF ClaimInv
<1>4. FileInv' /\ PrInv'
  BY <1>1, <1>2 DEF FileInv, PrInv, Claiming!DraftPasses, Claiming!VerdictIsOfThePr
<1> QED BY <1>1, <1>3, <1>4 DEF ClaimInv, ClaimTypes, ForgeTypes

LEMMA PullHeadKeepsClaim == ClaimInv /\ Claiming!PullHead => ClaimInv'
<1> SUFFICES ASSUME ClaimInv, Claiming!PullHead PROVE ClaimInv'
  OBVIOUS
<1>1. PICK history \in BOOLEAN :
       LET got == repo.has \union {forge.head} \union IF history THEN {check.head} ELSE {}
       IN  /\ repo' = [repo EXCEPT !.has = got]
           /\ IF check.head \in got THEN check' = [check EXCEPT !.pc = "read"]
              ELSE Claiming!End("failed", "none")
  BY DEF Claiming!PullHead
<1>2. check.pc = "pull" /\ UNCHANGED <<forge, ledger, draft>>
  BY DEF Claiming!PullHead, Claiming!Stay
<1>3. forge.head \in Commits /\ check.head \in Commits
  BY DEF ClaimInv, ClaimTypes, ForgeTypes, CheckRecord
<1>4. /\ repo' \in [head : Commits, work : SUBSET Claiming!Docs, origin : Nat, has : SUBSET Commits]
      /\ repo'.origin = repo.origin /\ repo'.head = repo.head /\ repo.has \subseteq repo'.has
  BY <1>1, <1>3 DEF ClaimInv, ClaimTypes, RepoTypes
<1>5. RepoTypes'
  BY <1>2, <1>4 DEF ClaimInv, ClaimTypes, RepoTypes
<1>6. CASE Claiming!End("failed", "none")
  BY <1>2, <1>5, <1>6, FailedKeepsClaim
<1>7. CASE check' = [check EXCEPT !.pc = "read"]
  <2>1. /\ check' \in CheckRecord /\ check'.pc = "read" /\ check'.verdict = check.verdict
        /\ check'.mode = check.mode /\ check'.symbolic = check.symbolic
    BY <1>7, GoesOn DEF ClaimInv, ClaimTypes
  <2>2. check.mode = "pr" /\ check.verdict = "none" /\ repo.origin >= 1 /\ ~check.symbolic
    BY <1>2 DEF ClaimInv, ClaimTypes, CheckRecord, FileInv, PrInv
  <2>3. DraftInv'
    BY <1>2, DraftStays DEF ClaimInv
  <2>4. FileInv' /\ PrInv'
    BY <1>4, <2>1, <2>2 DEF FileInv, PrInv, Claiming!DraftPasses, Claiming!VerdictIsOfThePr
  <2> QED BY <1>2, <1>5, <2>1, <2>3, <2>4 DEF ClaimInv, ClaimTypes, ForgeTypes
<1> QED BY <1>1, <1>6, <1>7

LEMMA FaultKeepsClaim == ClaimInv /\ Claiming!Fault => ClaimInv'
<1> SUFFICES ASSUME ClaimInv, Claiming!Fault PROVE ClaimInv'
  OBVIOUS
<1>1. RepoTypes'
  BY DEF Claiming!Fault, ClaimInv, ClaimTypes, RepoTypes
<1> QED BY <1>1, FailedKeepsClaim DEF Claiming!Fault

LEMMA SameCardinality == \A S : Claiming!Cardinality(S) = Cardinality(S)
  BY DEF Claiming!Cardinality, Cardinality

(* A body has finitely many lines; a body that is one drafted line has   *)
(* that line.                                                            *)
LEMMA LinesAreFinite ==
  ASSUME check \in CheckRecord
  PROVE  /\ IsFiniteSet(Claiming!FindEvidenceLines(check.body))
         /\ Claiming!FindEvidenceLines(check.body) \subseteq DOMAIN check.body
<1>1. Len(check.body) \in Nat /\ DOMAIN check.body = 1 .. Len(check.body)
  <2>1. check.body \in Seq(WrittenLines)
    BY DEF CheckRecord
  <2> QED BY <2>1
<1>2. IsFiniteSet(DOMAIN check.body)
  BY <1>1, FS_Interval
<1>3. Claiming!FindEvidenceLines(check.body) \subseteq DOMAIN check.body
  BY DEF Claiming!FindEvidenceLines, Claiming!LinesOf
<1> QED BY <1>2, <1>3, FS_Subset

LEMMA DraftedBodyHasItsLine ==
  ASSUME NEW claim, ~claim.empty, check.body = <<Claiming!Line("claim", claim)>>
  PROVE  Found(1) /\ 1 \in DOMAIN check.body /\ check.body[1].claim = claim
<1>1. DOMAIN check.body = {1} /\ check.body[1] = Claiming!Line("claim", claim)
  OBVIOUS
<1>2. check.body[1].kind = "claim" /\ check.body[1].claim = claim
  BY <1>1 DEF Claiming!Line
<1>3. ~Claiming!Fenced(check.body, 1)
  <2>1. {j \in 1 .. (1 - 1) : check.body[j].kind = "fence"} = {}
    OBVIOUS
  <2>2. Claiming!Cardinality({}) = 0
    BY SameCardinality, FS_EmptySet
  <2>3. Claiming!Fenced(check.body, 1) <=> 0 % 2 = 1
    BY <2>1, <2>2 DEF Claiming!Fenced
  <2> QED BY <2>3
<1>4. Claiming!FindEvidenceLines(check.body) = {1}
  BY <1>1, <1>2, <1>3 DEF Claiming!FindEvidenceLines, Claiming!LinesOf
<1> QED BY <1>1, <1>2, <1>4 DEF Found

LEMMA ReadBodyKeepsClaim == ClaimInv /\ Claiming!ReadBody => ClaimInv'
<1> SUFFICES ASSUME ClaimInv, Claiming!ReadBody PROVE ClaimInv'
  OBVIOUS
<1> DEFINE found == Claiming!FindEvidenceLines(check.body)
           bad == Cardinality(found) # 1 \/ \E i \in found : check.body[i].claim.empty
           remark == IF found = {} /\ Claiming!NearMissEvidenceLines(check.body) # {}
                     THEN "near miss" ELSE "none"
<1>1. /\ check.pc = "read" /\ UNCHANGED <<forge, repo, ledger, draft>>
      /\ IF bad THEN Claiming!End("rejected", remark) ELSE check' = [check EXCEPT !.pc = "verify"]
  <2>1. Claiming!Cardinality(found) = Cardinality(found)
    BY SameCardinality
  <2>2. check.pc = "read" /\ UNCHANGED <<forge, repo, ledger, draft>>
    BY DEF Claiming!ReadBody, Claiming!Stay
  <2>3. IF Claiming!Cardinality(found) # 1 \/ \E i \in found : check.body[i].claim.empty
        THEN Claiming!End("rejected", remark) ELSE check' = [check EXCEPT !.pc = "verify"]
    BY DEF Claiming!ReadBody
  <2> QED BY <2>1, <2>2, <2>3
<1>2. check \in CheckRecord /\ check.verdict = "none" /\ check.mode \in {"file", "pr"}
  BY <1>1 DEF ClaimInv, ClaimTypes, CheckRecord, FileInv, PrInv
<1>3. DraftInv'
  BY <1>1, DraftStays DEF ClaimInv
<1>4. \A i \in DOMAIN check.body : Found(i) => ~bad
  BY FS_Singleton DEF Found
<1>5. ~bad => HasOneLine
  <2>1. ASSUME ~bad PROVE HasOneLine
    <3>1. PICK i : found = {i}
      BY <1>2, <2>1, LinesAreFinite, FS_Singleton
    <3> QED BY <1>2, <2>1, <3>1, LinesAreFinite DEF HasOneLine, Found
  <2> QED BY <2>1
<1>6. CASE ~bad
  <2>1. /\ check' \in CheckRecord /\ check'.pc = "verify" /\ check'.verdict = check.verdict
        /\ check'.mode = check.mode /\ check'.symbolic = check.symbolic
        /\ check'.body = check.body /\ check'.head = check.head /\ check'.moved = check.moved
    BY <1>1, <1>2, <1>6, GoesOn
  <2>2. HasOneLine'
    BY <1>5, <1>6, <2>1, SameLine
  <2>3. FileInv' /\ PrInv'
    BY <1>1, <1>2, <2>1, <2>2 DEF ClaimInv, FileInv, PrInv, Claiming!DraftPasses, Claiming!VerdictIsOfThePr
  <2> QED BY <1>1, <1>3, <2>1, <2>3 DEF ClaimInv, ClaimTypes, ForgeTypes, RepoTypes
<1>7. CASE bad
  <2>1. remark \in {"none", "near miss", "contradicted"}
    OBVIOUS
  <2>2. /\ check' \in CheckRecord /\ check'.pc = "done" /\ check'.verdict = "rejected"
        /\ check'.mode = check.mode /\ check'.body = check.body /\ check'.head = check.head
        /\ check'.symbolic = check.symbolic
    <3> HIDE DEF remark
    <3> QED BY <1>1, <1>2, <1>7, <2>1, EndsCheck
  <2>3. ~HasOneLine /\ ~IsTrueOfHead
    BY <1>4, <1>7 DEF HasOneLine, IsTrueOfHead
  <2>4. ~(check.mode = "file" /\ draft.made = "diff")
    <3> SUFFICES ASSUME check.mode = "file", draft.made = "diff" PROVE FALSE
      OBVIOUS
    <3>1. ~draft.claim.empty /\ check.body = <<Claiming!Line("claim", draft.claim)>>
      <4>1. PICK docs \in SUBSET Claiming!Docs : DraftedFrom(docs)
        BY DEF ClaimInv, DraftInv
      <4>2. ~draft.claim.empty
        BY <4>1 DEF DraftedFrom, Claiming!Claim
      <4> QED BY <4>2 DEF ClaimInv, FileInv
    <3> QED BY <2>3, <3>1, DraftedBodyHasItsLine DEF HasOneLine
  <2>5. ~IsTrueOfHead'
    BY <2>2, <2>3, SameLine
  <2>6. Claiming!VerdictIsOfThePr'
    BY <2>2, <2>5 DEF Claiming!VerdictIsOfThePr, IsTrueOfHead, Found
  <2>7. FileInv' /\ PrInv'
    BY <1>1, <1>2, <2>2, <2>4, <2>6 DEF ClaimInv, FileInv, PrInv, Claiming!DraftPasses
  <2> QED BY <1>1, <1>3, <2>2, <2>7 DEF ClaimInv, ClaimTypes, ForgeTypes, RepoTypes
<1> QED BY <1>6, <1>7

(* The claim check-pr has read is that of the one line.                  *)
LEMMA TheClaimIsTheLine ==
  ASSUME NEW i, Found(i)
  PROVE  Claiming!TheClaim = check.body[i].claim
  BY DEF Found, Claiming!TheClaim

LEMMA VerifyKeepsClaim == ClaimInv /\ Claiming!VerifyEvidence => ClaimInv'
<1> SUFFICES ASSUME ClaimInv, Claiming!VerifyEvidence PROVE ClaimInv'
  OBVIOUS
<1>1. /\ check.pc = "verify" /\ UNCHANGED <<forge, repo, ledger, draft>>
      /\ IF Claiming!Backed(Claiming!TheClaim) THEN check' = [check EXCEPT !.pc = "advise"]
         ELSE Claiming!End("rejected", "none")
  BY DEF Claiming!VerifyEvidence, Claiming!Stay
<1>2. check \in CheckRecord /\ check.verdict = "none" /\ check.mode \in {"file", "pr"} /\ HasOneLine
  BY <1>1 DEF ClaimInv, ClaimTypes, CheckRecord, FileInv, PrInv
<1>3. PICK i \in DOMAIN check.body : Found(i)
  BY <1>2 DEF HasOneLine
<1> DEFINE claim == check.body[i].claim
<1>4. Claiming!TheClaim = claim
  BY <1>3, TheClaimIsTheLine
<1>5. DraftInv'
  BY <1>1, DraftStays DEF ClaimInv
(* The diff of a fetched base is the head's own.                         *)
<1>6. ASSUME check.mode = "pr", ~check.moved
      PROVE  Claiming!Backed(claim) <=> Claiming!True(claim, check.head)
  <2>1. Claiming!HeadRef = check.head /\ check.head \in Commits
    BY <1>1, <1>2, <1>6 DEF ClaimInv, PrInv, Claiming!HeadRef, CheckRecord
  <2>2. repo.origin \in Nat /\ repo.origin >= check.head.fork
    BY <1>1, <1>6, <2>1 DEF ClaimInv, ClaimTypes, RepoTypes, PrInv, Commits
  <2>3. Claiming!Changed(repo.origin, Claiming!HeadRef) = check.head.own
    BY <2>1, <2>2, DiffAtFork DEF ClaimInv, ClaimTypes
  <2>4. ~claim.empty
    BY <1>3 DEF Found
  <2> QED BY <1>6, <2>1, <2>3, <2>4 DEF Claiming!Backed, Claiming!True
<1>7. check.mode = "pr" /\ ~check.moved => (Claiming!Backed(Claiming!TheClaim) <=> IsTrueOfHead)
  <2>1. \A j \in DOMAIN check.body : Found(j) => j = i
    BY <1>3 DEF Found
  <2> QED BY <1>3, <1>4, <1>6, <2>1 DEF IsTrueOfHead
(* A drafted line names what the diff still holds.                       *)
<1>8. ASSUME check.mode = "file", draft.made = "diff", check.head = draft.head, ~check.moved
      PROVE  Claiming!Backed(Claiming!TheClaim)
  <2>1. PICK docs \in SUBSET Claiming!Docs : DraftedFrom(docs)
    BY <1>8 DEF ClaimInv, DraftInv
  <2>2. check.body = <<Claiming!Line("claim", draft.claim)>> /\ check.symbolic /\ repo.origin = draft.origin
    BY <1>8 DEF ClaimInv, FileInv
  <2>3. ~draft.claim.empty /\ draft.claim.label = "updated"
    BY <2>1 DEF DraftedFrom, Claiming!Claim
  <2>4. Claiming!TheClaim = draft.claim
    BY <2>2, <2>3, DraftedBodyHasItsLine, TheClaimIsTheLine
  <2>5. Claiming!HeadRef = draft.head
    BY <1>1, <1>8, <2>2 DEF ClaimInv, PrInv, Claiming!HeadRef
  <2>6. Claiming!ExtractDocPaths(draft.claim) = docs
    BY <2>1, DraftReadsBack DEF DraftedFrom
  <2>7. docs # {} /\ docs \subseteq Claiming!Changed(repo.origin, Claiming!HeadRef)
    BY <2>1, <2>2, <2>5 DEF DraftedFrom
  <2> QED BY <2>3, <2>4, <2>6, <2>7 DEF Claiming!Backed
<1>9. CASE Claiming!Backed(Claiming!TheClaim)
  <2>1. /\ check' \in CheckRecord /\ check'.pc = "advise" /\ check'.verdict = check.verdict
        /\ check'.mode = check.mode /\ check'.symbolic = check.symbolic
        /\ check'.body = check.body /\ check'.head = check.head /\ check'.moved = check.moved
    BY <1>1, <1>2, <1>9, GoesOn
  <2>2. HasOneLine' /\ (check.mode = "pr" /\ ~check.moved => IsTrueOfHead')
    BY <1>2, <1>7, <1>9, <2>1, SameLine
  <2>3. FileInv' /\ PrInv'
    BY <1>1, <1>2, <2>1, <2>2 DEF ClaimInv, FileInv, PrInv, Claiming!DraftPasses, Claiming!VerdictIsOfThePr
  <2> QED BY <1>1, <1>5, <2>1, <2>3 DEF ClaimInv, ClaimTypes, ForgeTypes, RepoTypes
<1>10. CASE ~Claiming!Backed(Claiming!TheClaim)
  <2>1. /\ check' \in CheckRecord /\ check'.pc = "done" /\ check'.verdict = "rejected"
        /\ check'.mode = check.mode /\ check'.body = check.body /\ check'.head = check.head
        /\ check'.symbolic = check.symbolic /\ check'.moved = check.moved
    BY <1>1, <1>2, <1>10, EndsCheck
  <2>2. check.mode = "pr" /\ ~check.moved => ~IsTrueOfHead'
    BY <1>7, <1>10, <2>1, SameLine
  <2>3. Claiming!VerdictIsOfThePr'
    BY <2>1, <2>2 DEF Claiming!VerdictIsOfThePr, IsTrueOfHead, Found
  <2>4. FileInv' /\ PrInv'
    BY <1>1, <1>2, <1>8, <1>10, <2>1, <2>3 DEF ClaimInv, FileInv, PrInv, Claiming!DraftPasses
  <2> QED BY <1>1, <1>5, <2>1, <2>4 DEF ClaimInv, ClaimTypes, ForgeTypes, RepoTypes
<1> QED BY <1>9, <1>10

LEMMA AdviseKeepsClaim == ClaimInv /\ Claiming!Advise => ClaimInv'
<1> SUFFICES ASSUME ClaimInv, Claiming!Advise PROVE ClaimInv'
  OBVIOUS
<1>1. PICK remark \in {"none", "contradicted"} : Claiming!End("ok", remark)
  BY DEF Claiming!Advise
<1>2. check.pc = "advise" /\ UNCHANGED <<forge, repo, ledger, draft>>
  BY DEF Claiming!Advise, Claiming!Stay
<1>3. /\ check' \in CheckRecord /\ check'.pc = "done" /\ check'.verdict = "ok"
      /\ check'.mode = check.mode /\ check'.body = check.body /\ check'.head = check.head
      /\ check'.symbolic = check.symbolic /\ check'.moved = check.moved
  BY <1>1, EndsCheck DEF ClaimInv, ClaimTypes
<1>4. check.mode = "pr" /\ ~check.moved => IsTrueOfHead'
  BY <1>2, <1>3, SameLine DEF ClaimInv, PrInv
<1>5. Claiming!VerdictIsOfThePr'
  BY <1>3, <1>4 DEF Claiming!VerdictIsOfThePr, IsTrueOfHead, Found
<1>6. DraftInv'
  BY <1>2, DraftStays DEF ClaimInv
<1>7. FileInv' /\ PrInv'
  BY <1>2, <1>3, <1>5 DEF ClaimInv, FileInv, PrInv, Claiming!DraftPasses
<1> QED BY <1>2, <1>3, <1>6, <1>7 DEF ClaimInv, ClaimTypes, ForgeTypes, RepoTypes

LEMMA ClaimStutter == ClaimInv /\ UNCHANGED claiming => ClaimInv'
<1> SUFFICES ASSUME ClaimInv, UNCHANGED claiming PROVE ClaimInv'
  OBVIOUS
<1>1. UNCHANGED <<forge, repo, ledger, check, draft>>
  BY DEF claiming
<1>2. DraftInv'
  BY <1>1, DraftStays DEF ClaimInv
<1>3. FileInv' /\ PrInv'
  BY <1>1 DEF ClaimInv, FileInv, PrInv, HasOneLine, IsTrueOfHead, Found, Claiming!DraftPasses,
     Claiming!VerdictIsOfThePr
<1> QED BY <1>1, <1>2, <1>3 DEF ClaimInv, ClaimTypes, ForgeTypes, RepoTypes

LEMMA ClaimStep == ClaimInv /\ [Claiming!Next]_claiming => ClaimInv'
  BY ClaimStutter, LandKeepsClaim, PushKeepsClaim, EditBodyKeepsClaim, PublishKeepsClaim,
     CheckoutKeepsClaim, EvidenceKeepsClaim, CheckFileKeepsClaim, ViewPrKeepsClaim,
     FetchBaseKeepsClaim, CompareHeadKeepsClaim, PullHeadKeepsClaim, ReadBodyKeepsClaim,
     VerifyKeepsClaim, AdviseKeepsClaim, FaultKeepsClaim
  DEF Claiming!Next

(* What the invariant says of verdicts and drafts.                       *)
LEMMA ClaimInvMeans == ClaimInv => Claiming!EvidenceHolds
<1> SUFFICES ASSUME ClaimInv PROVE Claiming!EvidenceHolds
  OBVIOUS
<1>1. Claiming!TypeOK
  <2>1. forge.base = Len(forge.landed) /\ forge.head \in forge.commits
    BY DEF ClaimInv, ClaimTypes, ForgeTypes
  <2>2. repo.origin \in 0 .. forge.base /\ repo.head \in repo.has
    <3>1. repo.origin \in Nat /\ forge.base \in Nat /\ repo.origin <= forge.base
      BY DEF ClaimInv, ClaimTypes, ForgeTypes, RepoTypes
    <3> QED BY <3>1 DEF ClaimInv, ClaimTypes, RepoTypes
  <2>3. check \in CheckRecord
    BY DEF ClaimInv, ClaimTypes
  <2> QED BY <2>1, <2>2, <2>3 DEF CheckRecord, Claiming!TypeOK
<1>2. Claiming!DraftIsTrue
  <2> SUFFICES ASSUME draft.made = "diff", draft.origin >= draft.head.fork
               PROVE  /\ Claiming!True(draft.claim, draft.head)
                      /\ Claiming!ExtractDocPaths(draft.claim)
                           = draft.head.own \intersect Claiming!Canonical
    BY DEF Claiming!DraftIsTrue
  <2>1. PICK docs \in SUBSET Claiming!Docs : DraftedFrom(docs)
    BY DEF ClaimInv, DraftInv
  <2>2. Claiming!ExtractDocPaths(draft.claim) = docs /\ draft.claim.label = "updated" /\ docs # {}
    BY <2>1, DraftReadsBack DEF DraftedFrom, Claiming!Claim
  <2> QED BY <2>1, <2>2 DEF DraftedFrom, Claiming!True
<1> QED BY <1>1, <1>2 DEF ClaimInv, FileInv, PrInv, Claiming!EvidenceHolds

(* PrEvidence by itself: whatever lands, is pushed, edited or checked    *)
(* out while check-pr asks, fetches and compares, its verdict is of the  *)
(* pull request it was shown, and a drafted line is true and passes.     *)
THEOREM EvidenceAlwaysHolds == Claiming!Spec => []Claiming!EvidenceHolds
<1>1. Claiming!Init => ClaimInv
  BY ClaimInitInv
<1>2. ClaimInv /\ [Claiming!Next]_Claiming!vars => ClaimInv'
  BY ClaimStep DEF Claiming!vars, claiming
<1>3. ClaimInv => Claiming!EvidenceHolds
  BY ClaimInvMeans
<1> QED BY <1>1, <1>2, <1>3, PTL DEF Claiming!Spec

-----------------------------------------------------------------------------
(* THE BUILD (PluginBuild).                                              *)
(* A list that is worked off from its head, nothing in it twice.         *)
Ran(q) == {q[i] : i \in DOMAIN q}
Queue(S, q) == q \in Seq(S) /\ \A i, j \in DOMAIN q : q[i] = q[j] => i = j

LEMMA QueueHead ==
  ASSUME NEW S, NEW q, Queue(S, q), q # <<>>
  PROVE  /\ Head(q) \in S /\ Head(q) \in Ran(q) /\ Len(q) \in Nat \ {0}
         /\ Queue(S, Tail(q)) /\ Ran(q) = {Head(q)} \union Ran(Tail(q))
         /\ Head(q) \notin Ran(Tail(q)) /\ Len(Tail(q)) = Len(q) - 1
         /\ Len(q) > 1 => Tail(q) # <<>>
         /\ Len(q) <= 1 => Ran(Tail(q)) = {}
<1> DEFINE r == Tail(q)
<1>1. q \in Seq(S) /\ DOMAIN q = 1 .. Len(q) /\ Len(q) \in Nat \ {0}
  BY DEF Queue
<1>2. Head(q) = q[1] /\ q[1] \in S /\ 1 \in DOMAIN q
  BY <1>1
<1>3. r \in Seq(S) /\ Len(r) = Len(q) - 1 /\ DOMAIN r = 1 .. Len(r)
  BY <1>1
<1>4. \A i \in DOMAIN r : r[i] = q[i + 1] /\ i + 1 \in DOMAIN q
  BY <1>1, <1>3
<1> HIDE DEF r
<1>5. Queue(S, r)
  <2> SUFFICES ASSUME NEW i \in DOMAIN r, NEW j \in DOMAIN r, r[i] = r[j] PROVE i = j
    BY <1>3 DEF Queue
  <2>1. q[i + 1] = q[j + 1] /\ i + 1 \in DOMAIN q /\ j + 1 \in DOMAIN q
    BY <1>4
  <2>2. i + 1 = j + 1
    BY <2>1 DEF Queue
  <2> QED BY <1>3, <2>2
<1>6. Ran(q) = {Head(q)} \union Ran(r)
  <2>1. \A i \in DOMAIN q : i = 1 \/ (i - 1 \in DOMAIN r /\ r[i - 1] = q[i])
    <3> TAKE i \in DOMAIN q
    <3>1. i \in 1 .. Len(q)
      BY <1>1
    <3>2. CASE i # 1
      <4>1. i - 1 \in DOMAIN r /\ (i - 1) + 1 = i
        BY <1>1, <1>3, <3>1, <3>2
      <4> QED BY <1>4, <4>1
    <3> QED BY <3>2
  <2>2. Ran(q) \subseteq {Head(q)} \union Ran(r)
    BY <1>2, <2>1 DEF Ran
  <2>3. Ran(r) \subseteq Ran(q) /\ Head(q) \in Ran(q)
    BY <1>2, <1>4 DEF Ran
  <2> QED BY <2>2, <2>3
<1>7. Head(q) \notin Ran(r)
  <2> SUFFICES ASSUME NEW i \in DOMAIN r, r[i] = Head(q) PROVE FALSE
    BY DEF Ran
  <2>1. q[i + 1] = q[1] /\ i + 1 \in DOMAIN q /\ 1 \in DOMAIN q
    BY <1>2, <1>4
  <2>2. i + 1 = 1
    BY <2>1 DEF Queue
  <2> QED BY <1>3, <2>2
<1>8. Len(q) <= 1 => Ran(r) = {}
  <2>1. Len(q) <= 1 => DOMAIN r = {}
    BY <1>1, <1>3
  <2> QED BY <2>1 DEF Ran
<1>9. Len(q) > 1 => r # <<>>
  <2>1. Len(q) > 1 => Len(r) > 0
    BY <1>1, <1>3
  <2>2. Len(<<>>) = 0
    OBVIOUS
  <2> QED BY <2>1, <2>2
<1> QED BY <1>1, <1>2, <1>3, <1>5, <1>6, <1>7, <1>8, <1>9 DEF r

LEMMA InAnyOrder ==
  ASSUME NEW S, IsFiniteSet(S)
  PROVE  Queue(S, Plugin!SetToSeq(S)) /\ Ran(Plugin!SetToSeq(S)) = S
<1> DEFINE size == Cardinality(S)
           q == Plugin!SetToSeq(S)
<1>1. size \in Nat /\ ExistsBijection(1 .. size, S)
  BY FS_CardinalityType
<1>2. PICK f \in [1 .. size -> S] : Plugin!IsInjective(f)
  <2>1. PICK f \in Bijection(1 .. size, S) : TRUE
    BY <1>1 DEF ExistsBijection
  <2> QED BY <2>1 DEF Bijection, Injection, Surjection, IsInjective, Plugin!IsInjective
<1>3. Plugin!Cardinality(S) = size
  BY DEF Plugin!Cardinality, Cardinality
<1>4. q \in [1 .. size -> S] /\ Plugin!IsInjective(q)
  BY <1>2, <1>3 DEF Plugin!SetToSeq
<1> HIDE DEF q
<1>5. q \in Injection(1 .. size, S)
  BY <1>4 DEF Injection, IsInjective, Plugin!IsInjective
<1>6. IsFiniteSet(1 .. size) /\ Cardinality(1 .. size) = size
  BY <1>1, FS_Interval
<1>7. q \in Surjection(1 .. size, S)
  BY <1>5, <1>6, FS_Injection
<1>8. \A e \in S : \E i \in 1 .. size : q[i] = e
  BY <1>7 DEF Surjection
<1>9. Queue(S, q)
  BY <1>1, <1>4 DEF Queue, Plugin!IsInjective
<1>10. Ran(q) = S
  BY <1>4, <1>8 DEF Ran
<1> QED BY <1>9, <1>10 DEF q

SourceNames == {"package", "helper", "playbook", "code", "module"}
OutputNames == {"playbook", "manifests", "code", "module", "helper", "package"}
(* What was on the list of names; only a module can be missing there.    *)
Listed(s) == s # "module" \/ build.listed
BundleFile == [bytes : Nat, by : Nat, foreign : BOOLEAN]

Retiring == {"retire", "move", "postflight", "undo", "back"}
Publishing == {"stage", "target", "rename", "verify"}
Stages == {"idle", "done", "failed", "killed", "session", "names", "preflight", "read", "again",
           "plan", "recheck", "attached"} \union Retiring \union Publishing

(* Before "recheck" ends nothing is known of what is to be published.    *)
Rechecked == {"attached", "done"} \union Retiring \union Publishing

BuildRecord ==
  [at : Stages, number : Nat, todo : Seq(SourceNames \union OutputNames \union Skills), boot : Nat,
   held : Nat, listed : BOOLEAN, read : [SourceNames -> Nat], stale : [Skills -> Nat],
   existing : [OutputNames -> BundleFile], calm : BOOLEAN]

OutsideTypes ==
  /\ source \in [SourceNames -> Nat] /\ fresh \in Nat \ {0} /\ acts \in 0 .. MaxActs
  /\ \A s \in SourceNames : source[s] < fresh /\ (s # "module" => source[s] # 0)

RegistryTypes ==
  skills \in [Skills -> Nat] /\ \A n \in Skills : skills[n] < fresh

BundleTypes ==
  /\ output \in [OutputNames -> BundleFile] /\ litter \subseteq Plugin!Runtime
  /\ \A o \in OutputNames : output[o].by <= build.number

BuildTypes ==
  /\ build \in BuildRecord /\ build.number <= MaxBuilds
  /\ \A s \in SourceNames : build.read[s] < fresh
  /\ \A n \in Skills : build.stale[n] < fresh

(* The list of each stage; the package comes last.                       *)
PackageLast(q) == \A i \in DOMAIN q : q[i] = "package" => i = Len(q)

TodoInv ==
  /\ build.at \in {"read", "again", "recheck"} =>
       /\ Queue(SourceNames, build.todo) /\ build.todo # <<>>
       /\ \A s \in Ran(build.todo) : Listed(s)
  /\ build.at = "plan" => build.todo = Plugin!Sources(build.listed)
  /\ build.at = "attached" => /\ Queue(Skills, build.todo)
                              /\ Ran(build.todo) = {n \in Skills : build.stale[n] # 0}
  /\ build.at \in Retiring => Queue(Skills, build.todo) /\ build.todo # <<>>
  /\ build.at \in Publishing =>
       Queue(OutputNames, build.todo) /\ build.todo # <<>> /\ PackageLast(build.todo)

(* The moment of the sources is the one at which those listed had all    *)
(* been read: what is found again later was there then, for no writing   *)
(* returns.  A source that was not listed was not there at that time.    *)
Unlisted == {"idle", "failed", "killed", "session", "names"}

MomentInv ==
  /\ Plugin!Running => source \in moments
  /\ build.at \notin Unlisted /\ ~build.listed => \E m \in moments : m["module"] = 0
  /\ build.at = "recheck" =>
       \E m \in moments : \A s \in SourceNames :
         Listed(s) /\ (s \notin Ran(build.todo) \/ Plugin!Still(s)) => m[s] = build.read[s]
  /\ build.at \in Rechecked =>
       \E m \in moments : \A s \in SourceNames : Listed(s) => m[s] = build.read[s]

(* What has been published is this build's.                              *)
Ours(f, o) == f.foreign \/ f.by = build.number \/ (o = "module" /\ f.bytes = 0)

PackageIsLast ==
  \A o \in OutputNames :
    \/ output[o].foreign \/ output["package"].foreign \/ output[o].by >= output["package"].by
    \/ o = "module" /\ output[o].bytes = 0

BundleInv ==
  /\ build.at \in {"read", "again", "plan", "recheck", "attached"} \union Retiring /\ ~build.listed =>
       Ours(output["module"], "module")
  /\ build.at \in Publishing => \A o \in OutputNames \ Ran(build.todo) : Ours(output[o], o)
  /\ build.at = "verify" => Ours(output[Head(build.todo)], Head(build.todo))
  /\ PackageIsLast

(* A stale skill is still there only while it is on the list.            *)
SkillInv ==
  /\ 0 \notin kept
  /\ \A t \in kept : t \in quarantine \/ \E n \in Skills : skills[n] = t
  /\ build.at \in Retiring =>
       \A n \in Skills : build.stale[n] # 0 /\ skills[n] = build.stale[n] => n \in Ran(build.todo)
  /\ build.at \in Publishing \union {"done"} =>
       \A n \in Skills : build.stale[n] # 0 => skills[n] # build.stale[n]

(* Beside nobody, everything is still as it was found.                   *)
CalmReading ==
  /\ build.at \in {"session", "names", "preflight", "read", "again"} => build.boot = source["package"]
  /\ build.at \in {"names", "preflight", "read", "again", "plan", "recheck", "attached"} =>
       build.held = source["helper"]
  /\ build.at \in {"preflight", "read", "again", "plan", "recheck"} =>
       \A s \in SourceNames : Listed(s) <=> source[s] # 0
  /\ build.at \in {"read", "again"} =>
       \A s \in SourceNames \ Ran(build.todo) : Listed(s) => build.read[s] = source[s]
  /\ build.at = "again" => build.read[Head(build.todo)] = source[Head(build.todo)]
  /\ build.at \in {"plan", "recheck"} =>
       \A s \in SourceNames : Listed(s) => build.read[s] = source[s]

CalmRetiring ==
  /\ build.at \in {"recheck", "attached"} \union Retiring => build.existing = output
  /\ build.at \in {"recheck", "attached"} => build.stale = skills
  /\ build.at \in {"retire", "move"} =>
       \A n \in Ran(build.todo) : skills[n] = build.stale[n] /\ skills[n] # 0
  /\ build.at = "postflight" =>
       /\ skills[Head(build.todo)] = 0 /\ build.stale[Head(build.todo)] \in quarantine
       /\ \A n \in Ran(Tail(build.todo)) : skills[n] = build.stale[n] /\ skills[n] # 0
  /\ build.at \notin {"undo", "back"}

CalmPublishing ==
  /\ build.at \in {"stage", "target", "rename"} =>
       \A o \in Ran(build.todo) : output[o] = build.existing[o]
  /\ build.at = "verify" => \A o \in Ran(Tail(build.todo)) : output[o] = build.existing[o]

CalmInv ==
  build.calm => /\ CalmReading /\ CalmRetiring /\ CalmPublishing
                /\ build.at = "failed" => Plugin!InTheWay

BuildInv ==
  /\ OutsideTypes /\ RegistryTypes /\ BundleTypes /\ BuildTypes
  /\ TodoInv /\ MomentInv /\ BundleInv /\ SkillInv /\ CalmInv

LEMMA NamesOfTheBuild ==
  ASSUME NEW listed \in BOOLEAN
  PROVE  /\ Plugin!SourceNames = SourceNames /\ Plugin!OutputNames = OutputNames
         /\ Queue(SourceNames, Plugin!Sources(listed)) /\ Plugin!Sources(listed) # <<>>
         /\ Ran(Plugin!Sources(listed)) = {s \in SourceNames : s # "module" \/ listed}
         /\ Plugin!ToSet(Plugin!Sources(listed)) = {s \in SourceNames : s # "module" \/ listed}
         /\ Queue(OutputNames, Plugin!Outputs(listed)) /\ Plugin!Outputs(listed) # <<>>
         /\ Ran(Plugin!Outputs(listed)) = {o \in OutputNames : o # "module" \/ listed}
         /\ PackageLast(Plugin!Outputs(listed))
<1> DEFINE few == <<"package", "helper", "playbook", "code">>
           all == <<"package", "helper", "playbook", "code", "module">>
           some == <<"playbook", "manifests", "code", "helper", "package">>
           most == <<"playbook", "manifests", "code", "module", "helper", "package">>
<1>1. /\ DOMAIN few = {1, 2, 3, 4} /\ Len(few) = 4 /\ few \in Seq(SourceNames)
      /\ few[1] = "package" /\ few[2] = "helper" /\ few[3] = "playbook" /\ few[4] = "code"
  BY DEF SourceNames
<1>2. /\ DOMAIN all = {1, 2, 3, 4, 5} /\ Len(all) = 5 /\ all \in Seq(SourceNames)
      /\ all[1] = "package" /\ all[2] = "helper" /\ all[3] = "playbook" /\ all[4] = "code"
      /\ all[5] = "module"
  BY DEF SourceNames
<1>3. /\ DOMAIN some = {1, 2, 3, 4, 5} /\ Len(some) = 5 /\ some \in Seq(OutputNames)
      /\ some[1] = "playbook" /\ some[2] = "manifests" /\ some[3] = "code" /\ some[4] = "helper"
      /\ some[5] = "package"
  BY DEF OutputNames
<1>4. /\ DOMAIN most = {1, 2, 3, 4, 5, 6} /\ Len(most) = 6 /\ most \in Seq(OutputNames)
      /\ most[1] = "playbook" /\ most[2] = "manifests" /\ most[3] = "code" /\ most[4] = "module"
      /\ most[5] = "helper" /\ most[6] = "package"
  BY DEF OutputNames
<1>5. Plugin!Sources(FALSE) = few /\ Plugin!Sources(TRUE) = all
  BY DEF Plugin!Sources
<1>6. Plugin!Outputs(FALSE) = some /\ Plugin!Outputs(TRUE) = most
  BY DEF Plugin!Outputs
<1> HIDE DEF few, all, some, most
<1>7. Len(<<>>) = 0
  OBVIOUS
<1>8. /\ Queue(SourceNames, few) /\ few # <<>>
      /\ Ran(few) = {s \in SourceNames : s # "module" \/ FALSE}
  <2>1. \A i, j \in {1, 2, 3, 4} : few[i] = few[j] => i = j
    BY <1>1
  <2>2. \A i, j \in DOMAIN few : few[i] = few[j] => i = j
    BY <1>1, <2>1, Zenon
  <2> QED BY <1>1, <1>7, <2>2 DEF Queue, Ran, SourceNames
<1>9. /\ Queue(SourceNames, all) /\ all # <<>>
      /\ Ran(all) = {s \in SourceNames : s # "module" \/ TRUE} /\ Ran(all) = SourceNames
  <2>1. \A i, j \in {1, 2, 3, 4, 5} : all[i] = all[j] => i = j
    BY <1>2
  <2>2. \A i, j \in DOMAIN all : all[i] = all[j] => i = j
    BY <1>2, <2>1, Zenon
  <2>3. Ran(all) = {all[i] : i \in {1, 2, 3, 4, 5}}
    BY <1>2 DEF Ran
  <2>4. Ran(all) = SourceNames
    BY <1>2, <2>3 DEF SourceNames
  <2> QED BY <1>2, <1>7, <2>2, <2>4 DEF Queue
<1>10. /\ Queue(OutputNames, some) /\ some # <<>> /\ PackageLast(some)
       /\ Ran(some) = {o \in OutputNames : o # "module" \/ FALSE}
  <2>1. \A i, j \in {1, 2, 3, 4, 5} : some[i] = some[j] => i = j
    BY <1>3
  <2>2. \A i, j \in DOMAIN some : some[i] = some[j] => i = j
    BY <1>3, <2>1, Zenon
  <2>3. \A i \in {1, 2, 3, 4, 5} : some[i] = "package" => i = 5
    BY <1>3
  <2> QED BY <1>3, <1>7, <2>2, <2>3 DEF Queue, Ran, OutputNames, PackageLast
<1>11. /\ Queue(OutputNames, most) /\ most # <<>> /\ PackageLast(most)
       /\ Ran(most) = {o \in OutputNames : o # "module" \/ TRUE} /\ Ran(most) = OutputNames
  <2>1. \A i, j \in {1, 2, 3, 4, 5, 6} : most[i] = most[j] => i = j
    BY <1>4
  <2>2. \A i, j \in DOMAIN most : most[i] = most[j] => i = j
    BY <1>4, <2>1, Zenon
  <2>3. \A i \in {1, 2, 3, 4, 5, 6} : most[i] = "package" => i = 6
    BY <1>4
  <2> QED BY <1>4, <1>7, <2>2, <2>3 DEF Queue, Ran, OutputNames, PackageLast
<1>12. \A q : Plugin!ToSet(q) = Ran(q)
  BY DEF Plugin!ToSet, Ran
<1>13. Plugin!SourceNames = SourceNames /\ Plugin!OutputNames = OutputNames
  BY <1>5, <1>6, <1>9, <1>11, <1>12 DEF Plugin!SourceNames, Plugin!OutputNames
<1>14. CASE listed
  BY <1>5, <1>6, <1>9, <1>11, <1>12, <1>13, <1>14
<1>15. CASE ~listed
  BY <1>5, <1>6, <1>8, <1>10, <1>12, <1>13, <1>15
<1> QED BY <1>14, <1>15

(* What is not in the way of PackageLast: the tail, and a head.          *)
LEMMA PackageStaysLast ==
  ASSUME NEW S, NEW q, Queue(S, q), q # <<>>, PackageLast(q)
  PROVE  /\ PackageLast(Tail(q))
         /\ Head(q) = "package" => Ran(q) = {"package"}
<1> DEFINE r == Tail(q)
<1>1. q \in Seq(S) /\ DOMAIN q = 1 .. Len(q) /\ Len(q) \in Nat \ {0} /\ Head(q) = q[1]
  BY DEF Queue
<1>2. r \in Seq(S) /\ Len(r) = Len(q) - 1 /\ DOMAIN r = 1 .. Len(r)
  BY <1>1
<1>3. \A i \in DOMAIN r : r[i] = q[i + 1] /\ i + 1 \in DOMAIN q
  BY <1>1, <1>2
<1> HIDE DEF r
<1>4. PackageLast(r)
  BY <1>1, <1>2, <1>3 DEF PackageLast
<1>5. Head(q) = "package" => Len(q) = 1
  BY <1>1 DEF PackageLast
<1>6. Len(q) = 1 => Ran(q) = {Head(q)}
  BY <1>1 DEF Ran
<1> QED BY <1>4, <1>5, <1>6 DEF r

(* The fields of a build that most steps leave alone.                    *)
SameBuild(b, c) ==
  /\ c.number = b.number /\ c.boot = b.boot /\ c.held = b.held /\ c.listed = b.listed
  /\ c.read = b.read
  /\ c.stale = b.stale /\ c.existing = b.existing

LEMMA ToStage ==
  ASSUME NEW b \in BuildRecord, NEW step \in Stages, NEW c, c = [b EXCEPT !.at = step]
  PROVE  c \in BuildRecord /\ SameBuild(b, c) /\ c.at = step /\ c.todo = b.todo /\ c.calm = b.calm
  BY DEF BuildRecord, SameBuild

With(b, step, q) == [b EXCEPT !.at = step, !.todo = q]

LEMMA ToStageWith ==
  ASSUME NEW b \in BuildRecord, NEW step \in Stages,
         NEW q \in Seq(SourceNames \union OutputNames \union Skills)
  PROVE  /\ With(b, step, q) \in BuildRecord /\ SameBuild(b, With(b, step, q))
         /\ With(b, step, q).at = step /\ With(b, step, q).todo = q /\ With(b, step, q).calm = b.calm
  BY DEF BuildRecord, SameBuild, With

Halted(b, step) == [b EXCEPT !.at = step, !.calm = FALSE]

LEMMA ToEnd ==
  ASSUME NEW b \in BuildRecord, NEW step \in Stages
  PROVE  /\ Halted(b, step) \in BuildRecord /\ SameBuild(b, Halted(b, step))
         /\ Halted(b, step).at = step /\ Halted(b, step).todo = b.todo /\ ~Halted(b, step).calm
  BY DEF BuildRecord, SameBuild, Halted

LEMMA ToUneasy ==
  ASSUME NEW b \in BuildRecord, NEW c, c = [b EXCEPT !.calm = FALSE]
  PROVE  c \in BuildRecord /\ SameBuild(b, c) /\ c.at = b.at /\ c.todo = b.todo /\ ~c.calm
  BY DEF BuildRecord, SameBuild

LEMMA QueueIsTodo ==
  ASSUME NEW q
  PROVE  /\ Queue(SourceNames, q) => q \in Seq(SourceNames \union OutputNames \union Skills)
         /\ Queue(OutputNames, q) => q \in Seq(SourceNames \union OutputNames \union Skills)
         /\ Queue(Skills, q) => q \in Seq(SourceNames \union OutputNames \union Skills)
<1> DEFINE all == SourceNames \union OutputNames \union Skills
<1>1. \A S : S \subseteq all /\ q \in Seq(S) => q \in Seq(all)
  OBVIOUS
<1> QED BY <1>1 DEF Queue

LEMMA BuildInitInv == Plugin!Init => BuildInv
<1> SUFFICES ASSUME Plugin!Init PROVE BuildInv
  OBVIOUS
<1>0. Plugin!SourceNames = SourceNames /\ Plugin!OutputNames = OutputNames
  BY NamesOfTheBuild
<1>1. /\ source \in [SourceNames -> 0 .. 1] /\ \A s \in SourceNames : s # "module" => source[s] = 1
      /\ output \in {[o \in OutputNames |-> Plugin!NoFile],
                     [o \in OutputNames |-> [Plugin!NoFile EXCEPT !.bytes = 1]]}
      /\ litter = {} /\ skills \in [Skills -> {0, 1}] /\ quarantine = {}
      /\ build = Plugin!Idle /\ fresh = 2 /\ acts = MaxActs
      /\ kept = {t \in Plugin!Range(skills) : t # 0}
  BY <1>0 DEF Plugin!Init
<1>2. OutsideTypes
  BY <1>1, BuildingAssumption DEF OutsideTypes
<1>3. RegistryTypes
  BY <1>1 DEF RegistryTypes
<1>4. /\ build.at = "idle" /\ build.number = 0 /\ build.calm
      /\ ~build.listed /\ build.read = [s \in SourceNames |-> 0] /\ build.stale = [n \in Skills |-> 0]
  BY <1>1, NamesOfTheBuild DEF Plugin!Idle
<1>5. \A o \in OutputNames : output[o] \in BundleFile /\ output[o].by = 0
  <2>1. Plugin!NoFile \in BundleFile /\ Plugin!NoFile.by = 0
    BY DEF Plugin!NoFile, BundleFile
  <2>2. \A f \in BundleFile :
          [f EXCEPT !.bytes = 1] \in BundleFile /\ [f EXCEPT !.bytes = 1].by = f.by
    BY DEF BundleFile
  <2>3. PICK f : /\ f = Plugin!NoFile \/ f = [Plugin!NoFile EXCEPT !.bytes = 1]
                 /\ output = [o \in OutputNames |-> f]
    BY <1>1
  <2>4. f \in BundleFile /\ f.by = 0
    BY <2>1, <2>2, <2>3
  <2> QED BY <2>3, <2>4
<1>6. BundleTypes
  <2>1. output \in [OutputNames -> BundleFile]
    BY <1>1, <1>5
  <2> QED BY <1>1, <1>4, <1>5, <2>1 DEF BundleTypes
<1>7. BuildTypes
  <2>1. [s \in SourceNames |-> 0] \in [SourceNames -> Nat]
    OBVIOUS
  <2>2. [o \in OutputNames |-> Plugin!NoFile] \in [OutputNames -> BundleFile]
    BY DEF Plugin!NoFile, BundleFile
  <2>3. <<>> \in Seq(SourceNames \union OutputNames \union Skills) 
    OBVIOUS
  <2>4. build = [at |-> "idle", number |-> 0, todo |-> <<>>, boot |-> 0, held |-> 0,
                 listed |-> FALSE,
                 read |-> [s \in SourceNames |-> 0], stale |-> [n \in Skills |-> 0],
                 existing |-> [o \in OutputNames |-> Plugin!NoFile], calm |-> TRUE]
    BY <1>1, NamesOfTheBuild DEF Plugin!Idle
  <2>5. build \in BuildRecord
    BY <2>1, <2>2, <2>3, <2>4 DEF BuildRecord, Stages
  <2> QED BY <1>1, <1>4, <2>1, <2>5, BuildingAssumption DEF BuildTypes
<1>8. TodoInv /\ MomentInv /\ CalmInv
  BY <1>4 DEF TodoInv, MomentInv, Unlisted, CalmInv, CalmReading, CalmRetiring, CalmPublishing, Retiring,
     Publishing, Rechecked, Plugin!Running, Plugin!Ended
<1>9. BundleInv
  BY <1>4, <1>5 DEF BundleInv, PackageIsLast, Retiring, Publishing, OutputNames, BundleFile
<1>10. SkillInv
  BY <1>1, <1>4 DEF SkillInv, Retiring, Publishing, Plugin!Range
<1> QED BY <1>2, <1>3, <1>6, <1>7, <1>8, <1>9, <1>10 DEF BuildInv

(* A build that has stopped: whatever it left behind, as long as it is   *)
(* this build's and no tree is gone.                                     *)
LEMMA StoppedKeepsBuild ==
  ASSUME BuildInv, OutsideTypes', RegistryTypes', BundleTypes',
         build' \in BuildRecord, SameBuild(build, build'), build'.at \in {"failed", "killed"},
         fresh' = fresh, kept' = kept,
         build'.calm /\ build'.at = "failed" => Plugin!InTheWay',
         PackageIsLast',
         \A t \in kept : t \in quarantine' \/ \E n \in Skills : skills'[n] = t
  PROVE  BuildInv'
<1>1. BuildTypes'
  BY DEF BuildInv, BuildTypes, SameBuild
<1>2. TodoInv' /\ MomentInv' /\ CalmInv'
  BY DEF TodoInv, MomentInv, Unlisted, CalmInv, CalmReading, CalmRetiring, CalmPublishing, Retiring,
     Publishing, Rechecked, Plugin!Running, Plugin!Ended
<1>3. BundleInv' /\ SkillInv'
  BY DEF BuildInv, BundleInv, SkillInv, Retiring, Publishing
<1> QED BY <1>1, <1>2, <1>3 DEF BuildInv

(* Nothing but the build itself changes.                                 *)
Rest == <<source, output, litter, skills, quarantine, fresh, acts, moments, kept>>

LEMMA RestStays ==
  ASSUME BuildInv, UNCHANGED Rest, build'.number = build.number
  PROVE  OutsideTypes' /\ RegistryTypes' /\ BundleTypes'
  BY DEF BuildInv, Rest, OutsideTypes, RegistryTypes, BundleTypes

LEMMA FailsKeepsBuild ==
  ASSUME BuildInv, UNCHANGED Rest, build' = [build EXCEPT !.at = "failed"],
         build.calm => Plugin!InTheWay
  PROVE  BuildInv'
<1>1. /\ build' \in BuildRecord /\ SameBuild(build, build') /\ build'.at = "failed"
      /\ build'.calm = build.calm
  BY ToStage DEF BuildInv, BuildTypes, Stages
<1>2. OutsideTypes' /\ RegistryTypes' /\ BundleTypes'
  BY <1>1, RestStays DEF SameBuild
<1>3. UNCHANGED <<output, litter, skills, quarantine, fresh, kept, source>>
  BY DEF Rest
<1>4. build'.calm => Plugin!InTheWay'
  BY <1>1, <1>3 DEF Plugin!InTheWay, Plugin!Orphan
<1> QED BY <1>1, <1>2, <1>3, <1>4, StoppedKeepsBuild DEF BuildInv, BundleInv, PackageIsLast, SkillInv

(* From the beginning to the list of sources.                            *)
LEMMA BeginKeepsBuild == BuildInv /\ Plugin!Begin => BuildInv'
<1> SUFFICES ASSUME BuildInv, Plugin!Begin PROVE BuildInv'
  OBVIOUS
<1> DEFINE boot == source["package"]
<1>1. /\ build.number < MaxBuilds /\ moments' = {source}
      /\ build' = [Plugin!Idle EXCEPT !.at = "session", !.number = build.number + 1, !.boot = boot]
      /\ UNCHANGED <<source, output, litter, skills, quarantine, fresh, acts, kept>>
  BY DEF Plugin!Begin, Plugin!Bundle, Plugin!Registry
<1>2. boot \in Nat /\ build.number \in Nat /\ build.number + 1 \in Nat /\ build.number + 1 <= MaxBuilds
  <2>1. source["package"] \in Nat
    BY DEF BuildInv, OutsideTypes, SourceNames
  <2>2. build.number \in Nat
    BY DEF BuildInv, BuildTypes, BuildRecord
  <2> QED BY <1>1, <2>1, <2>2, BuildingAssumption DEF Nat
<1> HIDE DEF boot
<1>3. build' = [at |-> "session", number |-> build.number + 1, todo |-> <<>>, boot |-> boot,
                held |-> 0, listed |-> FALSE, read |-> [s \in SourceNames |-> 0],
                stale |-> [n \in Skills |-> 0],
                existing |-> [o \in OutputNames |-> Plugin!NoFile], calm |-> TRUE]
  BY <1>1, NamesOfTheBuild DEF Plugin!Idle
<1>4. build' \in BuildRecord
  <2>1. /\ [s \in SourceNames |-> 0] \in [SourceNames -> Nat]
        /\ [o \in OutputNames |-> Plugin!NoFile] \in [OutputNames -> BundleFile]
    BY DEF Plugin!NoFile, BundleFile
  <2>2. <<>> \in Seq(SourceNames \union OutputNames \union Skills)
    OBVIOUS
  <2> QED BY <1>2, <1>3, <2>1, <2>2 DEF BuildRecord, Stages
<1>5. BuildTypes'
  <2>1. /\ build'.number = build.number + 1
        /\ build'.read = [s \in SourceNames |-> 0] /\ build'.stale = [n \in Skills |-> 0]
    BY <1>3
  <2>2. fresh' \in Nat \ {0}
    BY <1>1 DEF BuildInv, OutsideTypes
  <2>3. /\ \A s \in SourceNames : build'.read[s] < fresh'
        /\ \A n \in Skills : build'.stale[n] < fresh'
    BY <2>1, <2>2
  <2> QED BY <1>2, <1>4, <2>1, <2>3 DEF BuildTypes
<1>6. OutsideTypes' /\ RegistryTypes'
  BY <1>1 DEF BuildInv, OutsideTypes, RegistryTypes
<1>7. BundleTypes'
  <2>1. \A o \in OutputNames : output[o].by \in Nat /\ output[o].by <= build.number
    BY DEF BuildInv, BundleTypes, BundleFile
  <2>2. build'.number = build.number + 1
    BY <1>3
  <2>3. \A o \in OutputNames : output[o].by <= build'.number
    BY <1>2, <2>1, <2>2
  <2> QED BY <1>1, <2>3 DEF BuildInv, BundleTypes
<1>8. build'.at = "session" /\ build'.boot = boot /\ build'.calm
  BY <1>3
<1>9. TodoInv' /\ MomentInv'
  BY <1>1, <1>8 DEF TodoInv, MomentInv, Unlisted, Retiring, Publishing, Rechecked
<1>10. CalmInv'
  BY <1>1, <1>8 DEF CalmInv, CalmReading, CalmRetiring, CalmPublishing, Retiring, boot
<1>11. BundleInv' /\ SkillInv'
  BY <1>1, <1>8 DEF BuildInv, BundleInv, PackageIsLast, SkillInv, Retiring, Publishing
<1> QED BY <1>5, <1>6, <1>7, <1>9, <1>10, <1>11 DEF BuildInv

(* A step to a stage before anything is retired or published.            *)
Early == {"session", "names", "preflight", "read", "again", "plan", "recheck"}

LEMMA EarlyKeepsBuild ==
  ASSUME BuildInv, UNCHANGED Rest, build' \in BuildRecord, build'.number = build.number,
         build'.at \in Early \union {"attached"}, Plugin!Running,
         \A s \in SourceNames : build'.read[s] \in {build.read[s], source[s]},
         \A n \in Skills : build'.stale[n] \in {build.stale[n], skills[n]},
         TodoInv', CalmInv',
         build'.at \in {"recheck", "attached"} => MomentInv',
         \/ build'.listed = build.listed /\ (build.at \notin Unlisted \/ build'.at \in Unlisted)
         \/ source["module"] = 0 /\ ~build'.listed
         \/ build'.listed,
         build'.at \in {"read", "again", "plan", "recheck", "attached"} /\ ~build'.listed =>
           Ours(output["module"], "module")
  PROVE  BuildInv'
<1>1. OutsideTypes' /\ RegistryTypes' /\ BundleTypes'
  BY RestStays
<1>2. BuildTypes'
  BY DEF BuildInv, OutsideTypes, RegistryTypes, BuildTypes, Rest
<1>3. MomentInv'
  <2>1. source \in moments /\ UNCHANGED <<source, moments>>
    BY DEF BuildInv, MomentInv, Rest
  <2>2. build'.at \notin Unlisted /\ ~build'.listed => \E m \in moments : m["module"] = 0
    BY <2>1 DEF BuildInv, MomentInv
  <2> QED BY <2>1, <2>2 DEF MomentInv, Early, Rechecked, Retiring, Publishing
<1>4. BundleInv' /\ SkillInv'
  BY DEF BuildInv, BundleInv, PackageIsLast, Ours, SkillInv, Early, Retiring, Publishing, Rest
<1> QED BY <1>1, <1>2, <1>3, <1>4 DEF BuildInv

LEMMA OpenSessionKeepsBuild == BuildInv /\ Plugin!OpenSession => BuildInv'
<1> SUFFICES ASSUME BuildInv, Plugin!OpenSession PROVE BuildInv'
  OBVIOUS
<1>1. /\ build.at = "session" /\ UNCHANGED Rest
      /\ build' = [build EXCEPT !.at = "names", !.held = source["helper"]]
  BY DEF Plugin!OpenSession, Plugin!At, Plugin!Outside, Plugin!Bundle, Plugin!Registry, Rest
<1>2. source["helper"] \in Nat /\ build \in BuildRecord
  BY DEF BuildInv, OutsideTypes, BuildTypes, SourceNames
<1>3. /\ build' \in BuildRecord /\ build'.at = "names" /\ build'.held = source["helper"]
      /\ build'.number = build.number /\ build'.boot = build.boot /\ build'.read = build.read
      /\ build'.stale = build.stale /\ build'.listed = build.listed /\ build'.calm = build.calm
  BY <1>1, <1>2 DEF BuildRecord, Stages
<1>4. TodoInv'
  BY <1>3 DEF TodoInv, Retiring, Publishing
<1>5. CalmInv'
  BY <1>1, <1>3 DEF BuildInv, CalmInv, CalmReading, CalmRetiring, CalmPublishing, Retiring, Rest
<1>6. Plugin!Running
  BY <1>1 DEF Plugin!Running, Plugin!Ended
<1> QED BY <1>1, <1>3, <1>4, <1>5, <1>6, EarlyKeepsBuild DEF Early, Unlisted

LEMMA ListNamesKeepsBuild == BuildInv /\ Plugin!ListNames => BuildInv'
<1> SUFFICES ASSUME BuildInv, Plugin!ListNames PROVE BuildInv'
  OBVIOUS
<1>1. /\ build.at = "names" /\ UNCHANGED Rest
      /\ build' = [build EXCEPT !.at = "preflight", !.listed = source["module"] # 0]
  BY DEF Plugin!ListNames, Plugin!At, Plugin!Outside, Plugin!Bundle, Plugin!Registry, Rest
<1>2. build \in BuildRecord /\ (source["module"] # 0) \in BOOLEAN
  BY DEF BuildInv, BuildTypes
<1>3. /\ build' \in BuildRecord /\ build'.at = "preflight" /\ build'.listed = (source["module"] # 0)
      /\ build'.number = build.number /\ build'.boot = build.boot /\ build'.read = build.read
      /\ build'.held = build.held /\ build'.stale = build.stale /\ build'.calm = build.calm
  BY <1>1, <1>2 DEF BuildRecord, Stages
<1>4. TodoInv'
  BY <1>3 DEF TodoInv, Retiring, Publishing
<1>5. CalmInv'
  <2>1. \A s \in SourceNames : (s # "module" \/ source["module"] # 0) <=> source[s] # 0
    BY DEF BuildInv, OutsideTypes, SourceNames
  <2> QED BY <1>1, <1>3, <2>1 DEF BuildInv, CalmInv, CalmReading, Listed, CalmRetiring, CalmPublishing, Retiring, Rest
<1>6. Plugin!Running
  BY <1>1 DEF Plugin!Running, Plugin!Ended
<1> QED BY <1>1, <1>3, <1>4, <1>5, <1>6, EarlyKeepsBuild DEF Early

LEMMA PreflightKeepsBuild == BuildInv /\ Plugin!Preflight => BuildInv'
<1> SUFFICES ASSUME BuildInv, Plugin!Preflight PROVE BuildInv'
  OBVIOUS
<1> DEFINE clean == litter = {} /\ (output["module"].bytes = 0 \/ build.listed)
<1>1. /\ build.at = "preflight" /\ UNCHANGED Rest
      /\ build' = IF clean THEN [build EXCEPT !.at = "read", !.todo = Plugin!Sources(build.listed)]
                  ELSE [build EXCEPT !.at = "failed"]
  BY DEF Plugin!Preflight, Plugin!At, Plugin!Outside, Plugin!Bundle, Plugin!Registry, Rest
<1>2. CASE ~clean
  <2>1. build.calm /\ ~build.listed => source["module"] = 0
    BY <1>1 DEF BuildInv, CalmInv, CalmReading, Listed, SourceNames
  <2>2. build.calm => Plugin!InTheWay
    BY <1>2, <2>1 DEF Plugin!InTheWay, Plugin!Orphan
  <2> QED BY <1>1, <1>2, <2>2, FailsKeepsBuild
<1>3. CASE clean
  <2>1. /\ build' \in BuildRecord /\ SameBuild(build, build') /\ build'.at = "read"
        /\ build'.todo = Plugin!Sources(build.listed) /\ build'.calm = build.calm
    <3>1. build \in BuildRecord /\ "read" \in Stages /\ build.listed \in BOOLEAN
      BY DEF BuildInv, BuildTypes, BuildRecord, Stages
    <3>2. Plugin!Sources(build.listed) \in Seq(SourceNames \union OutputNames \union Skills)
      BY <3>1, QueueIsTodo, NamesOfTheBuild
    <3>3. build' = With(build, "read", Plugin!Sources(build.listed))
      BY <1>1, <1>3 DEF With
    <3> QED BY <3>1, <3>2, <3>3, ToStageWith
  <2>2. /\ TodoInv' /\ Ran(build'.todo) = {r \in SourceNames : r # "module" \/ build.listed}
        /\ build'.listed = build.listed
    <3>1. build.listed \in BOOLEAN /\ build'.listed = build.listed
      BY <2>1 DEF BuildInv, BuildTypes, BuildRecord, SameBuild
    <3> QED BY <2>1, <3>1, NamesOfTheBuild DEF TodoInv, Listed, Retiring, Publishing
  <2>3. CalmInv'
    <3> SUFFICES ASSUME build.calm PROVE CalmInv'
      BY <2>1 DEF CalmInv
    <3>1. build.boot = source["package"] /\ build.held = source["helper"]
      BY <1>1 DEF BuildInv, CalmInv, CalmReading
    <3>2. CalmReading'
      BY <1>1, <2>1, <2>2, <3>1 DEF BuildInv, CalmInv, CalmReading, Listed, SameBuild, Rest
    <3> QED BY <2>1, <3>2 DEF CalmInv, CalmRetiring, CalmPublishing, Retiring
  <2>4. Plugin!Running
    BY <1>1 DEF Plugin!Running, Plugin!Ended
  <2>5. ~build'.listed => Ours(output["module"], "module")
    BY <1>3, <2>2 DEF Ours
  <2> QED BY <1>1, <2>1, <2>2, <2>3, <2>4, <2>5, EarlyKeepsBuild DEF Early, Unlisted, SameBuild
<1> QED BY <1>2, <1>3

LEMMA ReadOnceKeepsBuild == BuildInv /\ Plugin!ReadOnce => BuildInv'
<1> SUFFICES ASSUME BuildInv, Plugin!ReadOnce PROVE BuildInv'
  OBVIOUS
<1> DEFINE s == Head(build.todo)
           seen == [build.read EXCEPT ![s] = source[s]]
<1>1. /\ build.at = "read" /\ UNCHANGED Rest
      /\ build' = [build EXCEPT !.at = "again", !.read[s] = source[s]]
  BY DEF Plugin!ReadOnce, Plugin!Todo, Plugin!At, Plugin!Outside, Plugin!Bundle, Plugin!Registry, Rest
<1>2. Queue(SourceNames, build.todo) /\ build.todo # <<>> /\ s \in SourceNames /\ s \in Ran(build.todo)
  BY <1>1, QueueHead DEF BuildInv, TodoInv
<1>3. /\ source \in [SourceNames -> Nat] /\ build \in BuildRecord
      /\ build.read \in [SourceNames -> Nat]
  BY DEF BuildInv, OutsideTypes, BuildTypes, BuildRecord
<1>4. /\ seen \in [SourceNames -> Nat] /\ seen[s] = source[s]
      /\ \A r \in SourceNames : r # s => seen[r] = build.read[r]
  BY <1>2, <1>3
<1>5. build' = [build EXCEPT !.at = "again", !.read = seen]
  BY <1>1, <1>3 DEF BuildRecord
<1> HIDE DEF seen, s
<1>6. /\ build' \in BuildRecord /\ build'.at = "again" /\ build'.read = seen
      /\ build'.held = build.held /\ build'.todo = build.todo
      /\ build'.number = build.number /\ build'.boot = build.boot /\ build'.listed = build.listed
      /\ build'.stale = build.stale /\ build'.calm = build.calm
  BY <1>3, <1>4, <1>5 DEF BuildRecord, Stages
<1>7. TodoInv'
  BY <1>1, <1>2, <1>6 DEF BuildInv, TodoInv, Listed, Retiring, Publishing
<1>8. CalmInv'
  <2> SUFFICES ASSUME build.calm PROVE CalmInv'
    BY <1>6 DEF CalmInv
  <2>1. CalmReading
    BY DEF BuildInv, CalmInv
  <2>2. Head(build'.todo) = s
    BY <1>6 DEF s
  <2>3. \A r \in SourceNames \ Ran(build.todo) : Listed(r) => seen[r] = source[r]
    BY <1>1, <1>2, <1>4, <2>1 DEF CalmReading
  <2>4. CalmReading'
    BY ZenonT(40), <1>1, <1>4, <1>6, <2>1, <2>2, <2>3 DEF CalmReading, Listed, Rest
  <2> QED BY <1>6, <2>4 DEF CalmInv, CalmRetiring, CalmPublishing, Retiring
<1>9. Plugin!Running
  BY <1>1 DEF Plugin!Running, Plugin!Ended
<1>10. \A r \in SourceNames : build'.read[r] \in {build.read[r], source[r]}
  BY <1>4, <1>6
<1>11. ~build'.listed => Ours(output["module"], "module")
  BY <1>1, <1>6 DEF BuildInv, BundleInv
<1> QED BY <1>1, <1>6, <1>7, <1>8, <1>9, <1>10, <1>11, EarlyKeepsBuild DEF Early, Unlisted

(* One item is dealt with: the next, or the next list.                   *)
LEMMA Advances ==
  ASSUME build \in BuildRecord, NEW S, Queue(S, build.todo), build.todo # <<>>,
         S \subseteq SourceNames \union OutputNames \union Skills,
         NEW step \in Stages, NEW next \in Stages,
         NEW q \in Seq(SourceNames \union OutputNames \union Skills),
         Plugin!Advance(step, next, q)
  PROVE  /\ build' \in BuildRecord /\ SameBuild(build, build') /\ build'.calm = build.calm
         /\ \/ Tail(build.todo) # <<>> /\ build'.at = step /\ build'.todo = Tail(build.todo)
            \/ Ran(Tail(build.todo)) = {} /\ build'.at = next /\ build'.todo = q
<1>1. /\ Queue(S, Tail(build.todo)) /\ Len(build.todo) \in Nat
      /\ Len(build.todo) > 1 => Tail(build.todo) # <<>>
      /\ Len(build.todo) <= 1 => Ran(Tail(build.todo)) = {}
  BY QueueHead
<1>2. Tail(build.todo) \in Seq(SourceNames \union OutputNames \union Skills)
  <2>1. \A T, r : S \subseteq T /\ r \in Seq(S) => r \in Seq(T)
    OBVIOUS
  <2> QED BY <1>1, <2>1 DEF Queue
<1>3. CASE Len(build.todo) > 1
  <2>1. build' = With(build, step, Tail(build.todo))
    BY <1>3 DEF Plugin!Advance, With
  <2>2. /\ build' \in BuildRecord /\ SameBuild(build, build') /\ build'.calm = build.calm
        /\ build'.at = step /\ build'.todo = Tail(build.todo)
    BY ZenonT(40), <1>2, <2>1, ToStageWith
  <2> QED BY <1>1, <1>3, <2>2
<1>4. CASE ~(Len(build.todo) > 1)
  <2>1. build' = With(build, next, q)
    BY <1>4 DEF Plugin!Advance, With
  <2>2. /\ build' \in BuildRecord /\ SameBuild(build, build') /\ build'.calm = build.calm
        /\ build'.at = next /\ build'.todo = q
    BY <2>1, ToStageWith
  <2>3. Len(build.todo) <= 1
    BY <1>1, <1>4
  <2> QED BY <1>1, <2>2, <2>3
<1> QED BY <1>3, <1>4

LEMMA ReadAgainKeepsBuild == BuildInv /\ Plugin!ReadAgain => BuildInv'
<1> SUFFICES ASSUME BuildInv, Plugin!ReadAgain PROVE BuildInv'
  OBVIOUS
<1> DEFINE s == Head(build.todo)
           same == Plugin!Still(s) /\ (s = "package" => build.read[s] = build.boot)
<1>1. /\ build.at = "again" /\ UNCHANGED Rest
      /\ IF same THEN Plugin!Advance("read", "plan", Plugin!Sources(build.listed))
         ELSE build' = [build EXCEPT !.at = "failed"]
  BY DEF Plugin!ReadAgain, Plugin!Goto, Plugin!Todo, Plugin!At, Plugin!Outside, Plugin!Bundle,
     Plugin!Registry, Rest
<1>2. /\ Queue(SourceNames, build.todo) /\ build.todo # <<>> /\ s \in SourceNames
      /\ Ran(build.todo) = {s} \union Ran(Tail(build.todo)) /\ Queue(SourceNames, Tail(build.todo))
      /\ Listed(s) /\ (\A r \in Ran(build.todo) : Listed(r)) /\ build.listed \in BOOLEAN
  BY <1>1, QueueHead DEF BuildInv, TodoInv, BuildTypes, BuildRecord
<1>3. build.calm => CalmReading
  BY DEF BuildInv, CalmInv
<1>4. CASE ~same
  <2>1. ~build.calm
    BY <1>1, <1>2, <1>3, <1>4 DEF CalmReading, Plugin!Still
  <2> QED BY <1>1, <1>4, <2>1, FailsKeepsBuild
<1>5. CASE same
  <2>1. /\ build' \in BuildRecord /\ SameBuild(build, build') /\ build'.calm = build.calm
        /\ \/ Tail(build.todo) # <<>> /\ build'.at = "read" /\ build'.todo = Tail(build.todo)
           \/ Ran(Tail(build.todo)) = {} /\ build'.at = "plan" /\ build'.todo = Plugin!Sources(build.listed)
    BY <1>1, <1>2, <1>5, Advances, NamesOfTheBuild, QueueIsTodo DEF BuildInv, BuildTypes, Stages
  <2>2. TodoInv'
    BY <1>2, <2>1 DEF TodoInv, Listed, Retiring, Publishing, SameBuild
  <2>3. CalmInv'
    <3> SUFFICES ASSUME build.calm PROVE CalmInv'
      BY <2>1 DEF CalmInv
    <3>1. \A r \in SourceNames \ Ran(Tail(build.todo)) : Listed(r) => build.read[r] = source[r]
      BY <1>1, <1>2, <1>3, <1>5 DEF CalmReading, Plugin!Still
    <3>2. build'.at = "plan" => \A r \in SourceNames : Listed(r) => build.read[r] = source[r]
      BY <2>1, <3>1
    <3>3. CalmReading'
      BY <1>1, <1>3, <2>1, <3>1, <3>2 DEF CalmReading, Listed, SameBuild, Rest
    <3> QED BY <2>1, <3>3 DEF CalmInv, CalmRetiring, CalmPublishing, Retiring
  <2>4. Plugin!Running
    BY <1>1 DEF Plugin!Running, Plugin!Ended
  <2>5. ~build'.listed => Ours(output["module"], "module")
    BY <1>1, <2>1 DEF BuildInv, BundleInv, SameBuild
  <2> QED BY <1>1, <2>1, <2>2, <2>3, <2>4, <2>5, EarlyKeepsBuild DEF Early, Unlisted, SameBuild
<1> QED BY <1>4, <1>5

LEMMA PlanKeepsBuild == BuildInv /\ Plugin!Plan => BuildInv'
<1> SUFFICES ASSUME BuildInv, Plugin!Plan PROVE BuildInv'
  OBVIOUS
<1>1. /\ build.at = "plan" /\ UNCHANGED Rest /\ build.todo = Plugin!Sources(build.listed)
      /\ build' = [build EXCEPT !.at = "recheck", !.existing = output, !.stale = skills]
  BY DEF Plugin!Plan, Plugin!At, Plugin!Outside, Plugin!Bundle, Plugin!Registry, Rest, BuildInv, TodoInv
<1>2. /\ build \in BuildRecord /\ output \in [OutputNames -> BundleFile] /\ skills \in [Skills -> Nat]
      /\ build.listed \in BOOLEAN
  BY DEF BuildInv, BuildRecord, BuildTypes, BundleTypes, RegistryTypes
<1>3. /\ build' \in BuildRecord /\ build'.at = "recheck" /\ build'.existing = output
      /\ build'.stale = skills /\ build'.todo = build.todo /\ build'.number = build.number
      /\ build'.held = build.held /\ build'.boot = build.boot
      /\ build'.read = build.read /\ build'.listed = build.listed /\ build'.calm = build.calm
  BY <1>1, <1>2 DEF BuildRecord, Stages
<1>4. TodoInv'
  BY <1>1, <1>2, <1>3, NamesOfTheBuild DEF TodoInv, Listed, Retiring, Publishing
<1>5. MomentInv'
  <2>1. source \in moments
    BY <1>1 DEF BuildInv, MomentInv, Plugin!Running, Plugin!Ended
  <2>2. Ran(build'.todo) = {s \in SourceNames : s # "module" \/ build.listed}
    BY <1>1, <1>2, <1>3, NamesOfTheBuild
  <2>3. \A s \in SourceNames :
          Listed(s) /\ (s \notin Ran(build'.todo) \/ Plugin!Still(s)) => source[s] = build.read[s]
    BY <2>2 DEF Listed, Plugin!Still
  <2>4. ~build.listed => \E m \in moments : m["module"] = 0
    BY <1>1 DEF BuildInv, MomentInv, Unlisted
  <2> QED BY <1>1, <1>3, <2>1, <2>3, <2>4 DEF MomentInv, Listed, Rechecked, Retiring, Publishing,
             Rest, Plugin!Still
<1>6. CalmInv'
  BY <1>1, <1>3 DEF BuildInv, CalmInv, CalmReading, Listed, CalmRetiring, CalmPublishing, Retiring, Rest
<1>7. Plugin!Running
  BY <1>1 DEF Plugin!Running, Plugin!Ended
<1>8. ~build'.listed => Ours(output["module"], "module")
  BY <1>1, <1>3 DEF BuildInv, BundleInv
<1> QED BY <1>1, <1>3, <1>4, <1>5, <1>6, <1>7, <1>8, EarlyKeepsBuild DEF Early, Unlisted

(* The stale names, in some order.                                       *)
LEMMA StaleInOrder ==
  ASSUME BuildInv
  PROVE  /\ Queue(Skills, Plugin!StaleNames)
         /\ Ran(Plugin!StaleNames) = {n \in Skills : build.stale[n] # 0}
<1> DEFINE S == {n \in Skills : build.stale[n] # 0}
<1>1. IsFiniteSet(S)
  BY BuildingAssumption, FS_Subset
<1>2. Queue(S, Plugin!StaleNames) /\ Ran(Plugin!StaleNames) = S
  BY <1>1, InAnyOrder DEF Plugin!StaleNames
<1>3. \A q : q \in Seq(S) => q \in Seq(Skills)
  OBVIOUS
<1> QED BY <1>2, <1>3 DEF Queue

LEMMA RecheckKeepsBuild == BuildInv /\ Plugin!Recheck => BuildInv'
<1> SUFFICES ASSUME BuildInv, Plugin!Recheck PROVE BuildInv'
  OBVIOUS
<1> DEFINE s == Head(build.todo)
<1>1. /\ build.at = "recheck" /\ UNCHANGED Rest
      /\ IF Plugin!Still(s) THEN Plugin!Advance("recheck", "attached", Plugin!StaleNames)
         ELSE build' = [build EXCEPT !.at = "failed"]
  BY DEF Plugin!Recheck, Plugin!Goto, Plugin!Todo, Plugin!At, Plugin!Outside, Plugin!Bundle,
     Plugin!Registry, Rest
<1>2. /\ Queue(SourceNames, build.todo) /\ build.todo # <<>> /\ s \in SourceNames
      /\ Ran(build.todo) = {s} \union Ran(Tail(build.todo)) /\ Queue(SourceNames, Tail(build.todo))
      /\ Listed(s) /\ \A r \in Ran(build.todo) : Listed(r)
  BY <1>1, QueueHead DEF BuildInv, TodoInv
<1>3. build.calm => CalmReading /\ CalmRetiring
  BY DEF BuildInv, CalmInv
<1>4. CASE ~Plugin!Still(s)
  <2>1. ~build.calm
    BY <1>1, <1>2, <1>3, <1>4 DEF CalmReading, Plugin!Still
  <2> QED BY <1>1, <1>4, <2>1, FailsKeepsBuild
<1>5. CASE Plugin!Still(s)
  <2>1. /\ build' \in BuildRecord /\ SameBuild(build, build') /\ build'.calm = build.calm
        /\ \/ Tail(build.todo) # <<>> /\ build'.at = "recheck" /\ build'.todo = Tail(build.todo)
           \/ Ran(Tail(build.todo)) = {} /\ build'.at = "attached" /\ build'.todo = Plugin!StaleNames
    BY <1>1, <1>2, <1>5, Advances, StaleInOrder, QueueIsTodo DEF BuildInv, BuildTypes, Stages
  <2>2. TodoInv'
    BY <1>2, <2>1, StaleInOrder DEF TodoInv, Listed, Retiring, Publishing, SameBuild
  <2>3. MomentInv'
    <3>1. PICK m \in moments : \A r \in SourceNames :
            Listed(r) /\ (r \notin Ran(build.todo) \/ Plugin!Still(r)) => m[r] = build.read[r]
      BY <1>1 DEF BuildInv, MomentInv
    <3>2. \A r \in SourceNames :
            Listed(r) /\ (r \notin Ran(Tail(build.todo)) \/ Plugin!Still(r)) => m[r] = build.read[r]
      BY <1>2, <1>5, <3>1
    <3>3. /\ source \in moments /\ UNCHANGED <<source, moments>> /\ build'.read = build.read
          /\ build'.listed = build.listed
      BY <1>1, <2>1 DEF BuildInv, MomentInv, Plugin!Running, Plugin!Ended, SameBuild, Rest
    <3>4. build'.at = "recheck" =>
            \E k \in moments : \A r \in SourceNames :
              Listed(r) /\ (r \notin Ran(build'.todo) \/ Plugin!Still(r)) => k[r] = build.read[r]
      BY <2>1, <3>2
    <3>5. build'.at = "attached" =>
            \E k \in moments : \A r \in SourceNames : Listed(r) => k[r] = build.read[r]
      BY <2>1, <3>2
    <3>6. ~build.listed => \E k \in moments : k["module"] = 0
      BY <1>1 DEF BuildInv, MomentInv, Unlisted
    <3> QED BY <2>1, <3>3, <3>4, <3>5, <3>6 DEF MomentInv, Listed, Plugin!Still, Rechecked, Retiring,
               Publishing
  <2>4. CalmInv'
    BY <1>1, <1>3, <2>1 DEF CalmInv, CalmReading, Listed, CalmRetiring, CalmPublishing, Retiring, SameBuild, Rest
  <2>5. Plugin!Running
    BY <1>1 DEF Plugin!Running, Plugin!Ended
  <2>6. ~build'.listed => Ours(output["module"], "module")
    BY <1>1, <2>1 DEF BuildInv, BundleInv, SameBuild
  <2> QED BY <1>1, <2>1, <2>2, <2>3, <2>4, <2>5, <2>6, EarlyKeepsBuild DEF Early, Unlisted, SameBuild
<1> QED BY <1>4, <1>5

(* Once the sources are settled, only what is listed matters.            *)
LEMMA LateKeepsBuild ==
  ASSUME BuildInv, build.at \in Rechecked, build' \in BuildRecord, SameBuild(build, build'),
         build'.at \in Rechecked, Plugin!Running,
         UNCHANGED <<source, fresh, moments>>, OutsideTypes', RegistryTypes', BundleTypes',
         TodoInv', BundleInv', SkillInv', CalmInv'
  PROVE  BuildInv'
<1>1. BuildTypes'
  BY DEF BuildInv, BuildTypes, SameBuild
<1>2. MomentInv'
  BY DEF BuildInv, MomentInv, Listed, Unlisted, Rechecked, Retiring, Publishing, SameBuild
<1> QED BY <1>1, <1>2 DEF BuildInv

LEMMA LateRestKeepsBuild ==
  ASSUME BuildInv, build.at \in Rechecked, build' \in BuildRecord, SameBuild(build, build'),
         build'.at \in Rechecked, Plugin!Running, UNCHANGED Rest,
         TodoInv', BundleInv', SkillInv', CalmInv'
  PROVE  BuildInv'
<1>1. OutsideTypes' /\ RegistryTypes' /\ BundleTypes'
  BY RestStays DEF SameBuild
<1> QED BY <1>1, LateKeepsBuild DEF Rest

(* With nothing stale left to retire, the outputs are listed.            *)
LEMMA PublishingKeepsBuild ==
  ASSUME BuildInv, UNCHANGED Rest, build.at \in {"attached", "postflight"},
         build' = Plugin!Publishing(build),
         \A n \in Skills : build.stale[n] # 0 => skills[n] # build.stale[n]
  PROVE  BuildInv'
<1>1. /\ build' \in BuildRecord /\ SameBuild(build, build') /\ build'.calm = build.calm
      /\ build'.at = "stage" /\ build'.todo = Plugin!Outputs(build.listed)
  <2>1. build \in BuildRecord /\ "stage" \in Stages /\ build.listed \in BOOLEAN
    BY DEF BuildInv, BuildTypes, BuildRecord, Stages, Publishing
  <2>2. Plugin!Outputs(build.listed) \in Seq(SourceNames \union OutputNames \union Skills)
    BY <2>1, QueueIsTodo, NamesOfTheBuild
  <2>3. build' = With(build, "stage", Plugin!Outputs(build.listed))
    BY DEF Plugin!Publishing, With
  <2> QED BY <2>1, <2>2, <2>3, ToStageWith
<1>2. /\ TodoInv' /\ build'.listed = build.listed
      /\ Ran(build'.todo) = {o \in OutputNames : o # "module" \/ build.listed}
  <2>1. build.listed \in BOOLEAN
    BY DEF BuildInv, BuildTypes, BuildRecord
  <2> QED BY <1>1, <2>1, NamesOfTheBuild DEF TodoInv, SameBuild, Retiring, Publishing
<1>3. BundleInv'
  <2>1. \A o \in OutputNames \ Ran(build'.todo) : Ours(output[o], o)
    BY <1>2 DEF BuildInv, BundleInv, Retiring
  <2> QED BY <1>1, <2>1 DEF BuildInv, BundleInv, PackageIsLast, Ours, Retiring, Rest, SameBuild
<1>4. SkillInv'
  BY <1>1 DEF BuildInv, SkillInv, Retiring, Publishing, Rest, SameBuild
<1>5. CalmInv'
  <2>1. build.calm => build.existing = output
    BY DEF BuildInv, CalmInv, CalmRetiring, Retiring
  <2> QED BY <1>1, <2>1 DEF CalmInv, CalmReading, CalmRetiring, CalmPublishing, Retiring, Rest, SameBuild
<1>6. Plugin!Running /\ build.at \in Rechecked /\ build'.at \in Rechecked
  BY <1>1 DEF Plugin!Running, Plugin!Ended, Rechecked, Retiring, Publishing
<1> QED BY <1>1, <1>2, <1>3, <1>4, <1>5, <1>6, LateRestKeepsBuild

LEMMA AttachedKeepsBuild == BuildInv /\ Plugin!Attached => BuildInv'
<1> SUFFICES ASSUME BuildInv, Plugin!Attached PROVE BuildInv'
  OBVIOUS
<1>1. /\ build.at = "attached" /\ UNCHANGED Rest
      /\ build' = IF source["helper"] # build.held THEN [build EXCEPT !.at = "failed"]
                  ELSE IF build.todo = <<>> THEN Plugin!Publishing(build)
                  ELSE [build EXCEPT !.at = "retire"]
  BY DEF Plugin!Attached, Plugin!At, Plugin!Outside, Plugin!Bundle, Plugin!Registry, Rest
<1>2. Queue(Skills, build.todo) /\ Ran(build.todo) = {n \in Skills : build.stale[n] # 0}
  BY <1>1 DEF BuildInv, TodoInv
<1>3. build.calm => CalmReading /\ CalmRetiring
  BY DEF BuildInv, CalmInv
<1>4. CASE source["helper"] # build.held
  <2>1. ~build.calm
    BY <1>1, <1>3, <1>4 DEF CalmReading
  <2> QED BY <1>1, <1>4, <2>1, FailsKeepsBuild
<1>5. CASE source["helper"] = build.held /\ build.todo = <<>>
  <2>1. Ran(<<>>) = {}
    BY DEF Ran
  <2> QED BY <1>1, <1>2, <1>5, <2>1, PublishingKeepsBuild
<1>6. CASE source["helper"] = build.held /\ build.todo # <<>>
  <2>1. /\ build' \in BuildRecord /\ SameBuild(build, build') /\ build'.at = "retire"
        /\ build'.todo = build.todo /\ build'.calm = build.calm
    BY <1>1, <1>6, ToStage DEF BuildInv, BuildTypes, Stages, Retiring
  <2>2. TodoInv'
    BY <1>2, <1>6, <2>1 DEF TodoInv, Retiring, Publishing
  <2>3. BundleInv' /\ SkillInv'
    BY <1>1, <1>2, <2>1 DEF BuildInv, BundleInv, PackageIsLast, Ours, SkillInv, Retiring, Publishing, Rest, SameBuild
  <2>4. CalmInv'
    BY <1>1, <1>2, <1>3, <2>1 DEF CalmInv, CalmReading, CalmRetiring, CalmPublishing, Retiring, Rest, SameBuild
  <2>5. Plugin!Running /\ build.at \in Rechecked /\ build'.at \in Rechecked
    BY <1>1, <2>1 DEF Plugin!Running, Plugin!Ended, Rechecked, Retiring
  <2> QED BY <1>1, <2>1, <2>2, <2>3, <2>4, <2>5, LateRestKeepsBuild
<1> QED BY <1>4, <1>5, <1>6

(* Between two stages of one list.                                       *)
LEMMA RetireKeepsBuild == BuildInv /\ Plugin!Retire => BuildInv'
<1> SUFFICES ASSUME BuildInv, Plugin!Retire PROVE BuildInv'
  OBVIOUS
<1> DEFINE n == Head(build.todo)
<1>1. /\ build.at = "retire" /\ UNCHANGED Rest
      /\ build' = [build EXCEPT !.at = IF skills[n] = build.stale[n] THEN "move" ELSE "failed"]
  BY DEF Plugin!Retire, Plugin!Check, Plugin!Goto, Plugin!Tree, Plugin!Todo, Plugin!At,
     Plugin!Outside, Plugin!Bundle, Plugin!Registry, Rest
<1>2. Queue(Skills, build.todo) /\ build.todo # <<>> /\ n \in Ran(build.todo)
  BY <1>1, QueueHead DEF BuildInv, TodoInv, Retiring
<1>3. build.calm => CalmRetiring
  BY DEF BuildInv, CalmInv
<1>4. CASE skills[n] # build.stale[n]
  <2>1. ~build.calm
    BY <1>1, <1>2, <1>3, <1>4 DEF CalmRetiring
  <2> QED BY <1>1, <1>4, <2>1, FailsKeepsBuild
<1>5. CASE skills[n] = build.stale[n]
  <2>1. /\ build' \in BuildRecord /\ SameBuild(build, build') /\ build'.at = "move"
        /\ build'.todo = build.todo /\ build'.calm = build.calm
    BY <1>1, <1>5, ToStage DEF BuildInv, BuildTypes, Stages, Retiring
  <2>2. TodoInv'
    BY <1>2, <2>1 DEF TodoInv, Retiring, Publishing
  <2>3. BundleInv' /\ SkillInv'
    BY <1>1, <2>1 DEF BuildInv, BundleInv, PackageIsLast, Ours, SkillInv, Retiring, Publishing, Rest, SameBuild
  <2>4. CalmInv'
    BY <1>1, <1>3, <2>1 DEF CalmInv, CalmReading, CalmRetiring, CalmPublishing, Retiring, Rest, SameBuild
  <2>5. Plugin!Running /\ build.at \in Rechecked /\ build'.at \in Rechecked
    BY <1>1, <2>1 DEF Plugin!Running, Plugin!Ended, Rechecked, Retiring
  <2> QED BY <1>1, <2>1, <2>2, <2>3, <2>4, <2>5, LateRestKeepsBuild
<1> QED BY <1>4, <1>5

(* A tree that is moved is in quarantine, and its name is free.          *)
MovesTree(n) ==
  /\ skills[n] # 0 /\ quarantine' = quarantine \union {skills[n]}
  /\ skills' = [skills EXCEPT ![n] = 0]

LEMMA MovedTrees ==
  ASSUME BuildInv, NEW n \in Skills, MovesTree(n), UNCHANGED <<fresh, kept>>
  PROVE  /\ RegistryTypes' /\ skills'[n] = 0 /\ \A k \in Skills : k # n => skills'[k] = skills[k]
         /\ \A t \in kept : t \in quarantine' \/ \E k \in Skills : skills'[k] = t
<1>1. skills \in [Skills -> Nat] /\ fresh \in Nat \ {0} /\ \A k \in Skills : skills[k] < fresh
  BY DEF BuildInv, RegistryTypes, OutsideTypes
<1>2. /\ skills' \in [Skills -> Nat] /\ skills'[n] = 0
      /\ \A k \in Skills : k # n => skills'[k] = skills[k]
  BY <1>1 DEF MovesTree
<1>3. RegistryTypes'
  BY <1>1, <1>2 DEF RegistryTypes
<1>4. \A t \in kept : t \in quarantine' \/ \E k \in Skills : skills'[k] = t
  <2> SUFFICES ASSUME NEW t \in kept, t \notin quarantine' PROVE \E k \in Skills : skills'[k] = t
    OBVIOUS
  <2>1. PICK k \in Skills : skills[k] = t
    BY DEF BuildInv, SkillInv, MovesTree
  <2>2. k # n
    BY <2>1 DEF MovesTree
  <2> QED BY <1>2, <2>1, <2>2
<1> QED BY <1>2, <1>3, <1>4

LEMMA MoveKeepsBuild == BuildInv /\ Plugin!Move => BuildInv'
<1> SUFFICES ASSUME BuildInv, Plugin!Move PROVE BuildInv'
  OBVIOUS
<1> DEFINE n == Head(build.todo)
<1>1. /\ build.at = "move" /\ UNCHANGED <<source, output, litter, fresh, acts, moments, kept>>
      /\ \/ skills[n] = 0 /\ build' = [build EXCEPT !.at = "failed"] /\ UNCHANGED <<skills, quarantine>>
         \/ MovesTree(n) /\ build' = [build EXCEPT !.at = "postflight"]
  BY DEF Plugin!Move, Plugin!Goto, Plugin!Todo, Plugin!At, Plugin!Outside, Plugin!Bundle,
     Plugin!Registry, MovesTree
<1>2. /\ Queue(Skills, build.todo) /\ build.todo # <<>> /\ n \in Skills /\ n \in Ran(build.todo)
      /\ n \notin Ran(Tail(build.todo)) /\ Ran(Tail(build.todo)) \subseteq Ran(build.todo)
  <2>1. Queue(Skills, build.todo) /\ build.todo # <<>>
    BY <1>1 DEF BuildInv, TodoInv, Retiring
  <2> QED BY <2>1, QueueHead
<1>3. build.calm => CalmRetiring
  BY DEF BuildInv, CalmInv
<1>4. CASE skills[n] = 0 /\ build' = [build EXCEPT !.at = "failed"] /\ UNCHANGED <<skills, quarantine>>
  <2>1. ~build.calm
    BY <1>1, <1>2, <1>3, <1>4 DEF CalmRetiring
  <2> QED BY <1>1, <1>4, <2>1, FailsKeepsBuild DEF Rest
<1>5. CASE MovesTree(n) /\ build' = [build EXCEPT !.at = "postflight"]
  <2>1. /\ build' \in BuildRecord /\ SameBuild(build, build') /\ build'.at = "postflight"
        /\ build'.todo = build.todo /\ build'.calm = build.calm
    BY <1>5, ToStage DEF BuildInv, BuildTypes, Stages, Retiring
  <2>2. /\ RegistryTypes' /\ skills'[n] = 0 /\ \A k \in Skills : k # n => skills'[k] = skills[k]
        /\ \A t \in kept : t \in quarantine' \/ \E k \in Skills : skills'[k] = t
    BY <1>1, <1>2, <1>5, MovedTrees
  <2>3. OutsideTypes' /\ BundleTypes'
    BY <1>1, <2>1 DEF BuildInv, OutsideTypes, BundleTypes, SameBuild
  <2>4. TodoInv'
    BY <1>2, <2>1 DEF TodoInv, Retiring, Publishing
  <2>5. BundleInv'
    BY <1>1, <2>1 DEF BuildInv, BundleInv, PackageIsLast, Ours, Retiring, Publishing, SameBuild
  <2>6. SkillInv'
    <3>1. \A k \in Skills : build.stale[k] # 0 /\ skills'[k] = build.stale[k] => k \in Ran(build.todo)
      BY <1>1, <1>2, <2>2 DEF BuildInv, SkillInv, Retiring
    <3> QED BY <1>1, <2>1, <2>2, <3>1 DEF BuildInv, SkillInv, Publishing, SameBuild
  <2>7. CalmInv'
    <3> SUFFICES ASSUME build.calm PROVE CalmInv'
      BY <2>1 DEF CalmInv
    <3>1. build.stale[n] \in quarantine'
      BY <1>1, <1>2, <1>3, <1>5 DEF CalmRetiring, MovesTree
    <3>2. \A k \in Ran(Tail(build.todo)) : skills'[k] = build.stale[k] /\ skills'[k] # 0
      <4>1. \A k \in Ran(Tail(build.todo)) : k \in Skills
        BY <1>2, QueueHead DEF Queue, Ran
      <4> QED BY <1>1, <1>2, <1>3, <2>2, <4>1 DEF CalmRetiring
    <3>3. build.existing = output
      BY <1>1, <1>3 DEF CalmRetiring, Retiring
    <3>4. CalmRetiring'
      BY <1>1, <2>1, <2>2, <3>1, <3>2, <3>3 DEF CalmRetiring, SameBuild
    <3> QED BY <2>1, <3>4 DEF CalmInv, CalmReading, CalmPublishing
  <2>8. Plugin!Running /\ build.at \in Rechecked /\ build'.at \in Rechecked
    BY <1>1, <2>1 DEF Plugin!Running, Plugin!Ended, Rechecked, Retiring
  <2> QED BY <1>1, <2>1, <2>2, <2>3, <2>4, <2>5, <2>6, <2>7, <2>8, LateKeepsBuild
<1> QED BY <1>1, <1>4, <1>5

LEMMA PostflightKeepsBuild == BuildInv /\ Plugin!Postflight => BuildInv'
<1> SUFFICES ASSUME BuildInv, Plugin!Postflight PROVE BuildInv'
  OBVIOUS
<1> DEFINE n == Head(build.todo)
           good == skills[n] = 0 /\ build.stale[n] \in quarantine
<1>1. /\ build.at = "postflight" /\ UNCHANGED Rest
      /\ IF good
         THEN build' = IF Len(build.todo) > 1 THEN [build EXCEPT !.at = "retire", !.todo = Tail(@)]
                       ELSE Plugin!Publishing(build)
         ELSE build' = [build EXCEPT !.at = "undo"]
  BY DEF Plugin!Postflight, Plugin!Goto, Plugin!Tree, Plugin!Todo, Plugin!At, Plugin!Outside,
     Plugin!Bundle, Plugin!Registry, Rest
<1>2. /\ Queue(Skills, build.todo) /\ build.todo # <<>> /\ n \in Skills
      /\ Ran(build.todo) = {n} \union Ran(Tail(build.todo)) /\ Queue(Skills, Tail(build.todo))
      /\ Len(build.todo) \in Nat
      /\ Len(build.todo) > 1 => Tail(build.todo) # <<>>
      /\ Len(build.todo) <= 1 => Ran(Tail(build.todo)) = {}
  BY <1>1, QueueHead DEF BuildInv, TodoInv, Retiring
<1>3. build.calm => CalmRetiring
  BY DEF BuildInv, CalmInv
<1>4. good => \A k \in Skills : build.stale[k] # 0 /\ skills[k] = build.stale[k] => k \in Ran(Tail(build.todo))
  BY <1>1, <1>2 DEF BuildInv, SkillInv, Retiring
<1>5. Plugin!Running /\ build.at \in Rechecked
  BY <1>1 DEF Plugin!Running, Plugin!Ended, Rechecked, Retiring
<1>6. CASE ~good
  <2>1. /\ build' \in BuildRecord /\ SameBuild(build, build') /\ build'.at = "undo"
        /\ build'.todo = build.todo /\ build'.calm = build.calm
    BY <1>1, <1>6, ToStage DEF BuildInv, BuildTypes, Stages, Retiring
  <2>2. ~build'.calm
    BY <1>1, <1>3, <1>6, <2>1 DEF CalmRetiring
  <2>3. TodoInv' /\ BundleInv' /\ SkillInv' /\ CalmInv'
    BY <1>1, <1>2, <2>1, <2>2 DEF BuildInv, TodoInv, BundleInv, PackageIsLast, Ours, SkillInv, CalmInv, Retiring, Publishing, Rest, SameBuild
  <2>4. build'.at \in Rechecked
    BY <2>1 DEF Rechecked, Retiring
  <2> QED BY <1>1, <1>5, <2>1, <2>3, <2>4, LateRestKeepsBuild
<1>7. CASE good /\ Len(build.todo) > 1
  <2>1. /\ build' \in BuildRecord /\ SameBuild(build, build') /\ build'.at = "retire"
        /\ build'.todo = Tail(build.todo) /\ build'.calm = build.calm
    <3>1. build \in BuildRecord /\ "retire" \in Stages
      BY DEF BuildInv, BuildTypes, Stages, Retiring
    <3>2. Tail(build.todo) \in Seq(SourceNames \union OutputNames \union Skills)
      BY <1>2, QueueIsTodo
    <3>3. build' = With(build, "retire", Tail(build.todo))
      BY <1>1, <1>7 DEF With
    <3> QED BY ZenonT(40), <3>1, <3>2, <3>3, ToStageWith
  <2>2. TodoInv'
    BY <1>2, <1>7, <2>1 DEF TodoInv, Retiring, Publishing
  <2>3. BundleInv' /\ SkillInv'
    BY <1>1, <1>4, <1>7, <2>1 DEF BuildInv, BundleInv, PackageIsLast, Ours, SkillInv, Retiring, Publishing, Rest, SameBuild
  <2>4. CalmInv'
    BY <1>1, <1>3, <2>1 DEF CalmInv, CalmReading, CalmRetiring, CalmPublishing, Retiring, Rest, SameBuild
  <2>5. build'.at \in Rechecked
    BY <2>1 DEF Rechecked, Retiring
  <2> QED BY <1>1, <1>5, <2>1, <2>2, <2>3, <2>4, <2>5, LateRestKeepsBuild
<1>8. CASE good /\ ~(Len(build.todo) > 1)
  <2>1. Ran(Tail(build.todo)) = {}
    BY <1>2, <1>8
  <2> QED BY <1>1, <1>4, <1>8, <2>1, PublishingKeepsBuild
<1> QED BY <1>6, <1>7, <1>8

LEMMA UndoKeepsBuild == BuildInv /\ Plugin!Undo => BuildInv'
<1> SUFFICES ASSUME BuildInv, Plugin!Undo PROVE BuildInv'
  OBVIOUS
<1> DEFINE n == Head(build.todo)
           good == skills[n] = 0 /\ build.stale[n] \in quarantine
<1>1. /\ build.at = "undo" /\ UNCHANGED Rest
      /\ build' = [build EXCEPT !.at = IF good THEN "back" ELSE "failed"]
  BY DEF Plugin!Undo, Plugin!Check, Plugin!Goto, Plugin!Tree, Plugin!Todo, Plugin!At,
     Plugin!Outside, Plugin!Bundle, Plugin!Registry, Rest
<1>2. ~build.calm
  BY <1>1 DEF BuildInv, CalmInv, CalmRetiring
<1>3. CASE ~good
  BY <1>1, <1>2, <1>3, FailsKeepsBuild
<1>4. CASE good
  <2>1. /\ build' \in BuildRecord /\ SameBuild(build, build') /\ build'.at = "back"
        /\ build'.todo = build.todo /\ ~build'.calm
    BY <1>1, <1>2, <1>4, ToStage DEF BuildInv, BuildTypes, Stages, Retiring
  <2>2. TodoInv' /\ BundleInv' /\ SkillInv' /\ CalmInv'
    BY <1>1, <2>1 DEF BuildInv, TodoInv, BundleInv, PackageIsLast, Ours, SkillInv, CalmInv, Retiring, Publishing, Rest, SameBuild
  <2>3. Plugin!Running /\ build.at \in Rechecked /\ build'.at \in Rechecked
    BY <1>1, <2>1 DEF Plugin!Running, Plugin!Ended, Rechecked, Retiring
  <2> QED BY <1>1, <2>1, <2>2, <2>3, LateRestKeepsBuild
<1> QED BY <1>3, <1>4

LEMMA PutBackKeepsBuild == BuildInv /\ Plugin!PutBack => BuildInv'
<1> SUFFICES ASSUME BuildInv, Plugin!PutBack PROVE BuildInv'
  OBVIOUS
<1> DEFINE n == Head(build.todo)
           tree == build.stale[n]
<1>1. /\ build.at = "back" /\ UNCHANGED <<source, output, litter, fresh, acts, moments, kept>>
      /\ build' = [build EXCEPT !.at = "failed"]
      /\ \/ UNCHANGED <<skills, quarantine>>
         \/ /\ skills[n] = 0 /\ quarantine' = quarantine \ {tree}
            /\ skills' = [skills EXCEPT ![n] = tree]
  BY DEF Plugin!PutBack, Plugin!Goto, Plugin!Tree, Plugin!Todo, Plugin!At, Plugin!Outside,
     Plugin!Bundle, Plugin!Registry
<1>2. ~build.calm
  BY <1>1 DEF BuildInv, CalmInv, CalmRetiring
<1>3. n \in Skills
  BY <1>1, QueueHead DEF BuildInv, TodoInv, Retiring
<1>4. CASE UNCHANGED <<skills, quarantine>>
  BY <1>1, <1>2, <1>4, FailsKeepsBuild DEF Rest
<1>5. CASE skills[n] = 0 /\ quarantine' = quarantine \ {tree} /\ skills' = [skills EXCEPT ![n] = tree]
  <2>1. /\ build' \in BuildRecord /\ SameBuild(build, build') /\ build'.at = "failed" /\ ~build'.calm
    BY <1>1, <1>2, ToStage DEF BuildInv, BuildTypes, Stages
  <2>2. tree \in Nat /\ tree < fresh
    BY <1>3 DEF BuildInv, BuildTypes, BuildRecord
  <2>3. /\ skills' \in [Skills -> Nat] /\ skills'[n] = tree
        /\ \A k \in Skills : k # n => skills'[k] = skills[k]
    BY <1>3, <1>5, <2>2 DEF BuildInv, RegistryTypes
  <2>4. RegistryTypes'
    BY <1>1, <2>2, <2>3 DEF BuildInv, RegistryTypes
  <2>5. OutsideTypes' /\ BundleTypes'
    BY <1>1, <2>1 DEF BuildInv, OutsideTypes, BundleTypes, SameBuild
  <2>6. ASSUME NEW t \in kept PROVE t \in quarantine' \/ \E k \in Skills : skills'[k] = t
    <3>1. t # 0
      BY <2>6 DEF BuildInv, SkillInv
    <3>2. CASE t \in quarantine
      BY <1>3, <1>5, <2>3, <3>2
    <3>3. CASE t \notin quarantine
      <4>1. PICK k \in Skills : skills[k] = t
        BY <3>3 DEF BuildInv, SkillInv
      <4>2. k # n
        BY <1>5, <3>1, <4>1
      <4> QED BY <2>3, <4>1, <4>2
    <3> QED BY <3>2, <3>3
  <2>7. PackageIsLast'
    BY <1>1 DEF BuildInv, BundleInv, PackageIsLast, Ours
  <2> QED BY <1>1, <2>1, <2>4, <2>5, <2>6, <2>7, StoppedKeepsBuild
<1> QED BY <1>1, <1>4, <1>5

(* What is published, file by file.                                      *)
LEMMA StageKeepsBuild == BuildInv /\ Plugin!Stage => BuildInv'
<1> SUFFICES ASSUME BuildInv, Plugin!Stage PROVE BuildInv'
  OBVIOUS
<1>1. /\ build.at = "stage" /\ build' = [build EXCEPT !.at = "target"]
      /\ litter' = litter \union ({Head(build.todo)} \intersect Plugin!Runtime)
      /\ UNCHANGED <<source, output, skills, quarantine, fresh, acts, moments, kept>>
  BY DEF Plugin!Stage, Plugin!Goto, Plugin!Todo, Plugin!At, Plugin!Outside, Plugin!Registry
<1>2. /\ build' \in BuildRecord /\ SameBuild(build, build') /\ build'.at = "target"
      /\ build'.todo = build.todo /\ build'.calm = build.calm
  BY <1>1, ToStage DEF BuildInv, BuildTypes, Stages, Publishing
<1>3. OutsideTypes' /\ RegistryTypes' /\ BundleTypes'
  BY <1>1, <1>2 DEF BuildInv, OutsideTypes, RegistryTypes, BundleTypes, SameBuild
<1>4. TodoInv' /\ BundleInv' /\ SkillInv'
  BY <1>1, <1>2 DEF BuildInv, TodoInv, BundleInv, PackageIsLast, Ours, SkillInv, Retiring, Publishing, SameBuild
<1>5. CalmInv'
  BY <1>1, <1>2 DEF BuildInv, CalmInv, CalmReading, CalmRetiring, CalmPublishing, Retiring, SameBuild
<1>6. Plugin!Running /\ build.at \in Rechecked /\ build'.at \in Rechecked
  BY <1>1, <1>2 DEF Plugin!Running, Plugin!Ended, Rechecked, Publishing
<1> QED BY <1>1, <1>2, <1>3, <1>4, <1>5, <1>6, LateKeepsBuild

LEMMA PublishingList ==
  ASSUME BuildInv, build.at \in Publishing
  PROVE  /\ Queue(OutputNames, build.todo) /\ build.todo # <<>> /\ PackageLast(build.todo)
         /\ Head(build.todo) \in OutputNames /\ Head(build.todo) \in Ran(build.todo)
         /\ Ran(build.todo) = {Head(build.todo)} \union Ran(Tail(build.todo))
         /\ Head(build.todo) \notin Ran(Tail(build.todo))
         /\ Ran(build.todo) \subseteq OutputNames
         /\ Queue(OutputNames, Tail(build.todo)) /\ PackageLast(Tail(build.todo))
         /\ Head(build.todo) = "package" => Ran(build.todo) = {"package"}
<1>1. Queue(OutputNames, build.todo) /\ build.todo # <<>> /\ PackageLast(build.todo)
  BY DEF BuildInv, TodoInv
<1>2. \A q : Queue(OutputNames, q) => Ran(q) \subseteq OutputNames
  BY DEF Queue, Ran
<1> QED BY <1>1, <1>2, QueueHead, PackageStaysLast

LEMMA TargetKeepsBuild == BuildInv /\ Plugin!Target => BuildInv'
<1> SUFFICES ASSUME BuildInv, Plugin!Target PROVE BuildInv'
  OBVIOUS
<1> DEFINE same == output[Head(build.todo)] = build.existing[Head(build.todo)]
<1>1. /\ build.at = "target" /\ UNCHANGED Rest
      /\ build' = [build EXCEPT !.at = IF same THEN "rename" ELSE "failed"]
  BY DEF Plugin!Target, Plugin!Check, Plugin!Goto, Plugin!Todo, Plugin!At, Plugin!Outside,
     Plugin!Bundle, Plugin!Registry, Rest
<1>2. Head(build.todo) \in Ran(build.todo)
  BY <1>1, PublishingList DEF Publishing
<1>3. CASE ~same
  <2>1. ~build.calm
    BY <1>1, <1>2, <1>3 DEF BuildInv, CalmInv, CalmPublishing
  <2> QED BY <1>1, <1>3, <2>1, FailsKeepsBuild
<1>4. CASE same
  <2>1. /\ build' \in BuildRecord /\ SameBuild(build, build') /\ build'.at = "rename"
        /\ build'.todo = build.todo /\ build'.calm = build.calm
    BY <1>1, <1>4, ToStage DEF BuildInv, BuildTypes, Stages, Publishing
  <2>2. TodoInv' /\ BundleInv' /\ SkillInv'
    BY <1>1, <2>1 DEF BuildInv, TodoInv, BundleInv, PackageIsLast, Ours, SkillInv, Retiring, Publishing, SameBuild, Rest
  <2>3. CalmInv'
    BY <1>1, <2>1 DEF BuildInv, CalmInv, CalmReading, CalmRetiring, CalmPublishing, Retiring, SameBuild, Rest
  <2>4. Plugin!Running /\ build.at \in Rechecked /\ build'.at \in Rechecked
    BY <1>1, <2>1 DEF Plugin!Running, Plugin!Ended, Rechecked, Publishing
  <2> QED BY <1>1, <2>1, <2>2, <2>3, <2>4, LateRestKeepsBuild
<1> QED BY <1>3, <1>4

(* A rename puts this build's file where it belongs, the package last.   *)
LEMMA RenamedFile ==
  ASSUME BuildInv, build.at = "rename", Plugin!Renamed, build'.number = build.number,
         NEW h, h = Head(build.todo)
  PROVE  /\ BundleTypes'
         /\ \A o \in OutputNames \ Ran(build.todo) :
              Ours(output'[o], o)
         /\ output'[h].by = build.number
         /\ PackageIsLast'
         /\ \A o \in OutputNames : o # h => output'[o] = output[o]
<1>1. /\ h \in OutputNames /\ h \in Ran(build.todo) /\ "package" \in OutputNames
      /\ h = "package" => Ran(build.todo) = {"package"}
  BY PublishingList DEF Publishing, OutputNames
<1>2. /\ output \in [OutputNames -> BundleFile] /\ build.number \in Nat
      /\ \A o \in OutputNames : output[o].by \in Nat /\ output[o].by <= build.number
  BY DEF BuildInv, BundleTypes, BuildTypes, BuildRecord, BundleFile
<1>3. PICK new \in BundleFile : new.by = build.number /\ output' = [output EXCEPT ![h] = new]
  <2>1. Plugin!SourceOf(h) \in SourceNames
    BY <1>1 DEF Plugin!SourceOf, SourceNames, OutputNames
  <2>2. build.read[Plugin!SourceOf(h)] \in Nat
    BY <2>1 DEF BuildInv, BuildTypes, BuildRecord
  <2>3. Plugin!Planned(h) \in BundleFile /\ Plugin!Planned(h).by = build.number
    BY <1>2, <2>2 DEF Plugin!Planned, BundleFile
  <2> QED BY <2>3 DEF Plugin!Renamed, Plugin!Todo
<1>4. /\ output' \in [OutputNames -> BundleFile] /\ output'[h] = new
      /\ \A o \in OutputNames : o # h => output'[o] = output[o]
  BY <1>1, <1>2, <1>3
<1>5. BundleTypes'
  <2>1. \A o \in OutputNames : output'[o].by <= build.number
    BY <1>2, <1>3, <1>4
  <2>2. litter' \subseteq Plugin!Runtime
    BY DEF Plugin!Renamed, BuildInv, BundleTypes
  <2> QED BY <1>4, <2>1, <2>2 DEF BundleTypes
<1>6. \A o \in OutputNames \ Ran(build.todo) : Ours(output[o], o) /\ o # h
  BY <1>1 DEF BuildInv, BundleInv, Publishing
<1>7. \A o \in OutputNames \ Ran(build.todo) : Ours(output'[o], o)
  BY <1>4, <1>6
<1>8. ASSUME NEW o \in OutputNames
      PROVE  \/ output'[o].foreign \/ output'["package"].foreign
             \/ output'[o].by >= output'["package"].by
             \/ o = "module" /\ output'[o].bytes = 0
  <2>1. CASE h = "package"
    <3>1. o = h \/ Ours(output'[o], o)
      BY <1>1, <1>7, <2>1
    <3> QED BY <1>2, <1>3, <1>4, <2>1, <3>1 DEF Ours
  <2>2. CASE h # "package"
    <3>1. output'["package"] = output["package"] /\ output["package"].by <= build.number
      BY <1>1, <1>2, <1>4, <2>2
    <3>2. CASE o = h
      BY <1>1, <1>2, <1>3, <1>4, <3>1, <3>2
    <3>3. CASE o # h
      BY <1>4, <3>1, <3>3 DEF BuildInv, BundleInv, PackageIsLast
    <3> QED BY <3>2, <3>3
  <2> QED BY <2>1, <2>2
<1> QED BY <1>3, <1>4, <1>5, <1>7, <1>8 DEF PackageIsLast

LEMMA RenameKeepsBuild == BuildInv /\ Plugin!Rename => BuildInv'
<1> SUFFICES ASSUME BuildInv, Plugin!Rename PROVE BuildInv'
  OBVIOUS
<1> PICK h : h = Head(build.todo)
  OBVIOUS
<1>1. /\ build.at = "rename"
      /\ UNCHANGED <<source, skills, quarantine, fresh, acts, moments, kept>>
      /\ \/ /\ build.existing[h].bytes = 0 /\ output[h].bytes # 0
            /\ build' = [build EXCEPT !.at = "failed"] /\ UNCHANGED <<output, litter>>
         \/ build' = [build EXCEPT !.at = "verify"] /\ Plugin!Renamed
  BY DEF Plugin!Rename, Plugin!Goto, Plugin!Todo, Plugin!At, Plugin!Outside, Plugin!Bundle, Plugin!Registry
<1>2. /\ h \in Ran(build.todo) /\ h \in OutputNames /\ h \notin Ran(Tail(build.todo))
      /\ Ran(Tail(build.todo)) \subseteq Ran(build.todo) /\ Ran(build.todo) \subseteq OutputNames
  BY <1>1, PublishingList DEF Publishing
<1>3. build.calm => \A o \in Ran(build.todo) : output[o] = build.existing[o]
  BY <1>1 DEF BuildInv, CalmInv, CalmPublishing
<1>4. CASE /\ build.existing[h].bytes = 0 /\ output[h].bytes # 0
           /\ build' = [build EXCEPT !.at = "failed"] /\ UNCHANGED <<output, litter>>
  <2>1. ~build.calm
    BY <1>2, <1>3, <1>4
  <2> QED BY <1>1, <1>4, <2>1, FailsKeepsBuild DEF Rest
<1>5. CASE build' = [build EXCEPT !.at = "verify"] /\ Plugin!Renamed
  <2>1. /\ build' \in BuildRecord /\ SameBuild(build, build') /\ build'.at = "verify"
        /\ build'.todo = build.todo /\ build'.calm = build.calm
    BY <1>5, ToStage DEF BuildInv, BuildTypes, Stages, Publishing
  <2>2. /\ BundleTypes'
        /\ \A o \in OutputNames \ Ran(build.todo) : Ours(output'[o], o)
        /\ output'[h].by = build.number
        /\ PackageIsLast'
        /\ \A o \in OutputNames : o # h => output'[o] = output[o]
    BY <1>1, <1>5, <2>1, RenamedFile DEF SameBuild
  <2>3. OutsideTypes' /\ RegistryTypes'
    BY <1>1 DEF BuildInv, OutsideTypes, RegistryTypes
  <2>4. BundleInv'
    <3>1. build'.number = build.number /\ build'.todo = build.todo /\ h = Head(build'.todo)
      BY <2>1 DEF SameBuild
    <3> QED BY <2>1, <2>2, <3>1 DEF BundleInv, Ours, Retiring
  <2>5. TodoInv' /\ SkillInv'
    BY <1>1, <2>1 DEF BuildInv, TodoInv, SkillInv, Retiring, Publishing, SameBuild
  <2>6. CalmInv'
    <3> SUFFICES ASSUME build.calm PROVE CalmInv'
      BY <2>1 DEF CalmInv
    <3>1. \A o \in Ran(Tail(build.todo)) : output'[o] = build.existing[o]
      BY <1>2, <1>3, <2>2
    <3> QED BY <2>1, <3>1 DEF CalmInv, CalmReading, CalmRetiring, CalmPublishing, Retiring, SameBuild
  <2>7. Plugin!Running /\ build.at \in Rechecked /\ build'.at \in Rechecked
    BY <1>1, <2>1 DEF Plugin!Running, Plugin!Ended, Rechecked, Publishing
  <2> QED BY <1>1, <2>1, <2>2, <2>3, <2>4, <2>5, <2>6, <2>7, LateKeepsBuild
<1> QED BY <1>1, <1>4, <1>5

LEMMA VerifyKeepsBuild == BuildInv /\ Plugin!Verify => BuildInv'
<1> SUFFICES ASSUME BuildInv, Plugin!Verify PROVE BuildInv'
  OBVIOUS
<1>1. build.at = "verify" /\ UNCHANGED Rest /\ Plugin!Advance("stage", "done", <<>>)
  BY DEF Plugin!Verify, Plugin!At, Plugin!Outside, Plugin!Bundle, Plugin!Registry, Rest
<1>2. /\ Queue(OutputNames, build.todo) /\ build.todo # <<>>
      /\ Ran(build.todo) = {Head(build.todo)} \union Ran(Tail(build.todo))
      /\ Queue(OutputNames, Tail(build.todo)) /\ PackageLast(Tail(build.todo))
  BY <1>1, PublishingList DEF Publishing
<1>3. /\ build' \in BuildRecord /\ SameBuild(build, build') /\ build'.calm = build.calm
      /\ \/ Tail(build.todo) # <<>> /\ build'.at = "stage" /\ build'.todo = Tail(build.todo)
         \/ Ran(Tail(build.todo)) = {} /\ build'.at = "done" /\ build'.todo = <<>>
  <2>1. <<>> \in Seq(SourceNames \union OutputNames \union Skills) /\ build \in BuildRecord
    BY DEF BuildInv, BuildTypes
  <2>2. "stage" \in Stages /\ "done" \in Stages
    BY DEF Stages, Publishing
  <2> QED BY <1>1, <1>2, <2>1, <2>2, Advances
<1>4. TodoInv'
  BY <1>2, <1>3 DEF TodoInv, Retiring, Publishing
<1>5. \A o \in OutputNames \ Ran(Tail(build.todo)) : Ours(output[o], o)
  BY <1>1, <1>2 DEF BuildInv, BundleInv, PackageIsLast, Ours, Publishing
<1>6. BundleInv' /\ SkillInv'
  BY <1>1, <1>3, <1>5 DEF BuildInv, BundleInv, PackageIsLast, Ours, SkillInv, Retiring, Publishing, SameBuild, Rest
<1>7. CalmInv'
  BY <1>1, <1>3 DEF BuildInv, CalmInv, CalmReading, CalmRetiring, CalmPublishing, Retiring, SameBuild, Rest
<1>8. Plugin!Running /\ build.at \in Rechecked /\ build'.at \in Rechecked
  BY <1>1, <1>3 DEF Plugin!Running, Plugin!Ended, Rechecked, Publishing
<1> QED BY <1>1, <1>3, <1>4, <1>6, <1>7, <1>8, LateRestKeepsBuild

(* Others beside it: the build is no longer calm, all else of it stays.  *)
LEMMA UneasyKeepsBuild ==
  ASSUME BuildInv, Plugin!Disturbed, fresh' \in Nat, fresh' >= fresh,
         OutsideTypes', RegistryTypes', BundleTypes', MomentInv', BundleInv', SkillInv'
  PROVE  BuildInv'
<1>1. /\ build' \in BuildRecord /\ SameBuild(build, build') /\ build'.at = build.at
      /\ build'.todo = build.todo /\ ~build'.calm
  BY ToUneasy DEF Plugin!Disturbed, BuildInv, BuildTypes
<1>2. BuildTypes'
  <2>1. /\ \A s \in SourceNames : build.read[s] \in Nat
        /\ \A n \in Skills : build.stale[n] \in Nat
    BY DEF BuildInv, BuildTypes, BuildRecord
  <2>2. /\ fresh \in Nat /\ build.number <= MaxBuilds
        /\ \A s \in SourceNames : build.read[s] < fresh
        /\ \A n \in Skills : build.stale[n] < fresh
    BY DEF BuildInv, BuildTypes, OutsideTypes
  <2>3. /\ \A s \in SourceNames : build'.read[s] < fresh'
        /\ \A n \in Skills : build'.stale[n] < fresh'
    BY <1>1, <2>1, <2>2 DEF SameBuild
  <2> QED BY <1>1, <2>2, <2>3 DEF BuildTypes, SameBuild
<1>3. TodoInv'
  BY <1>1 DEF BuildInv, TodoInv, Listed, SameBuild
<1>4. CalmInv'
  BY <1>1 DEF CalmInv
<1> QED BY <1>2, <1>3, <1>4 DEF BuildInv

LEMMA OneActLess ==
  ASSUME BuildInv, Plugin!Act
  PROVE  acts' \in 0 .. MaxActs
  BY BuildingAssumption DEF BuildInv, OutsideTypes, Plugin!Act

LEMMA NextNumber ==
  ASSUME BuildInv, fresh' = fresh + 1
  PROVE  fresh' \in Nat \ {0} /\ fresh' > fresh /\ fresh' >= fresh /\ fresh \in Nat \ {0}
  BY DEF BuildInv, OutsideTypes

LEMMA EditKeepsBuild ==
  ASSUME BuildInv, NEW s \in SourceNames, Plugin!Edit(s)
  PROVE  BuildInv'
<1>1. /\ Plugin!Act /\ Plugin!Disturbed /\ fresh' = fresh + 1
      /\ moments' = IF Plugin!Running THEN moments \union {source'} ELSE moments
      /\ UNCHANGED <<kept, output, litter, skills, quarantine>>
  BY DEF Plugin!Edit, Plugin!Bundle, Plugin!Registry
<1>2. /\ source \in [SourceNames -> Nat] /\ \A r \in SourceNames : source[r] < fresh
      /\ \A r \in SourceNames : source[r] \in Nat /\ (r # "module" => source[r] # 0)
  BY DEF BuildInv, OutsideTypes
<1>3. PICK new \in {0, fresh} : source' = [source EXCEPT ![s] = new] /\ (s # "module" => new # 0)
  BY <1>1, NextNumber DEF Plugin!Edit
<1>4. /\ source' \in [SourceNames -> Nat] /\ source'[s] = new
      /\ \A r \in SourceNames : r # s => source'[r] = source[r]
  <2>1. new \in Nat
    BY <1>1, <1>3, NextNumber
  <2> QED BY <1>2, <1>3, <2>1
<1>5. /\ fresh' \in Nat \ {0} /\ fresh' > fresh /\ fresh' >= fresh /\ fresh \in Nat \ {0}
  BY <1>1, NextNumber
<1>6. OutsideTypes'
  <2>1. \A r \in SourceNames : source'[r] < fresh' /\ (r # "module" => source'[r] # 0)
    BY <1>2, <1>3, <1>4, <1>5
  <2>2. acts' \in 0 .. MaxActs
    BY <1>1, OneActLess
  <2> QED BY <1>4, <1>5, <2>1, <2>2 DEF OutsideTypes
<1>7. RegistryTypes'
  BY <1>1, <1>5 DEF BuildInv, RegistryTypes
<1>8. /\ SameBuild(build, build') /\ build'.at = build.at /\ build'.todo = build.todo
  BY <1>1, ToUneasy DEF Plugin!Disturbed, BuildInv, BuildTypes
<1>9. BundleTypes' /\ BundleInv' /\ SkillInv'
  BY <1>1, <1>8 DEF BuildInv, BundleTypes, BundleInv, PackageIsLast, Ours, SkillInv, SameBuild
<1>10. MomentInv'
  <2>1. moments \subseteq moments' /\ build'.read = build.read
    BY <1>1, <1>8 DEF SameBuild
  <2>2. Plugin!Running' => source' \in moments'
    BY <1>1, <1>8 DEF Plugin!Running
  <2>3. build.at = "recheck" =>
          \E m \in moments' : \A r \in SourceNames :
            Listed(r) /\ (r \notin Ran(build.todo) \/ (source'[r] = build.read[r] /\ source'[r] # 0)) =>
              m[r] = build.read[r]
    <3> SUFFICES ASSUME build.at = "recheck"
                 PROVE  \E m \in moments' : \A r \in SourceNames :
                   Listed(r) /\ (r \notin Ran(build.todo) \/ (source'[r] = build.read[r] /\ source'[r] # 0)) =>
                     m[r] = build.read[r]
      OBVIOUS
    <3>1. PICK m \in moments : \A r \in SourceNames :
            Listed(r) /\ (r \notin Ran(build.todo) \/ Plugin!Still(r)) => m[r] = build.read[r]
      BY DEF BuildInv, MomentInv
    <3>2. ~(source'[s] = build.read[s] /\ source'[s] # 0)
      <4>1. build.read[s] \in Nat /\ build.read[s] < fresh
        BY DEF BuildInv, BuildTypes, BuildRecord
      <4> QED BY <1>3, <1>4, <1>5, <4>1
    <3> QED BY <1>4, <2>1, <3>1, <3>2 DEF Plugin!Still
  <2>4. build.at \in Rechecked =>
          \E m \in moments' : \A r \in SourceNames : Listed(r) => m[r] = build.read[r]
    BY <2>1 DEF BuildInv, MomentInv
  <2>5. build.at \notin Unlisted /\ ~build.listed => \E m \in moments' : m["module"] = 0
    BY <2>1 DEF BuildInv, MomentInv
  <2>6. build'.listed = build.listed
    BY <1>8 DEF SameBuild
  <2> QED BY <1>8, <2>1, <2>2, <2>3, <2>4, <2>5, <2>6 DEF MomentInv, Listed, Plugin!Still
<1> QED BY <1>1, <1>5, <1>6, <1>7, <1>9, <1>10, UneasyKeepsBuild

LEMMA TouchKeepsBuild ==
  ASSUME BuildInv, NEW o \in OutputNames, Plugin!Touch(o)
  PROVE  BuildInv'
<1>1. /\ Plugin!Act /\ Plugin!Disturbed /\ fresh' = fresh + 1
      /\ output' = [output EXCEPT ![o] = [bytes |-> fresh, by |-> 0, foreign |-> TRUE]]
      /\ UNCHANGED <<source, moments, kept, litter, skills, quarantine>>
  BY DEF Plugin!Touch, Plugin!Registry
<1>2. /\ fresh' \in Nat \ {0} /\ fresh' > fresh /\ fresh' >= fresh /\ fresh \in Nat \ {0}
  BY <1>1, NextNumber
<1>3. PICK f \in BundleFile : f.by = 0 /\ f.foreign /\ output' = [output EXCEPT ![o] = f]
  BY <1>1, <1>2 DEF BundleFile
<1>4. /\ output' \in [OutputNames -> BundleFile] /\ output'[o] = f
      /\ \A p \in OutputNames : p # o => output'[p] = output[p]
  BY <1>3 DEF BuildInv, BundleTypes
<1>5. /\ SameBuild(build, build') /\ build'.at = build.at /\ build'.todo = build.todo
  BY <1>1, ToUneasy DEF Plugin!Disturbed, BuildInv, BuildTypes
<1>6. OutsideTypes' /\ RegistryTypes'
  <2>1. acts' \in 0 .. MaxActs
    BY <1>1, OneActLess
  <2>2. /\ \A r \in SourceNames : source[r] \in Nat /\ source[r] < fresh'
        /\ \A n \in Skills : skills[n] \in Nat /\ skills[n] < fresh'
    BY <1>2 DEF BuildInv, OutsideTypes, RegistryTypes
  <2> QED BY <1>1, <1>2, <2>1, <2>2 DEF BuildInv, OutsideTypes, RegistryTypes
<1>7. BundleTypes'
  <2>1. build.number \in Nat /\ \A p \in OutputNames : output[p].by <= build.number
    BY DEF BuildInv, BundleTypes, BuildTypes, BuildRecord
  <2>2. \A p \in OutputNames : output'[p].by <= build.number
    BY <1>3, <1>4, <2>1
  <2> QED BY <1>1, <1>4, <1>5, <2>2 DEF BuildInv, BundleTypes, SameBuild
<1>8. BundleInv'
  <2>1. \A p \in OutputNames : Ours(output[p], p) => Ours(output'[p], p)
    BY <1>3, <1>4 DEF Ours
  <2>2. build.at = "verify" => Ours(output'[Head(build.todo)], Head(build.todo))
    <3> SUFFICES ASSUME build.at = "verify" PROVE Ours(output'[Head(build.todo)], Head(build.todo))
      OBVIOUS
    <3>1. Head(build.todo) \in OutputNames
      BY PublishingList DEF Publishing
    <3> QED BY <2>1, <3>1 DEF BuildInv, BundleInv
  <2>3. PackageIsLast'
    <3>1. "package" \in OutputNames
      BY DEF OutputNames
    <3> QED BY <1>3, <1>4, <3>1 DEF BuildInv, BundleInv, PackageIsLast
  <2>4. "module" \in OutputNames
    BY DEF OutputNames
  <2> QED BY <1>5, <2>1, <2>2, <2>3, <2>4 DEF BuildInv, BundleInv, Ours, SameBuild
<1>9. SkillInv' /\ MomentInv'
  BY <1>1, <1>5 DEF BuildInv, SkillInv, MomentInv, Listed, Plugin!Still, Plugin!Running, SameBuild
<1> QED BY <1>1, <1>2, <1>6, <1>7, <1>8, <1>9, UneasyKeepsBuild

LEMMA MakeSkillKeepsBuild ==
  ASSUME BuildInv, NEW n \in Skills, Plugin!MakeSkill(n)
  PROVE  BuildInv'
<1>1. /\ Plugin!Act /\ Plugin!Disturbed /\ fresh' = fresh + 1
      /\ skills' = [skills EXCEPT ![n] = fresh] /\ kept' = (kept \ {skills[n]}) \union {fresh}
      /\ UNCHANGED <<source, output, litter, moments, quarantine>>
  BY DEF Plugin!MakeSkill, Plugin!Bundle
<1>2. /\ fresh' \in Nat \ {0} /\ fresh' > fresh /\ fresh' >= fresh /\ fresh \in Nat \ {0}
  BY <1>1, NextNumber
<1>3. /\ skills' \in [Skills -> Nat] /\ skills'[n] = fresh
      /\ \A k \in Skills : k # n => skills'[k] = skills[k]
  BY <1>1, <1>2 DEF BuildInv, RegistryTypes
<1>4. /\ SameBuild(build, build') /\ build'.at = build.at /\ build'.todo = build.todo
  BY <1>1, ToUneasy DEF Plugin!Disturbed, BuildInv, BuildTypes
<1>5. OutsideTypes'
  <2>1. acts' \in 0 .. MaxActs
    BY <1>1, OneActLess
  <2>2. \A r \in SourceNames : source[r] \in Nat /\ source[r] < fresh'
    BY <1>2 DEF BuildInv, OutsideTypes
  <2> QED BY <1>1, <1>2, <2>1, <2>2 DEF BuildInv, OutsideTypes
<1>6. RegistryTypes'
  <2>1. \A k \in Skills : skills[k] \in Nat /\ skills[k] < fresh
    BY DEF BuildInv, RegistryTypes
  <2> QED BY <1>2, <1>3, <2>1 DEF RegistryTypes
<1>7. BundleTypes' /\ BundleInv' /\ MomentInv'
  BY <1>1, <1>4 DEF BuildInv, BundleTypes, BundleInv, PackageIsLast, Ours, MomentInv, Listed, Plugin!Still, Plugin!Running, SameBuild
<1>8. SkillInv'
  <2>1. 0 \notin kept'
    BY <1>1, <1>2 DEF BuildInv, SkillInv
  <2>2. ASSUME NEW t \in kept' PROVE t \in quarantine' \/ \E k \in Skills : skills'[k] = t
    <3>1. CASE t = fresh
      BY <1>3, <3>1
    <3>2. CASE t # fresh
      <4>1. t \in kept /\ t # skills[n]
        BY <1>1, <3>2
      <4> QED BY <1>1, <1>3, <4>1 DEF BuildInv, SkillInv
    <3> QED BY <3>1, <3>2
  <2>3. \A k \in Skills : skills'[k] = build.stale[k] => skills[k] = build.stale[k]
    <3>1. build.stale[n] \in Nat /\ build.stale[n] < fresh
      BY DEF BuildInv, BuildTypes, BuildRecord
    <3>2. skills'[n] # build.stale[n]
      BY <1>2, <1>3, <3>1
    <3> QED BY <1>3, <3>2
  <2>4. build'.at \in Retiring =>
          \A k \in Skills : build'.stale[k] # 0 /\ skills'[k] = build'.stale[k] => k \in Ran(build'.todo)
    BY <1>4, <2>3 DEF BuildInv, SkillInv, SameBuild
  <2>5. build'.at \in Publishing \union {"done"} =>
          \A k \in Skills : build'.stale[k] # 0 => skills'[k] # build'.stale[k]
    BY <1>4, <2>3 DEF BuildInv, SkillInv, SameBuild
  <2> QED BY <2>1, <2>2, <2>4, <2>5 DEF SkillInv
<1> QED BY <1>1, <1>2, <1>5, <1>6, <1>7, <1>8, UneasyKeepsBuild

LEMMA TidyKeepsBuild == BuildInv /\ Plugin!Tidy => BuildInv'
<1> SUFFICES ASSUME BuildInv, Plugin!Tidy PROVE BuildInv'
  OBVIOUS
<1> DEFINE orphan == Plugin!Orphan
<1>1. /\ Plugin!Disturbed /\ litter' = {} /\ build.at \in {"idle", "done", "failed", "killed"}
      /\ output' = IF orphan THEN [output EXCEPT !["module"] = Plugin!NoFile] ELSE output
      /\ UNCHANGED <<source, skills, quarantine, fresh, acts, moments, kept>>
  BY DEF Plugin!Tidy, Plugin!Outside, Plugin!Registry, Plugin!Running, Plugin!Ended
<1> HIDE DEF orphan
<1>2. /\ SameBuild(build, build') /\ build'.at = build.at /\ build'.todo = build.todo
  BY <1>1, ToUneasy DEF Plugin!Disturbed, BuildInv, BuildTypes
<1>3. fresh' \in Nat /\ fresh' >= fresh
  BY <1>1 DEF BuildInv, OutsideTypes
<1>4. OutsideTypes' /\ RegistryTypes'
  BY <1>1 DEF BuildInv, OutsideTypes, RegistryTypes
<1>5. /\ output \in [OutputNames -> BundleFile] /\ build.number \in Nat
      /\ \A o \in OutputNames : output[o].by <= build.number
  BY DEF BuildInv, BundleTypes, BuildTypes, BuildRecord
<1>6. PICK f : f = Plugin!NoFile
  OBVIOUS
<1>7. f \in BundleFile /\ f.by = 0 /\ f.bytes = 0
  BY <1>6 DEF Plugin!NoFile, BundleFile
<1>8. /\ output' \in [OutputNames -> BundleFile] /\ output'["module"] \in {f, output["module"]}
      /\ \A o \in OutputNames : o # "module" => output'[o] = output[o]
  BY <1>1, <1>5, <1>6, <1>7 DEF OutputNames
<1>9. BundleTypes'
  <2>1. \A o \in OutputNames : output'[o].by <= build.number
    BY <1>5, <1>7, <1>8
  <2>2. build'.number = build.number /\ litter' = {}
    BY <1>1, <1>2 DEF SameBuild
  <2> QED BY <1>8, <2>1, <2>2 DEF BundleTypes
<1>10. PackageIsLast'
  <2>1. "package" \in OutputNames /\ "package" # "module"
    BY DEF OutputNames
  <2> QED BY <1>7, <1>8, <2>1 DEF BuildInv, BundleInv, PackageIsLast
<1>11. BundleInv'
  BY <1>1, <1>2, <1>10 DEF BundleInv, Retiring, Publishing
<1>12. MomentInv' /\ SkillInv'
  BY <1>1, <1>2 DEF BuildInv, SkillInv, MomentInv, Listed, Plugin!Still, Plugin!Running, SameBuild
<1> QED BY <1>1, <1>3, <1>4, <1>9, <1>11, <1>12, UneasyKeepsBuild

(* It stops as it is, killed or because a call has failed.               *)
LEMMA StopsKeepsBuild ==
  ASSUME BuildInv, NEW end \in {"failed", "killed"}, Plugin!Quit(end), Plugin!Act,
         UNCHANGED <<source, output, litter, skills, quarantine, fresh, moments, kept>>
  PROVE  BuildInv'
<1>1. /\ build' \in BuildRecord /\ SameBuild(build, build') /\ build'.at = end /\ ~build'.calm
  <2>1. build \in BuildRecord /\ end \in Stages /\ build' = Halted(build, end)
    BY DEF Plugin!Quit, Halted, BuildInv, BuildTypes, Stages
  <2> QED BY <2>1, ToEnd
<1>2. acts' \in 0 .. MaxActs
  BY OneActLess
<1>3. OutsideTypes' /\ RegistryTypes' /\ BundleTypes'
  BY <1>1, <1>2 DEF BuildInv, OutsideTypes, RegistryTypes, BundleTypes, SameBuild
<1>4. /\ PackageIsLast'
      /\ \A t \in kept : t \in quarantine' \/ \E n \in Skills : skills'[n] = t
  BY DEF BuildInv, BundleInv, PackageIsLast, Ours, SkillInv
<1> QED BY <1>1, <1>3, <1>4, StoppedKeepsBuild

LEMMA FaultKeepsBuild == BuildInv /\ Plugin!Fault => BuildInv'
<1> SUFFICES ASSUME BuildInv, Plugin!Fault PROVE BuildInv'
  OBVIOUS
<1>1. /\ Plugin!Running /\ Plugin!Act /\ UNCHANGED <<source, moments, fresh, kept>>
      /\ acts' \in 0 .. MaxActs
  BY OneActLess DEF Plugin!Fault
<1>2. OutsideTypes'
  BY <1>1 DEF BuildInv, OutsideTypes
<1>3. ASSUME NEW end \in {"failed", "undo"}, Plugin!Quit(end)
      PROVE  /\ build' \in BuildRecord /\ SameBuild(build, build') /\ build'.at = end
             /\ build'.todo = build.todo /\ ~build'.calm /\ build'.number = build.number
  <2>1. build \in BuildRecord /\ end \in Stages /\ build' = Halted(build, end)
    BY <1>3 DEF Plugin!Quit, Halted, BuildInv, BuildTypes, Stages, Retiring
  <2> QED BY <2>1, ToEnd DEF SameBuild
<1>4. CASE Plugin!Quit("failed") /\ UNCHANGED <<output, litter, skills, quarantine>>
  BY <1>1, <1>4, StopsKeepsBuild
<1>5. CASE build.at = "postflight" /\ Plugin!Quit("undo") /\ UNCHANGED <<output, litter, skills, quarantine>>
  <2>1. /\ build' \in BuildRecord /\ SameBuild(build, build') /\ build'.at = "undo"
        /\ build'.todo = build.todo /\ ~build'.calm
    BY <1>3, <1>5
  <2>2. RegistryTypes' /\ BundleTypes'
    BY <1>1, <1>5, <2>1 DEF BuildInv, RegistryTypes, BundleTypes, SameBuild
  <2>3. TodoInv' /\ BundleInv' /\ SkillInv' /\ CalmInv'
    BY <1>1, <1>5, <2>1 DEF BuildInv, TodoInv, BundleInv, PackageIsLast, Ours, SkillInv, CalmInv, Retiring, Publishing, SameBuild
  <2>4. build.at \in Rechecked /\ build'.at \in Rechecked
    BY <1>5, <2>1 DEF Rechecked, Retiring
  <2> QED BY <1>1, <1>2, <2>1, <2>2, <2>3, <2>4, LateKeepsBuild
<1>6. CASE /\ build.at = "rename" /\ Plugin!Quit("failed") /\ Plugin!Renamed
           /\ UNCHANGED <<skills, quarantine>>
  <2>1. /\ build' \in BuildRecord /\ SameBuild(build, build') /\ build'.at = "failed"
        /\ ~build'.calm /\ build'.number = build.number
    BY <1>3, <1>6
  <2>2. /\ BundleTypes'
        /\ PackageIsLast'
    BY <1>6, <2>1, RenamedFile
  <2>3. RegistryTypes' /\ \A t \in kept : t \in quarantine' \/ \E n \in Skills : skills'[n] = t
    BY <1>1, <1>6 DEF BuildInv, RegistryTypes, SkillInv
  <2> QED BY <1>1, <1>2, <2>1, <2>2, <2>3, StoppedKeepsBuild
<1>7. CASE /\ build.at = "move" /\ MovesTree(Head(build.todo)) /\ Plugin!Quit("failed")
           /\ UNCHANGED <<output, litter>>
  <2>1. /\ build' \in BuildRecord /\ SameBuild(build, build') /\ build'.at = "failed" /\ ~build'.calm
    BY <1>3, <1>7
  <2>2. Head(build.todo) \in Skills
    BY <1>7, QueueHead DEF BuildInv, TodoInv, Retiring
  <2>3. RegistryTypes' /\ \A t \in kept : t \in quarantine' \/ \E n \in Skills : skills'[n] = t
    BY <1>1, <1>7, <2>2, MovedTrees
  <2>4. /\ BundleTypes'
        /\ PackageIsLast'
    BY <1>7, <2>1 DEF BuildInv, BundleTypes, BundleInv, PackageIsLast, Ours, SameBuild
  <2> QED BY <1>1, <1>2, <2>1, <2>3, <2>4, StoppedKeepsBuild
<1> QED BY <1>4, <1>5, <1>6, <1>7 DEF Plugin!Fault, Plugin!At, Plugin!Todo, Plugin!Bundle, Plugin!Registry, MovesTree

LEMMA KillKeepsBuild == BuildInv /\ Plugin!Kill => BuildInv'
  BY StopsKeepsBuild DEF Plugin!Kill, Plugin!Bundle, Plugin!Registry

LEMMA BuildStep == BuildInv /\ [Plugin!Next]_building => BuildInv'
<1> SUFFICES ASSUME BuildInv, [Plugin!Next]_building PROVE BuildInv'
  OBVIOUS
<1>1. CASE Plugin!Build
  BY <1>1, BeginKeepsBuild, OpenSessionKeepsBuild, ListNamesKeepsBuild, PreflightKeepsBuild, ReadOnceKeepsBuild,
     ReadAgainKeepsBuild, PlanKeepsBuild, RecheckKeepsBuild, AttachedKeepsBuild, RetireKeepsBuild,
     MoveKeepsBuild, PostflightKeepsBuild, UndoKeepsBuild, PutBackKeepsBuild, StageKeepsBuild,
     TargetKeepsBuild, RenameKeepsBuild, VerifyKeepsBuild DEF Plugin!Build
<1>2. CASE Plugin!Others
  BY <1>2, NamesOfTheBuild, EditKeepsBuild, TouchKeepsBuild, MakeSkillKeepsBuild, TidyKeepsBuild,
     KillKeepsBuild, FaultKeepsBuild DEF Plugin!Others
<1>3. CASE UNCHANGED building
  BY <1>3 DEF building, BuildInv, OutsideTypes, RegistryTypes, BundleTypes, BuildTypes, TodoInv,
     MomentInv, Listed, BundleInv, PackageIsLast, Ours, SkillInv, CalmInv, CalmReading, CalmRetiring, CalmPublishing,
     Plugin!Running, Plugin!Still, Plugin!InTheWay, Plugin!Orphan
<1> QED BY <1>1, <1>2, <1>3 DEF Plugin!Next

LEMMA BuildInvMeans ==
  BuildInv => Plugin!BundleIsSound /\ Plugin!SkillsAreKept /\ Plugin!RetryHeals
<1> SUFFICES ASSUME BuildInv PROVE Plugin!BundleIsSound /\ Plugin!SkillsAreKept /\ Plugin!RetryHeals
  OBVIOUS
<1>1. Plugin!TypeOK
  <2>1. build.at \in Stages /\ build.number \in Nat /\ build.number <= MaxBuilds
    BY DEF BuildInv, BuildTypes, BuildRecord
  <2> QED BY <2>1, BuildingAssumption DEF BuildInv, OutsideTypes, BundleTypes, Plugin!TypeOK,
             Plugin!Ended, Stages, Retiring, Publishing
<1>2. Plugin!BundleIsSound
  <2>1. build.listed \in BOOLEAN
    BY DEF BuildInv, BuildTypes, BuildRecord
  <2>2. \A s \in SourceNames : Listed(s) <=> s \in Plugin!ToSet(Plugin!Sources(build.listed))
    BY <2>1, NamesOfTheBuild DEF Listed
  <2>3. build.at \in Publishing \union {"done"} =>
          \E m \in moments : \A s \in SourceNames :
            \/ m[s] = build.read[s]
            \/ ~Listed(s) /\ \E earlier \in moments : earlier[s] = 0
    BY DEF BuildInv, MomentInv, Listed, Unlisted, Rechecked, Publishing
  <2> QED BY <1>1, <2>2, <2>3, NamesOfTheBuild DEF BuildInv, BundleInv, PackageIsLast, Publishing,
             Plugin!BundleIsSound
<1>3. Plugin!SkillsAreKept
  <2>1. DOMAIN skills = Skills
    BY DEF BuildInv, RegistryTypes
  <2>2. kept \subseteq Plugin!Range(skills) \union quarantine
    BY <2>1 DEF BuildInv, SkillInv, Plugin!Range
  <2> QED BY <2>2 DEF BuildInv, SkillInv, Plugin!SkillsAreKept, Plugin!At, Plugin!Tree
<1>4. Plugin!RetryHeals
  BY DEF BuildInv, CalmInv, Plugin!RetryHeals, Plugin!At
<1> QED BY <1>2, <1>3, <1>4

-----------------------------------------------------------------------------
(* THE PARTS TOGETHER.                                                   *)
AllInv == WatchInv /\ (part = "evidence" => ClaimInv) /\ BuildInv

LEMMA AllInitInv == AllInit => AllInv
<1>1. AllInit => Init /\ (part = "evidence" => Claiming!Init) /\ Plugin!Init
  BY DEF AllInit, CiIdle, BuildingIdle
<1> QED BY <1>1, WatchInitInv, ClaimInitInv, BuildInitInv DEF AllInv

LEMMA AllStep == AllInv /\ [AllNext]_<<part, vars, claiming, editing, building>> => AllInv'
<1> SUFFICES ASSUME AllInv, [AllNext]_<<part, vars, claiming, editing, building>> PROVE AllInv'
  OBVIOUS
<1>1. /\ UNCHANGED part /\ [Next]_vars /\ (part = "evidence" => [Claiming!Next]_claiming)
      /\ [Plugin!Next]_building
  BY DEF AllNext
<1>2. WatchInv'
  BY <1>1, WatchStepInv DEF AllInv
<1>3. (part = "evidence" => ClaimInv)'
  BY <1>1, ClaimStep DEF AllInv
<1>4. BuildInv'
  BY <1>1, BuildStep DEF AllInv
<1> QED BY <1>2, <1>3, <1>4 DEF AllInv

(* VerdictIsEarned beside the other parts.                               *)
THEOREM VerdictStaysEarned == AllSpec => []VerdictIsEarned
<1>1. AllInv => VerdictIsEarned
  BY DEF AllInv, WatchInv
<1> QED BY <1>1, AllInitInv, AllStep, PTL DEF AllSpec

(* EvidenceHolds: what else is pushed, landed, edited or checked out     *)
(* meanwhile makes check-pr --pr neither accept a false claim nor refuse *)
(* a true one, and a line stdd evidence drafted passes.                  *)
THEOREM EvidenceStaysTrue == AllSpec => []EvidenceHolds
<1>1. AllInv => EvidenceHolds
  BY ClaimInvMeans DEF AllInv, EvidenceHolds
<1> QED BY <1>1, AllInitInv, AllStep, PTL DEF AllSpec

(* BundleIsSound: however others write, make and remove sources while    *)
(* they are listed, read and looked at again, what a build publishes is  *)
(* the listed ones as they were at one moment; one beyond the list came  *)
(* while it ran; and wherever builds are killed or fail, the package     *)
(* file is from no later build than any file beside it.                  *)
THEOREM BundleStaysSound == AllSpec => []BundleIsSound
<1>1. AllInv => BundleIsSound
  BY BuildInvMeans DEF AllInv, BundleIsSound
<1> QED BY <1>1, AllInitInv, AllStep, PTL DEF AllSpec

(* BuildsRecover: no tree of a user is lost on its way to quarantine and *)
(* back, a build that is done has retired all it found, and one nobody   *)
(* disturbs fails only on what lies beside its files.                    *)
THEOREM BuildsAlwaysRecover == AllSpec => []BuildsRecover
<1>1. AllInv => BuildsRecover
  BY BuildInvMeans DEF AllInv, BuildsRecover
<1> QED BY <1>1, AllInitInv, AllStep, PTL DEF AllSpec
=============================================================================
