------------------------- MODULE NativeSession_proofs -------------------------
(***************************************************************************)
(* Proofs about NativeSession: what a caller is told of a request is what*)
(* the helper did, for any number of requests, faults and races, on Unix *)
(* and on Windows.                                                       *)
(***************************************************************************)
EXTENDS NativeSession, TLAPS

-----------------------------------------------------------------------------
(* THE INVARIANT.  Requests are numbered in the order they are made; each*)
(* is queued, sent, served and answered at most once.                    *)
Distinct(s) == \A j, k \in 1..Len(s) : s[j] = s[k] => j = k

Queued == Range(queue)
Sent == Called \ Queued
AtHelper == Range(inbox) \union {serving}

Tracked ==
  /\ \E n \in 0..MaxRequests : Called = 1..n
  /\ Distinct(queue) /\ Distinct(inbox) /\ serving \notin Range(inbox)
  /\ Queued \subseteq Waiting
  /\ \A i \in Ids : out[i] # None => i \in Called
  /\ pending # None => pending \in Waiting \ Queued
  /\ AtHelper \subseteq Sent \union {None}

(* Nothing was done for a request that was not sent, or not taken up.    *)
Fresh == \A i \in Ids : i \notin Sent \/ i \in Range(inbox) => ~did[i] /\ took[i] = None

(* What a word says of a request.                                        *)
SaysTrue(i, word) ==
  /\ op[i] \in Mutating => /\ word = "none" => ~did[i]
                           /\ word \in {"ok", "committed"} => did[i]
  /\ word = "ok" /\ (op[i] \in Renaming \union {"read-link"} \/ Prepares(i)) => took[i] = Expected(i)

(* A line about a request that waits says what was done, and the helper  *)
(* has done with it.                                                     *)
LineIsTrue(line) ==
  line.id \in Ids =>
    /\ line.id \in Sent
    /\ out[line.id] = None => line.id \notin AtHelper /\ SaysTrue(line.id, line.word)

LinesAreTrue == \A line \in Range(pipe) : LineIsTrue(line)

(* What a caller was told is as true, and stays so: what may yet be done *)
(* is neither "ok" nor, if it changes anything, "none".                  *)
MayBeTold(i, word) ==
  /\ SaysTrue(i, word)
  /\ word = "ok" \/ (word = "none" /\ op[i] \in Mutating) => i \notin AtHelper

ToldIsTrue == \A i \in Called : out[i] # None => MayBeTold(i, out[i])

(* What the helper has done at each step of a request, and what it finds *)
(* at the end: the inode it took, or what another process put there.     *)
AtWork ==
  serving # None =>
    /\ step \in {"check", "recheck", "syscall"} /\ (step = "check" \/ op[serving] \in Renaming) => ~did[serving]
    /\ step # "check" /\ op[serving] \in Creating => did[serving]
    /\ step \in {"stage", "recheck", "syscall"} /\ op[serving] \in Creating => Prepares(serving)
    /\ step = "post" =>
         /\ op[serving] \in Renaming => did[serving]
         /\ op[serving] \in Renaming \/ Prepares(serving) => dir[To] \in {None, Foreign, took[serving]}
         /\ op[serving] = "read-link" => dir[From] \in {None, Foreign, took[serving]}

(* On Windows only the request's own inode is ever taken.                *)
TakesItsOwn == ~Unix => \A i \in Ids : took[i] \in {None, Expected(i)}

(* Nothing but what the caller held, or another's, is ever at "from"; the*)
(* name under which a request prepares its creation is its own.          *)
NamesHold ==
  /\ dir[From] \in {None, Foreign, Held}
  /\ \A i \in Ids : dir[Temporary(i)] # None => did[i]

(* The program that was started is the shipped one, when the path still  *)
(* leads to it; nothing is asked before that, and nothing lives after the*)
(* end.                                                                  *)
Started ==
  /\ phase = "attach" /\ package = "shipped" => running = "shipped"
  /\ phase \in {"hello", "ready"} => running = "shipped"
  /\ phase # "ready" =>
       queue = <<>> /\ pending = None /\ inbox = <<>> /\ serving = None /\ pipe = <<>> /\ shutdown = "no"
  /\ shutdown = "done" => ~alive

IInv ==
  /\ TypeOK /\ Tracked /\ Fresh /\ LinesAreTrue /\ ToldIsTrue
  /\ AtWork /\ TakesItsOwn /\ NamesHold /\ Started

-----------------------------------------------------------------------------
(* SEQUENCES AND NAMES.                                                  *)
LEMMA Appended ==
  ASSUME NEW S, NEW s \in Seq(S), NEW e \in S
  PROVE  /\ Append(s, e) \in Seq(S)
         /\ Range(Append(s, e)) = Range(s) \union {e}
         /\ Distinct(s) /\ e \notin Range(s) => Distinct(Append(s, e))
<1>1. /\ Append(s, e) \in Seq(S) /\ Len(Append(s, e)) = Len(s) + 1 /\ Len(s) \in Nat
      /\ DOMAIN s = 1..Len(s) /\ DOMAIN Append(s, e) = 1..(Len(s) + 1)
      /\ \A k \in 1..Len(s) : Append(s, e)[k] = s[k]
      /\ Append(s, e)[Len(s) + 1] = e
  OBVIOUS
<1>2. Range(Append(s, e)) = Range(s) \union {e}
  BY <1>1 DEF Range
<1>3. Distinct(s) /\ e \notin Range(s) => Distinct(Append(s, e))
  BY <1>1 DEF Range, Distinct
<1> QED BY <1>1, <1>2, <1>3

LEMMA Shortened ==
  ASSUME NEW S, NEW s \in Seq(S), s # <<>>
  PROVE  /\ Tail(s) \in Seq(S) /\ Head(s) \in S /\ Head(s) \in Range(s)
         /\ Range(Tail(s)) \subseteq Range(s)
         /\ Distinct(s) => Distinct(Tail(s)) /\ Range(Tail(s)) = Range(s) \ {Head(s)}
<1>1. /\ Len(s) \in Nat /\ Len(s) > 0 /\ Tail(s) \in Seq(S) /\ Len(Tail(s)) = Len(s) - 1
      /\ DOMAIN s = 1..Len(s) /\ DOMAIN Tail(s) = 1..(Len(s) - 1)
      /\ \A k \in 1..(Len(s) - 1) : Tail(s)[k] = s[k + 1]
      /\ Head(s) = s[1] /\ s[1] \in S
  OBVIOUS
<1>2. Head(s) \in Range(s) /\ Range(Tail(s)) \subseteq Range(s)
  BY <1>1 DEF Range
<1>3. ASSUME Distinct(s) PROVE Distinct(Tail(s)) /\ Range(Tail(s)) = Range(s) \ {Head(s)}
  <2>1. Distinct(Tail(s))
    <3>1. SUFFICES ASSUME NEW j \in 1..(Len(s) - 1), NEW k \in 1..(Len(s) - 1), Tail(s)[j] = Tail(s)[k]
                   PROVE  j = k
      BY <1>1 DEF Distinct
    <3>2. s[j + 1] = s[k + 1] /\ j + 1 \in 1..Len(s) /\ k + 1 \in 1..Len(s)
      BY <1>1, <3>1
    <3> QED BY <1>3, <3>2 DEF Distinct
  <2>2. Head(s) \notin Range(Tail(s))
    <3>1. SUFFICES ASSUME NEW k \in 1..(Len(s) - 1), Tail(s)[k] = s[1] PROVE FALSE
      BY <1>1 DEF Range
    <3>2. s[k + 1] = s[1] /\ k + 1 \in 1..Len(s) /\ 1 \in 1..Len(s)
      BY <1>1, <3>1
    <3> QED BY <1>3, <3>2 DEF Distinct
  <2>3. ASSUME NEW k \in 1..Len(s), s[k] # s[1] PROVE s[k] \in Range(Tail(s))
    <3>1. k - 1 \in 1..(Len(s) - 1) /\ Tail(s)[k - 1] = s[k]
      BY <1>1, <2>3
    <3> QED BY <1>1, <3>1 DEF Range
  <2>4. Range(s) = {s[k] : k \in 1..Len(s)}
    BY <1>1 DEF Range
  <2> QED BY <1>1, <1>2, <2>1, <2>2, <2>3, <2>4
<1> QED BY <1>1, <1>2, <1>3

LEMMA Later ==
  ASSUME NEW S, NEW s \in Seq(S), NEW k \in 1..Len(s)
  PROVE  /\ SubSeq(s, k + 1, Len(s)) \in Seq(S)
         /\ Range(SubSeq(s, k + 1, Len(s))) \subseteq Range(s)
<1> DEFINE r == SubSeq(s, k + 1, Len(s))
<1>1. /\ r \in Seq(S) /\ DOMAIN r = 1..(Len(s) - k) /\ Len(s) \in Nat /\ DOMAIN s = 1..Len(s)
      /\ \A j \in 1..(Len(s) - k) : r[j] = s[k + j] /\ k + j \in 1..Len(s)
  OBVIOUS
<1> HIDE DEF r
<1>2. Range(r) \subseteq Range(s)
  BY <1>1 DEF Range
<1> QED BY <1>1, <1>2 DEF r

LEMMA NamesDiffer ==
  /\ From # To /\ From \in Names /\ To \in Names
  /\ \A i \in Ids : Temporary(i) \in Names /\ Temporary(i) # From /\ Temporary(i) # To
  /\ \A i, j \in Ids : Temporary(i) = Temporary(j) => i = j
BY DEF From, To, Temporary, Names

LEMMA InodesDiffer ==
  /\ Held \in Inodes /\ Old \in Inodes /\ Foreign \in Inodes
  /\ Held # Foreign /\ Held # None /\ Foreign # None
  /\ \A i \in Ids : Made(i) \in Inodes /\ Made(i) # Foreign /\ Made(i) # Held /\ Made(i) # None
  /\ \A i \in Ids : Expected(i) \in Inodes /\ Expected(i) # Foreign /\ Expected(i) # None
<1>1. /\ Held \in Inodes /\ Old \in Inodes /\ Foreign \in Inodes /\ Held # Foreign
      /\ \A i \in Ids : Made(i) \in Inodes /\ Made(i) # Foreign /\ Made(i) # Held
  BY DEF Held, Old, Foreign, Made, Inodes
<1> QED BY <1>1, NothingAssumption DEF Expected

LEMMA NothingIsNone ==
  /\ None \notin Ids /\ None \notin Ops /\ None \notin Words /\ None \notin Inodes
  /\ Mutating \subseteq Ops /\ Creating \subseteq Ops /\ Renaming \subseteq Ops
BY NothingAssumption DEF Ops, Mutating

-----------------------------------------------------------------------------
(* THE INITIAL STATE, and what the session does.                         *)
Core ==
  /\ Tracked /\ Fresh /\ LinesAreTrue /\ ToldIsTrue
  /\ AtWork /\ TakesItsOwn /\ NamesHold

LEMMA InitInv == Init => IInv
<1> SUFFICES ASSUME Init PROVE IInv
  OBVIOUS
<1>1. Called = {} /\ Range(queue) = {} /\ Range(inbox) = {} /\ Range(pipe) = {}
  BY DEF Init, HelperInit, Called, Range
<1>2. TypeOK
  <2>1. target \in Inodes \union {None} /\ dir \in [Names -> Inodes \union {None}]
    BY InodesDiffer DEF Init, HelperInit
  <2>2. /\ op \in [Ids -> Ops \union {None}] /\ out \in [Ids -> Words \union {None}]
        /\ did \in [Ids -> BOOLEAN] /\ took \in [Ids -> Inodes \union {None}]
    BY DEF Init, HelperInit
  <2>3. inbox \in Seq(Ids) /\ pipe \in Seq(Line) /\ queue \in Seq(Ids)
    BY DEF Init, HelperInit
  <2> QED BY <2>1, <2>2, <2>3 DEF Init, HelperInit, TypeOK, HelperTypeOK
<1>3. Tracked
  <2>1. Called = 1..0 /\ 0 \in 0..MaxRequests
    BY <1>1, FsHelperAssumption
  <2>2. Distinct(queue) /\ Distinct(inbox)
    BY DEF Init, HelperInit, Distinct
  <2> QED BY <1>1, <2>1, <2>2 DEF Init, HelperInit, Tracked, Queued, Sent, AtHelper, Waiting
<1>4. Fresh /\ LinesAreTrue /\ ToldIsTrue /\ AtWork /\ TakesItsOwn
  BY <1>1 DEF Init, HelperInit, Fresh, LinesAreTrue, ToldIsTrue, AtWork, TakesItsOwn
<1>5. NamesHold
  BY NamesDiffer DEF Init, HelperInit, NamesHold
<1>6. Started
  BY DEF Init, HelperInit, Started
<1> QED BY <1>2, <1>3, <1>4, <1>5, <1>6 DEF IInv

(* The session may read lines, settle the request it awaits with a word  *)
(* that is true of it, and lose the helper.                              *)
Talk ==
  /\ UNCHANGED <<op, queue, names, record>>
  /\ UNCHANGED <<inbox, serving, step>> \/ (inbox' = <<>> /\ serving' = None)
  /\ pipe' \in Seq(Line) /\ \A line \in Range(pipe') : LineIsTrue(line)
  /\ \/ UNCHANGED out /\ pending' \in {None, pending}
     \/ /\ pending # None /\ pending' = None
        /\ \E word \in Words : MayBeTold(pending, word) /\ out' = [out EXCEPT ![pending] = word]

LEMMA TalkKeeps == IInv /\ Talk => Core' /\ out' \in [Ids -> Words \union {None}]
<1> SUFFICES ASSUME IInv, Talk PROVE Core' /\ out' \in [Ids -> Words \union {None}]
  OBVIOUS
<1>1. /\ UNCHANGED <<op, queue, dir, target, platform, did, took>>
      /\ Called' = Called /\ Queued' = Queued /\ Sent' = Sent
      /\ Range(inbox') \subseteq Range(inbox) /\ AtHelper' \subseteq AtHelper \union {None}
      /\ serving' \in {serving, None} /\ Distinct(inbox')
  BY DEF IInv, Tracked, Talk, names, record, Called, Queued, Sent, AtHelper, Range, Distinct
<1>2. /\ out' \in [Ids -> Words \union {None}] /\ out \in [Ids -> Words \union {None}]
      /\ \A i \in Ids : out'[i] # out[i] => /\ i = pending /\ pending' = None /\ out[i] = None
                                            /\ out'[i] # None /\ MayBeTold(i, out'[i])
      /\ pending' \in {None, pending} /\ (pending' # None => out' = out)
  BY NothingIsNone DEF IInv, TypeOK, Tracked, Waiting, Talk
<1>3. \A i : Expected(i)' = Expected(i) /\ (Prepares(i)' <=> Prepares(i))
  BY <1>1 DEF Expected, Prepares, Unix
<1>4. \A i, word : SaysTrue(i, word)' <=> SaysTrue(i, word)
  BY <1>1, <1>3 DEF SaysTrue
<1>5. Tracked'
  <2>1. \A i \in Queued : i # pending
    BY NothingIsNone DEF IInv, Tracked, Waiting, Called
  <2>2. Queued \subseteq Waiting'
    BY <1>1, <1>2, <2>1 DEF IInv, Tracked, Waiting, Called
  <2>3. \A i \in Ids : out'[i] # None => i \in Called
    BY <1>2, NothingIsNone DEF IInv, Tracked, Waiting
  <2>4. pending' # None => pending' \in Waiting' \ Queued
    BY <1>1, <1>2 DEF IInv, Tracked, Waiting
  <2>5. serving' \notin Range(inbox')
    BY <1>1, NothingIsNone DEF IInv, TypeOK, HelperTypeOK, Tracked, Range, Talk
  <2> QED BY <1>1, <2>2, <2>3, <2>4, <2>5 DEF IInv, Tracked
<1>6. Fresh'
  BY <1>1 DEF IInv, Fresh
<1>7. LinesAreTrue'
  <2>1. ASSUME NEW line \in Range(pipe'), line.id \in Ids PROVE LineIsTrue(line)'
    <3>1. LineIsTrue(line)
      BY <2>1 DEF Talk
    <3> QED BY <1>1, <1>2, <1>4, <2>1, <3>1, NothingIsNone DEF LineIsTrue
  <2> QED BY <2>1 DEF LinesAreTrue, LineIsTrue
<1>8. ToldIsTrue'
  <2>1. ASSUME NEW i \in Called, out'[i] # None PROVE MayBeTold(i, out'[i])
    BY <1>2, <2>1 DEF IInv, ToldIsTrue, Called
  <2>2. \A i \in Ids : \A word : MayBeTold(i, word) => MayBeTold(i, word)'
    BY <1>1, <1>4, NothingIsNone DEF MayBeTold
  <2> QED BY <1>1, <2>1, <2>2 DEF ToldIsTrue, Called
<1>9. AtWork'
  BY <1>1, <1>3 DEF IInv, AtWork, Talk
<1>10. TakesItsOwn' /\ NamesHold'
  BY <1>1, <1>3 DEF IInv, TakesItsOwn, NamesHold, Unix
<1> QED BY <1>2, <1>5, <1>6, <1>7, <1>8, <1>9, <1>10 DEF Core

(* The start of the session, and the upgrade that may come in between.   *)
Starting == Inspect \/ Attached \/ Spawn \/ Reattached \/ Hello \/ Upgrade

LEMMA StartingKeeps == IInv /\ Starting => IInv'
<1> SUFFICES ASSUME IInv, Starting PROVE IInv'
  OBVIOUS
<1>1. /\ UNCHANGED <<op, queue, pending, failure, closed, shutdown, out, inbox, serving, step, pipe, names, record>>
      /\ phase \in {"inspect", "verified", "spawn", "attach", "hello"}
  BY DEF Starting, Inspect, Attached, Spawn, Reattached, Hello, Upgrade, Proceed, Unstarted, session,
         start, budget, helper
<1>2. Talk
  BY <1>1 DEF IInv, TypeOK, HelperTypeOK, LinesAreTrue, Talk
<1>3. /\ phase' \in {"inspect", "verified", "spawn", "attach", "hello", "ready", "refused"}
      /\ package' \in {"shipped", "other"} /\ running' \in {"shipped", "other", None} /\ alive' \in BOOLEAN
  BY DEF IInv, TypeOK, HelperTypeOK, Starting, Inspect, Attached, Spawn, Reattached, Hello, Upgrade,
         Proceed, Unstarted, session, start, helper
<1>4. TypeOK'
  BY <1>1, <1>3 DEF IInv, TypeOK, HelperTypeOK, names, record
<1>5. Started'
  <2>1. phase' = "attach" /\ package' = "shipped" => running' = "shipped"
    BY DEF IInv, Started, Starting, Inspect, Attached, Spawn, Reattached, Hello, Upgrade, Proceed,
           Unstarted
  <2>2. phase' \in {"hello", "ready"} => running' = "shipped"
    BY DEF IInv, Started, Starting, Inspect, Attached, Spawn, Reattached, Hello, Upgrade, Proceed,
           Unstarted
  <2> QED BY <1>1, <2>1, <2>2 DEF IInv, Started
<1> QED BY <1>2, <1>4, <1>5, TalkKeeps DEF IInv, Core

(* Once ready, nothing of the start changes.                             *)
LEMMA StartedKeeps ==
  ASSUME IInv, phase = "ready", UNCHANGED start, shutdown' = "done" => ~alive'
  PROVE  Started'
BY DEF IInv, Started, start

(* What says that there is a session to speak of.                        *)
LEMMA ReadyWhen ==
  IInv /\ (queue # <<>> \/ pending # None \/ inbox # <<>> \/ serving # None \/ pipe # <<>> \/ shutdown # "no")
    => phase = "ready"
BY DEF IInv, Started

LEMMA FailIsTalk ==
  ASSUME IInv, Fail, UNCHANGED <<op, queue, inbox, serving, step, names, record>>,
         pipe' \in Seq(Line), Range(pipe') \subseteq Range(pipe)
  PROVE  /\ Talk /\ pending' \in Ids \union {None} /\ failure' \in {None, "none", "possible"}
         /\ shutdown' \in {"no", "term", "kill", "done"} /\ (shutdown' = "done" => shutdown = "done")
<1>1. \A word \in {Unknown(pending)} : word \in Words /\ (pending # None => MayBeTold(pending, word))
  BY DEF Unknown, Words, MayBeTold, SaysTrue
<1>2. \A line \in Range(pipe') : LineIsTrue(line)
  BY DEF IInv, LinesAreTrue
<1>3. Talk
  BY <1>1, <1>2 DEF Fail, Settle, Talk
<1> QED BY <1>3 DEF IInv, TypeOK, Fail, Unknown, Begin

LEMMA OnDataKeeps == IInv /\ OnData => IInv'
<1> SUFFICES ASSUME IInv, OnData PROVE IInv'
  OBVIOUS
<1>1. PICK k \in 1..Len(pipe) :
        /\ pipe' = SubSeq(pipe, k + 1, Len(pipe))
        /\ IF failure # None \/ closed THEN UNCHANGED <<out, pending, failure, shutdown>>
           ELSE IF pending = None THEN Fail
           ELSE /\ pending' = None
                /\ Settle(pending, IF Accepts(Head(pipe)) THEN Head(pipe).word ELSE Unknown(pending))
                /\ IF Accepts(Head(pipe)) /\ k = 1 THEN UNCHANGED <<failure, shutdown>>
                   ELSE failure' = "none" /\ Begin
  BY DEF OnData
<1>2. /\ UNCHANGED <<op, queue, closed, start, alive, inbox, serving, step, names, record>>
      /\ pipe \in Seq(Line) /\ pipe # <<>>
  BY DEF OnData, helper, IInv, TypeOK, HelperTypeOK
<1>3. pipe' \in Seq(Line) /\ Range(pipe') \subseteq Range(pipe)
  BY <1>1, <1>2, Later
<1>4. Head(pipe) \in Range(pipe) /\ Head(pipe) \in Line
  BY <1>2, Shortened
<1>5. \A line \in Range(pipe') : LineIsTrue(line)
  BY <1>3 DEF IInv, LinesAreTrue
<1> DEFINE word == IF Accepts(Head(pipe)) THEN Head(pipe).word ELSE Unknown(pending)
<1>6. pending # None => word \in Words /\ MayBeTold(pending, word)
  <2> SUFFICES ASSUME pending # None PROVE word \in Words /\ MayBeTold(pending, word)
    OBVIOUS
  <2>1. pending \in Ids /\ out[pending] = None
    BY DEF IInv, Tracked, Waiting, Called
  <2>2. CASE Accepts(Head(pipe))
    <3>1. Head(pipe).id = pending /\ Head(pipe).word \in Words
      BY <1>4, <2>2 DEF Accepts, Line
    <3>2. LineIsTrue(Head(pipe))
      BY <1>4 DEF IInv, LinesAreTrue
    <3> QED BY <2>1, <2>2, <3>1, <3>2 DEF LineIsTrue, MayBeTold
  <2>3. CASE ~Accepts(Head(pipe))
    BY <2>3 DEF Unknown, Words, MayBeTold, SaysTrue
  <2> QED BY <2>2, <2>3
<1> HIDE DEF word
<1>7. /\ Talk /\ pending' \in Ids \union {None} /\ failure' \in {None, "none", "possible"}
      /\ shutdown' \in {"no", "term", "kill", "done"} /\ (shutdown' = "done" => shutdown = "done")
  <2>1. CASE failure # None \/ closed
    BY <1>1, <1>2, <1>3, <1>5, <2>1 DEF Talk, IInv, TypeOK
  <2>2. CASE ~(failure # None \/ closed) /\ pending = None
    <3>1. Fail
      BY <1>1, <2>2
    <3> QED BY <1>2, <1>3, <3>1, FailIsTalk
  <2>3. CASE ~(failure # None \/ closed) /\ pending # None
    <3>1. pending' = None /\ out' = [out EXCEPT ![pending] = word]
      BY <1>1, <2>3 DEF Settle, word
    <3>2. \/ UNCHANGED <<failure, shutdown>>
          \/ failure' = "none" /\ shutdown' = (IF shutdown = "no" THEN "term" ELSE shutdown)
      BY <1>1, <2>3 DEF Begin
    <3>3. Talk
      BY <1>2, <1>3, <1>5, <1>6, <2>3, <3>1 DEF Talk
    <3> QED BY <3>1, <3>2, <3>3 DEF IInv, TypeOK
  <2> QED BY <2>1, <2>2, <2>3
<1>8. Core' /\ out' \in [Ids -> Words \union {None}]
  BY <1>7, TalkKeeps
<1>9. TypeOK'
  BY <1>2, <1>3, <1>7, <1>8 DEF IInv, TypeOK, HelperTypeOK, start, names, record
<1>10. Started'
  BY <1>2, <1>7, ReadyWhen, StartedKeeps DEF IInv, Started
<1> QED BY <1>8, <1>9, <1>10 DEF IInv, Core

(* What ends the session: a failure, a timer, the caller, the signals.   *)
LEMMA EndingKeeps ==
  ASSUME IInv, TransportFails \/ Timeout \/ Close \/ ShutdownTerm \/ ShutdownKill \/ HelperExits
  PROVE  IInv'
<1>1. /\ UNCHANGED <<op, queue, pipe, start, names, record>>
      /\ UNCHANGED <<alive, inbox, serving, step>> \/ (alive' = FALSE /\ inbox' = <<>> /\ serving' = None /\ step' = "idle")
      /\ closed' \in {closed, TRUE}
  BY DEF TransportFails, Timeout, Close, ShutdownTerm, ShutdownKill, HelperExits, helper, session, start
<1>2. /\ Talk /\ pending' \in Ids \union {None} /\ failure' \in {None, "none", "possible"}
      /\ shutdown' \in {"no", "term", "kill", "done"} /\ (shutdown' = "done" => ~alive')
  <2>1. CASE TransportFails \/ Timeout
    <3>1. Fail /\ UNCHANGED <<alive, inbox, serving, step>>
      BY <2>1 DEF TransportFails, Timeout, helper
    <3> QED BY <1>1, <3>1, FailIsTalk DEF IInv, TypeOK, HelperTypeOK, Started
  <2>2. CASE Close
    <3>1. pending # None => MayBeTold(pending, "none")
      BY <2>2 DEF IInv, Tracked, Close, MayClose, MayBeTold, SaysTrue
    <3> QED BY <1>1, <2>2, <3>1
            DEF IInv, TypeOK, HelperTypeOK, LinesAreTrue, Started, Close, Settle, Begin, Talk, Words, helper
  <2>3. CASE ShutdownTerm \/ ShutdownKill \/ HelperExits
    BY <1>1, <2>3 DEF IInv, TypeOK, HelperTypeOK, LinesAreTrue, Started, ShutdownTerm, ShutdownKill,
                      HelperExits, Talk, helper, session
  <2> QED BY <2>1, <2>2, <2>3
<1>3. Core' /\ out' \in [Ids -> Words \union {None}]
  BY <1>2, TalkKeeps
<1>4. TypeOK'
  <2>1. alive' \in BOOLEAN /\ inbox' \in Seq(Ids) /\ serving' \in Ids \union {None}
    <3>1. alive \in BOOLEAN /\ inbox \in Seq(Ids) /\ serving \in Ids \union {None} /\ <<>> \in Seq(Ids)
      BY DEF IInv, TypeOK, HelperTypeOK
    <3>2. CASE UNCHANGED <<alive, inbox, serving, step>>
      BY <3>1, <3>2
    <3>3. CASE alive' = FALSE /\ inbox' = <<>> /\ serving' = None
      BY <3>1, <3>3
    <3> QED BY <1>1, <3>2, <3>3
  <2>2. step' \in {"idle", "check", "stage", "recheck", "syscall", "post"} /\ closed' \in BOOLEAN
    BY <1>1 DEF IInv, TypeOK, HelperTypeOK
  <2>3. HelperTypeOK'
    BY <1>1, <2>1, <2>2 DEF IInv, TypeOK, HelperTypeOK, names, record
  <2> QED BY <1>1, <1>2, <1>3, <2>2, <2>3 DEF IInv, TypeOK, start
<1>5. phase = "ready"
  BY ReadyWhen DEF TransportFails, Timeout, Close, ShutdownTerm, ShutdownKill, HelperExits
<1> QED BY <1>1, <1>2, <1>3, <1>4, <1>5, StartedKeeps DEF IInv, Core

-----------------------------------------------------------------------------
(* A REQUEST is new: nothing was done or said about its number.          *)
LEMMA RequestKeeps == ASSUME IInv, NEW o \in Ops, Request(o) PROVE IInv'
<1>0. PICK new : new = CHOOSE i \in Ids : Called = 1..(i - 1)
  OBVIOUS
<1>1. new \in Ids /\ Called = 1..(new - 1)
  <2>1. PICK n \in 0..MaxRequests : Called = 1..n
    BY DEF IInv, Tracked
  <2>2. n + 1 \in Ids /\ Called = 1..((n + 1) - 1)
    BY <2>1, FsHelperAssumption DEF Request, Ids
  <2> QED BY <1>0, <2>2
<1>2. /\ phase = "ready" /\ op' = [op EXCEPT ![new] = o]
      /\ \/ queue' = Append(queue, new) /\ UNCHANGED out
         \/ out' = [out EXCEPT ![new] = "none"] /\ UNCHANGED queue
      /\ UNCHANGED <<pending, failure, closed, shutdown, start, alive, inbox, serving, step, pipe, names, record>>
  BY <1>0 DEF Request, helper
<1>3. new \notin Called /\ op[new] = None /\ out[new] = None
  BY <1>1, FsHelperAssumption DEF IInv, TypeOK, Tracked, Called, Ids
<1>4. Called' = Called \union {new} /\ Called' = 1..new
  <2>1. op \in [Ids -> Ops \union {None}]
    BY DEF IInv, TypeOK, HelperTypeOK
  <2>2. Called' = Called \union {new}
    BY <1>1, <1>2, <2>1, NothingIsNone DEF Called
  <2> QED BY <1>1, <2>2, FsHelperAssumption DEF Ids
<1>5. /\ queue' \in Seq(Ids) /\ Distinct(queue')
      /\ Queued' \subseteq Queued \union {new} /\ Queued \subseteq Queued' /\ (new \in Queued' => out' = out)
  <2>1. queue \in Seq(Ids) /\ Distinct(queue) /\ new \notin Range(queue)
    BY <1>3 DEF IInv, TypeOK, Tracked, Queued, Waiting
  <2>2. CASE queue' = Append(queue, new) /\ UNCHANGED out
    BY <1>1, <2>1, <2>2, Appended DEF Queued
  <2>3. CASE UNCHANGED queue
    BY <2>1, <2>3 DEF Queued
  <2> QED BY <1>2, <2>2, <2>3
<1>6. Sent \subseteq Sent' /\ Sent' \subseteq Sent \union {new} /\ AtHelper' = AtHelper /\ new \notin AtHelper
  BY <1>1, <1>2, <1>3, <1>4, <1>5, NothingIsNone DEF Sent, AtHelper, IInv, Tracked
<1>7. /\ out' \in [Ids -> Words \union {None}] /\ out'[new] \in {None, "none"}
      /\ \A i \in Ids : i # new => out'[i] = out[i] /\ op'[i] = op[i]
      /\ op'[new] = o
  BY <1>1, <1>2, <1>3 DEF IInv, TypeOK, HelperTypeOK, Words
<1>8. TypeOK'
  <2>1. op' \in [Ids -> Ops \union {None}]
    BY <1>1, <1>2 DEF IInv, TypeOK, HelperTypeOK
  <2>2. HelperTypeOK'
    BY <1>2, <2>1 DEF IInv, TypeOK, HelperTypeOK, names, record
  <2> QED BY <1>2, <1>5, <1>7, <2>2 DEF IInv, TypeOK, start
<1>9. \A i \in Ids : i # new => Expected(i)' = Expected(i) /\ (Prepares(i)' <=> Prepares(i))
  BY <1>2, <1>7 DEF Expected, Prepares, Unix, names
<1>10. \A i \in Ids : i # new => \A word : SaysTrue(i, word)' <=> SaysTrue(i, word)
  BY <1>2, <1>7, <1>9 DEF SaysTrue, record
<1>11. ~did[new] /\ took[new] = None
  BY <1>1, <1>3 DEF IInv, Fresh, Sent
<1>12. Tracked'
  <2>1. \E n \in 0..MaxRequests : Called' = 1..n
    BY <1>1, <1>4, FsHelperAssumption DEF Ids
  <2>2. Queued' \subseteq Waiting'
    BY <1>1, <1>3, <1>4, <1>5, <1>7 DEF IInv, Tracked, Waiting, Called
  <2>3. pending' # None => pending' \in Waiting' \ Queued'
    BY <1>2, <1>3, <1>4, <1>5, <1>7 DEF IInv, Tracked, Waiting, Called
  <2>4. \A i \in Ids : out'[i] # None => i \in Called'
    BY <1>4, <1>7 DEF IInv, Tracked
  <2> QED BY <1>2, <1>5, <1>6, <2>1, <2>2, <2>3, <2>4 DEF IInv, Tracked
<1>13. Fresh'
  BY <1>2, <1>6, <1>11 DEF IInv, Fresh, record
<1>14. LinesAreTrue'
  <2>1. ASSUME NEW line \in Range(pipe), line.id \in Ids PROVE LineIsTrue(line)'
    <3>1. LineIsTrue(line) /\ line.id # new
      BY <1>3, <2>1 DEF IInv, LinesAreTrue, LineIsTrue, Sent
    <3> QED BY <1>6, <1>7, <1>10, <2>1, <3>1 DEF LineIsTrue
  <2> QED BY <1>2, <2>1 DEF LinesAreTrue, LineIsTrue
<1>15. ToldIsTrue'
  <2>1. ASSUME NEW i \in Called, out'[i] # None PROVE MayBeTold(i, out[i])'
    <3>1. i \in Ids /\ i # new
      BY <1>3, <2>1 DEF Called
    <3> QED BY <1>6, <1>7, <1>10, <2>1, <3>1 DEF IInv, ToldIsTrue, MayBeTold
  <2>2. out'[new] # None => MayBeTold(new, out[new])'
    BY <1>2, <1>6, <1>7, <1>11 DEF MayBeTold, SaysTrue, record
  <2> QED BY <1>4, <2>1, <2>2 DEF ToldIsTrue
<1>16. AtWork'
  <2>1. serving # None => serving \in Ids /\ serving # new
    BY <1>6 DEF IInv, TypeOK, HelperTypeOK, AtHelper
  <2> QED BY <1>2, <1>7, <1>9, <2>1 DEF IInv, AtWork, names, record
<1>17. TakesItsOwn' /\ NamesHold'
  BY <1>2, <1>9, <1>11 DEF IInv, TakesItsOwn, NamesHold, Unix, names, record
<1>18. Started'
  BY <1>2, StartedKeeps DEF IInv, Started
<1> QED BY <1>8, <1>12, <1>13, <1>14, <1>15, <1>16, <1>17, <1>18 DEF IInv

(* The first request of the queue is sent, or refused without.           *)
LEMMA RequestNowKeeps == IInv /\ RequestNow => IInv'
<1> SUFFICES ASSUME IInv, RequestNow PROVE IInv'
  OBVIOUS
<1>0. PICK i : i = Head(queue)
  OBVIOUS
<1>1. /\ i \in Ids /\ i \in Queued /\ i \in Waiting
      /\ queue' = Tail(queue) /\ queue' \in Seq(Ids) /\ Distinct(queue') /\ Queued' = Queued \ {i}
      /\ queue # <<>> /\ pending = None
  BY <1>0, Shortened DEF RequestNow, Quiet, IInv, TypeOK, Tracked, Queued
<1>2. /\ UNCHANGED <<op, failure, closed, shutdown, start, alive, serving, step, pipe, names, record>>
      /\ \/ /\ out' = [out EXCEPT ![i] = IF failure # None THEN failure ELSE "none"]
            /\ UNCHANGED <<pending, inbox>>
         \/ pending' = i /\ inbox' \in {inbox, Append(inbox, i)} /\ UNCHANGED out
  BY <1>0 DEF RequestNow
<1>3. Called' = Called /\ Sent' = Sent \union {i} /\ i \notin Sent /\ i \in Called /\ out[i] = None
  BY <1>1, <1>2 DEF Called, Sent, Waiting
<1>4. ~did[i] /\ took[i] = None /\ i \notin AtHelper
  BY <1>1, <1>3, NothingIsNone DEF IInv, Fresh, Tracked
<1>5. /\ inbox' \in Seq(Ids) /\ Distinct(inbox') /\ serving' \notin Range(inbox')
      /\ AtHelper' \subseteq AtHelper \union {i} /\ Range(inbox') \subseteq Range(inbox) \union {i}
      /\ (i \in AtHelper' => out' = out)
  <2>1. inbox \in Seq(Ids) /\ Distinct(inbox) /\ serving \notin Range(inbox) /\ i \notin Range(inbox) /\ i # serving
    BY <1>4 DEF IInv, TypeOK, HelperTypeOK, Tracked, AtHelper
  <2>2. CASE inbox' = inbox
    BY <1>2, <1>4, <2>1, <2>2 DEF AtHelper
  <2>3. CASE inbox' # inbox
    <3>1. inbox' = Append(inbox, i) /\ out' = out
      BY <1>2, <2>3
    <3> QED BY <1>1, <1>2, <2>1, <3>1, Appended DEF AtHelper
  <2> QED BY <2>2, <2>3
<1>6. /\ out' \in [Ids -> Words \union {None}] /\ out'[i] \in {None, "none", "possible"}
      /\ \A k \in Ids : k # i => out'[k] = out[k]
      /\ pending' \in {None, i} /\ (pending' = i => out'[i] = None)
  BY <1>1, <1>2, <1>3, NothingIsNone DEF IInv, TypeOK, Words
<1>7. TypeOK'
  BY <1>1, <1>2, <1>5, <1>6 DEF IInv, TypeOK, HelperTypeOK, start, names, record
<1>8. \A k : Expected(k)' = Expected(k) /\ (Prepares(k)' <=> Prepares(k))
  BY <1>2 DEF Expected, Prepares, Unix, names
<1>9. \A k, word : SaysTrue(k, word)' <=> SaysTrue(k, word)
  BY <1>2, <1>8 DEF SaysTrue, record
<1>10. Tracked'
  <2>1. Queued' \subseteq Waiting'
    BY <1>1, <1>3, <1>6 DEF IInv, Tracked, Waiting, Called
  <2>2. pending' # None => pending' \in Waiting' \ Queued'
    BY <1>1, <1>3, <1>6 DEF Waiting
  <2>3. \A k \in Ids : out'[k] # None => k \in Called'
    BY <1>3, <1>6 DEF IInv, Tracked
  <2> QED BY <1>1, <1>3, <1>5, <2>1, <2>2, <2>3 DEF IInv, Tracked
<1>11. Fresh'
  BY <1>2, <1>3, <1>4, <1>5 DEF IInv, Fresh, record
<1>12. LinesAreTrue'
  <2>1. ASSUME NEW line \in Range(pipe), line.id \in Ids PROVE LineIsTrue(line)'
    <3>1. LineIsTrue(line) /\ line.id # i
      BY <1>3, <2>1 DEF IInv, LinesAreTrue, LineIsTrue
    <3> QED BY <1>3, <1>5, <1>6, <1>9, <2>1, <3>1 DEF LineIsTrue
  <2> QED BY <1>2, <2>1 DEF LinesAreTrue, LineIsTrue
<1>13. ToldIsTrue'
  <2>1. ASSUME NEW k \in Called, k # i, out'[k] # None PROVE MayBeTold(k, out[k])'
    BY <1>2, <1>5, <1>6, <1>9, <2>1 DEF IInv, ToldIsTrue, MayBeTold, Called
  <2>2. out'[i] # None => MayBeTold(i, out[i])'
    BY <1>2, <1>3, <1>4, <1>5, <1>6 DEF MayBeTold, SaysTrue, record
  <2> QED BY <1>3, <2>1, <2>2 DEF ToldIsTrue
<1>14. AtWork' /\ TakesItsOwn' /\ NamesHold'
  BY <1>2, <1>8 DEF IInv, AtWork, TakesItsOwn, NamesHold, Unix, names, record
<1>15. Started'
  BY <1>1, <1>2, ReadyWhen, StartedKeeps DEF IInv, Started
<1> QED BY <1>7, <1>10, <1>11, <1>12, <1>13, <1>14, <1>15 DEF IInv

(* A line nobody expects is about no request that waits, or says nothing.*)
LEMMA StrangeLineKeeps == IInv /\ StrangeLine => IInv'
<1> SUFFICES ASSUME IInv, StrangeLine PROVE IInv'
  OBVIOUS
<1>1. /\ UNCHANGED <<op, queue, pending, failure, closed, shutdown, start, out, alive, inbox, serving, step, names, record>>
      /\ phase = "ready" /\ pipe \in Seq(Line)
  BY DEF StrangeLine, session, helper, IInv, TypeOK, HelperTypeOK
<1>2. pipe' \in Seq(Line) /\ \A line \in Range(pipe') : LineIsTrue(line)
  <2>1. ASSUME NEW i \in {0} \union {i \in Called : out[i] # None}, pipe' = Append(pipe, [id |-> i, word |-> "ok"])
        PROVE  pipe' \in Seq(Line) /\ \A line \in Range(pipe') : LineIsTrue(line)
    <3> DEFINE strange == [id |-> i, word |-> "ok"]
    <3>1. strange \in Line
      BY DEF Line, Words, Called
    <3>2. LineIsTrue(strange)
      <4>1. i \in Ids => i \in Sent /\ out[i] # None
        BY DEF IInv, Tracked, Waiting, Sent, Ids
      <4> QED BY <4>1 DEF LineIsTrue
    <3> HIDE DEF strange
    <3>3. pipe' \in Seq(Line) /\ Range(pipe') = Range(pipe) \union {strange}
      BY <1>1, <2>1, <3>1, Appended DEF strange
    <3> QED BY <3>2, <3>3 DEF IInv, LinesAreTrue
  <2>2. ASSUME pipe # <<>>, pipe' = [pipe EXCEPT ![Len(pipe)].word = "malformed"]
        PROVE  pipe' \in Seq(Line) /\ \A line \in Range(pipe') : LineIsTrue(line)
    <3> DEFINE n == Len(pipe)
               strange == [pipe[n] EXCEPT !.word = "malformed"]
    <3>1. n \in Nat /\ n \in 1..n /\ pipe[n] \in Line /\ DOMAIN pipe = 1..n
      BY <1>1, <2>2
    <3>2. strange \in Line /\ strange.id = pipe[n].id /\ strange.word = "malformed"
      BY <3>1 DEF Line
    <3>3. pipe' = [pipe EXCEPT ![n] = strange]
      BY <2>2
    <3> HIDE DEF strange, n
    <3>4. pipe' \in Seq(Line) /\ \A line \in Range(pipe') : line = strange \/ line \in Range(pipe)
      BY <1>1, <3>1, <3>2, <3>3 DEF Range, n
    <3>5. LineIsTrue(strange)
      <4>1. LineIsTrue(pipe[n])
        BY <3>1 DEF IInv, LinesAreTrue, Range
      <4> QED BY <3>2, <4>1 DEF LineIsTrue, SaysTrue
    <3> QED BY <3>4, <3>5 DEF IInv, LinesAreTrue
  <2> QED BY <2>1, <2>2 DEF StrangeLine
<1>3. Talk
  BY <1>1, <1>2 DEF Talk
<1>4. TypeOK'
  BY <1>1, <1>2 DEF IInv, TypeOK, HelperTypeOK, start, names, record
<1>5. Started'
  BY <1>1, StartedKeeps DEF IInv, Started
<1> QED BY <1>3, <1>4, <1>5, TalkKeeps DEF IInv, Core

-----------------------------------------------------------------------------
(* WHAT THE HELPER DOES, a step of request i: it goes on, or answers.    *)
Work(i) ==
  /\ serving = i /\ (Rest \/ Race) /\ Unserved
  /\ dir' \in [Names -> Inodes \union {None}]
  /\ did' \in [Ids -> BOOLEAN] /\ took' \in [Ids -> Inodes \union {None}]
  /\ \A k \in Ids : k # i => did'[k] = did[k] /\ took'[k] = took[k]
  /\ did[i] => did'[i]
  /\ ~Unix => took'[i] \in {None, Expected(i)}
  /\ NamesHold'

LEMMA SameRequests ==
  ASSUME Rest \/ Race
  PROVE  /\ \A i : Expected(i)' = Expected(i) /\ (Prepares(i)' <=> Prepares(i)) /\ (Unix' <=> Unix)
         /\ \A i \in Ids : did'[i] = did[i] /\ took'[i] = took[i] =>
              \A word : SaysTrue(i, word)' <=> SaysTrue(i, word)
<1>1. \A i : Expected(i)' = Expected(i) /\ (Prepares(i)' <=> Prepares(i)) /\ (Unix' <=> Unix)
  BY DEF Rest, Race, Expected, Prepares, Unix
<1> QED BY <1>1 DEF Rest, Race, SaysTrue

LEMMA WorkKeeps ==
  ASSUME IInv, NEW i \in Ids, Work(i), serving' \in {i, None},
         step' \in {"idle", "check", "stage", "recheck", "syscall", "post"},
         pipe' \in Seq(Line), \A line \in Range(pipe') : line \in Range(pipe) \/ LineIsTrue(line)',
         AtWork'
  PROVE  IInv'
<1>1. /\ UNCHANGED <<op, alive, inbox, platform, target, queue, pending, failure, closed, shutdown, phase, package, running, out>>
      /\ serving = i /\ i # None
  BY NothingIsNone DEF Work, Rest, Race, helper, Unserved, start
<1>2. /\ Called' = Called /\ Queued' = Queued /\ Sent' = Sent /\ Waiting' = Waiting
      /\ i \in AtHelper /\ AtHelper' \subseteq AtHelper \union {None} /\ i \in Sent /\ i \notin Range(inbox)
  BY <1>1 DEF IInv, Tracked, Called, Queued, Sent, Waiting, AtHelper
<1>3. TypeOK'
  BY <1>1 DEF IInv, TypeOK, HelperTypeOK, Work
<1>4. Tracked'
  BY <1>1, <1>2, NothingIsNone DEF IInv, TypeOK, HelperTypeOK, Tracked, Range
<1>5. Fresh'
  BY <1>1, <1>2 DEF IInv, Fresh, Work
<1>6. LinesAreTrue'
  <2>1. ASSUME NEW line \in Range(pipe), line.id \in Ids PROVE LineIsTrue(line)'
    <3>1. LineIsTrue(line)
      BY <2>1 DEF IInv, LinesAreTrue
    <3>2. out[line.id] = None => line.id # i /\ line.id \notin AtHelper
      BY <1>2, <2>1, <3>1 DEF LineIsTrue
    <3> QED BY <1>1, <1>2, <2>1, <3>1, <3>2, SameRequests, NothingIsNone DEF LineIsTrue, Work
  <2> QED BY <2>1 DEF LinesAreTrue, LineIsTrue
<1>7. ToldIsTrue'
  <2>1. ASSUME NEW k \in Called, out[k] # None, k # i PROVE MayBeTold(k, out[k])'
    <3>1. MayBeTold(k, out[k]) /\ k \in Ids /\ k # None
      BY <2>1, NothingIsNone DEF IInv, ToldIsTrue, Called
    <3>2. \A word : MayBeTold(k, word) => MayBeTold(k, word)'
      BY <1>1, <1>2, <2>1, <3>1, SameRequests DEF MayBeTold, Work
    <3> QED BY <1>1, <3>1, <3>2 DEF MayBeTold, SaysTrue
  <2>2. ASSUME out[i] # None PROVE MayBeTold(i, out[i])'
    <3>1. i \in Called /\ MayBeTold(i, out[i])
      BY <1>2, <2>2 DEF IInv, ToldIsTrue, Sent
    <3>2. \A word : MayBeTold(i, word) => MayBeTold(i, word)'
      BY <1>1, <1>2, SameRequests DEF MayBeTold, SaysTrue, Work
    <3> QED BY <1>1, <3>1, <3>2 DEF MayBeTold, SaysTrue
  <2> QED BY <1>1, <1>2, <2>1, <2>2 DEF ToldIsTrue
<1>8. TakesItsOwn' /\ NamesHold'
  BY SameRequests DEF IInv, TakesItsOwn, Work
<1>9. phase = "ready"
  BY <1>1, ReadyWhen
<1>10. Started'
  BY <1>1, <1>9 DEF IInv, Started
<1> QED BY <1>3, <1>4, <1>5, <1>6, <1>7, <1>8, <1>10 DEF IInv

(* It goes on ...                                                        *)
LEMMA GoingOn ==
  ASSUME IInv, NEW i \in Ids, Work(i), NEW label \in {"stage", "recheck", "syscall", "post"},
         Continue(label), AtWork'
  PROVE  IInv'
<1>1. serving' = i /\ step' = label /\ pipe' = pipe
  BY DEF Work, Continue
<1>2. pipe \in Seq(Line)
  BY DEF IInv, TypeOK, HelperTypeOK
<1> QED BY <1>1, <1>2, WorkKeeps

(* ... or answers with a word that is true of what it has done.          *)
LEMMA Answering ==
  ASSUME IInv, NEW i \in Ids, Work(i), NEW word \in Words, Answer(word), SaysTrue(i, word)'
  PROVE  IInv'
<1> DEFINE line == [id |-> i, word |-> word]
<1>1. serving' = None /\ step' = "idle" /\ pipe' = Append(pipe, line)
  BY DEF Work, Answer
<1>2. line \in Line /\ pipe \in Seq(Line)
  BY DEF Line, IInv, TypeOK, HelperTypeOK
<1>3. line.id = i /\ line.word = word
  OBVIOUS
<1>4. Sent' = Sent /\ i \in Sent /\ i \notin AtHelper'
  BY <1>1, NothingIsNone DEF Work, Rest, Race, Unserved, IInv, Tracked, Sent, Called, Queued, AtHelper
<1>5. LineIsTrue(line)'
  BY <1>4 DEF LineIsTrue
<1> HIDE DEF line
<1>6. pipe' \in Seq(Line) /\ \A l \in Range(pipe') : l \in Range(pipe) \/ l = line
  BY <1>1, <1>2, Appended
<1>7. AtWork'
  BY <1>1 DEF AtWork
<1> QED BY <1>1, <1>5, <1>6, <1>7, WorkKeeps

LEMMA Untouching ==
  ASSUME IInv, NEW i \in Ids, serving = i, Rest, Unserved, Untouched
  PROVE  Work(i) /\ \A word : SaysTrue(i, word)' <=> SaysTrue(i, word)
<1>1. UNCHANGED <<dir, did, took, platform>>
  BY DEF Untouched, record, Rest
<1>2. Work(i)
  BY <1>1 DEF IInv, TypeOK, HelperTypeOK, TakesItsOwn, NamesHold, Work
<1> QED BY <1>1, <1>2, SameRequests

(* Steps that only look.                                                 *)
LEMMA LookingKeeps ==
  ASSUME IInv, Unserved,
         Look \/ CheckLink \/ LinkPost \/ Refuse \/ CheckRename \/ RecheckRename \/ Post
  PROVE  IInv'
<1>1. PICK i \in Ids : serving = i
  BY DEF Look, CheckLink, LinkPost, Refuse, CheckRename, RecheckRename, Post, At, IInv, TypeOK, HelperTypeOK
<1>2. Rest /\ Untouched
  BY DEF Look, CheckLink, LinkPost, Refuse, CheckRename, RecheckRename, Post
<1>3. Work(i) /\ (\A word : SaysTrue(i, word)' <=> SaysTrue(i, word)) /\ UNCHANGED <<op, dir, did, took>>
  BY <1>1, <1>2, Untouching DEF Rest, Untouched, record
<1>4. ASSUME NEW word \in Words, SaysTrue(i, word), Answer(word) PROVE IInv'
  BY <1>3, <1>4, Answering
<1>5. Expected(i)' = Expected(i) /\ (Prepares(i)' <=> Prepares(i))
  BY <1>2, SameRequests
<1>6. CASE Look
  <2>1. op[i] \notin Mutating /\ op[i] \notin Renaming \union {"read-link"} /\ ~Prepares(i)
    BY <1>1, <1>6 DEF Look, At, Mutating, Creating, Renaming, Prepares
  <2> QED BY <1>4, <1>6, <2>1 DEF Look, SaysTrue, Words
<1>7. CASE CheckLink
  <2>1. op[i] = "read-link" /\ op[i] \notin Mutating /\ op[i] \notin Creating /\ op[i] \notin Renaming
    BY <1>1, <1>7 DEF CheckLink, At, Mutating, Creating, Renaming
  <2>2. CASE Continue("syscall")
    <3>1. AtWork'
      BY <1>1, <1>3, <2>1, <2>2 DEF Continue, AtWork
    <3> QED BY <1>3, <2>2, <3>1, GoingOn
  <2>3. CASE Answer("none")
    BY <1>4, <2>1, <2>3 DEF SaysTrue, Words
  <2> QED BY <1>7, <2>2, <2>3 DEF CheckLink
<1>8. CASE LinkPost
  <2>1. op[i] = "read-link" /\ op[i] \notin Mutating /\ op[i] \notin Creating /\ step = "post" /\ serving = i
    BY <1>1, <1>8 DEF LinkPost, At, Mutating, Creating, Renaming
  <2>2. dir[From] = Held => took[i] = Expected(i)
    BY <2>1, InodesDiffer, NothingIsNone DEF IInv, AtWork, Expected
  <2> QED BY <1>4, <1>8, <2>1, <2>2 DEF LinkPost, SaysTrue, Words
<1>9. CASE Refuse
  <2>1. ~did[i]
    BY <1>1, <1>9 DEF Refuse, At, IInv, AtWork
  <2> QED BY <1>4, <1>9, <2>1 DEF Refuse, SaysTrue, Words
<1>10. CASE CheckRename
  <2>1. op[i] \in Renaming /\ op[i] \notin Creating /\ ~did[i]
    BY <1>1, <1>10 DEF CheckRename, At, IInv, AtWork, Creating, Renaming
  <2>2. CASE Continue("recheck")
    <3>1. AtWork'
      BY <1>1, <1>3, <2>1, <2>2 DEF Continue, AtWork
    <3> QED BY <1>3, <2>2, <3>1, GoingOn
  <2>3. CASE Answer("none")
    BY <1>4, <2>1, <2>3 DEF SaysTrue, Words
  <2> QED BY <1>10, <2>2, <2>3 DEF CheckRename
<1>11. CASE RecheckRename
  <2>1. /\ op[i] \in Creating \union Renaming
        /\ op[i] \in Renaming => ~did[i]
        /\ op[i] \in Creating => did[i] /\ Prepares(i)
    BY <1>1, <1>11 DEF RecheckRename, At, IInv, AtWork
  <2>2. CASE Continue("syscall")
    <3>1. AtWork'
      BY <1>1, <1>3, <1>5, <2>1, <2>2 DEF Continue, AtWork
    <3> QED BY <1>3, <2>2, <3>1, GoingOn
  <2>3. CASE Answer(Before(i))
    <3>1. Before(i) \in Words /\ SaysTrue(i, Before(i))
      BY <2>1 DEF Before, SaysTrue, Words
    <3>2. PICK word \in Words : word = Before(i)
      BY <3>1
    <3> QED BY <1>4, <2>3, <3>1, <3>2
  <2> QED BY <1>1, <1>11, <2>2, <2>3 DEF RecheckRename
<1>12. CASE Post
  <2>1. /\ op[i] \in Creating \union Renaming /\ op[i] # "read-link" /\ did[i]
        /\ op[i] \in Renaming \/ Prepares(i) => dir[To] \in {None, Foreign, took[i]}
    BY <1>1, <1>12 DEF Post, At, IInv, AtWork, Creating, Renaming
  <2>2. CASE Answer("committed")
    BY <1>4, <2>1, <2>2 DEF SaysTrue, Words
  <2>3. CASE dir[To] = Expected(i) /\ Answer("ok")
    <3>1. op[i] \in Renaming \/ Prepares(i) => took[i] = Expected(i)
      BY <2>1, <2>3, InodesDiffer
    <3> QED BY <1>4, <2>1, <2>3, <3>1 DEF SaysTrue, Words
  <2>4. CASE Unix /\ op[i] \in {"create-file", "symlink"} /\ Answer("ok")
    <3>1. op[i] \notin Renaming /\ ~Prepares(i)
      BY <2>4 DEF Renaming, Prepares
    <3> QED BY <1>4, <2>1, <2>4, <3>1 DEF SaysTrue, Words
  <2> QED BY <1>1, <1>12, <2>2, <2>3, <2>4 DEF Post
<1> QED BY <1>6, <1>7, <1>8, <1>9, <1>10, <1>11, <1>12

(* Steps that take something: a link's target, a write.                  *)
LEMMA ReadLinkKeeps == ASSUME IInv, Unserved, ReadLink PROVE IInv'
<1>1. PICK i \in Ids : serving = i
  BY DEF ReadLink, At, IInv, TypeOK, HelperTypeOK
<1>2. /\ op[i] = "read-link" /\ op[i] \notin Mutating /\ op[i] \notin Creating /\ op[i] \notin Renaming
      /\ Rest /\ UNCHANGED <<dir, did>>
  BY <1>1 DEF ReadLink, At, Mutating, Creating, Renaming
<1>3. CASE Answer("none") /\ UNCHANGED took
  <2>1. Untouched
    BY <1>2, <1>3 DEF Untouched, record
  <2>2. Work(i) /\ SaysTrue(i, "none")'
    BY <1>1, <1>2, <2>1, Untouching DEF SaysTrue
  <2> QED BY <1>3, <2>2, Answering DEF Words
<1>4. CASE took' = [took EXCEPT ![i] = IF Unix THEN dir[From] ELSE Held] /\ Continue("post")
  <2>1. dir \in [Names -> Inodes \union {None}] /\ took \in [Ids -> Inodes \union {None}]
    BY DEF IInv, TypeOK, HelperTypeOK
  <2>2. /\ took' \in [Ids -> Inodes \union {None}] /\ took'[i] = (IF Unix THEN dir[From] ELSE Held)
        /\ \A k \in Ids : k # i => took'[k] = took[k]
    BY <1>4, <2>1, NamesDiffer, InodesDiffer
  <2>3. Work(i)
    BY <1>1, <1>2, <2>1, <2>2 DEF IInv, TypeOK, HelperTypeOK, NamesHold, Work, Expected
  <2>4. dir'[From] \in {None, Foreign, took'[i]}
    BY <1>2, <2>2 DEF IInv, NamesHold
  <2>5. AtWork'
    <3>1. serving' = i /\ step' = "post" /\ op'[i] = "read-link" /\ op' = op
      BY <1>1, <1>2, <1>4 DEF Continue, Rest
    <3>2. ~Prepares(i)'
      BY <1>2, <3>1 DEF Prepares, Creating
    <3> QED BY <1>2, <2>4, <3>1, <3>2 DEF AtWork
  <2> QED BY <1>4, <2>3, <2>5, GoingOn
<1> QED BY <1>1, <1>3, <1>4 DEF ReadLink

LEMMA WriteKeeps == ASSUME IInv, Unserved, Write PROVE IInv'
<1>1. PICK i \in Ids : serving = i
  BY DEF Write, At, IInv, TypeOK, HelperTypeOK
<1>2. op[i] = "write" /\ did' = [did EXCEPT ![i] = TRUE] /\ UNCHANGED <<dir, took>> /\ Rest
  BY <1>1 DEF Write, At
<1>3. did' \in [Ids -> BOOLEAN] /\ did'[i] /\ \A k \in Ids : k # i => did'[k] = did[k]
  BY <1>2 DEF IInv, TypeOK, HelperTypeOK
<1>4. Work(i)
  BY <1>1, <1>2, <1>3 DEF IInv, TypeOK, HelperTypeOK, TakesItsOwn, NamesHold, Work
<1>5. op' = op /\ op[i] \notin Renaming \union {"read-link"} /\ ~Prepares(i)'
  BY <1>2 DEF Rest, Renaming, Prepares
<1>6. \A word \in {"ok", "possible", "committed"} : SaysTrue(i, word)'
  BY <1>3, <1>5 DEF SaysTrue
<1>7. PICK word \in {"ok", "possible", "committed"} : Answer(word)
  BY DEF Write
<1> QED BY <1>4, <1>6, <1>7, Answering DEF Words

-----------------------------------------------------------------------------
(* A CREATION makes its inode, is completed elsewhere, or given up.      *)
LEMMA MakingKeeps == ASSUME IInv, Unserved, Create \/ MakeTemporary PROVE IInv'
<1>1. PICK i \in Ids : serving = i
  BY DEF Create, MakeTemporary, At, IInv, TypeOK, HelperTypeOK
<1>2. /\ op[i] \in Creating /\ op[i] \notin Renaming /\ op[i] # "read-link" /\ Rest /\ op' = op
      /\ ~did[i] /\ serving = i
  BY <1>1 DEF Create, MakeTemporary, At, Creating, Renaming, Rest, IInv, AtWork
<1>3. CASE Answer("none") /\ Untouched
  BY <1>1, <1>2, <1>3, Untouching, Answering DEF SaysTrue, Words
<1>4. ASSUME NEW name \in {To, Temporary(i)}, NEW next \in {"post", "stage"}, MakeAt(name, next),
             (name = Temporary(i)) <=> Prepares(i), (next = "stage") <=> Prepares(i)
      PROVE  IInv'
  <2>1. /\ dir' = [dir EXCEPT ![name] = Made(i)] /\ did' = [did EXCEPT ![i] = TRUE] /\ took' = took
        /\ Continue(next) /\ serving' = i /\ step' = next
    BY <1>1, <1>4 DEF MakeAt, Continue
  <2>2. did' \in [Ids -> BOOLEAN] /\ did'[i] /\ \A k \in Ids : k # i => did'[k] = did[k]
    BY <2>1 DEF IInv, TypeOK, HelperTypeOK
  <2>3. dir' \in [Names -> Inodes \union {None}] /\ \A n \in Names : n # name => dir'[n] = dir[n]
    BY <2>1, NamesDiffer, InodesDiffer DEF IInv, TypeOK, HelperTypeOK
  <2>4. NamesHold'
    BY <1>4, <2>2, <2>3, NamesDiffer DEF IInv, NamesHold
  <2>5. Work(i)
    BY <1>1, <1>2, <2>1, <2>2, <2>3, <2>4 DEF IInv, TypeOK, HelperTypeOK, TakesItsOwn, Work
  <2>6. AtWork'
    BY <1>2, <1>4, <2>1, <2>2, SameRequests DEF AtWork
  <2> QED BY <2>1, <2>5, <2>6, GoingOn
<1>5. CASE Create
  BY <1>1, <1>3, <1>4, <1>5, NamesDiffer DEF Create
<1>6. CASE MakeTemporary
  BY <1>1, <1>3, <1>4, <1>6, NamesDiffer DEF MakeTemporary
<1> QED BY <1>5, <1>6

(* What is given up is the request's own inode, or nothing.              *)
LEMMA GivingUp ==
  ASSUME IInv, NEW i \in Ids, serving = i, op[i] \in Creating, did[i], GiveUp, UNCHANGED record, Rest, Unserved
  PROVE  IInv'
<1>1. /\ dir' \in [Names -> Inodes \union {None}]
      /\ \A n \in Names : dir'[n] = dir[n] \/ (dir[n] = Made(i) /\ dir'[n] = None)
  BY DEF GiveUp, IInv, TypeOK, HelperTypeOK
<1>2. did' = did /\ took' = took /\ op' = op
  BY DEF record, Rest
<1>3. NamesHold'
  BY <1>1, <1>2, NamesDiffer DEF IInv, NamesHold
<1>4. Work(i)
  BY <1>1, <1>2, <1>3 DEF IInv, TypeOK, HelperTypeOK, TakesItsOwn, Work
<1>5. Answer("possible") /\ SaysTrue(i, "possible")'
  BY DEF GiveUp, SaysTrue
<1> QED BY <1>4, <1>5, Answering DEF Words

LEMMA StageKeeps == ASSUME IInv, Unserved, StageTemporary PROVE IInv'
<1>1. PICK i \in Ids : serving = i
  BY DEF StageTemporary, At, IInv, TypeOK, HelperTypeOK
<1>2. /\ op[i] \in Creating /\ op[i] \notin Renaming /\ op[i] # "read-link" /\ step = "stage" /\ Rest
      /\ did[i] /\ did' = did /\ took' = took /\ op' = op
  BY <1>1 DEF StageTemporary, At, Creating, Renaming, record, Rest, IInv, AtWork
<1>3. CASE GiveUp
  BY <1>1, <1>2, <1>3, GivingUp DEF record
<1>4. ASSUME UNCHANGED dir PROVE Work(i)
  BY <1>1, <1>2, <1>4, Untouching DEF Untouched, record
<1>5. CASE Answer("committed") /\ UNCHANGED dir
  <2>1. SaysTrue(i, "committed")'
    BY <1>2 DEF SaysTrue
  <2> QED BY <1>4, <1>5, <2>1, Answering DEF Words
<1>6. ASSUME NEW label \in {"recheck", "syscall"}, Continue(label), UNCHANGED dir, Prepares(i) PROVE IInv'
  <2>1. AtWork'
    BY <1>1, <1>2, <1>6, SameRequests DEF AtWork, Continue
  <2> QED BY <1>4, <1>6, <2>1, GoingOn
<1>7. Prepares(i)
  BY <1>1, <1>2, NothingIsNone DEF IInv, AtWork
<1> QED BY <1>1, <1>3, <1>5, <1>6, <1>7 DEF StageTemporary

-----------------------------------------------------------------------------
(* A RENAME leaves at its target what it took.                           *)
LEMMA RenamedKeeps ==
  ASSUME IInv, NEW i \in Ids, serving = i, op[i] \in Creating \union Renaming, Rest, Unserved,
         NEW inode \in Inodes, ~Unix => inode = Expected(i), NEW sources, Renamed(inode, sources)
  PROVE  IInv'
<1>1. /\ took' = [took EXCEPT ![i] = inode] /\ did' = [did EXCEPT ![i] = TRUE] /\ op' = op
      /\ serving' = i /\ step' = "post" /\ Continue("post")
  BY DEF Renamed, Continue, Rest
<1>2. /\ did' \in [Ids -> BOOLEAN] /\ did'[i] /\ \A k \in Ids : k # i => did'[k] = did[k]
      /\ took' \in [Ids -> Inodes \union {None}] /\ took'[i] = inode
      /\ \A k \in Ids : k # i => took'[k] = took[k]
  BY <1>1 DEF IInv, TypeOK, HelperTypeOK
<1>3. /\ dir' \in [Names -> Inodes \union {None}] /\ dir'[To] = inode
      /\ \A n \in Names \ {To} : dir'[n] \in {None, dir[n]}
  BY NamesDiffer DEF Renamed, IInv, TypeOK, HelperTypeOK
<1>4. NamesHold'
  BY <1>2, <1>3, NamesDiffer DEF IInv, NamesHold
<1>5. Work(i)
  BY <1>2, <1>3, <1>4 DEF Work
<1>6. op[i] # "read-link"
  BY DEF Creating, Renaming
<1>7. AtWork'
  BY <1>1, <1>2, <1>3, <1>6 DEF AtWork
<1> QED BY <1>1, <1>5, <1>7, GoingOn

LEMMA RenameKeeps == ASSUME IInv, Unserved, Rename PROVE IInv'
<1>1. PICK i \in Ids : serving = i
  BY DEF Rename, At, IInv, TypeOK, HelperTypeOK
<1>2. /\ op[i] \in Creating \union Renaming /\ Rest /\ Unix /\ op' = op
      /\ op[i] \in Renaming => ~did[i]
      /\ op[i] \in Creating => did[i]
  BY <1>1 DEF Rename, At, Rest, IInv, AtWork
<1>3. CASE Answer(Before(i)) /\ Untouched
  <2>1. PICK word \in Words : word = Before(i)
    BY DEF Before, Words
  <2>2. SaysTrue(i, word)
    BY <1>2, <2>1 DEF Before, SaysTrue
  <2> QED BY <1>1, <1>2, <1>3, <2>1, <2>2, Untouching, Answering
<1>4. CASE dir[Source(i)] # None /\ Renamed(dir[Source(i)], {Source(i)})
  <2>1. dir[Source(i)] \in Inodes
    BY <1>4, NamesDiffer DEF Source, IInv, TypeOK, HelperTypeOK
  <2>2. PICK inode \in Inodes, sources \in SUBSET Names : inode = dir[Source(i)] /\ sources = {Source(i)}
    BY <2>1, NamesDiffer DEF Source
  <2> QED BY <1>1, <1>2, <1>4, <2>2, RenamedKeeps
<1> QED BY <1>1, <1>3, <1>4 DEF Rename

LEMMA RenameHeldKeeps == ASSUME IInv, Unserved, RenameHeld PROVE IInv'
<1>1. PICK i \in Ids : serving = i
  BY DEF RenameHeld, At, IInv, TypeOK, HelperTypeOK
<1>2. /\ op[i] \in Creating \union Renaming /\ Rest /\ ~Unix /\ op' = op
      /\ op[i] \in Renaming => ~did[i]
      /\ op[i] \in Creating => did[i]
  BY <1>1 DEF RenameHeld, At, Rest, IInv, AtWork
<1>3. CASE Renamed(Expected(i), {n \in Names : dir[n] = Expected(i)})
  <2>1. PICK inode \in Inodes, sources \in SUBSET Names :
          inode = Expected(i) /\ sources = {n \in Names : dir[n] = Expected(i)}
    BY InodesDiffer
  <2> QED BY <1>1, <1>2, <1>3, <2>1, RenamedKeeps
<1>4. CASE /\ IF op[i] \in Renaming THEN Answer("none") /\ UNCHANGED dir ELSE GiveUp
           /\ UNCHANGED record
  <2>1. CASE op[i] \in Renaming
    <3>1. Answer("none") /\ Untouched
      BY <1>4, <2>1 DEF Untouched
    <3>2. SaysTrue(i, "none")
      BY <1>2, <2>1 DEF SaysTrue
    <3> QED BY <1>1, <1>2, <3>1, <3>2, Untouching, Answering DEF Words
  <2>2. CASE op[i] \notin Renaming
    BY <1>1, <1>2, <1>4, <2>2, GivingUp
  <2> QED BY <2>1, <2>2
<1> QED BY <1>1, <1>3, <1>4 DEF RenameHeld

-----------------------------------------------------------------------------
(* Another process only makes a name hold less than was expected of it.  *)
LEMMA RaceKeeps == ASSUME IInv, Unserved, Race PROVE IInv'
<1>1. /\ UNCHANGED <<op, alive, inbox, serving, step, pipe, platform, target, did, took>>
      /\ dir' \in [Names -> Inodes \union {None}]
      /\ \A m \in Names : dir'[m] # dir[m] => dir'[m] \in {None, Foreign} /\ (m \in {From, To} \/ dir[m] # None)
  BY InodesDiffer DEF Race, helper, record, IInv, TypeOK, HelperTypeOK
<1>2. PICK i \in Ids : serving = i
  BY DEF Race, IInv, TypeOK, HelperTypeOK
<1>3. NamesHold'
  BY <1>1, NamesDiffer DEF IInv, NamesHold
<1>4. Work(i)
  BY <1>1, <1>2, <1>3 DEF IInv, TypeOK, HelperTypeOK, TakesItsOwn, Work
<1>5. AtWork'
  BY <1>1, NamesDiffer DEF IInv, AtWork, Prepares, Unix
<1> QED BY <1>1, <1>2, <1>4, <1>5, WorkKeeps DEF IInv, TypeOK, HelperTypeOK

(* The helper takes up the next request, for which nothing was done yet. *)
LEMMA ServeKeeps == ASSUME IInv, Unserved, Serve PROVE IInv'
<1>1. PICK i : i = Head(inbox)
  OBVIOUS
<1>2. /\ i \in Ids /\ i \in Range(inbox) /\ Distinct(inbox') /\ inbox' \in Seq(Ids) /\ Range(inbox') = Range(inbox) \ {i}
      /\ serving = None /\ serving' = i /\ step' = "check"
      /\ UNCHANGED <<op, alive, pipe, names, record, queue, pending, failure, closed, shutdown, start, out>>
      /\ phase = "ready"
  BY <1>1, Shortened, ReadyWhen DEF Serve, Unserved, IInv, TypeOK, HelperTypeOK, Tracked
<1>3. /\ Called' = Called /\ Queued' = Queued /\ Sent' = Sent /\ Waiting' = Waiting
      /\ AtHelper' \subseteq AtHelper /\ ~did[i]
  BY <1>2 DEF Called, Queued, Sent, Waiting, AtHelper, IInv, Fresh
<1>4. TypeOK'
  BY <1>2 DEF IInv, TypeOK, HelperTypeOK, start, names, record
<1>5. Tracked' /\ Fresh'
  BY <1>2, <1>3 DEF IInv, Tracked, Fresh, record
<1>6. \A k, word : SaysTrue(k, word)' <=> SaysTrue(k, word)
  BY <1>2 DEF SaysTrue, Prepares, Expected, Unix, names, record
<1>7. LinesAreTrue' /\ ToldIsTrue'
  BY <1>2, <1>3, <1>6 DEF IInv, LinesAreTrue, LineIsTrue, ToldIsTrue, MayBeTold
<1>8. AtWork' /\ TakesItsOwn' /\ NamesHold'
  BY <1>2, <1>3 DEF IInv, AtWork, TakesItsOwn, NamesHold, Expected, Unix, names, record
<1>9. Started'
  BY <1>2, StartedKeeps DEF IInv, Started
<1> QED BY <1>4, <1>5, <1>7, <1>8, <1>9 DEF IInv

-----------------------------------------------------------------------------
(* THE THEOREMS.                                                         *)
LEMMA StepInv == IInv /\ [Next]_vars => IInv'
<1> SUFFICES ASSUME IInv, [Next]_vars PROVE IInv'
  OBVIOUS
<1>1. ASSUME NEW o \in Ops, Request(o) PROVE IInv'
  BY <1>1, RequestKeeps
<1>2. CASE Inspect \/ Attached \/ Spawn \/ Reattached \/ Hello \/ Upgrade
  BY <1>2, StartingKeeps DEF Starting
<1>3. CASE Events \/ Close \/ HelperExits \/ StrangeLine
  BY <1>3, RequestNowKeeps, OnDataKeeps, EndingKeeps, StrangeLineKeeps DEF Events
<1>4. CASE HelperStep /\ Unserved
  BY <1>4, ServeKeeps, LookingKeeps, ReadLinkKeeps, WriteKeeps, MakingKeeps, StageKeeps, RenameKeeps,
     RenameHeldKeeps DEF HelperStep
<1>5. CASE Race /\ Unserved
  BY <1>5, RaceKeeps
<1>6. CASE UNCHANGED vars
  <2>1. Talk
    BY <1>6 DEF vars, session, helper, names, record, Talk, IInv, TypeOK, HelperTypeOK, LinesAreTrue
  <2>2. TypeOK'
    BY <1>6 DEF vars, session, start, helper, names, record, IInv, TypeOK, HelperTypeOK
  <2>3. Started'
    BY <1>6 DEF vars, session, start, helper, IInv, Started
  <2> QED BY <2>1, <2>2, <2>3, TalkKeeps DEF IInv, Core
<1> QED BY <1>1, <1>2, <1>3, <1>4, <1>5, <1>6 DEF Next

(* AnswersAreTrue: "none" was never done and never will be, "ok" and     *)
(* "committed" were done by that very request, to the inode it named; and*)
(* the helper that says so is the shipped one.  Behind lost, doubled and *)
(* malformed lines, timeouts, deaths of the helper, an upgrade while it  *)
(* starts, and any number of changes by other processes.                 *)
THEOREM AnswersStayTrue == Spec => []AnswersAreTrue
<1>1. IInv => AnswersAreTrue
  <2> SUFFICES ASSUME IInv PROVE AnswersAreTrue
    OBVIOUS
  <2>1. \A i : Contains(inbox, i) <=> i \in Range(inbox)
    BY DEF IInv, TypeOK, HelperTypeOK, Contains, Range
  <2>2. WordIsTrue
    <3> SUFFICES ASSUME NEW i \in Called, op[i] \in Mutating
                 PROVE  /\ out[i] = "none" => ~did[i] /\ ~(i = serving \/ Contains(inbox, i))
                        /\ out[i] \in {"ok", "committed"} => did[i]
      BY DEF WordIsTrue
    <3>1. out[i] \in {"none", "ok", "committed"} => MayBeTold(i, out[i])
      BY NothingIsNone DEF IInv, ToldIsTrue, Words
    <3> QED BY <2>1, <3>1 DEF MayBeTold, SaysTrue, AtHelper
  <2>3. OkTookExpected
    <3>1. ASSUME NEW i \in Called, out[i] = "ok" PROVE SaysTrue(i, "ok")
      BY <3>1, NothingIsNone DEF IInv, ToldIsTrue, MayBeTold, Words
    <3> QED BY <3>1 DEF IInv, TakesItsOwn, OkTookExpected, SaysTrue, Called
  <2> QED BY <2>2, <2>3 DEF IInv, Started, HelperIsVerified, AnswersAreTrue
<1> QED BY InitInv, StepInv, <1>1, PTL DEF Spec

Counted == races \in Nat

LEMMA CountsRaces == Counted /\ [Next]_vars => Counted'
BY DEF Counted, Next, vars, Request, Inspect, Attached, Spawn, Reattached, Hello, Upgrade, Proceed, Unstarted,
       Events, RequestNow, OnData, TransportFails, Timeout, ShutdownTerm, ShutdownKill, Close,
       HelperExits, StrangeLine, budget, HelperStep, Serve, Look, CheckLink, ReadLink, LinkPost, Refuse,
       Write, Create, MakeTemporary, StageTemporary, CheckRename, RecheckRename, Rename, RenameHeld,
       Post, Rest, Race

(* The only steps that touch a name or do something are the helper's.    *)
LEMMA OthersTouchNothing ==
  ASSUME [Next]_vars, ~(Unserved /\ (Create \/ MakeTemporary \/ StageTemporary \/ Rename \/ RenameHeld \/ Race))
  PROVE  dir' = dir /\ (did' = did \/ Write)
BY DEF Next, vars, Request, Inspect, Attached, Spawn, Reattached, Hello, Upgrade, Unstarted, Events,
       RequestNow, OnData, TransportFails, Timeout, ShutdownTerm, ShutdownKill, Close, HelperExits,
       StrangeLine, names, record, HelperStep, Serve, Look, CheckLink, ReadLink, LinkPost, Refuse, Write,
       CheckRename, RecheckRename, Post, Untouched

LEMMA StepReplacesNothing ==
  ASSUME IInv, races \in Nat, [Next]_vars
  PROVE  NothingReplaced
<1>1. CASE dir' = dir
  BY <1>1 DEF NothingReplaced
<1>2. CASE Race
  BY <1>2 DEF Race, NothingReplaced
<1>3. ASSUME NEW i \in Ids, serving = i, op[i] # "replace", NEW n \in Names,
             Create \/ MakeTemporary \/ StageTemporary \/ Rename \/ RenameHeld
      PROVE  dir[n] \in {None, Made(i)} \/ \E m \in Names : dir'[m] = dir[n]
  <2>1. dir \in [Names -> Inodes \union {None}]
    BY DEF IInv, TypeOK, HelperTypeOK
  <2>2. ASSUME NEW name \in {To, Temporary(i)}, dir' = [dir EXCEPT ![name] = Made(i)], dir[name] = None
        PROVE  dir[n] \in {None, Made(i)} \/ \E m \in Names : dir'[m] = dir[n]
    BY <2>1, <2>2, NamesDiffer
  <2>3. CASE Create
    BY <1>3, <2>2, <2>3 DEF Create, MakeAt, Untouched
  <2>4. CASE MakeTemporary
    <3>1. dir[Temporary(i)] = None
      BY <1>3, <2>4 DEF MakeTemporary, At, IInv, AtWork, NamesHold
    <3> QED BY <1>3, <2>2, <2>4, <3>1 DEF MakeTemporary, MakeAt, Untouched
  <2>5. ASSUME GiveUp PROVE dir[n] \in {None, Made(i)} \/ \E m \in Names : dir'[m] = dir[n]
    BY <1>3, <2>1, <2>5 DEF GiveUp
  <2>6. CASE StageTemporary
    BY <2>5, <2>6 DEF StageTemporary
  <2>7. ASSUME NEW inode, NEW sources \in SUBSET Names, Renamed(inode, sources),
               \A m \in sources : dir[m] = inode, ~RefusedBySystem(i)
        PROVE  dir[n] \in {None, Made(i)} \/ \E m \in Names : dir'[m] = dir[n]
    <3>1. dir' = [m \in Names |-> IF m = To THEN inode ELSE IF m \in sources THEN None ELSE dir[m]]
      BY <2>7 DEF Renamed
    <3>2. CASE n = To
      BY <1>3, <2>7, <3>2 DEF RefusedBySystem
    <3>3. CASE n \in sources
      BY <2>7, <3>1, <3>3, NamesDiffer
    <3>4. CASE n # To /\ n \notin sources
      BY <3>1, <3>4
    <3> QED BY <3>2, <3>3, <3>4
  <2>8. CASE Rename
    <3>1. CASE Renamed(dir[Source(i)], {Source(i)}) /\ ~RefusedBySystem(i)
      <4>1. {Source(i)} \in SUBSET Names
        BY NamesDiffer DEF Source
      <4> QED BY <2>7, <3>1, <4>1
    <3> QED BY <1>3, <2>8, <3>1 DEF Rename, Untouched
  <2>9. CASE RenameHeld
    <3>1. CASE Renamed(Expected(i), {m \in Names : dir[m] = Expected(i)}) /\ ~RefusedBySystem(i)
      BY <2>7, <3>1
    <3> QED BY <1>3, <2>5, <2>9, <3>1 DEF RenameHeld
  <2> QED BY <1>3, <2>3, <2>4, <2>6, <2>8, <2>9
<1>4. serving # None => serving \in Ids
  BY DEF IInv, TypeOK, HelperTypeOK
<1> QED BY <1>1, <1>2, <1>3, <1>4, OthersTouchNothing DEF NothingReplaced

(* NothingUnasked: whatever a request other than an authorised replacement *)
(* takes a name from is given another, and when the session has ended    *)
(* nothing is done any more.                                             *)
THEOREM NothingIsUnasked == Spec => NothingUnasked
<1>1. ASSUME IInv, [Next]_vars PROVE NothingAfterShutdown
  <2>1. Create \/ MakeTemporary \/ StageTemporary \/ Rename \/ RenameHeld \/ Write => alive
    BY DEF Create, MakeTemporary, StageTemporary, Rename, RenameHeld, Write, At
  <2>2. Race => did' = did
    BY DEF Race, record
  <2> QED BY <1>1, <2>1, <2>2, OthersTouchNothing DEF IInv, Started, NothingAfterShutdown
<1>2. IInv /\ Counted /\ [Next]_vars => [NothingReplaced /\ NothingAfterShutdown]_vars
  BY <1>1, StepReplacesNothing DEF Counted
<1>3. Init => Counted
  BY DEF Init, HelperInit, Counted
<1> QED BY <1>2, <1>3, InitInv, StepInv, CountsRaces, PTL DEF Spec, NothingUnasked
=============================================================================
