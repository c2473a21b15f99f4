--------------------------- MODULE TaskLoop_proofs ---------------------------
(***************************************************************************)
(* Proofs about TaskLedger, for any sessions, branches, contents and     *)
(* bounds, and about LoopStatus, for any history of a branch: what the   *)
(* loops over a ledger compute (OfBranch, DeriveTask, EventsOf), by      *)
(* induction over its events; that the ledger lock guards the ledger;    *)
(* that the ledger stays well formed with each task's evidence inside    *)
(* the task; that the commands implement the abstract Tasks; and that    *)
(* status and the gate say nothing the ledger does not show.             *)
(*                                                                       *)
(* Both modules derive the state of a task from the same operators, those*)
(* of TaskBoundary; what is proved of these serves both.                 *)
(***************************************************************************)
EXTENDS TaskLedger, LoopStatus, SequenceTheorems, FiniteSetTheorems, WellFoundedInduction, TLAPS

-----------------------------------------------------------------------------
(* RECURSION: functions defined by recursion over 0 .. n, as the model   *)
(* defines what the code computes in a loop: such functions exist, they  *)
(* satisfy their equations, and equal steps give equal values.  The      *)
(* induction principle is stated for a set, not for an operator.         *)
LEMMA LeastNumber ==
  ASSUME NEW T, T \subseteq Nat, T # {}
  PROVE  \E m \in T : \A n \in T : m <= n
<1> DEFINE R == OpToRel(<, Nat)
<1>1. IsWellFoundedOn(R, Nat)
  BY NatLessThanWellFounded
<1>2. \A x, y \in Nat : <<x, y>> \in R <=> x < y
  BY DEF OpToRel
<1> HIDE DEF R
<1>3. PICK m \in T : \A n \in T : ~ (<<n, m>> \in R)
  BY <1>1, WFMin
<1>4. \A n \in T : n \in Nat /\ m \in Nat /\ ~ (n < m)
  BY <1>2, <1>3
<1> QED BY <1>4

(* Induction over the numbers up to n.                                   *)
LEMMA UpTo ==
  ASSUME NEW n \in Nat, NEW S, 0 \in S, \A i \in 1 .. n : i - 1 \in S => i \in S
  PROVE  0 .. n \subseteq S
<1> SUFFICES ASSUME NEW z \in (0 .. n) \ S PROVE FALSE
  OBVIOUS
<1>1. PICK m \in (0 .. n) \ S : \A k \in (0 .. n) \ S : m <= k
  BY LeastNumber, (0 .. n) \ S # {}, (0 .. n) \ S \subseteq Nat
<1>2. m \in 1 .. n /\ m - 1 \in 0 .. n /\ ~ (m <= m - 1)
  OBVIOUS
<1>3. m - 1 \in S
  BY <1>1, <1>2
<1> QED BY <1>2, <1>3

(* f starts with v and goes on as step says.                             *)
Recurses(f, n, v, step) ==
  /\ f = [i \in 0 .. n |-> f[i]]
  /\ f[0] = v
  /\ \A i \in 1 .. n : f[i] = step[i][f[i - 1]]

LEMMA RecursionExists ==
  ASSUME NEW n \in Nat, NEW V, NEW v \in V, NEW step \in [1 .. n -> [V -> V]]
  PROVE  \E f : Recurses(f, n, v, step) /\ f \in [0 .. n -> V]
<1> DEFINE S == {m \in 0 .. n : \E f \in [0 .. m -> V] : Recurses(f, m, v, step)}
<1>1. 0 \in S
  <2>1. [i \in 0 .. 0 |-> v] \in [0 .. 0 -> V] /\ Recurses([i \in 0 .. 0 |-> v], 0, v, step)
    BY DEF Recurses
  <2> QED BY <2>1
<1>2. ASSUME NEW m \in 1 .. n, m - 1 \in S PROVE m \in S
  <2>1. PICK f \in [0 .. m - 1 -> V] : Recurses(f, m - 1, v, step)
    BY <1>2
  <2> DEFINE g == [i \in 0 .. m |-> IF i = m THEN step[m][f[m - 1]] ELSE f[i]]
  <2>2. f[m - 1] \in V /\ m \in 1 .. n
    OBVIOUS
  <2>3. step[m][f[m - 1]] \in V
    BY <2>2
  <2>4. g \in [0 .. m -> V]
    BY <2>3
  <2>5. \A i \in 0 .. m - 1 : g[i] = f[i]
    OBVIOUS
  <2>6. g[0] = v
    BY <2>1, <2>5 DEF Recurses
  <2>7. \A i \in 1 .. m - 1 : i - 1 \in 0 .. m - 1 /\ i \in 0 .. m - 1
    OBVIOUS
  <2>8. \A i \in 1 .. m - 1 : f[i] = step[i][f[i - 1]]
    BY <2>1 DEF Recurses
  <2>9. \A i \in 1 .. m - 1 : g[i] = step[i][g[i - 1]]
    BY <2>5, <2>7, <2>8
  <2>10. g[m] = step[m][g[m - 1]]
    <3>1. m \in 0 .. m /\ m - 1 \in 0 .. m /\ m - 1 # m
      OBVIOUS
    <3>2. g[m] = step[m][f[m - 1]] /\ g[m - 1] = f[m - 1]
      BY <3>1
    <3> QED BY <3>2
  <2>11. Recurses(g, m, v, step)
    <3>1. \A i \in 1 .. m : i = m \/ i \in 1 .. m - 1
      OBVIOUS
    <3>2. g = [i \in 0 .. m |-> g[i]]
      OBVIOUS
    <3> HIDE DEF g
    <3> QED BY <2>6, <2>9, <2>10, <3>1, <3>2 DEF Recurses
  <2> HIDE DEF g
  <2> QED BY <2>4, <2>11
<1> HIDE DEF S
<1>3. 0 .. n \subseteq S
  BY <1>1, <1>2, UpTo
<1>4. n \in S
  BY <1>3
<1> QED BY <1>4 DEF S

(* Two functions on 0 .. n are the same if each value follows from the one *)
(* before it in the same way.                                            *)
Alike(f, g, n) ==
  /\ f = [i \in 0 .. n |-> f[i]] /\ g = [i \in 0 .. n |-> g[i]]
  /\ f[0] = g[0]
  /\ \A i \in 1 .. n : f[i - 1] = g[i - 1] => f[i] = g[i]

LEMMA RecursionUnique ==
  ASSUME NEW n \in Nat, NEW f, NEW g, Alike(f, g, n) PROVE f = g
<1> DEFINE S == {i \in 0 .. n : f[i] = g[i]}
<1>1. 0 \in S
  BY DEF Alike
<1>2. ASSUME NEW i \in 1 .. n, i - 1 \in S PROVE i \in S
  BY SMTT(30), <1>2 DEF Alike
<1> HIDE DEF S
<1>3. 0 .. n \subseteq S
  BY <1>1, <1>2, UpTo
<1>4. \A i \in 0 .. n : f[i] = g[i]
  BY <1>3 DEF S
<1> QED BY <1>4 DEF Alike

-----------------------------------------------------------------------------
(* WALKS.  Any sequence is one over its own elements.                    *)
IsSequence(s) == Len(s) \in Nat /\ s = [i \in 1 .. Len(s) |-> s[i]]
Elements(s) == {s[i] : i \in 1 .. Len(s)}

LEMMA SequenceTyped == ASSUME NEW s, IsSequence(s) PROVE s \in Seq(Elements(s))
BY DEF IsSequence, Elements

LEMMA AppendGrows ==
  ASSUME NEW s, IsSequence(s), NEW e
  PROVE  /\ IsSequence(Append(s, e)) /\ Len(Append(s, e)) = Len(s) + 1
         /\ Append(s, e)[Len(s) + 1] = e
         /\ \A i \in 1 .. Len(s) : Append(s, e)[i] = s[i]
<1> DEFINE S == Elements(s) \union {e}
<1>1. s \in Seq(S) /\ e \in S
  BY SequenceTyped DEF Elements, IsSequence
<1> HIDE DEF S
<1>2. /\ Append(s, e) \in Seq(S) /\ Len(Append(s, e)) = Len(s) + 1
      /\ Append(s, e)[Len(s) + 1] = e
      /\ \A i \in 1 .. Len(s) : Append(s, e)[i] = s[i]
  BY <1>1, AppendProperties
<1>3. ASSUME NEW q \in Seq(S) PROVE IsSequence(q)
  BY DEF IsSequence
<1> QED BY <1>2, <1>3

(* Of the numbers up to n, the last one that has a property, 0 if none.  *)
LEMMA LastExists ==
  ASSUME NEW n \in Nat, NEW T
  PROVE  \E i \in 0 .. n : (i = 0 \/ i \in T) /\ \A j \in i + 1 .. n : j \notin T
<1> DEFINE S == {k \in 0 .. n : \E i \in 0 .. k : (i = 0 \/ i \in T) /\ \A j \in i + 1 .. k : j \notin T}
<1>1. 0 \in S
  OBVIOUS
<1>2. ASSUME NEW k \in 1 .. n, k - 1 \in S PROVE k \in S
  <2>1. PICK i \in 0 .. k - 1 : (i = 0 \/ i \in T) /\ \A j \in i + 1 .. k - 1 : j \notin T
    BY <1>2
  <2>2. CASE k \in T
    <3>1. k \in 0 .. k /\ \A j \in k + 1 .. k : j \notin T
      OBVIOUS
    <3> QED BY <2>2, <3>1
  <2>3. CASE k \notin T
    <3>1. i \in 0 .. k /\ \A j \in i + 1 .. k : j = k \/ j \in i + 1 .. k - 1
      OBVIOUS
    <3> QED BY <2>1, <2>3, <3>1
  <2> QED BY <2>2, <2>3
<1> HIDE DEF S
<1>3. n \in S
  BY <1>1, <1>2, UpTo
<1> QED BY <1>3 DEF S

(* The states that the events can derive.                                *)
StatesOf(s) == {Legacy, Idle, Invalid} \union {Active(s[i].task) : i \in 1 .. Len(s)}

Derivation(f, s) ==
  f = [n \in 0 .. Len(s) |->
        IF n = 0 THEN Legacy
        ELSE TheOne({AfterEvent(s, n, before) : before \in {f[n - 1]}})]

LEMMA TheOneIsIt ==
  ASSUME NEW s, NEW n, NEW v
  PROVE  TheOne({AfterEvent(s, n, before) : before \in {v}}) = AfterEvent(s, n, v)
<1>1. {AfterEvent(s, n, before) : before \in {v}} = {AfterEvent(s, n, v)}
  OBVIOUS
<1> QED BY <1>1 DEF TheOne

LEMMA AfterEventMeans ==
  ASSUME NEW s, NEW n, NEW v
  PROVE  AfterEvent(s, n, v) \in {v, Invalid, Idle, Active(s[n].task)}
BY DEF AfterEvent, AfterStart, AfterClose

(* DeriveTask walks over the events, one AfterEvent at a time.           *)
Walks(f, s) ==
  /\ f \in [0 .. Len(s) -> StatesOf(s)] /\ f[0] = Legacy
  /\ \A i \in 1 .. Len(s) : f[i] = AfterEvent(s, i, f[i - 1])
  /\ DeriveTask(s) = f[Len(s)]

LEMMA DeriveTaskWalks == ASSUME NEW s, IsSequence(s) PROVE \E f : Walks(f, s)
<1> DEFINE n == Len(s)
           V == StatesOf(s)
           step == [i \in 1 .. n |-> [v \in V |-> AfterEvent(s, i, v)]]
<1>1. n \in Nat /\ Legacy \in V
  BY DEF StatesOf, IsSequence
<1>2. \A i \in 1 .. n, v \in V : AfterEvent(s, i, v) \in V
  BY AfterEventMeans DEF StatesOf
<1>3. step \in [1 .. n -> [V -> V]]
  BY <1>2
<1>4. PICK f : Recurses(f, n, Legacy, step) /\ f \in [0 .. n -> V]
  <2> HIDE DEF n, V, step
  <2> QED BY <1>1, <1>3, RecursionExists
<1>5. ASSUME NEW i \in 1 .. n
      PROVE  i - 1 \in 0 .. n /\ f[i - 1] \in V /\ f[i] = AfterEvent(s, i, f[i - 1])
  <2>1. i - 1 \in 0 .. n
    BY <1>1
  <2>2. f[i - 1] \in V /\ f[i] = step[i][f[i - 1]]
    BY <1>4, <2>1 DEF Recurses
  <2> QED BY <2>1, <2>2
<1>6. f = [i \in 0 .. n |-> f[i]] /\ f[0] = Legacy
  BY <1>4 DEF Recurses
<1>7. ASSUME NEW g PROVE Derivation(g, s) <=> g = f
  <2>1. ASSUME Derivation(g, s) PROVE g = f
    <3>1. g = [i \in 0 .. n |-> g[i]]
      BY <2>1 DEF Derivation
    <3>2. \A i \in 0 .. n : g[i] = IF i = 0 THEN Legacy
             ELSE TheOne({AfterEvent(s, i, before) : before \in {g[i - 1]}})
      BY <2>1 DEF Derivation
    <3> HIDE DEF n, V
    <3>3. 0 \in 0 .. n /\ \A i \in 1 .. n : i \in 0 .. n /\ i # 0
      BY <1>1
    <3>4. g[0] = Legacy /\ \A i \in 1 .. n : g[i] = AfterEvent(s, i, g[i - 1])
      BY <3>2, <3>3, TheOneIsIt
    <3>5. \A i \in 1 .. n : f[i - 1] = g[i - 1] => f[i] = g[i]
      BY <3>4, <1>5
    <3>6. n \in Nat /\ f[0] = g[0] /\ f = [i \in 0 .. n |-> f[i]]
      BY <3>4, <1>1, <1>6
    <3>7. Alike(f, g, n)
      BY <3>1, <3>5, <3>6 DEF Alike
    <3> QED BY <3>6, <3>7, RecursionUnique
  <2>2. Derivation(f, s)
    <3>1. \A i \in 0 .. n : i = 0 \/ i \in 1 .. n
      BY <1>1
    <3>2. \A i \in 0 .. n : f[i] = IF i = 0 THEN Legacy
             ELSE TheOne({AfterEvent(s, i, before) : before \in {f[i - 1]}})
      BY <3>1, <1>5, <1>6, TheOneIsIt
    <3> QED BY <1>6, <3>2 DEF Derivation
  <2> QED BY <2>1, <2>2
<1>8. DeriveTask(s) = (CHOOSE g : Derivation(g, s))[n]
  BY DEF DeriveTask, Derivation
<1>9. DeriveTask(s) = f[n]
  BY <1>7, <1>8
<1> QED BY <1>4, <1>5, <1>6, <1>9 DEF Walks

-----------------------------------------------------------------------------
(* THE STATE OF THE TASK.  A history's boundaries, as far as a set of    *)
(* numbers goes; WellFormed and ReferenceState speak of all of them.     *)
StartsIn(s, B) == {i \in B : s[i].event = "task-start"}
FollowsIn(B, i, j) == i < j /\ \A k \in B : k <= i \/ j <= k

WellIn(s, B) ==
  /\ \A i \in B : (\A j \in B : i <= j) => i \in StartsIn(s, B)
  /\ \A i, j \in B : FollowsIn(B, i, j) =>
       /\ i \in StartsIn(s, B) <=> j \notin StartsIn(s, B)
       /\ i \in StartsIn(s, B) => s[j].task = s[i].task
  /\ \A i, j \in StartsIn(s, B) : i # j => s[i].task # s[j].task

BoundsTo(s, n) == {i \in 1 .. n : IsBoundary(s[i])}

Agrees(v, s, B) ==
  IF B = {} THEN v = Legacy
  ELSE IF ~WellIn(s, B) THEN v = Invalid
  ELSE \E l \in B : /\ \A j \in B : j <= l
                    /\ v = IF s[l].event = "task-start" THEN Active(s[l].task) ELSE Idle

LEMMA WellInAll == ASSUME NEW s PROVE WellFormed(s) <=> WellIn(s, Bounds(s))
BY DEF WellFormed, WellIn, StartsIn, FollowsIn, Starts, Follows

(* One more boundary, after all the others.                              *)
LEMMA FirstBound ==
  ASSUME NEW s, NEW n \in Nat
  PROVE  WellIn(s, {n}) <=> s[n].event = "task-start"
<1>1. StartsIn(s, {n}) = IF s[n].event = "task-start" THEN {n} ELSE {}
  BY DEF StartsIn
<1>2. \A i, j \in {n} : ~FollowsIn({n}, i, j)
  BY DEF FollowsIn
<1> QED BY <1>1, <1>2 DEF WellIn

LEMMA BoundsShrink ==
  ASSUME NEW s, NEW n \in Nat, NEW B, B \subseteq 0 .. n - 1, WellIn(s, B \union {n})
  PROVE  WellIn(s, B)
<1> DEFINE C == B \union {n}
<1>1. n \notin B /\ \A i \in B : i <= n /\ i \in Nat
  OBVIOUS
<1>2. \A i \in B : i \in StartsIn(s, C) <=> i \in StartsIn(s, B)
  BY DEF StartsIn
<1>3. \A i, j \in B : FollowsIn(B, i, j) => FollowsIn(C, i, j)
  BY <1>1 DEF FollowsIn
<1>4. ASSUME NEW i \in B, \A j \in B : i <= j PROVE i \in StartsIn(s, B)
  <2>1. i \in C /\ \A j \in C : i <= j
    BY <1>1, <1>4
  <2> QED BY <1>2, <2>1 DEF WellIn
<1>5. StartsIn(s, B) \subseteq StartsIn(s, C) /\ StartsIn(s, B) \subseteq B
  BY DEF StartsIn
<1> QED BY <1>2, <1>3, <1>4, <1>5 DEF WellIn

LEMMA NextBound ==
  ASSUME NEW s, NEW n \in Nat, NEW B, B \subseteq 0 .. n - 1, NEW l \in B, \A j \in B : j <= l,
         WellIn(s, B)
  PROVE  WellIn(s, B \union {n}) <=>
           /\ s[l].event = "task-start" <=> s[n].event # "task-start"
           /\ s[l].event = "task-start" => s[n].task = s[l].task
           /\ s[n].event = "task-start" => \A i \in StartsIn(s, B) : s[i].task # s[n].task
<1> DEFINE C == B \union {n}
<1>1. n \notin B /\ l < n /\ l \in Nat /\ \A i \in B : i <= n /\ i < n /\ i \in Nat
  OBVIOUS
<1>2. \A i \in C : i \in StartsIn(s, C) <=> s[i].event = "task-start"
  BY DEF StartsIn
<1>3. \A i \in B : i \in StartsIn(s, C) <=> i \in StartsIn(s, B)
  BY DEF StartsIn
<1>4. FollowsIn(C, l, n)
  BY <1>1 DEF FollowsIn
<1>5. ASSUME WellIn(s, C)
      PROVE  /\ s[l].event = "task-start" <=> s[n].event # "task-start"
             /\ s[l].event = "task-start" => s[n].task = s[l].task
             /\ s[n].event = "task-start" => \A i \in StartsIn(s, B) : s[i].task # s[n].task
  <2>1. l \in C /\ n \in C
    OBVIOUS
  <2>2. /\ l \in StartsIn(s, C) <=> n \notin StartsIn(s, C)
        /\ l \in StartsIn(s, C) => s[n].task = s[l].task
    BY <1>4, <1>5, <2>1 DEF WellIn
  <2>3. ASSUME s[n].event = "task-start", NEW i \in StartsIn(s, B) PROVE s[i].task # s[n].task
    <3>1. i \in StartsIn(s, C) /\ n \in StartsIn(s, C) /\ i # n
      BY <1>1, <2>3 DEF StartsIn
    <3> QED BY <1>5, <3>1 DEF WellIn
  <2> QED BY <1>2, <2>1, <2>2, <2>3
<1>6. ASSUME s[l].event = "task-start" <=> s[n].event # "task-start",
             s[l].event = "task-start" => s[n].task = s[l].task,
             s[n].event = "task-start" => \A i \in StartsIn(s, B) : s[i].task # s[n].task
      PROVE  WellIn(s, C)
  <2>1. ASSUME NEW i \in C, \A j \in C : i <= j PROVE i \in StartsIn(s, C)
    <3>1. i \in B
      BY <1>1, <2>1
    <3> QED BY <1>3, <2>1, <3>1 DEF WellIn
  <2>2. ASSUME NEW i \in C, NEW j \in C, FollowsIn(C, i, j)
        PROVE  /\ i \in StartsIn(s, C) <=> j \notin StartsIn(s, C)
               /\ i \in StartsIn(s, C) => s[j].task = s[i].task
    <3>1. i \in B
      <4>1. i # n
        BY <1>1, <2>2 DEF FollowsIn
      <4> QED BY <4>1
    <3>2. CASE j = n
      <4>1. l <= i \/ n <= l
        BY <2>2, <3>2 DEF FollowsIn
      <4>2. i = l
        BY <1>1, <3>1, <4>1
      <4> QED BY <1>2, <1>6, <3>2, <4>2
    <3>3. CASE j \in B
      <4>1. FollowsIn(B, i, j)
        BY <2>2 DEF FollowsIn
      <4> QED BY <1>3, <3>1, <3>3, <4>1 DEF WellIn
    <3> QED BY <3>2, <3>3
  <2>3. ASSUME NEW i \in StartsIn(s, C), NEW j \in StartsIn(s, C), i # j PROVE s[i].task # s[j].task
    <3>1. i \in C /\ j \in C
      BY DEF StartsIn
    <3>2. CASE i \in B /\ j \in B
      BY <1>3, <2>3, <3>2 DEF WellIn
    <3>3. CASE i = n
      BY <1>2, <1>3, <1>6, <2>3, <3>1, <3>3
    <3>4. CASE j = n
      BY <1>2, <1>3, <1>6, <2>3, <3>1, <3>4
    <3> QED BY <3>1, <3>2, <3>3, <3>4
  <2> HIDE DEF C
  <2> QED BY <2>1, <2>2, <2>3 DEF WellIn
<1> QED BY <1>5, <1>6

(* One step of the walk.                                                 *)
LEMMA WalkAgrees ==
  ASSUME NEW s, NEW n \in Nat, n # 0, NEW v, Agrees(v, s, BoundsTo(s, n - 1))
  PROVE  Agrees(AfterEvent(s, n, v), s, BoundsTo(s, n))
<1> DEFINE B == BoundsTo(s, n - 1)
           w == AfterEvent(s, n, v)
<1>1. B \subseteq 0 .. n - 1 /\ BoundsTo(s, n) = IF IsBoundary(s[n]) THEN B \union {n} ELSE B
  BY DEF BoundsTo
<1>2. CASE ~IsBoundary(s[n])
  <2>1. w = v
    BY <1>2 DEF AfterEvent
  <2> QED BY <1>1, <1>2, <2>1
<1>3. CASE IsBoundary(s[n])
  <2> DEFINE C == B \union {n}
  <2>1. BoundsTo(s, n) = C /\ n \in C /\ \A j \in C : j <= n
    BY <1>1, <1>3
  <2>2. StartsBefore(s, n, s[n].task) <=> \E i \in StartsIn(s, B) : s[i].task = s[n].task
    BY DEF StartsBefore, StartsIn, BoundsTo, IsBoundary, Boundaries
  <2>3. \A t : Active(t).state = "active" /\ Active(t).task = t
    BY DEF Active
  <2>4. Legacy.state # "active" /\ Idle.state # "active" /\ Legacy # Invalid /\ Idle # Invalid
    BY DEF Legacy, Idle, Invalid
  <2>5. \A t, u : (Active(t) = Active(u) => t = u) /\ Active(t) # Idle /\ Active(t) # Legacy /\ Active(t) # Invalid
    BY DEF Legacy, Idle, Invalid, Active
  <2> HIDE DEF B, C
  <2>6. CASE B = {}
    <3>1. C = {n} /\ v = Legacy
      BY <2>6 DEF C, Agrees, B
    <3>2. ~StartsBefore(s, n, s[n].task)
      BY <2>2, <2>6 DEF StartsIn
    <3>3. w = IF s[n].event = "task-start" THEN Active(s[n].task) ELSE Invalid
      BY <1>3, <2>4, <2>5, <3>1, <3>2 DEF AfterEvent, AfterStart, AfterClose
    <3>4. WellIn(s, C) <=> s[n].event = "task-start"
      BY <3>1, FirstBound
    <3> QED BY <2>1, <3>3, <3>4 DEF Agrees
  <2>7. CASE B # {} /\ ~WellIn(s, B)
    <3>1. v = Invalid
      BY <2>7 DEF Agrees, B
    <3>2. w = Invalid
      BY <3>1 DEF AfterEvent
    <3>3. ~WellIn(s, C)
      BY <1>1, <2>7, BoundsShrink DEF B, C
    <3> QED BY <2>1, <3>2, <3>3 DEF Agrees
  <2>8. CASE B # {} /\ WellIn(s, B)
    <3>1. PICK l \in B : /\ \A j \in B : j <= l
                         /\ v = IF s[l].event = "task-start" THEN Active(s[l].task) ELSE Idle
      BY <2>8 DEF Agrees, B
    <3>2. WellIn(s, C) <=>
           /\ s[l].event = "task-start" <=> s[n].event # "task-start"
           /\ s[l].event = "task-start" => s[n].task = s[l].task
           /\ s[n].event = "task-start" => \A i \in StartsIn(s, B) : s[i].task # s[n].task
      BY <1>1, <2>8, <3>1, NextBound DEF B, C
    <3>3. v # Invalid
      BY <2>4, <2>5, <3>1
    <3>4. CASE s[n].event = "task-start"
      <4>1. w = AfterStart(s, n, v)
        BY <1>3, <3>3, <3>4 DEF AfterEvent
      <4>2. v.state = "active" <=> s[l].event = "task-start"
        BY <2>3, <2>4, <3>1
      <4>3. w = IF (\E i \in StartsIn(s, B) : s[i].task = s[n].task) \/ s[l].event = "task-start"
                THEN Invalid ELSE Active(s[n].task)
        BY <2>2, <4>1, <4>2 DEF AfterStart
      <4>4. WellIn(s, C) <=> s[l].event # "task-start" /\ \A i \in StartsIn(s, B) : s[i].task # s[n].task
        BY <3>2, <3>4
      <4> QED BY <2>1, <3>4, <4>3, <4>4 DEF Agrees
    <3>5. CASE s[n].event # "task-start"
      <4>1. w = AfterClose(s, n, v)
        BY <1>3, <3>3, <3>5 DEF AfterEvent
      <4>2. v = Active(s[n].task) <=> s[l].event = "task-start" /\ s[n].task = s[l].task
        BY <2>5, <3>1
      <4>3. WellIn(s, C) <=> s[l].event = "task-start" /\ s[n].task = s[l].task
        BY <3>2, <3>5
      <4>4. w = IF WellIn(s, C) THEN Idle ELSE Invalid
        BY <4>1, <4>2, <4>3 DEF AfterClose
      <4> QED BY <2>1, <3>5, <4>4 DEF Agrees
    <3> QED BY <3>4, <3>5
  <2> QED BY <2>6, <2>7, <2>8
<1> QED BY <1>2, <1>3

LEMMA DerivedAgrees == ASSUME NEW s, IsSequence(s) PROVE Agrees(DeriveTask(s), s, Bounds(s))
<1>1. PICK f : Walks(f, s)
  BY DeriveTaskWalks
<1> DEFINE n == Len(s)
           S == {i \in 0 .. n : Agrees(f[i], s, BoundsTo(s, i))}
<1>2. n \in Nat
  BY DEF IsSequence
<1>3. 0 \in S
  <2>1. BoundsTo(s, 0) = {} /\ f[0] = Legacy
    BY <1>1 DEF BoundsTo, Walks
  <2> QED BY <1>2, <2>1 DEF Agrees
<1>4. ASSUME NEW i \in 1 .. n, i - 1 \in S PROVE i \in S
  <2>1. f[i] = AfterEvent(s, i, f[i - 1]) /\ i \in Nat /\ i # 0 /\ i \in 0 .. n
    BY <1>1 DEF Walks
  <2>2. Agrees(f[i], s, BoundsTo(s, i))
    BY <1>4, <2>1, WalkAgrees
  <2> QED BY <2>1, <2>2
<1>5. n \in S
  <2> HIDE DEF S, n
  <2>1. 0 .. n \subseteq S
    BY <1>2, <1>3, <1>4, UpTo
  <2> QED BY <1>2, <2>1
<1>6. Agrees(f[n], s, BoundsTo(s, n)) /\ BoundsTo(s, n) = Bounds(s)
  BY <1>5 DEF S, BoundsTo, Bounds
<1> QED BY <1>1, <1>6 DEF Walks

(* The walk finds what the definition of a well-formed history says.     *)
LEMMA DerivedIsReference == ASSUME NEW s, IsSequence(s) PROVE DeriveTask(s) = ReferenceState(s)
<1> DEFINE B == Bounds(s)
<1>1. Agrees(DeriveTask(s), s, B)
  BY DerivedAgrees
<1>2. CASE B = {} \/ ~WellFormed(s)
  BY <1>1, <1>2, WellInAll DEF Agrees, ReferenceState
<1>3. CASE B # {} /\ WellFormed(s)
  <2>1. PICK l \in B : /\ \A j \in B : j <= l
                       /\ DeriveTask(s) = IF s[l].event = "task-start" THEN Active(s[l].task) ELSE Idle
    BY <1>1, <1>3, WellInAll DEF Agrees
  <2>2. B \subseteq Nat
    BY DEF Bounds
  <2>3. l = CHOOSE i \in B : \A j \in B : j <= i
    <3>1. \A i \in B : (\A j \in B : j <= i) => i = l
      BY <2>1, <2>2
    <3> QED BY <2>1, <3>1
  <2>4. l \in Starts(s) <=> s[l].event = "task-start"
    BY DEF Starts
  <2> QED BY <1>3, <2>1, <2>3, <2>4 DEF ReferenceState, StateAfter
<1> QED BY <1>2, <1>3

(* What an active task is: its start is the last boundary, and the only  *)
(* start of it.                                                          *)
LastStart(s, k, t) ==
  /\ k \in 1 .. Len(s) /\ s[k].event = "task-start" /\ s[k].task = t
  /\ \A j \in k + 1 .. Len(s) : ~IsBoundary(s[j])

LEMMA ActiveMeans ==
  ASSUME NEW s, IsSequence(s), NEW t, DeriveTask(s) = Active(t)
  PROVE  /\ LastStart(s, StartOfTask(s, t), t)
         /\ \A k \in 1 .. Len(s) : s[k].event = "task-start" /\ s[k].task = t => k = StartOfTask(s, t)
<1> DEFINE B == Bounds(s)
<1>1. Agrees(Active(t), s, B)
  BY DerivedAgrees
<1>2. Active(t) # Legacy /\ Active(t) # Invalid /\ Active(t) # Idle /\ \A u : Active(t) = Active(u) => t = u
  BY DEF Active, Legacy, Idle, Invalid
<1>3. B # {} /\ WellIn(s, B)
  BY <1>1, <1>2 DEF Agrees
<1>4. PICK l \in B : /\ \A j \in B : j <= l
                     /\ s[l].event = "task-start" /\ s[l].task = t
  BY <1>1, <1>2, <1>3 DEF Agrees
<1>5. ASSUME NEW k \in 1 .. Len(s), s[k].event = "task-start", s[k].task = t PROVE k = l
  <2>1. k \in StartsIn(s, B) /\ l \in StartsIn(s, B)
    BY <1>4, <1>5 DEF StartsIn, Bounds, IsBoundary, Boundaries
  <2> QED BY <1>3, <1>4, <1>5, <2>1 DEF WellIn
<1>6. l \in 1 .. Len(s)
  BY DEF Bounds
<1>7. StartOfTask(s, t) = l
  BY <1>4, <1>5, <1>6 DEF StartOfTask
<1>8. \A j \in l + 1 .. Len(s) : ~IsBoundary(s[j])
  <2>1. ASSUME NEW j \in l + 1 .. Len(s), IsBoundary(s[j]) PROVE FALSE
    <3>1. j \in B /\ ~ (j <= l)
      BY <1>6, <2>1 DEF Bounds
    <3> QED BY <1>4, <3>1
  <2> QED BY <2>1
<1> QED BY <1>4, <1>5, <1>6, <1>7, <1>8 DEF LastStart

LEMMA LegacyMeans ==
  ASSUME NEW s, IsSequence(s), DeriveTask(s) = Legacy
  PROVE  \A i \in 1 .. Len(s) : ~IsBoundary(s[i])
<1>1. Agrees(Legacy, s, Bounds(s))
  BY DerivedAgrees
<1>2. Legacy # Invalid /\ Legacy # Idle /\ \A t : Active(t) # Legacy
  BY DEF Active, Legacy, Idle, Invalid
<1>3. Bounds(s) = {}
  BY <1>1, <1>2 DEF Agrees
<1> QED BY <1>3 DEF Bounds

LEMMA DerivedStates ==
  ASSUME NEW s, IsSequence(s)
  PROVE  \/ DeriveTask(s) \in {Legacy, Idle, Invalid}
         \/ \E t : /\ DeriveTask(s) = Active(t)
                   /\ \E i \in 1 .. Len(s) : s[i].event = "task-start" /\ s[i].task = t
<1>1. Agrees(DeriveTask(s), s, Bounds(s))
  BY DerivedAgrees
<1> QED BY <1>1 DEF Agrees, Bounds

-----------------------------------------------------------------------------
(* THE EVENTS OF A TASK.  What EventsOf keeps: in order, the events from *)
(* the first-th on that name the task.                                   *)
Keeping(f, s, first, t) ==
  f = [n \in 0 .. Len(s) |->
        IF n < first THEN <<>>
        ELSE IF s[n].task = t THEN Append(f[n - 1], s[n]) ELSE f[n - 1]]

LEMMA EventsOfIsKept ==
  ASSUME NEW S, NEW s \in Seq(S), NEW first \in Nat, first # 0, NEW t
  PROVE  \E f \in [0 .. Len(s) -> Seq(S)] :
           Keeping(f, s, first, t) /\ EventsOf(s, first, t) = f[Len(s)]
<1> DEFINE n == Len(s)
           next(i, v) == IF i < first THEN <<>> ELSE IF s[i].task = t THEN Append(v, s[i]) ELSE v
           step == [i \in 1 .. n |-> [v \in Seq(S) |-> next(i, v)]]
<1>1. n \in Nat /\ <<>> \in Seq(S) /\ \A i \in 1 .. n : s[i] \in S
  BY ElementOfSeq
<1>2. \A i \in 1 .. n, v \in Seq(S) : next(i, v) \in Seq(S)
  BY <1>1, AppendProperties
<1>3. step \in [1 .. n -> [Seq(S) -> Seq(S)]]
  BY <1>2
<1>4. PICK f : Recurses(f, n, <<>>, step) /\ f \in [0 .. n -> Seq(S)]
  <2> HIDE DEF n, step
  <2> QED BY <1>1, <1>3, RecursionExists
<1>5. ASSUME NEW i \in 1 .. n PROVE i - 1 \in 0 .. n /\ f[i - 1] \in Seq(S) /\ f[i] = next(i, f[i - 1])
  <2>1. i - 1 \in 0 .. n
    BY <1>1
  <2>2. f[i - 1] \in Seq(S) /\ f[i] = step[i][f[i - 1]]
    BY <1>4, <2>1 DEF Recurses
  <2> QED BY <2>1, <2>2
<1>6. f = [i \in 0 .. n |-> f[i]] /\ f[0] = <<>>
  BY <1>4 DEF Recurses
<1>7. 0 < first /\ \A i \in 0 .. n : i = 0 \/ i \in 1 .. n
  BY <1>1
<1>8. ASSUME NEW g PROVE Keeping(g, s, first, t) <=> g = f
  <2>1. ASSUME Keeping(g, s, first, t) PROVE g = f
    <3>1. g = [i \in 0 .. n |-> g[i]]
      BY <2>1 DEF Keeping
    <3>2. \A i \in 0 .. n : g[i] = next(i, g[i - 1])
      BY <2>1 DEF Keeping
    <3>3. 0 \in 0 .. n /\ \A i \in 1 .. n : i \in 0 .. n
      BY <1>1
    <3>4. g[0] = <<>> /\ \A i \in 1 .. n : g[i] = next(i, g[i - 1])
      BY <1>7, <3>2, <3>3
    <3> HIDE DEF n, next
    <3>5. \A i \in 1 .. n : f[i - 1] = g[i - 1] => f[i] = g[i]
      BY <3>4, <1>5
    <3>6. n \in Nat /\ f[0] = g[0] /\ f = [i \in 0 .. n |-> f[i]]
      BY <3>4, <1>1, <1>6
    <3>7. Alike(f, g, n)
      BY <3>1, <3>5, <3>6 DEF Alike
    <3> QED BY <3>6, <3>7, RecursionUnique
  <2>2. Keeping(f, s, first, t)
    <3>1. \A i \in 0 .. n : f[i] = next(i, f[i - 1])
      BY <1>5, <1>6, <1>7
    <3> QED BY <1>6, <3>1 DEF Keeping
  <2> QED BY <2>1, <2>2
<1>9. EventsOf(s, first, t) = (CHOOSE g : Keeping(g, s, first, t))[n]
  BY DEF EventsOf, Keeping
<1>10. EventsOf(s, first, t) = f[n] /\ Keeping(f, s, first, t)
  BY <1>8, <1>9
<1> QED BY <1>4, <1>10

(* r holds the events of t among s[first] .. s[n], each from its place m. *)
Places(m, r, s, first, n, t) ==
  /\ m \in [1 .. Len(r) -> first .. n]
  /\ \A i \in 1 .. Len(r) : r[i] = s[m[i]] /\ s[m[i]].task = t
  /\ \A i, j \in 1 .. Len(r) : i < j => m[i] < m[j]
  /\ \A k \in first .. n : s[k].task = t => \E i \in 1 .. Len(r) : m[i] = k

LEMMA OneMorePlace ==
  ASSUME NEW S, NEW r \in Seq(S), NEW s, NEW first \in Nat, NEW n \in Nat, first <= n, NEW t,
         s[n] \in S, NEW m, Places(m, r, s, first, n - 1, t)
  PROVE  \E o : Places(o, IF s[n].task = t THEN Append(r, s[n]) ELSE r, s, first, n, t)
<1>1. first .. n = (first .. n - 1) \union {n} /\ n \notin first .. n - 1 /\ Len(r) \in Nat
  OBVIOUS
<1>2. CASE s[n].task # t
  <2>1. Places(m, r, s, first, n, t)
    BY <1>1, <1>2 DEF Places
  <2> QED BY <1>2, <2>1
<1>3. CASE s[n].task = t
  <2> DEFINE q == Append(r, s[n])
             o == [i \in 1 .. Len(q) |-> IF i = Len(q) THEN n ELSE m[i]]
  <2>1. /\ Len(q) = Len(r) + 1 /\ q[Len(q)] = s[n]
        /\ \A i \in 1 .. Len(r) : q[i] = r[i]
    BY AppendProperties
  <2>2. /\ 1 .. Len(q) = (1 .. Len(r)) \union {Len(q)} /\ Len(q) \in 1 .. Len(q)
        /\ \A i \in 1 .. Len(r) : i # Len(q) /\ i < Len(q)
    BY <1>1, <2>1
  <2>3. o[Len(q)] = n /\ \A i \in 1 .. Len(r) : o[i] = m[i] /\ o[i] \in first .. n - 1
    BY <2>2 DEF Places
  <2>4. o \in [1 .. Len(q) -> first .. n]
    <3>1. \A i \in 1 .. Len(q) : o[i] \in first .. n
      BY <1>1, <2>2, <2>3
    <3> QED BY <3>1
  <2> HIDE DEF o, q
  <2>5. \A i \in 1 .. Len(q) : q[i] = s[o[i]] /\ s[o[i]].task = t
    BY <1>3, <2>1, <2>2, <2>3 DEF Places
  <2>6. ASSUME NEW i \in 1 .. Len(q), NEW j \in 1 .. Len(q), i < j PROVE o[i] < o[j]
    <3>1. i \in 1 .. Len(r)
      BY <2>1, <2>6, <1>1
    <3>2. CASE j = Len(q)
      <4>1. o[i] \in first .. n - 1
        BY <2>3, <3>1
      <4> QED BY <2>3, <3>2, <4>1
    <3>3. CASE j \in 1 .. Len(r)
      BY <2>3, <2>6, <3>1, <3>3 DEF Places
    <3> QED BY <2>2, <3>2, <3>3
  <2>7. ASSUME NEW k \in first .. n, s[k].task = t PROVE \E i \in 1 .. Len(q) : o[i] = k
    <3>1. CASE k = n
      BY <2>2, <2>3, <3>1
    <3>2. CASE k \in first .. n - 1
      <4>1. PICK i \in 1 .. Len(r) : m[i] = k
        BY <2>7, <3>2 DEF Places
      <4> QED BY <2>2, <2>3, <4>1
    <3> QED BY <1>1, <3>1, <3>2
  <2>8. Places(o, q, s, first, n, t)
    BY <2>4, <2>5, <2>6, <2>7 DEF Places
  <2> QED BY <1>3, <2>8 DEF q
<1> QED BY <1>2, <1>3

LEMMA EventsOfMeans ==
  ASSUME NEW s, IsSequence(s), NEW first \in 1 .. Len(s), NEW t
  PROVE  /\ IsSequence(EventsOf(s, first, t))
         /\ \E m : Places(m, EventsOf(s, first, t), s, first, Len(s), t)
<1> DEFINE n == Len(s)
           S == Elements(s)
<1>1. s \in Seq(S) /\ n \in Nat /\ first \in Nat /\ first # 0 /\ first <= n
      /\ \A i \in 1 .. n : s[i] \in S
  BY SequenceTyped DEF IsSequence, Elements
<1> HIDE DEF S
<1>2. PICK f \in [0 .. n -> Seq(S)] : Keeping(f, s, first, t) /\ EventsOf(s, first, t) = f[n]
  BY <1>1, EventsOfIsKept
<1>3. \A i \in 0 .. n :
        f[i] = IF i < first THEN <<>> ELSE IF s[i].task = t THEN Append(f[i - 1], s[i]) ELSE f[i - 1]
  BY <1>2 DEF Keeping
<1> DEFINE T == {i \in 0 .. n : \E m : Places(m, f[i], s, first, i, t)}
<1> HIDE DEF n
<1>4. ASSUME NEW i \in 0 .. n, i < first PROVE i \in T
  <2>1. f[i] = <<>> /\ Len(<<>>) = 0 /\ first .. i = {}
    BY <1>1, <1>3, <1>4
  <2>2. 1 .. Len(f[i]) = {}
    BY <2>1
  <2>3. Places([j \in {} |-> 0], f[i], s, first, i, t)
    BY <2>1, <2>2 DEF Places
  <2> QED BY <2>3
<1>5. ASSUME NEW i \in 1 .. n, i - 1 \in T PROVE i \in T
  <2>1. CASE i < first
    <3>1. i \in 0 .. n
      BY <1>1
    <3> QED BY <1>4, <2>1, <3>1
  <2>2. CASE ~ (i < first)
    <3>1. i \in 0 .. n /\ i \in Nat /\ first <= i /\ i - 1 \in 0 .. n
      BY <1>1, <2>2
    <3>2. f[i] = (IF s[i].task = t THEN Append(f[i - 1], s[i]) ELSE f[i - 1]) /\ f[i - 1] \in Seq(S)
      BY <1>3, <2>2, <3>1
    <3>3. PICK m : Places(m, f[i - 1], s, first, i - 1, t)
      BY <1>5
    <3>4. \E o : Places(o, f[i], s, first, i, t)
      BY <1>1, <3>1, <3>2, <3>3, OneMorePlace
    <3> QED BY <3>1, <3>4
  <2> QED BY <2>1, <2>2
<1>6. n \in T
  <2>1. 0 \in T
    BY <1>1, <1>4
  <2> HIDE DEF T
  <2>2. 0 .. n \subseteq T
    BY <1>1, <1>5, <2>1, UpTo
  <2> QED BY <1>1, <2>2
<1>7. ASSUME NEW q \in Seq(S) PROVE IsSequence(q)
  BY DEF IsSequence
<1>8. n \in 0 .. n
  BY <1>1
<1> QED BY <1>2, <1>6, <1>7, <1>8 DEF n

(* More events after the last one add to what is kept.                   *)
LEMMA EventsOfGrows ==
  ASSUME NEW s, IsSequence(s), NEW r, IsSequence(r), Len(s) <= Len(r),
         \A i \in 1 .. Len(s) : r[i] = s[i], NEW first \in 1 .. Len(s), NEW t
  PROVE  /\ Len(EventsOf(s, first, t)) <= Len(EventsOf(r, first, t))
         /\ \A i \in 1 .. Len(EventsOf(s, first, t)) :
              EventsOf(r, first, t)[i] = EventsOf(s, first, t)[i]
<1> DEFINE n == Len(s)
           k == Len(r)
           S == Elements(s)
           R == Elements(r)
<1>1. /\ s \in Seq(S) /\ r \in Seq(R) /\ n \in Nat /\ k \in Nat /\ first \in Nat /\ first # 0 /\ n <= k
      /\ first <= n /\ \A i \in 1 .. k : r[i] \in R
  <2>1. s \in Seq(S) /\ r \in Seq(R)
    BY SequenceTyped
  <2>2. n \in Nat /\ k \in Nat /\ \A i \in 1 .. k : r[i] \in R
    BY DEF IsSequence, Elements
  <2> HIDE DEF S, R
  <2> QED BY <2>1, <2>2
<1> HIDE DEF S, R
<1>0. \E g \in [0 .. k -> Seq(R)] : Keeping(g, r, first, t) /\ EventsOf(r, first, t) = g[k]
  <2>1. r \in Seq(R) /\ first \in Nat /\ first # 0
    BY <1>1
  <2> QED BY <2>1, EventsOfIsKept
<1>2. PICK f \in [0 .. n -> Seq(S)] : Keeping(f, s, first, t) /\ EventsOf(s, first, t) = f[n]
  <2>1. s \in Seq(S) /\ first \in Nat /\ first # 0
    BY <1>1
  <2> QED BY <2>1, EventsOfIsKept
<1>3. PICK g \in [0 .. k -> Seq(R)] : Keeping(g, r, first, t) /\ EventsOf(r, first, t) = g[k]
  BY <1>0
<1>4. \A i \in 0 .. n :
        f[i] = IF i < first THEN <<>> ELSE IF s[i].task = t THEN Append(f[i - 1], s[i]) ELSE f[i - 1]
  BY <1>2 DEF Keeping
<1>5. \A i \in 0 .. k :
        g[i] = IF i < first THEN <<>> ELSE IF r[i].task = t THEN Append(g[i - 1], r[i]) ELSE g[i - 1]
  BY <1>3 DEF Keeping
<1> DEFINE More(i) == Len(f[n]) <= Len(g[i]) /\ \A j \in 1 .. Len(f[n]) : g[i][j] = f[n][j]
           T == {i \in 0 .. k : IF i <= n THEN g[i] = f[i] ELSE More(i)}
<1>6. \A i \in 1 .. n : r[i] = s[i]
  OBVIOUS
<1> HIDE DEF n, k
<1>7. 0 \in T
  BY <1>1, <1>4, <1>5
<1>8. ASSUME NEW i \in 1 .. k, i - 1 \in T PROVE i \in T
  <2>1. i \in 0 .. k /\ i - 1 \in 0 .. k
    BY <1>1
  <2>2. CASE i <= n
    <3>1. g[i - 1] = f[i - 1] /\ r[i] = s[i] /\ i \in 0 .. n
      BY <1>1, <1>6, <1>8, <2>2
    <3>2. g[i] = f[i]
      BY <1>4, <1>5, <2>1, <3>1
    <3> QED BY <2>1, <2>2, <3>2
  <2>3. CASE ~ (i <= n)
    <3>1. More(i - 1)
      <4>1. CASE i - 1 <= n
        <5>1. i - 1 = n
          BY <1>1, <2>3, <4>1
        <5>2. g[n] = f[n] /\ Len(f[n]) \in Nat
          BY <1>1, <1>8, <5>1
        <5> QED BY <5>1, <5>2
      <4>2. CASE ~ (i - 1 <= n)
        BY <1>8, <4>2
      <4> QED BY <4>1, <4>2
    <3>2. g[i] = (IF r[i].task = t THEN Append(g[i - 1], r[i]) ELSE g[i - 1])
      <4>1. ~ (i < first)
        BY <1>1, <2>3
      <4> QED BY <1>5, <2>1, <4>1
    <3>3. g[i - 1] \in Seq(R) /\ f[n] \in Seq(S) /\ r[i] \in R
      BY <1>1, <2>1
    <3>4. /\ Len(Append(g[i - 1], r[i])) = Len(g[i - 1]) + 1
          /\ \A j \in 1 .. Len(g[i - 1]) : Append(g[i - 1], r[i])[j] = g[i - 1][j]
      BY <3>3, AppendProperties
    <3>5. Len(g[i - 1]) \in Nat /\ Len(f[n]) \in Nat
      BY <3>3
    <3>6. More(i)
      BY <3>1, <3>2, <3>4, <3>5
    <3> QED BY <2>1, <2>3, <3>6
  <2> QED BY <2>2, <2>3
<1>9. k \in T
  <2> HIDE DEF T
  <2>1. 0 .. k \subseteq T
    BY <1>1, <1>7, <1>8, UpTo
  <2> QED BY <1>1, <2>1
<1>10. More(k)
  <2>1. CASE k <= n
    <3>1. k = n /\ f[n] \in Seq(S)
      BY <1>1, <2>1
    <3>2. g[k] = f[n]
      BY <1>9, <2>1, <3>1
    <3> QED BY <3>1, <3>2
  <2>2. CASE ~ (k <= n)
    BY <1>9, <2>2
  <2> QED BY <2>1, <2>2
<1> QED BY <1>2, <1>3, <1>10

-----------------------------------------------------------------------------
(* THE LOCK.                                                             *)

WellShaped(s) ==
  /\ {"pc", "orphan"} \subseteq DOMAIN s
  /\ s.pc \in {"idle", "running", "decide", "helper", "commit"}
  /\ s.orphan \in BOOLEAN
  /\ s.orphan => HelperAtWork(s)

SessionShape ==
  /\ session = [p \in Sessions |-> session[p]]
  /\ \A p \in Sessions : WellShaped(session[p])

IInv == SessionShape /\ HelperHoldsLock

LEMMA NoneIsNoSession == None \notin Sessions
BY TaskLedgerAssumption

LEMMA NoCommandShape == WellShaped(NoCommand) /\ ~HelperAtWork(NoCommand) /\ ~NoCommand.orphan
BY DEF WellShaped, HelperAtWork, NoCommand

LEMMA InitInv == Init => IInv
<1> SUFFICES ASSUME Init PROVE IInv
  OBVIOUS
<1>1. session = [p \in Sessions |-> session[p]] /\ \A p \in Sessions : session[p] = NoCommand
  BY DEF Init
<1>2. SessionShape
  BY <1>1, NoCommandShape DEF SessionShape
<1>3. HelperHoldsLock
  BY <1>1, NoCommandShape, NoneIsNoSession DEF HelperHoldsLock, Init
<1> QED BY <1>2, <1>3 DEF IInv

(* One session changes: what the invariant asks of the new record.       *)
LEMMA ChangeKeeps ==
  ASSUME IInv, NEW p \in Sessions, NEW s, WellShaped(s),
         session' = [session EXCEPT ![p] = s],
         \/ lock' = lock /\ (lock = p <=> HelperAtWork(s) /\ ~s.orphan)
         \/ lock = None /\ lock' = p /\ HelperAtWork(s) /\ ~s.orphan
         \/ lock' = (IF lock = p THEN None ELSE lock) /\ ~(HelperAtWork(s) /\ ~s.orphan)
  PROVE  IInv'
<1>1. /\ session' = [q \in Sessions |-> session'[q]]
      /\ session'[p] = s
      /\ \A q \in Sessions \ {p} : session'[q] = session[q]
  BY DEF IInv, SessionShape
<1>2. SessionShape'
  BY <1>1 DEF IInv, SessionShape, WellShaped, HelperAtWork
<1>3. HelperHoldsLock'
  BY <1>1, NoneIsNoSession DEF IInv, HelperHoldsLock, HelperAtWork
<1> QED BY <1>2, <1>3 DEF IInv

LEMMA EndKeeps == ASSUME IInv, NEW p \in Sessions, End(p) PROVE IInv'
BY ChangeKeeps, NoCommandShape DEF End, Release

LEMMA KillKeeps == ASSUME IInv, NEW p \in Sessions, Kill(p) PROVE IInv'
<1> DEFINE s == IF session[p].pc \in {"helper", "commit"}
                THEN [session[p] EXCEPT !.orphan = TRUE] ELSE NoCommand
<1>1. WellShaped(s) /\ ~(HelperAtWork(s) /\ ~s.orphan)
  BY NoCommandShape DEF IInv, SessionShape, WellShaped, HelperAtWork
<1>2. lock' = (IF lock = p THEN None ELSE lock) /\ session' = [session EXCEPT ![p] = s]
  BY DEF Kill, Release
<1> HIDE DEF s
<1> QED BY <1>1, <1>2, ChangeKeeps

(* A step of a session, or of the owner of the checkout, keeps it.       *)
LEMMA StepInv == IInv /\ [Next]_vars => IInv'
<1> SUFFICES ASSUME IInv, [Next]_vars PROVE IInv'
  OBVIOUS
<1>1. ASSUME NEW p \in Sessions, NEW cmd \in Transitions, Transition(p, cmd) PROVE IInv'
  <2> DEFINE s == [NoCommand EXCEPT !.pc = "helper", !.cmd = cmd, !.branch = head,
                                    !.seen = DeriveTask(On(head)),
                                    !.queue = Records(cmd, DeriveTask(On(head)), head)]
  <2>1. WellShaped(s) /\ HelperAtWork(s) /\ ~s.orphan
    BY <1>1 DEF NoCommand, WellShaped, HelperAtWork
  <2>2. lock = None /\ lock' = p /\ session' = [session EXCEPT ![p] = s]
    BY <1>1 DEF Transition
  <2> HIDE DEF s
  <2> QED BY <2>1, <2>2, ChangeKeeps
<1>2. ASSUME NEW p \in Sessions, NEW cmd \in Recorders, Capture(p, cmd) PROVE IInv'
  <2> DEFINE s == [NoCommand EXCEPT !.pc = "running", !.cmd = cmd, !.branch = head,
                                    !.seen = ScopedState(head)]
  <2>1. WellShaped(s) /\ ~HelperAtWork(s)
    BY <1>2 DEF NoCommand, WellShaped, HelperAtWork
  <2>2. lock' = lock /\ lock # p /\ session' = [session EXCEPT ![p] = s]
    BY <1>2 DEF Capture, Begins, IInv, HelperHoldsLock, HelperAtWork
  <2> HIDE DEF s
  <2> QED BY <2>1, <2>2, ChangeKeeps
<1>3. ASSUME NEW p \in Sessions, Note(p) PROVE IInv'
  <2> DEFINE s == [NoCommand EXCEPT !.pc = "helper", !.cmd = "note", !.branch = head,
                                    !.seen = ScopedState(head),
                                    !.queue = <<Record("note", ScopedState(head).task, head, None,
                                                       ScopedState(head) = Legacy)>>]
  <2>1. WellShaped(s) /\ HelperAtWork(s) /\ ~s.orphan
    BY <1>3 DEF NoCommand, WellShaped, HelperAtWork
  <2>2. lock = None /\ lock' = p /\ session' = [session EXCEPT ![p] = s]
    BY <1>3 DEF Note
  <2> HIDE DEF s
  <2> QED BY <2>1, <2>2, ChangeKeeps
<1>4. ASSUME NEW p \in Sessions, Fingerprint(p) PROVE IInv'
  <2> DEFINE s == [session[p] EXCEPT !.pc = "decide", !.snapshot = tree[head]]
  <2>1. WellShaped(s) /\ ~HelperAtWork(s)
    BY <1>4 DEF Fingerprint, IInv, SessionShape, WellShaped, HelperAtWork
  <2>2. lock' = lock /\ lock # p /\ session' = [session EXCEPT ![p] = s]
    BY <1>4 DEF Fingerprint, IInv, HelperHoldsLock, HelperAtWork
  <2> HIDE DEF s
  <2> QED BY <2>1, <2>2, ChangeKeeps
<1>5. ASSUME NEW p \in Sessions, DecideRecord(p) PROVE IInv'
  <2> DEFINE s == [session[p] EXCEPT !.pc = "helper", !.queue = <<Evidence(p)>>]
  <2>1. WellShaped(s) /\ HelperAtWork(s) /\ ~s.orphan
    BY <1>5 DEF DecideRecord, IInv, SessionShape, WellShaped, HelperAtWork
  <2>2. lock = None /\ lock' = p /\ session' = [session EXCEPT ![p] = s]
    BY <1>5 DEF DecideRecord
  <2> HIDE DEF s
  <2> QED BY <2>1, <2>2, ChangeKeeps
<1>6. ASSUME NEW p \in Sessions, BeforeCommit(p) PROVE IInv'
  <2> DEFINE s == [session[p] EXCEPT !.pc = "commit"]
  <2>1. WellShaped(s) /\ HelperAtWork(s) /\ s.orphan = session[p].orphan
    BY <1>6 DEF IInv, SessionShape, WellShaped, HelperAtWork
  <2>2. lock' = lock /\ (lock = p <=> ~session[p].orphan) /\ session' = [session EXCEPT ![p] = s]
    BY <1>6 DEF BeforeCommit, IInv, HelperHoldsLock, HelperAtWork
  <2> HIDE DEF s
  <2> QED BY <2>1, <2>2, ChangeKeeps
<1>7. ASSUME NEW p \in Sessions, RefuseRecord(p) \/ Commit(p) \/ HelperFails(p) PROVE IInv'
  BY <1>7, EndKeeps DEF RefuseRecord, Commit, HelperFails
<1>8. ASSUME NEW p \in Sessions, Command(p) PROVE IInv'
  BY <1>1, <1>2, <1>3, <1>4, <1>5, <1>6, <1>7, <1>8, KillKeeps DEF Command, Proceed
<1>9. CASE UNCHANGED <<lock, session>>
  BY <1>9 DEF IInv, SessionShape, HelperHoldsLock
<1> QED BY <1>8, <1>9 DEF Next, Checkout, Edit, vars

(* Whoever appends is a command's helper; a lock holder at work is living. *)
LEMMA StepGuarded ==
  IInv /\ [Next]_vars =>
    \A p \in Sessions :
      lock = p /\ lock' = p /\ ledger' # ledger
        => \E q \in Sessions : session[q].orphan /\ session'[q].pc = "idle"
<1> SUFFICES ASSUME IInv, [Next]_vars, NEW p \in Sessions,
                    lock = p, lock' = p, ledger' # ledger
             PROVE  \E q \in Sessions : session[q].orphan /\ session'[q].pc = "idle"
  OBVIOUS
<1>1. PICK q \in Sessions : Commit(q)
  BY DEF Next, vars, Command, Proceed, Checkout, Edit, Transition, Capture, Note, Fingerprint,
         DecideRecord, RefuseRecord, BeforeCommit, HelperFails, Kill
<1>2. lock # q
  BY <1>1, NoneIsNoSession DEF Commit, End, Release
<1>3. session[q].orphan
  BY <1>1, <1>2 DEF IInv, SessionShape, WellShaped, HelperHoldsLock, HelperAtWork, Commit
<1>4. session'[q].pc = "idle"
  BY <1>1 DEF IInv, SessionShape, Commit, End, NoCommand
<1> QED BY <1>3, <1>4

-----------------------------------------------------------------------------
(* A lock is held exactly by the living command whose helper is at work: *)
(* no command ends, or is killed, and leaves it behind (withLedgerLock). *)
THEOREM LockFollowsHelper == Spec => []HelperHoldsLock
<1>1. IInv => HelperHoldsLock
  BY DEF IInv
<1> QED BY InitInv, StepInv, <1>1, PTL DEF Spec

(* Under a held lock only an orphaned helper changes the ledger.         *)
THEOREM LockGuards == Spec => LockGuardsLedger
<1>1. Spec => []IInv
  BY InitInv, StepInv, PTL DEF Spec
<1>2. IInv /\ [Next]_vars =>
        [\A p \in Sessions :
           lock = p /\ lock' = p /\ ledger' # ledger
             => \E q \in Sessions : session[q].orphan /\ session'[q].pc = "idle"]_vars
  BY StepGuarded
<1> QED BY <1>1, <1>2, PTL DEF Spec, LockGuardsLedger

-----------------------------------------------------------------------------
(* What the two loops over a ledger compute: OfBranch and DeriveTask.    *)
Keeps(f, log, b) ==
  f = [n \in 0 .. Len(log) |->
        IF n = 0 THEN <<>>
        ELSE IF log[n].branch = b THEN Append(f[n - 1], log[n]) ELSE f[n - 1]]

(* OfBranch is what its loop keeps, typed as the events are.             *)
LEMMA OfBranchIsKept ==
  ASSUME NEW S, NEW log \in Seq(S), NEW b
  PROVE  \E f : /\ Keeps(f, log, b) /\ OfBranch(log, b) = f[Len(log)]
                /\ f \in [0 .. Len(log) -> Seq(S)]
<1> DEFINE n == Len(log)
           next(i, v) == IF log[i].branch = b THEN Append(v, log[i]) ELSE v
           step == [i \in 1 .. n |-> [v \in Seq(S) |-> next(i, v)]]
<1>1. n \in Nat /\ <<>> \in Seq(S) /\ \A i \in 1 .. n : log[i] \in S
  BY ElementOfSeq
<1>2. \A i \in 1 .. n, v \in Seq(S) : next(i, v) \in Seq(S)
  BY <1>1, AppendProperties
<1>3. step \in [1 .. n -> [Seq(S) -> Seq(S)]]
  BY <1>2
<1>4. PICK f : Recurses(f, n, <<>>, step) /\ f \in [0 .. n -> Seq(S)]
  <2> HIDE DEF n, step
  <2> QED BY <1>1, <1>3, RecursionExists
<1>5. ASSUME NEW i \in 1 .. n PROVE i - 1 \in 0 .. n /\ f[i - 1] \in Seq(S) /\ f[i] = next(i, f[i - 1])
  <2>1. i - 1 \in 0 .. n
    BY <1>1
  <2>2. f[i - 1] \in Seq(S) /\ f[i] = step[i][f[i - 1]]
    BY <1>4, <2>1 DEF Recurses
  <2> QED BY <2>1, <2>2
<1>6. f = [i \in 0 .. n |-> f[i]] /\ f[0] = <<>>
  BY <1>4 DEF Recurses
<1>7. ASSUME NEW g PROVE Keeps(g, log, b) <=> g = f
  <2>1. ASSUME Keeps(g, log, b) PROVE g = f
    <3>1. g = [i \in 0 .. n |-> g[i]]
      BY <2>1 DEF Keeps
    <3>2. \A i \in 0 .. n : g[i] = IF i = 0 THEN <<>> ELSE next(i, g[i - 1])
      BY <2>1 DEF Keeps
    <3> HIDE DEF n, next
    <3>3. 0 \in 0 .. n /\ \A i \in 1 .. n : i \in 0 .. n /\ i # 0
      BY <1>1
    <3>4. g[0] = <<>> /\ \A i \in 1 .. n : g[i] = next(i, g[i - 1])
      BY <3>2, <3>3
    <3>5. \A i \in 1 .. n : f[i - 1] = g[i - 1] => f[i] = g[i]
      BY <3>4, <1>5
    <3>6. n \in Nat /\ f[0] = g[0] /\ f = [i \in 0 .. n |-> f[i]]
      BY <3>4, <1>1, <1>6
    <3>7. Alike(f, g, n)
      BY <3>1, <3>5, <3>6 DEF Alike
    <3> QED BY <3>6, <3>7, RecursionUnique
  <2>2. Keeps(f, log, b)
    <3>1. \A i \in 0 .. n : i = 0 \/ i \in 1 .. n
      BY <1>1
    <3>2. \A i \in 0 .. n : f[i] = IF i = 0 THEN <<>>
           ELSE IF log[i].branch = b THEN Append(f[i - 1], log[i]) ELSE f[i - 1]
      BY <3>1, <1>5, <1>6
    <3> QED BY <1>6, <3>2 DEF Keeps
  <2> QED BY <2>1, <2>2
<1>8. OfBranch(log, b) = (CHOOSE g : Keeps(g, log, b))[n]
  BY DEF OfBranch, Keeps
<1>9. OfBranch(log, b) = f[n] /\ Keeps(f, log, b)
  BY <1>7, <1>8
<1> QED BY <1>4, <1>9

LEMMA OfBranchTyped ==
  ASSUME NEW S, NEW log \in Seq(S), NEW b
  PROVE  OfBranch(log, b) \in Seq(S)
<1>1. Len(log) \in 0 .. Len(log)
  OBVIOUS
<1> QED BY <1>1, OfBranchIsKept

LEMMA OfBranchEmpty == ASSUME NEW b PROVE OfBranch(<<>>, b) = <<>>
<1>1. <<>> \in Seq({}) /\ Len(<<>>) = 0
  OBVIOUS
<1>2. PICK f : Keeps(f, <<>>, b) /\ OfBranch(<<>>, b) = f[0]
  BY <1>1, OfBranchIsKept
<1> QED BY <1>1, <1>2 DEF Keeps

(* One more event is one more of its branch, and none of another.        *)
LEMMA OfBranchAppend ==
  ASSUME NEW S, NEW log \in Seq(S), NEW b, NEW e \in S
  PROVE  OfBranch(Append(log, e), b) =
           IF e.branch = b THEN Append(OfBranch(log, b), e) ELSE OfBranch(log, b)
<1> DEFINE n == Len(log)
           more == Append(log, e)
<1>1. /\ n \in Nat /\ more \in Seq(S) /\ Len(more) = n + 1 /\ more[n + 1] = e
      /\ \A i \in 1 .. n : more[i] = log[i]
  BY AppendProperties
<1>2. PICK f : Keeps(f, log, b) /\ OfBranch(log, b) = f[n]
  BY OfBranchIsKept
<1> HIDE DEF more
<1>3. PICK g : Keeps(g, more, b) /\ OfBranch(more, b) = g[n + 1]
  BY <1>1, OfBranchIsKept
<1> HIDE DEF n
<1>4. g = [i \in 0 .. n + 1 |-> IF i = 0 THEN <<>>
             ELSE IF more[i].branch = b THEN Append(g[i - 1], more[i]) ELSE g[i - 1]]
  BY <1>1, <1>3 DEF Keeps
<1>5. f = [i \in 0 .. n |-> IF i = 0 THEN <<>>
             ELSE IF log[i].branch = b THEN Append(f[i - 1], log[i]) ELSE f[i - 1]]
  BY <1>2 DEF Keeps, n
<1> DEFINE h == [i \in 0 .. n |-> g[i]]
<1>6. f[0] = <<>> /\ h[0] = <<>>
  BY <1>1, <1>4, <1>5
<1>7. ASSUME NEW i \in 1 .. n, f[i - 1] = h[i - 1] PROVE f[i] = h[i]
  <2>1. i \in 0 .. n /\ i - 1 \in 0 .. n /\ i \in 0 .. n + 1 /\ i # 0
    BY <1>1
  <2>2. f[i] = IF log[i].branch = b THEN Append(f[i - 1], log[i]) ELSE f[i - 1]
    BY <1>5, <2>1
  <2>3. g[i] = IF log[i].branch = b THEN Append(g[i - 1], log[i]) ELSE g[i - 1]
    BY <1>1, <1>4, <2>1
  <2>4. h[i] = g[i] /\ h[i - 1] = g[i - 1]
    BY <2>1
  <2> QED BY <1>7, <2>2, <2>3, <2>4
<1>8. f = [i \in 0 .. n |-> f[i]] /\ h = [i \in 0 .. n |-> h[i]]
  BY <1>5
<1>9. f[n] = g[n]
  <2>1. h[n] = g[n]
    BY <1>1
  <2> HIDE DEF h
  <2>2. Alike(f, h, n)
    BY <1>6, <1>7, <1>8 DEF Alike
  <2> QED BY <1>1, <2>1, <2>2, RecursionUnique
<1>10. n + 1 \in 0 .. n + 1 /\ n + 1 # 0 /\ (n + 1) - 1 = n
  BY <1>1
<1>11. g[n + 1] = IF more[n + 1].branch = b THEN Append(g[n], more[n + 1]) ELSE g[n]
  BY <1>4, <1>10
<1> QED BY <1>1, <1>2, <1>3, <1>9, <1>11 DEF more

(* The states that the events of a ledger can derive.                    *)
Named == {e \in Event : e.event \in Boundaries => e.task \in TaskIds}
States == {Legacy, Idle, Invalid} \union {Active(t) : t \in TaskIds}

LEMMA AfterEventTyped ==
  ASSUME NEW log, NEW n, log[n] \in Named, NEW v \in States
  PROVE  AfterEvent(log, n, v) \in States
<1>1. log[n].event = "task-start" => log[n].task \in TaskIds
  BY DEF Named, Boundaries
<1>2. AfterStart(log, n, v) \in {Invalid, Active(log[n].task)}
  BY DEF AfterStart
<1>3. AfterClose(log, n, v) \in {Invalid, Idle}
  BY DEF AfterClose
<1>4. \/ AfterEvent(log, n, v) \in {v, Invalid, Idle}
      \/ /\ log[n].event = "task-start"
         /\ AfterEvent(log, n, v) = Active(log[n].task)
  BY <1>2, <1>3 DEF AfterEvent
<1> QED BY <1>1, <1>4 DEF States

(* The walk over a ledger that can be here.                              *)
LEMMA DeriveTaskIsWalk ==
  ASSUME NEW log \in Seq(Named)
  PROVE  \E f : /\ f \in [0 .. Len(log) -> States] /\ f[0] = Legacy
                /\ \A i \in 1 .. Len(log) : f[i] = AfterEvent(log, i, f[i - 1])
                /\ f = [i \in 0 .. Len(log) |-> f[i]]
                /\ DeriveTask(log) = f[Len(log)]
<1> DEFINE n == Len(log)
<1>1. n \in Nat /\ Legacy \in States /\ IsSequence(log) /\ \A i \in 1 .. n : log[i] \in Named
  BY ElementOfSeq DEF States, IsSequence
<1>2. PICK f : Walks(f, log)
  BY <1>1, DeriveTaskWalks
<1>3. /\ f[0] = Legacy /\ f = [i \in 0 .. n |-> f[i]] /\ DeriveTask(log) = f[n]
      /\ \A i \in 1 .. n : f[i] = AfterEvent(log, i, f[i - 1])
  BY <1>2 DEF Walks
<1> DEFINE T == {i \in 0 .. n : f[i] \in States}
<1> HIDE DEF n
<1>4. 0 \in T
  BY <1>1, <1>3
<1>5. ASSUME NEW i \in 1 .. n, i - 1 \in T PROVE i \in T
  <2>1. f[i - 1] \in States /\ log[i] \in Named /\ i \in 0 .. n
    BY <1>1, <1>5
  <2>2. f[i] = AfterEvent(log, i, f[i - 1])
    BY <1>3
  <2>3. AfterEvent(log, i, f[i - 1]) \in States
    BY <2>1, AfterEventTyped
  <2> QED BY <2>1, <2>2, <2>3
<1> HIDE DEF T
<1>6. 0 .. n \subseteq T
  BY <1>1, <1>4, <1>5, UpTo
<1>7. f \in [0 .. n -> States]
  BY <1>3, <1>6 DEF T
<1> QED BY <1>3, <1>7 DEF n

LEMMA DeriveTyped == ASSUME NEW log \in Seq(Named) PROVE DeriveTask(log) \in States
<1>1. Len(log) \in 0 .. Len(log)
  OBVIOUS
<1> QED BY <1>1, DeriveTaskIsWalk

LEMMA DeriveEmpty == DeriveTask(<<>>) = Legacy
<1>1. <<>> \in Seq(Named) /\ Len(<<>>) = 0
  OBVIOUS
<1> QED BY <1>1, DeriveTaskIsWalk

(* An event is judged by those before it.                                *)
LEMMA AfterEventAppend ==
  ASSUME NEW S, NEW log \in Seq(S), NEW e \in S, NEW i \in 1 .. Len(log), NEW v
  PROVE  AfterEvent(Append(log, e), i, v) = AfterEvent(log, i, v)
<1> DEFINE more == Append(log, e)
<1>1. \A j \in 1 .. i : more[j] = log[j]
  BY AppendProperties
<1>2. i \in 1 .. i /\ \A j \in 1 .. i - 1 : j \in 1 .. i
  OBVIOUS
<1> HIDE DEF more
<1>3. \A t : StartsBefore(more, i, t) <=> StartsBefore(log, i, t)
  BY <1>1, <1>2 DEF StartsBefore
<1>4. AfterEvent(more, i, v) = AfterEvent(log, i, v)
  BY <1>1, <1>2, <1>3 DEF AfterEvent, AfterStart, AfterClose
<1> QED BY <1>4 DEF more

(* One more event is one more AfterEvent.                                *)
LEMMA DeriveAppend ==
  ASSUME NEW log \in Seq(Named), NEW e \in Named
  PROVE  DeriveTask(Append(log, e)) =
           AfterEvent(Append(log, e), Len(log) + 1, DeriveTask(log))
<1> DEFINE n == Len(log)
           more == Append(log, e)
<1>1. n \in Nat /\ more \in Seq(Named) /\ Len(more) = n + 1
  BY AppendProperties
<1>2. PICK f : /\ f[0] = Legacy
               /\ \A i \in 1 .. n : f[i] = AfterEvent(log, i, f[i - 1])
               /\ f = [i \in 0 .. n |-> f[i]]
               /\ DeriveTask(log) = f[n]
  BY DeriveTaskIsWalk
<1>3. \A i \in 1 .. n : f[i] = AfterEvent(more, i, f[i - 1])
  BY <1>2, AfterEventAppend
<1> HIDE DEF more, n
<1>4. PICK g : /\ g[0] = Legacy
               /\ \A i \in 1 .. n + 1 : g[i] = AfterEvent(more, i, g[i - 1])
               /\ DeriveTask(more) = g[n + 1]
  BY <1>1, DeriveTaskIsWalk
<1> DEFINE h == [i \in 0 .. n |-> g[i]]
<1>5. \A i \in 1 .. n : i \in 1 .. n + 1 /\ i \in 0 .. n /\ i - 1 \in 0 .. n
  BY <1>1
<1>6. f[0] = h[0] /\ h = [i \in 0 .. n |-> h[i]] /\ h[n] = g[n]
  BY <1>1, <1>2, <1>4
<1>7. ASSUME NEW i \in 1 .. n, f[i - 1] = h[i - 1] PROVE f[i] = h[i]
  <2>1. h[i] = g[i] /\ h[i - 1] = g[i - 1]
    BY <1>5
  <2> HIDE DEF h
  <2> QED BY <1>3, <1>4, <1>5, <1>7, <2>1
<1> HIDE DEF h
<1>8. Alike(f, h, n)
  BY <1>2, <1>6, <1>7 DEF Alike
<1>9. f[n] = g[n]
  BY <1>1, <1>6, <1>8, RecursionUnique
<1>10. n + 1 \in 1 .. n + 1 /\ (n + 1) - 1 = n
  BY <1>1
<1>11. DeriveTask(more) = AfterEvent(more, n + 1, g[n])
  BY <1>4, <1>10
<1> QED BY <1>2, <1>9, <1>11 DEF more, n

(* An active task was started by an event.                               *)
LEMMA ActiveWasStarted ==
  ASSUME NEW log \in Seq(Named), NEW t, DeriveTask(log) = Active(t)
  PROVE  \E j \in 1 .. Len(log) : log[j].task = t
<1>1. IsSequence(log)
  BY DEF IsSequence
<1> QED BY <1>1, ActiveMeans DEF LastStart

(* What a branch shows are events of the ledger.                         *)
LEMMA OfBranchFrom ==
  ASSUME NEW S, NEW log \in Seq(S), NEW b, NEW i \in 1 .. Len(OfBranch(log, b))
  PROVE  \E j \in 1 .. Len(log) : OfBranch(log, b)[i] = log[j]
<1> DEFINE T == {log[j] : j \in 1 .. Len(log)}
<1>1. log \in Seq(T)
  OBVIOUS
<1>2. OfBranch(log, b) \in Seq(T)
  BY <1>1, OfBranchTyped
<1> QED BY <1>2, ElementOfSeq

-----------------------------------------------------------------------------
(* What the commands do to a ledger that is well formed.                 *)
StateOf(log, b) == DeriveTask(OfBranch(log, b))

EvidenceStands(log) ==
  \A i \in 1 .. Len(log) : log[i].event \in Evidences =>
    DeriveTask(SubSeq(log, 1, i - 1)) =
      IF log[i].task = None THEN Legacy ELSE Active(log[i].task)

WellOrdered(log) == \A b \in Branches : StateOf(log, b) # Invalid /\ EvidenceStands(OfBranch(log, b))

FreshIn(log, t) == t \in TaskIds /\ \A i \in 1 .. Len(log) : log[i].task # t

(* What a session is about to append goes with what is there.            *)
FitsStart(log, s, t) ==
  /\ FreshIn(log, t) /\ StateOf(log, s.branch).state \in {"legacy", "idle"}
  /\ s.queue = <<Boundary("task-start", t, s.branch)>>

FitsFinish(log, s, old) ==
  /\ old \in TaskIds /\ StateOf(log, s.branch) = Active(old)
  /\ s.queue = <<Boundary("task-finish", old, s.branch)>>

FitsReset(log, s, old, t) ==
  /\ FreshIn(log, t) /\ old \in TaskIds /\ StateOf(log, s.branch) = Active(old)
  /\ s.queue = <<Boundary("task-reset", old, s.branch), Boundary("task-start", t, s.branch)>>

FitsEvidence(log, s, e) ==
  /\ e \in Named /\ e.event \in Evidences /\ e.branch = s.branch /\ s.queue = <<e>>
  /\ StateOf(log, s.branch) = IF e.task = None THEN Legacy ELSE Active(e.task)

Fits(log, s) ==
  \/ \E t \in TaskIds : FitsStart(log, s, t)
  \/ \E old \in TaskIds : FitsFinish(log, s, old)
  \/ \E old, t \in TaskIds : FitsReset(log, s, old, t)
  \/ \E e \in Named : FitsEvidence(log, s, e)

SessionRecords ==
  [pc : {"idle", "running", "decide", "helper", "commit"},
   cmd : {"none"} \union Transitions \union Evidences, branch : Branches, seen : States,
   snapshot : Trees \union {None}, queue : Seq(Named), orphan : BOOLEAN]

Typed ==
  /\ ledger \in Seq(Named) /\ session \in [Sessions -> SessionRecords]
  /\ head \in Branches /\ tree \in [Branches -> Trees] /\ kills \in 0 .. MaxKills

(* How far a recorder is: what it runs, what it saw, what it has taken.  *)
Captured(s) ==
  /\ Len(s.queue) <= 2
  /\ s.pc \in {"running", "decide"} =>
       s.cmd \in Recorders /\ s.seen \in {Legacy} \union {Active(t) : t \in TaskIds}
  /\ s.pc = "decide" => s.snapshot \in Trees

InTurn ==
  kills = 0 =>
    /\ WellOrdered(ledger)
    /\ \A p \in Sessions : HelperAtWork(session[p]) => Fits(ledger, session[p])
    /\ \A p \in Sessions : ~session[p].orphan

TInv == Typed /\ (\A p \in Sessions : Captured(session[p])) /\ InTurn

(* The other branches, and the one the event is of.                      *)
LEMMA ElsewhereStays ==
  ASSUME NEW log \in Seq(Named), NEW e \in Named, NEW b, e.branch # b
  PROVE  OfBranch(Append(log, e), b) = OfBranch(log, b)
BY OfBranchAppend

LEMMA HereAppends ==
  ASSUME NEW log \in Seq(Named), NEW e \in Named
  PROVE  LET s == OfBranch(log, e.branch) IN
         /\ OfBranch(Append(log, e), e.branch) = Append(s, e)
         /\ s \in Seq(Named)
         /\ StateOf(Append(log, e), e.branch) =
              AfterEvent(Append(s, e), Len(s) + 1, StateOf(log, e.branch))
         /\ Append(s, e)[Len(s) + 1] = e
<1> DEFINE s == OfBranch(log, e.branch)
<1>1. OfBranch(Append(log, e), e.branch) = Append(s, e)
  BY OfBranchAppend
<1>2. s \in Seq(Named)
  BY OfBranchTyped
<1>3. Append(s, e)[Len(s) + 1] = e
  BY <1>2, AppendProperties
<1>4. DeriveTask(Append(s, e)) = AfterEvent(Append(s, e), Len(s) + 1, DeriveTask(s))
  BY <1>2, DeriveAppend
<1> HIDE DEF s
<1>5. QED
  BY <1>1, <1>2, <1>3, <1>4 DEF StateOf, s

(* Evidence, a start and a close, appended where they belong.            *)
LEMMA EvidenceLeavesTask ==
  ASSUME NEW log \in Seq(Named), NEW e \in Named, e.event \notin Boundaries, NEW b
  PROVE  StateOf(Append(log, e), b) = StateOf(log, b)
<1>1. CASE e.branch # b
  BY <1>1, ElsewhereStays DEF StateOf
<1>2. CASE e.branch = b
  BY <1>2, HereAppends DEF AfterEvent, IsBoundary
<1> QED BY <1>1, <1>2

LEMMA StartOpens ==
  ASSUME NEW log \in Seq(Named), NEW e \in Named, e.event = "task-start",
         FreshIn(log, e.task), StateOf(log, e.branch).state \in {"legacy", "idle"}
  PROVE  StateOf(Append(log, e), e.branch) = Active(e.task)
<1> DEFINE s == OfBranch(log, e.branch)
<1>1. s \in Seq(Named) /\ Append(s, e)[Len(s) + 1] = e
  BY HereAppends
<1>2. \A i \in 1 .. Len(s) : Append(s, e)[i] = s[i] /\ \E j \in 1 .. Len(log) : s[i] = log[j]
  BY <1>1, AppendProperties, OfBranchFrom
<1>3. ~StartsBefore(Append(s, e), Len(s) + 1, e.task)
  <2>1. (Len(s) + 1) - 1 = Len(s)
    BY <1>1
  <2> QED BY <2>1, <1>2 DEF StartsBefore, FreshIn
<1>4. StateOf(log, e.branch) # Invalid /\ StateOf(log, e.branch).state # "active"
  BY DEF Invalid
<1>5. AfterEvent(Append(s, e), Len(s) + 1, StateOf(log, e.branch)) = Active(e.task)
  BY <1>1, <1>3, <1>4 DEF AfterEvent, AfterStart, IsBoundary, Boundaries
<1> QED BY <1>5, HereAppends

LEMMA CloseEnds ==
  ASSUME NEW log \in Seq(Named), NEW e \in Named, e.event \in Closes,
         StateOf(log, e.branch) = Active(e.task)
  PROVE  StateOf(Append(log, e), e.branch) = Idle
<1> DEFINE s == OfBranch(log, e.branch)
<1>1. s \in Seq(Named) /\ Append(s, e)[Len(s) + 1] = e
  BY HereAppends
<1>2. e.event # "task-start" /\ Active(e.task) # Invalid
  BY DEF Closes, Active, Invalid
<1>3. AfterEvent(Append(s, e), Len(s) + 1, StateOf(log, e.branch)) = Idle
  BY <1>1, <1>2 DEF AfterEvent, AfterClose, IsBoundary, Boundaries
<1> QED BY <1>3, HereAppends

(* Appending an event that stands where it is appended.                  *)
LEMMA StandsAppend ==
  ASSUME NEW s \in Seq(Named), NEW e \in Named, EvidenceStands(s),
         e.event \in Evidences =>
           DeriveTask(s) = IF e.task = None THEN Legacy ELSE Active(e.task)
  PROVE  EvidenceStands(Append(s, e))
<1> DEFINE more == Append(s, e)
<1>1. /\ Len(s) \in Nat /\ Len(more) = Len(s) + 1 /\ more[Len(s) + 1] = e
      /\ \A i \in 1 .. Len(s) : more[i] = s[i]
  BY AppendProperties
<1>2. ASSUME NEW i \in 1 .. Len(more) PROVE SubSeq(more, 1, i - 1) = SubSeq(s, 1, i - 1)
  BY <1>1, <1>2
<1>3. SubSeq(s, 1, (Len(s) + 1) - 1) = s
  BY <1>1
<1> HIDE DEF more
<1>4. \A i \in 1 .. Len(more) : i \in 1 .. Len(s) \/ i = Len(s) + 1
  BY <1>1
<1>5. EvidenceStands(more)
  BY <1>1, <1>2, <1>3, <1>4 DEF EvidenceStands
<1> QED BY <1>5 DEF more

(* An event that its branch takes keeps the ledger well ordered.         *)
LEMMA WellOrderedAppend ==
  ASSUME NEW log \in Seq(Named), NEW e \in Named, e.branch \in Branches, WellOrdered(log),
         StateOf(Append(log, e), e.branch) # Invalid,
         e.event \in Evidences =>
           StateOf(log, e.branch) = IF e.task = None THEN Legacy ELSE Active(e.task)
  PROVE  WellOrdered(Append(log, e))
<1> SUFFICES ASSUME NEW b \in Branches
             PROVE  /\ StateOf(Append(log, e), b) # Invalid
                    /\ EvidenceStands(OfBranch(Append(log, e), b))
  BY DEF WellOrdered
<1>1. CASE b # e.branch
  BY <1>1, ElsewhereStays DEF StateOf, WellOrdered
<1>2. CASE b = e.branch
  BY <1>2, HereAppends, StandsAppend DEF WellOrdered, StateOf
<1> QED BY <1>1, <1>2

(* The states of the branches when one of them has moved to a new state. *)
OnlyMoves(log, more, b, state) ==
  \A c \in Branches : StateOf(more, c) = IF c = b THEN state ELSE StateOf(log, c)

LEMMA BoundaryTyped ==
  ASSUME NEW t \in TaskIds, NEW b \in Branches, NEW cmd \in Boundaries
  PROVE  /\ Boundary(cmd, t, b) \in Named
         /\ Boundary(cmd, t, b).event = cmd /\ Boundary(cmd, t, b).task = t
         /\ Boundary(cmd, t, b).branch = b /\ Boundary(cmd, t, b).event \notin Evidences
BY TaskLedgerAssumption
DEF Boundary, Record, Named, Event, Transitions, Boundaries, Closes, Evidences

LEMMA ActiveIsValid ==
  \A t : Active(t) \notin {Invalid, Idle, Legacy} /\ Idle # Invalid
BY DEF Active, Invalid, Idle, Legacy

(* The four things a command may append.                                 *)
LEMMA StartCommits ==
  ASSUME NEW log \in Seq(Named), WellOrdered(log), NEW s, s.branch \in Branches,
         NEW t \in TaskIds, FitsStart(log, s, t)
  PROVE  LET e == Boundary("task-start", t, s.branch) IN
         /\ log \o s.queue = Append(log, e) /\ e \in Named
         /\ WellOrdered(log \o s.queue)
         /\ OnlyMoves(log, log \o s.queue, s.branch, Active(t))
<1> DEFINE e == Boundary("task-start", t, s.branch)
<1>1. /\ e \in Named /\ e.event = "task-start" /\ e.task = t /\ e.branch = s.branch
      /\ e.event \notin Evidences
  BY BoundaryTyped DEF Boundaries
<1>2. s.queue = <<e>> /\ FreshIn(log, t) /\ StateOf(log, s.branch).state \in {"legacy", "idle"}
  BY DEF FitsStart
<1> HIDE DEF e
<1>3. log \o s.queue = Append(log, e)
  BY <1>1, <1>2
<1>4. StateOf(Append(log, e), s.branch) = Active(t)
  BY <1>1, <1>2, StartOpens
<1>5. WellOrdered(Append(log, e))
  BY <1>1, <1>4, ActiveIsValid, WellOrderedAppend
<1>6. OnlyMoves(log, Append(log, e), s.branch, Active(t))
  BY <1>1, <1>4, ElsewhereStays DEF OnlyMoves, StateOf
<1> QED BY <1>1, <1>3, <1>5, <1>6 DEF e

LEMMA CloseCommits ==
  ASSUME NEW log \in Seq(Named), WellOrdered(log), NEW b \in Branches,
         NEW old \in TaskIds, StateOf(log, b) = Active(old), NEW cmd \in Closes
  PROVE  LET e == Boundary(cmd, old, b) IN
         /\ Append(log, e) \in Seq(Named) /\ e \in Named
         /\ WellOrdered(Append(log, e))
         /\ OnlyMoves(log, Append(log, e), b, Idle)
<1> DEFINE e == Boundary(cmd, old, b)
<1>1. e \in Named /\ e.event = cmd /\ e.task = old /\ e.branch = b /\ e.event \notin Evidences
  BY BoundaryTyped DEF Boundaries
<1> HIDE DEF e
<1>2. StateOf(Append(log, e), b) = Idle
  BY <1>1, CloseEnds
<1>3. WellOrdered(Append(log, e))
  BY <1>1, <1>2, ActiveIsValid, WellOrderedAppend
<1>4. OnlyMoves(log, Append(log, e), b, Idle)
  BY <1>1, <1>2, ElsewhereStays DEF OnlyMoves, StateOf
<1>5. Append(log, e) \in Seq(Named)
  BY <1>1, AppendProperties
<1> QED BY <1>1, <1>3, <1>4, <1>5 DEF e

(* The active task of a branch is one that the ledger names.             *)
LEMMA StateNamed ==
  ASSUME NEW log \in Seq(Named), NEW b, NEW t, StateOf(log, b) = Active(t)
  PROVE  \E j \in 1 .. Len(log) : log[j].task = t
<1>1. OfBranch(log, b) \in Seq(Named)
  BY OfBranchTyped
<1>2. PICK i \in 1 .. Len(OfBranch(log, b)) : OfBranch(log, b)[i].task = t
  BY <1>1, ActiveWasStarted DEF StateOf
<1> QED BY <1>2, OfBranchFrom

LEMMA FinishCommits ==
  ASSUME NEW log \in Seq(Named), WellOrdered(log), NEW s, s.branch \in Branches,
         NEW old \in TaskIds, FitsFinish(log, s, old)
  PROVE  LET e == Boundary("task-finish", old, s.branch) IN
         /\ log \o s.queue = Append(log, e) /\ e \in Named
         /\ WellOrdered(log \o s.queue)
         /\ OnlyMoves(log, log \o s.queue, s.branch, Idle)
<1> DEFINE e == Boundary("task-finish", old, s.branch)
<1>1. s.queue = <<e>> /\ StateOf(log, s.branch) = Active(old) /\ "task-finish" \in Closes
  BY DEF FitsFinish, Closes
<1>2. /\ e \in Named /\ WellOrdered(Append(log, e))
      /\ OnlyMoves(log, Append(log, e), s.branch, Idle)
  BY <1>1, CloseCommits
<1> HIDE DEF e
<1>3. log \o s.queue = Append(log, e)
  BY <1>1, <1>2
<1> QED BY <1>2, <1>3 DEF e

LEMMA ResetCommits ==
  ASSUME NEW log \in Seq(Named), WellOrdered(log), NEW s, s.branch \in Branches,
         NEW old \in TaskIds, NEW t \in TaskIds, FitsReset(log, s, old, t)
  PROVE  LET e == Boundary("task-reset", old, s.branch)
             d == Boundary("task-start", t, s.branch) IN
         /\ log \o s.queue = Append(Append(log, e), d) /\ e \in Named /\ d \in Named
         /\ WellOrdered(log \o s.queue)
         /\ OnlyMoves(log, log \o s.queue, s.branch, Active(t))
<1> DEFINE e == Boundary("task-reset", old, s.branch)
           d == Boundary("task-start", t, s.branch)
           mid == Append(log, e)
<1>1. /\ s.queue = <<e, d>> /\ FreshIn(log, t) /\ StateOf(log, s.branch) = Active(old)
      /\ "task-reset" \in Closes
  BY DEF FitsReset, Closes
<1>2. /\ e \in Named /\ mid \in Seq(Named) /\ WellOrdered(mid)
      /\ OnlyMoves(log, mid, s.branch, Idle)
  BY <1>1, CloseCommits
<1>3. /\ d \in Named /\ d.event = "task-start" /\ d.task = t /\ d.branch = s.branch
      /\ d.event \notin Evidences
  BY BoundaryTyped DEF Boundaries
<1>4. e.task = old /\ old # t
  <2>1. e.task = old
    BY BoundaryTyped DEF Boundaries, Closes
  <2>2. \E j \in 1 .. Len(log) : log[j].task = old
    BY <1>1, StateNamed
  <2> QED BY <1>1, <2>1, <2>2 DEF FreshIn
<1> HIDE DEF e, d, mid
<1>5. FreshIn(mid, t)
  <2>1. /\ Len(mid) = Len(log) + 1 /\ mid[Len(log) + 1] = e
        /\ \A i \in 1 .. Len(log) : mid[i] = log[i]
    BY <1>2, AppendProperties DEF mid
  <2>2. \A i \in 1 .. Len(mid) : i \in 1 .. Len(log) \/ i = Len(log) + 1
    BY <2>1
  <2> QED BY <1>1, <1>4, <2>1, <2>2 DEF FreshIn
<1>6. StateOf(mid, s.branch) = Idle
  BY <1>2 DEF OnlyMoves
<1>7. StateOf(Append(mid, d), s.branch) = Active(t)
  BY <1>2, <1>3, <1>5, <1>6, StartOpens DEF Idle
<1>8. WellOrdered(Append(mid, d))
  BY <1>2, <1>3, <1>7, ActiveIsValid, WellOrderedAppend
<1>9. OnlyMoves(log, Append(mid, d), s.branch, Active(t))
  <2>1. \A c \in Branches : c # s.branch => StateOf(Append(mid, d), c) = StateOf(mid, c)
    BY <1>2, <1>3, ElsewhereStays DEF StateOf
  <2> QED BY <1>2, <1>7, <2>1 DEF OnlyMoves
<1>10. log \o s.queue = Append(mid, d)
  BY <1>1, <1>2, <1>3 DEF mid
<1> QED BY <1>2, <1>3, <1>8, <1>9, <1>10 DEF e, d, mid

LEMMA EvidenceCommits ==
  ASSUME NEW log \in Seq(Named), WellOrdered(log), NEW s, s.branch \in Branches,
         NEW e \in Named, FitsEvidence(log, s, e)
  PROVE  /\ log \o s.queue = Append(log, e)
         /\ WellOrdered(log \o s.queue)
         /\ \A b \in Branches : StateOf(log \o s.queue, b) = StateOf(log, b)
<1>1. e.event \notin Boundaries
  BY TaskLedgerAssumption DEF FitsEvidence, Evidences, Boundaries, Closes
<1>2. log \o s.queue = Append(log, e)
  BY DEF FitsEvidence
<1>3. \A b \in Branches : StateOf(Append(log, e), b) = StateOf(log, b)
  BY <1>1, EvidenceLeavesTask
<1>4. WellOrdered(Append(log, e))
  BY <1>3, WellOrderedAppend DEF FitsEvidence, WellOrdered
<1> QED BY <1>2, <1>3, <1>4

(* There are always more task ids than ids in use.                       *)
LEMMA ImageIsSmall ==
  ASSUME NEW S, IsFiniteSet(S), NEW f, f = [x \in S |-> f[x]]
  PROVE  /\ IsFiniteSet({f[x] : x \in S}) /\ Cardinality({f[x] : x \in S}) \in Nat
         /\ Cardinality({f[x] : x \in S}) <= Cardinality(S)
<1> DEFINE T == {f[x] : x \in S}
<1>1. f \in Surjection(S, T)
  BY DEF Surjection
<1> QED BY <1>1, FS_Surjection, FS_CardinalityType

(* Cardinalities of intervals and of unions.                             *)
LEMMA NumbersUpTo ==
  ASSUME NEW n \in Nat
  PROVE  IsFiniteSet(1 .. n) /\ Cardinality(1 .. n) = n
<1>1. 1 \in Int /\ n \in Int
  OBVIOUS
<1>2. IsFiniteSet(1 .. n) /\ Cardinality(1 .. n) = IF 1 > n THEN 0 ELSE n - 1 + 1
  BY <1>1, FS_Interval
<1> QED BY <1>2

LEMMA UnionIsSmall ==
  ASSUME NEW S, IsFiniteSet(S), NEW T, IsFiniteSet(T)
  PROVE  /\ IsFiniteSet(S \union T) /\ Cardinality(S \union T) \in Nat
         /\ Cardinality(S \union T) <= Cardinality(S) + Cardinality(T)
<1>1. IsFiniteSet(S \cap T)
  BY FS_Subset, S \cap T \in SUBSET S
<1>2. /\ Cardinality(S \cap T) \in Nat /\ Cardinality(S) \in Nat /\ Cardinality(T) \in Nat
      /\ IsFiniteSet(S \union T) /\ Cardinality(S \union T) \in Nat
  BY <1>1, FS_CardinalityType, FS_Union
<1>3. Cardinality(S \union T) = Cardinality(S) + Cardinality(T) - Cardinality(S \cap T)
  BY FS_Union
<1> QED BY <1>2, <1>3

(* A command that begins finds an id that nobody uses (a random one, in  *)
(* the code).                                                            *)
LEMMA FreshIdIsFresh ==
  ASSUME Typed, \A p \in Sessions : Captured(session[p]), Len(ledger) < MaxEvents
  PROVE  FreshId \in TaskIds /\ FreshId \notin UsedIds
<1> DEFINE n == Len(ledger)
           k == Cardinality(Sessions)
           tasks == [i \in 1 .. n |-> ledger[i].task]
           first == [p \in Sessions |-> session[p].queue[1].task]
           second == [p \in Sessions |-> session[p].queue[2].task]
           A == {tasks[i] : i \in 1 .. n}
           B == {first[p] : p \in Sessions}
           C == {second[p] : p \in Sessions}
<1>1. n \in Nat /\ k \in Nat /\ MaxEvents \in Nat /\ n < MaxEvents /\ TaskIds = 1 .. MaxEvents + 2 * k
  BY FS_CardinalityType, TaskLedgerAssumption DEF Typed, TaskIds
<1>2. UsedIds \subseteq (A \union B) \union C
  <2> SUFFICES ASSUME NEW t \in UsedIds PROVE t \in (A \union B) \union C
    OBVIOUS
  <2>1. CASE \E i \in 1 .. n : t = ledger[i].task
    BY <2>1
  <2>2. CASE \E p \in Sessions : \E i \in 1 .. Len(session[p].queue) : t = session[p].queue[i].task
    <3>0. PICK p \in Sessions : \E i \in 1 .. Len(session[p].queue) : t = session[p].queue[i].task
      BY <2>2
    <3>1. PICK i \in 1 .. Len(session[p].queue) : t = session[p].queue[i].task
      BY <3>0
    <3>2. Len(session[p].queue) \in Nat /\ Len(session[p].queue) <= 2
      BY DEF Typed, SessionRecords, Captured
    <3>3. i = 1 \/ i = 2
      BY <3>1, <3>2
    <3>4. first[p] = session[p].queue[1].task /\ second[p] = session[p].queue[2].task
      BY <3>1
    <3>5. t \in {first[p], second[p]}
      BY <3>1, <3>3, <3>4
    <3> HIDE DEF first, second
    <3> QED BY <3>1, <3>5
  <2> QED BY <2>1, <2>2 DEF UsedIds
<1>3. /\ IsFiniteSet((A \union B) \union C) /\ Cardinality((A \union B) \union C) \in Nat
      /\ Cardinality((A \union B) \union C) < Cardinality(TaskIds)
  <2>1. IsFiniteSet(1 .. n) /\ Cardinality(1 .. n) = n
    <3> HIDE DEF n
    <3> QED BY <1>1, NumbersUpTo
  <2>2. Cardinality(TaskIds) = MaxEvents + 2 * k
    BY <1>1, NumbersUpTo
  <2>3. IsFiniteSet(A) /\ Cardinality(A) \in Nat /\ Cardinality(A) <= n
    <3>1. tasks = [i \in 1 .. n |-> tasks[i]]
      OBVIOUS
    <3> HIDE DEF tasks
    <3> QED BY <2>1, <3>1, ImageIsSmall
  <2>4. IsFiniteSet(B) /\ Cardinality(B) \in Nat /\ Cardinality(B) <= k
    <3>1. first = [p \in Sessions |-> first[p]]
      OBVIOUS
    <3> HIDE DEF first
    <3> QED BY <3>1, ImageIsSmall, TaskLedgerAssumption
  <2>5. IsFiniteSet(C) /\ Cardinality(C) \in Nat /\ Cardinality(C) <= k
    <3>1. second = [p \in Sessions |-> second[p]]
      OBVIOUS
    <3> HIDE DEF second
    <3> QED BY <3>1, ImageIsSmall, TaskLedgerAssumption
  <2> HIDE DEF A, B, C, n, k
  <2>6. /\ IsFiniteSet(A \union B) /\ Cardinality(A \union B) \in Nat
        /\ Cardinality(A \union B) <= Cardinality(A) + Cardinality(B)
    BY <2>3, <2>4, UnionIsSmall
  <2>7. /\ IsFiniteSet((A \union B) \union C) /\ Cardinality((A \union B) \union C) \in Nat
        /\ Cardinality((A \union B) \union C) <= Cardinality(A \union B) + Cardinality(C)
    BY <2>5, <2>6, UnionIsSmall
  <2> QED BY <1>1, <2>2, <2>3, <2>4, <2>5, <2>6, <2>7
<1>4. TaskIds \ UsedIds # {}
  <2> SUFFICES ASSUME TaskIds \subseteq (A \union B) \union C PROVE FALSE
    BY <1>2
  <2> HIDE DEF A, B, C
  <2>1. IsFiniteSet(TaskIds) /\ Cardinality(TaskIds) \in Nat
    <3>1. MaxEvents + 2 * k \in Nat
      BY <1>1
    <3> HIDE DEF k
    <3> QED BY <1>1, <3>1, NumbersUpTo
  <2>2. Cardinality(TaskIds) <= Cardinality((A \union B) \union C)
    BY <1>3, FS_Subset
  <2> QED BY <1>3, <2>1, <2>2
<1>5. PICK t \in TaskIds \ UsedIds : \A u \in TaskIds \ UsedIds : t <= u
  BY <1>1, <1>4, LeastNumber, TaskIds \ UsedIds \subseteq Nat
<1>6. \A u \in 1 .. t - 1 : u \in UsedIds
  <2> SUFFICES ASSUME NEW u \in 1 .. t - 1, u \notin UsedIds PROVE FALSE
    OBVIOUS
  <2>1. u \in TaskIds /\ ~(t <= u)
    BY <1>1
  <2> QED BY <1>5, <2>1
<1> QED BY <1>5, <1>6 DEF FreshId

-----------------------------------------------------------------------------
(* The states that the actions find.                                     *)
LEMMA StateTyped ==
  ASSUME Typed, NEW b
  PROVE  DeriveTask(On(b)) = StateOf(ledger, b) /\ StateOf(ledger, b) \in States
<1>1. OfBranch(ledger, b) \in Seq(Named)
  BY OfBranchTyped DEF Typed
<1> QED BY <1>1, DeriveTyped DEF On, StateOf

LEMMA AcceptedState ==
  ASSUME Typed, NEW b, AcceptsEvidence(b)
  PROVE  /\ ScopedState(b) = StateOf(ledger, b)
         /\ ScopedState(b) \in {Legacy} \union {Active(t) : t \in TaskIds}
<1>1. DeriveTask(On(b)) \in States /\ DeriveTask(On(b)) = StateOf(ledger, b)
  BY StateTyped
<1>2. ScopedState(b) \in {DeriveTask(On(b)), Idle} /\ ScopedState(b).state \in {"legacy", "active"}
  BY DEF ScopedState, AcceptsEvidence
<1> QED BY <1>1, <1>2 DEF States, Idle, Invalid

LEMMA NoCommandTyped ==
  /\ NoCommand \in SessionRecords /\ Captured(NoCommand)
  /\ ~HelperAtWork(NoCommand) /\ ~NoCommand.orphan
<1>1. <<>> \in Seq(Named) /\ Len(<<>>) = 0
  OBVIOUS
<1> QED BY <1>1, TaskLedgerAssumption
        DEF NoCommand, SessionRecords, States, Captured, HelperAtWork, Legacy

(* One session changes and nothing is committed.                         *)
LEMMA ChangeInTurn ==
  ASSUME TInv, NEW p \in Sessions, NEW s \in SessionRecords, Captured(s),
         session' = [session EXCEPT ![p] = s], UNCHANGED <<ledger, head, tree>>,
         \/ kills' = kills /\ (kills = 0 => ~s.orphan /\ (HelperAtWork(s) => Fits(ledger, s)))
         \/ kills < MaxKills /\ kills' = kills + 1
  PROVE  TInv'
<1>1. /\ session' \in [Sessions -> SessionRecords] /\ session'[p] = s
      /\ \A q \in Sessions \ {p} : session'[q] = session[q]
  BY DEF TInv, Typed
<1>2. Typed'
  BY <1>1, TaskLedgerAssumption DEF TInv, Typed
<1>3. \A q \in Sessions : Captured(session'[q])
  BY <1>1 DEF TInv
<1>4. InTurn'
  <2>1. CASE kills' = kills
    BY <1>1, <2>1 DEF TInv, Typed, InTurn
  <2>2. CASE kills' = kills + 1
    BY <2>2 DEF TInv, Typed, InTurn
  <2> QED BY <2>1, <2>2
<1> QED BY <1>2, <1>3, <1>4 DEF TInv

(* What a recorder appends fits if the task is still the one it saw.     *)
LEMMA EvidenceFits ==
  ASSUME NEW cmd \in Evidences, NEW b \in Branches, NEW snapshot,
         IF cmd \in Recorders THEN snapshot \in Trees ELSE snapshot = None,
         NEW state \in {Legacy} \union {Active(t) : t \in TaskIds},
         NEW s, s.branch = b, s.queue = <<Record(cmd, state.task, b, snapshot, state = Legacy)>>
  PROVE  /\ s.queue \in Seq(Named) /\ Len(s.queue) = 1
         /\ state = StateOf(ledger, b) => Fits(ledger, s)
<1> DEFINE e == Record(cmd, state.task, b, snapshot, state = Legacy)
<1>1. /\ state.task \in TaskIds \union {None}
      /\ state = IF state.task = None THEN Legacy ELSE Active(state.task)
  BY NoTaskAssumption DEF Legacy, Active
<1>2. cmd \notin Boundaries /\ (cmd \notin Recorders => cmd = "note")
  BY TaskLedgerAssumption DEF Evidences, Boundaries, Closes
<1>3. (state = Legacy) \in BOOLEAN
  OBVIOUS
<1>4. /\ e \in Named /\ e.event = cmd /\ e.branch = b /\ e.task = state.task
  BY <1>1, <1>2, <1>3 DEF Record, Named, Event
<1> HIDE DEF e
<1>5. s.queue = <<e>>
  BY DEF e
<1>6. state = StateOf(ledger, b) => FitsEvidence(ledger, s, e)
  BY <1>1, <1>4, <1>5 DEF FitsEvidence
<1> QED BY <1>4, <1>5, <1>6 DEF Fits

LEMMA FreshHere ==
  ASSUME TInv, NEW p \in Sessions, Begins(p)
  PROVE  FreshId \in TaskIds /\ FreshIn(ledger, FreshId)
<1>1. FreshId \in TaskIds /\ FreshId \notin UsedIds
  BY FreshIdIsFresh DEF TInv, Begins
<1> QED BY <1>1 DEF UsedIds, FreshIn

(* The commands, one by one.                                             *)
LEMMA TransitionInTurn ==
  ASSUME TInv, NEW p \in Sessions, NEW cmd \in Transitions, Transition(p, cmd)
  PROVE  TInv'
<1> DEFINE state == DeriveTask(On(head))
           s == [NoCommand EXCEPT !.pc = "helper", !.cmd = cmd, !.branch = head,
                                  !.seen = state, !.queue = Records(cmd, state, head)]
<1>1. head \in Branches /\ state = StateOf(ledger, head) /\ state \in States /\ Typed
  BY StateTyped DEF TInv, Typed
<1>2. /\ session' = [session EXCEPT ![p] = s] /\ Begins(p) /\ Permits(cmd, state)
      /\ UNCHANGED <<ledger, head, tree, kills>>
  BY DEF Transition
<1>3. FreshId \in TaskIds /\ FreshIn(ledger, FreshId)
  BY <1>2, FreshHere
<1> DEFINE queue == Records(cmd, state, head)
<1>4. /\ s.pc = "helper" /\ s.cmd = cmd /\ s.branch = head /\ s.seen = state /\ s.queue = queue
      /\ s.snapshot = None /\ s.orphan = FALSE
      /\ DOMAIN s = {"pc", "cmd", "branch", "seen", "snapshot", "queue", "orphan"}
  BY DEF NoCommand
<1> HIDE DEF state
<1>5. queue \in Seq(Named) /\ Len(queue) <= 2 /\ Fits(ledger, s)
  <2> HIDE DEF s
  <2>1. CASE cmd = "task-start"
    <3>1. Boundary("task-start", FreshId, head) \in Named
      BY <1>1, <1>3, BoundaryTyped DEF Boundaries
    <3>2. queue = <<Boundary("task-start", FreshId, head)>>
      BY <2>1 DEF Records
    <3>3. state.state \in {"legacy", "idle"}
      BY <1>2, <2>1 DEF Permits
    <3>4. FitsStart(ledger, s, FreshId)
      BY <1>1, <1>3, <1>4, <3>2, <3>3 DEF FitsStart
    <3> HIDE DEF queue
    <3> QED BY <1>3, <3>1, <3>2, <3>4 DEF Fits
  <2>2. CASE cmd # "task-start"
    <3>1. state.state = "active"
      BY <1>2, <2>2 DEF Permits
    <3>2. PICK old \in TaskIds : state = Active(old)
      BY <1>1, <3>1 DEF States, Legacy, Idle, Invalid
    <3>3. state.task = old
      BY <3>2 DEF Active
    <3>4. CASE cmd = "task-finish"
      <4>1. Boundary("task-finish", old, head) \in Named
        BY <1>1, BoundaryTyped DEF Boundaries, Closes
      <4>2. queue = <<Boundary("task-finish", old, head)>>
        BY <3>3, <3>4 DEF Records
      <4>3. FitsFinish(ledger, s, old)
        BY <1>1, <1>4, <3>2, <4>2 DEF FitsFinish
      <4> HIDE DEF queue
      <4> QED BY <4>1, <4>2, <4>3 DEF Fits
    <3>5. CASE cmd = "task-reset"
      <4>1. /\ Boundary("task-reset", old, head) \in Named
            /\ Boundary("task-start", FreshId, head) \in Named
        BY <1>1, <1>3, BoundaryTyped DEF Boundaries, Closes
      <4>2. queue = <<Boundary("task-reset", old, head), Boundary("task-start", FreshId, head)>>
        BY <3>3, <3>5 DEF Records
      <4>3. FitsReset(ledger, s, old, FreshId)
        BY <1>1, <1>3, <1>4, <3>2, <4>2 DEF FitsReset
      <4> HIDE DEF queue
      <4> QED BY <1>3, <4>1, <4>2, <4>3 DEF Fits
    <3> QED BY <2>2, <3>4, <3>5 DEF Transitions
  <2> QED BY <2>1, <2>2
<1>6. s \in SessionRecords /\ Captured(s)
  <2> HIDE DEF queue
  <2>1. s \in SessionRecords
    BY <1>1, <1>4, <1>5, NoCommandTyped DEF SessionRecords, NoCommand
  <2> QED BY <1>4, <1>5, <2>1 DEF Captured
<1> HIDE DEF s
<1> QED BY <1>2, <1>4, <1>5, <1>6, ChangeInTurn

LEMMA NoteInTurn == ASSUME TInv, NEW p \in Sessions, Note(p) PROVE TInv'
<1> DEFINE state == ScopedState(head)
           s == [NoCommand EXCEPT !.pc = "helper", !.cmd = "note", !.branch = head, !.seen = state,
                                  !.queue = <<Record("note", state.task, head, None, state = Legacy)>>]
<1>1. /\ state = StateOf(ledger, head) /\ state \in {Legacy} \union {Active(t) : t \in TaskIds}
      /\ head \in Branches
  BY AcceptedState DEF TInv, Typed, Note
<1>2. session' = [session EXCEPT ![p] = s] /\ UNCHANGED <<ledger, head, tree, kills>>
  BY DEF Note
<1>3. /\ s.pc = "helper" /\ s.cmd = "note" /\ s.branch = head /\ s.seen = state
      /\ s.queue = <<Record("note", state.task, head, None, state = Legacy)>>
      /\ s.snapshot = None /\ s.orphan = FALSE
  BY DEF NoCommand
<1> HIDE DEF state
<1>4. s.queue \in Seq(Named) /\ Len(s.queue) = 1 /\ Fits(ledger, s)
  <2> HIDE DEF s
  <2>1. "note" \in Evidences /\ "note" \notin Recorders
    BY TaskLedgerAssumption DEF Evidences
  <2> QED BY <1>1, <1>3, <2>1, EvidenceFits
<1>5. s \in SessionRecords /\ Captured(s)
  <2>1. state \in States
    BY <1>1 DEF States
  <2>2. s \in SessionRecords
    BY <1>1, <1>3, <1>4, <2>1, NoCommandTyped DEF SessionRecords, NoCommand, Evidences
  <2> QED BY <1>3, <1>4, <2>2 DEF Captured
<1> HIDE DEF s
<1> QED BY <1>2, <1>3, <1>4, <1>5, ChangeInTurn

LEMMA CaptureInTurn ==
  ASSUME TInv, NEW p \in Sessions, NEW cmd \in Recorders, Capture(p, cmd) PROVE TInv'
<1> DEFINE state == ScopedState(head)
           s == [NoCommand EXCEPT !.pc = "running", !.cmd = cmd, !.branch = head, !.seen = state]
<1>1. state \in {Legacy} \union {Active(t) : t \in TaskIds} /\ head \in Branches
  BY AcceptedState DEF TInv, Typed, Capture
<1>2. session' = [session EXCEPT ![p] = s] /\ UNCHANGED <<ledger, head, tree, kills>>
  BY DEF Capture
<1>3. /\ s.pc = "running" /\ s.cmd = cmd /\ s.branch = head /\ s.seen = state
      /\ s.queue = <<>> /\ s.snapshot = None /\ s.orphan = FALSE
  BY DEF NoCommand
<1> HIDE DEF state
<1>4. s \in SessionRecords /\ Captured(s) /\ ~HelperAtWork(s)
  <2>1. state \in States /\ cmd \in Evidences
    BY <1>1 DEF States, Evidences
  <2>2. s \in SessionRecords
    BY <1>1, <1>3, <2>1, NoCommandTyped DEF SessionRecords, NoCommand
  <2> QED BY <1>1, <1>3, <2>2 DEF Captured, HelperAtWork
<1> HIDE DEF s
<1> QED BY <1>2, <1>3, <1>4, ChangeInTurn

LEMMA FingerprintInTurn == ASSUME TInv, NEW p \in Sessions, Fingerprint(p) PROVE TInv'
<1> DEFINE s == [session[p] EXCEPT !.pc = "decide", !.snapshot = tree[head]]
<1>1. session[p] \in SessionRecords /\ Captured(session[p]) /\ tree[head] \in Trees
  BY DEF TInv, Typed
<1>2. session' = [session EXCEPT ![p] = s] /\ UNCHANGED <<ledger, head, tree, kills>>
  BY DEF Fingerprint
<1>3. s \in SessionRecords /\ s.pc = "decide"
  BY <1>1 DEF SessionRecords
<1>4. Captured(s) /\ ~HelperAtWork(s) /\ s.orphan = session[p].orphan
  BY <1>1 DEF Fingerprint, Captured, HelperAtWork, SessionRecords
<1>5. kills = 0 => ~s.orphan
  BY <1>4 DEF TInv, InTurn
<1> HIDE DEF s
<1> QED BY <1>2, <1>3, <1>4, <1>5, ChangeInTurn

LEMMA DecideInTurn == ASSUME TInv, NEW p \in Sessions, DecideRecord(p) PROVE TInv'
<1> DEFINE s == [session[p] EXCEPT !.pc = "helper", !.queue = <<Evidence(p)>>]
           old == session[p]
<1>1. old \in SessionRecords /\ Captured(old) /\ old.pc = "decide" /\ Typed
  BY DEF TInv, Typed, DecideRecord
<1>2. session' = [session EXCEPT ![p] = s] /\ UNCHANGED <<ledger, head, tree, kills>>
  BY DEF DecideRecord
<1>3. /\ s.pc = "helper" /\ s.cmd = old.cmd /\ s.branch = old.branch /\ s.seen = old.seen
      /\ s.queue = <<Record(old.cmd, old.seen.task, old.branch, old.snapshot, old.seen = Legacy)>>
      /\ s.orphan = old.orphan
  BY <1>1 DEF Evidence, SessionRecords
<1>4. /\ old.cmd \in Recorders /\ old.snapshot \in Trees /\ old.branch \in Branches
      /\ old.seen \in {Legacy} \union {Active(t) : t \in TaskIds}
  BY <1>1 DEF Captured, SessionRecords
<1>5. old.seen = StateOf(ledger, old.branch)
  BY <1>1, StateTyped DEF DecideRecord, Unmoved, SameBoundary
<1>6. s.queue \in Seq(Named) /\ Len(s.queue) = 1 /\ Fits(ledger, s)
  <2> HIDE DEF s, old
  <2>1. old.cmd \in Evidences
    BY <1>4 DEF Evidences
  <2> QED BY <1>3, <1>4, <1>5, <2>1, EvidenceFits
<1>7. s \in SessionRecords
  <2> DEFINE q == <<Evidence(p)>>
  <2>1. q \in Seq(Named)
    BY <1>1, <1>6 DEF SessionRecords
  <2> HIDE DEF q
  <2>2. [old EXCEPT !.pc = "helper", !.queue = q] \in SessionRecords
    BY <1>1, <2>1 DEF SessionRecords
  <2> QED BY <2>2 DEF q
<1>8. Captured(s)
  BY <1>3, <1>6 DEF Captured
<1>9. kills = 0 => ~s.orphan
  BY <1>3 DEF TInv, InTurn
<1> HIDE DEF s, old
<1> QED BY <1>2, <1>6, <1>7, <1>8, <1>9, ChangeInTurn

LEMMA EndInTurn ==
  ASSUME TInv, NEW p \in Sessions, End(p), UNCHANGED ledger PROVE TInv'
BY ChangeInTurn, NoCommandTyped DEF End

LEMMA BeforeCommitInTurn == ASSUME TInv, NEW p \in Sessions, BeforeCommit(p) PROVE TInv'
<1> DEFINE s == [session[p] EXCEPT !.pc = "commit"]
<1>1. session[p] \in SessionRecords /\ Captured(session[p]) /\ HelperAtWork(session[p])
  BY DEF TInv, Typed, BeforeCommit, HelperAtWork
<1>2. session' = [session EXCEPT ![p] = s] /\ UNCHANGED <<ledger, head, tree, kills>>
  BY DEF BeforeCommit
<1>3. /\ s \in SessionRecords /\ s.pc = "commit" /\ s.orphan = session[p].orphan
      /\ s.queue = session[p].queue /\ s.branch = session[p].branch
  BY <1>1 DEF SessionRecords
<1>4. Captured(s)
  BY <1>1, <1>3 DEF Captured
<1>5. Fits(ledger, session[p]) => Fits(ledger, s)
  BY <1>3 DEF Fits, FitsStart, FitsFinish, FitsReset, FitsEvidence
<1>6. kills = 0 => ~s.orphan /\ Fits(ledger, s)
  BY <1>1, <1>3, <1>5 DEF TInv, InTurn
<1> HIDE DEF s
<1> QED BY <1>2, <1>3, <1>4, <1>6, ChangeInTurn

LEMMA KillInTurn == ASSUME TInv, NEW p \in Sessions, Kill(p) PROVE TInv'
<1> DEFINE s == IF session[p].pc \in {"helper", "commit"}
                THEN [session[p] EXCEPT !.orphan = TRUE] ELSE NoCommand
<1>1. session[p] \in SessionRecords /\ Captured(session[p])
  BY DEF TInv, Typed
<1>2. [session[p] EXCEPT !.orphan = TRUE] \in SessionRecords
  BY <1>1 DEF SessionRecords
<1>3. s \in SessionRecords /\ Captured(s)
  BY <1>1, <1>2, NoCommandTyped DEF Captured, SessionRecords
<1>4. /\ session' = [session EXCEPT ![p] = s] /\ kills < MaxKills /\ kills' = kills + 1
      /\ UNCHANGED <<ledger, head, tree>>
  BY DEF Kill
<1> HIDE DEF s
<1> QED BY <1>3, <1>4, ChangeInTurn

(* What a commit leaves, when nobody was killed: whatever it appends, the*)
(* ledger is well formed, and only its branch has moved, if any.         *)
LEMMA FitsCommits ==
  ASSUME NEW log \in Seq(Named), WellOrdered(log), NEW s \in SessionRecords, Fits(log, s)
  PROVE  WellOrdered(log \o s.queue)
<1>1. s.branch \in Branches
  BY DEF SessionRecords
<1> QED BY <1>1, StartCommits, FinishCommits, ResetCommits, EvidenceCommits DEF Fits

(* A commit by the only helper at work.                                  *)
LEMMA CommitInTurn == ASSUME TInv, IInv, NEW p \in Sessions, Commit(p) PROVE TInv'
<1>1. session[p] \in SessionRecords /\ HelperAtWork(session[p])
  BY DEF TInv, Typed, Commit, HelperAtWork
<1>2. /\ session' = [session EXCEPT ![p] = NoCommand] /\ UNCHANGED <<head, tree, kills>>
      /\ ledger' = ledger \o session[p].queue
  BY DEF Commit, End
<1>3. /\ session' \in [Sessions -> SessionRecords] /\ session'[p] = NoCommand
      /\ \A q \in Sessions \ {p} : session'[q] = session[q]
  BY <1>2, NoCommandTyped DEF TInv, Typed
<1>4. ledger' \in Seq(Named)
  BY <1>1, <1>2, ConcatProperties DEF TInv, Typed, SessionRecords
<1>5. Typed'
  BY <1>2, <1>3, <1>4 DEF TInv, Typed
<1>6. \A q \in Sessions : Captured(session'[q])
  BY <1>3, NoCommandTyped DEF TInv
<1>7. ASSUME kills = 0
      PROVE  /\ WellOrdered(ledger')
             /\ \A q \in Sessions : ~HelperAtWork(session'[q]) /\ ~session'[q].orphan
  <2>1. WellOrdered(ledger')
    BY <1>1, <1>2, <1>7, FitsCommits DEF TInv, Typed, InTurn
  <2>2. \A q \in Sessions : HelperAtWork(session[q]) => lock = q
    BY <1>7 DEF IInv, HelperHoldsLock, TInv, InTurn
  <2>3. \A q \in Sessions \ {p} : ~HelperAtWork(session[q]) /\ ~session[q].orphan
    BY <1>1, <1>7, <2>2 DEF TInv, InTurn
  <2> QED BY <1>3, <2>1, <2>3, NoCommandTyped
<1>8. InTurn'
  BY <1>2, <1>7 DEF InTurn, WellOrdered
<1> QED BY <1>5, <1>6, <1>8 DEF TInv

(* The ledger is new or holds a note, and no command runs.               *)
LEMMA InitInTurn == Init => TInv
<1> SUFFICES ASSUME Init PROVE TInv
  OBVIOUS
<1>1. <<>> \in Seq(Named) /\ WellOrdered(<<>>)
  <2>1. \A b \in Branches : StateOf(<<>>, b) = Legacy
    BY OfBranchEmpty, DeriveEmpty DEF StateOf
  <2>2. \A b \in Branches : EvidenceStands(OfBranch(<<>>, b))
    BY OfBranchEmpty DEF EvidenceStands
  <2> QED BY <2>1, <2>2, ActiveIsValid DEF WellOrdered, Legacy, Invalid
<1>2. ASSUME NEW b \in Branches
      PROVE  /\ <<Record("note", None, b, None, FALSE)>> \in Seq(Named)
             /\ WellOrdered(<<Record("note", None, b, None, FALSE)>>)
  <2> DEFINE e == Record("note", None, b, None, FALSE)
  <2>1. e \in Named /\ e.event = "note" /\ e.branch = b /\ e.task = None
    BY DEF Record, Named, Event, Boundaries, Closes
  <2>2. e.event \notin Boundaries
    BY <2>1 DEF Boundaries, Closes
  <2>3. \A c : StateOf(<<>>, c) = Legacy
    BY OfBranchEmpty, DeriveEmpty DEF StateOf
  <2> HIDE DEF e
  <2>4. Append(<<>>, e) = <<e>>
    OBVIOUS
  <2>5. StateOf(Append(<<>>, e), b) = Legacy
    BY <1>1, <2>1, <2>2, <2>3, EvidenceLeavesTask
  <2>6. Legacy # Invalid
    BY DEF Legacy, Invalid
  <2>7. WellOrdered(Append(<<>>, e))
    BY <1>1, <2>1, <2>3, <2>5, <2>6, WellOrderedAppend
  <2>8. <<e>> \in Seq(Named) /\ WellOrdered(<<e>>)
    BY <2>1, <2>4, <2>7
  <2> QED BY <2>8 DEF e
<1>3. ledger \in Seq(Named) /\ WellOrdered(ledger)
  BY <1>1, <1>2 DEF Init
<1>4. Typed
  <2>1. session \in [Sessions -> SessionRecords] /\ kills \in 0 .. MaxKills
    BY NoCommandTyped, TaskLedgerAssumption DEF Init
  <2>2. head \in Branches /\ tree \in [Branches -> Trees]
    BY TaskLedgerAssumption DEF Init
  <2> QED BY <1>3, <2>1, <2>2 DEF Typed
<1>5. \A p \in Sessions : session[p] = NoCommand
  BY DEF Init
<1>6. InTurn
  BY <1>3, <1>5, NoCommandTyped DEF InTurn
<1>7. \A p \in Sessions : Captured(session[p])
  BY <1>5, NoCommandTyped
<1> QED BY <1>4, <1>6, <1>7 DEF TInv

LEMMA StepInTurn == TInv /\ IInv /\ [Next]_vars => TInv'
<1> SUFFICES ASSUME TInv, IInv, [Next]_vars PROVE TInv'
  OBVIOUS
<1>1. ASSUME NEW p \in Sessions, Command(p) PROVE TInv'
  <2>1. CASE \E cmd \in Transitions : Transition(p, cmd)
    BY <2>1, TransitionInTurn
  <2>2. CASE \E cmd \in Recorders : Capture(p, cmd)
    BY <2>2, CaptureInTurn
  <2>3. CASE Note(p)
    BY <2>3, NoteInTurn
  <2>4. CASE Fingerprint(p) \/ DecideRecord(p) \/ BeforeCommit(p)
    BY <2>4, FingerprintInTurn, DecideInTurn, BeforeCommitInTurn
  <2>5. CASE RefuseRecord(p) \/ HelperFails(p)
    BY <2>5, EndInTurn DEF RefuseRecord, HelperFails
  <2>6. CASE Commit(p)
    BY <2>6, CommitInTurn
  <2>7. CASE Kill(p)
    BY <2>7, KillInTurn
  <2> QED BY <1>1, <2>1, <2>2, <2>3, <2>4, <2>5, <2>6, <2>7 DEF Command, Proceed
<1>2. ASSUME UNCHANGED <<ledger, session, kills>>,
             head' \in Branches, tree' \in [Branches -> Trees]
      PROVE  TInv'
  <2>1. Typed'
    BY <1>2 DEF TInv, Typed
  <2>2. InTurn'
    BY <1>2 DEF TInv, InTurn
  <2> QED BY <1>2, <2>1, <2>2 DEF TInv
<1>3. ASSUME NEW b \in Branches, Checkout(b) PROVE TInv'
  BY <1>2, <1>3 DEF Checkout, TInv, Typed
<1>4. ASSUME NEW t \in Trees, Edit(t) PROVE TInv'
  <2>1. [tree EXCEPT ![head] = t] \in [Branches -> Trees] /\ head \in Branches
    BY DEF TInv, Typed
  <2> QED BY <1>2, <1>4, <2>1 DEF Edit
<1>5. CASE UNCHANGED vars
  <2>1. UNCHANGED <<ledger, session, kills>> /\ head' = head /\ tree' = tree
    BY <1>5 DEF vars
  <2> QED BY <1>2, <2>1 DEF TInv, Typed
<1> QED BY <1>1, <1>3, <1>4, <1>5 DEF Next

LEMMA InTurnAlways == Spec => [](TInv /\ IInv)
<1>1. Init => TInv /\ IInv
  BY InitInTurn, InitInv
<1>2. (TInv /\ IInv) /\ [Next]_vars => (TInv /\ IInv)'
  BY StepInTurn, StepInv
<1> QED BY <1>1, <1>2, PTL DEF Spec

(* The ledger stays well formed, and locked for as long as a living      *)
(* command's helper works on it, for any sessions, branches and bounds.  *)
THEOREM LedgerStaysSound == Spec => []LedgerIsSound
<1>1. TInv /\ IInv => LedgerIsSound
  <2> SUFFICES ASSUME TInv, IInv PROVE LedgerIsSound
    OBVIOUS
  <2>1. TypeOK
    BY ElementOfSeq DEF TInv, Typed, TypeOK, SessionRecords, Named
  <2>2. BoundariesAlternate
    BY DEF TInv, InTurn, WellOrdered, StateOf, On, BoundariesAlternate
  <2> QED BY <2>1, <2>2 DEF IInv, LedgerIsSound
<1> QED BY <1>1, InTurnAlways, PTL

(* As long as no command is killed, evidence stands in the ledger between*)
(* the start and the close of the task it was captured for               *)
(* (withCapturedLedgerIdentity).                                         *)
THEOREM EvidenceStaysInside == Spec => []EvidenceInsideTask
<1>1. TInv /\ IInv => EvidenceInsideTask
  BY DEF TInv, InTurn, WellOrdered, EvidenceStands, On, EvidenceInsideTask
<1> QED BY <1>1, InTurnAlways, PTL

-----------------------------------------------------------------------------
(* That the commands are steps of Tasks.                                 *)
TasksIn(log, name) ==
  {log[i].task : i \in {j \in 1 .. Len(log) : log[j].event = name}}

(* What one more event adds to the tasks opened and finished.            *)
LEMMA TasksInAppend ==
  ASSUME NEW log \in Seq(Named), NEW e \in Named, NEW name
  PROVE  TasksIn(Append(log, e), name) =
           IF e.event = name THEN TasksIn(log, name) \union {e.task} ELSE TasksIn(log, name)
<1> DEFINE n == Len(log)
           more == Append(log, e)
<1>1. /\ n \in Nat /\ Len(more) = n + 1 /\ more[n + 1] = e
      /\ \A i \in 1 .. n : more[i] = log[i]
  BY AppendProperties
<1>2. 1 .. n + 1 = 1 .. n \union {n + 1}
  BY <1>1
<1> HIDE DEF more, n
<1>3. \A t : t \in TasksIn(more, name) <=>
               \/ \E i \in 1 .. n : log[i].event = name /\ log[i].task = t
               \/ e.event = name /\ e.task = t
  BY <1>1, <1>2 DEF TasksIn
<1>4. \A t : t \in TasksIn(log, name) <=>
               \E i \in 1 .. n : log[i].event = name /\ log[i].task = t
  BY DEF TasksIn, n
<1>5. CASE e.event = name
  <2>1. \A t : t \in TasksIn(more, name) <=> t \in TasksIn(log, name) \union {e.task}
    BY <1>3, <1>4, <1>5
  <2> QED BY <1>5, <2>1 DEF more
<1>6. CASE e.event # name
  <2>1. \A t : t \in TasksIn(more, name) <=> t \in TasksIn(log, name)
    BY <1>3, <1>4, <1>6
  <2> QED BY <1>6, <2>1 DEF more
<1> QED BY <1>5, <1>6

LEMMA FreshIsNotOpened ==
  ASSUME NEW log, NEW t, FreshIn(log, t) PROVE \A name : t \notin TasksIn(log, name)
BY DEF FreshIn, TasksIn

LEMMA Mapped ==
  /\ [b \in Branches |-> DeriveTask(On(b))] = [b \in Branches |-> StateOf(ledger, b)]
  /\ \A name : TasksOf(name) = TasksIn(ledger, name)
BY DEF On, StateOf, TasksOf, TasksIn

(* A new ledger, or one whose evidence predates tasks, has no task.      *)
LEMMA InitIsTasks == TInv /\ Init => AbstractTasks!Init
<1> SUFFICES ASSUME TInv, Init PROVE AbstractTasks!Init
  OBVIOUS
<1>1. \A i \in 1 .. Len(ledger) : ledger[i].event = "note"
  BY DEF Init, Record
<1>2. TasksOf("task-start") = {} /\ TasksOf("task-finish") = {}
  BY <1>1 DEF TasksOf
<1>3. ASSUME NEW b \in Branches PROVE DeriveTask(On(b)) = Legacy
  <2>1. CASE ledger = <<>>
    BY <2>1, OfBranchEmpty, DeriveEmpty DEF On
  <2>2. CASE ledger # <<>>
    <3>1. PICK c \in Branches : ledger = <<Record("note", None, c, None, FALSE)>>
      BY <2>2 DEF Init
    <3> DEFINE e == Record("note", None, c, None, FALSE)
    <3>2. e \in Named /\ e.event \notin Boundaries
      BY DEF Record, Named, Event, Boundaries, Closes
    <3> HIDE DEF e
    <3>3. ledger = Append(<<>>, e) /\ <<>> \in Seq(Named)
      BY <3>1 DEF e
    <3>4. StateOf(ledger, b) = StateOf(<<>>, b)
      BY <3>2, <3>3, EvidenceLeavesTask
    <3> QED BY <3>4, OfBranchEmpty, DeriveEmpty DEF StateOf, On
  <2> QED BY <2>1, <2>2
<1>4. [b \in Branches |-> DeriveTask(On(b))] = [b \in Branches |-> Legacy]
  BY <1>3
<1> QED BY <1>2, <1>4 DEF AbstractTasks!Init, AbstractTasks!Legacy, Legacy

(* Taken together: a commit by a command that fits is a step, or none.   *)
LEMMA CommitIsTasks ==
  ASSUME TInv, kills = 0, NEW p \in Sessions, Commit(p)
  PROVE  [AbstractTasks!Next]_AbstractTasks!vars
<1> DEFINE s == session[p]
           b == s.branch
           task == [c \in Branches |-> StateOf(ledger, c)]
           after == [c \in Branches |-> StateOf(ledger', c)]
<1>1. /\ ledger \in Seq(Named) /\ WellOrdered(ledger) /\ Fits(ledger, s)
      /\ b \in Branches /\ ledger' = ledger \o s.queue
  BY DEF TInv, Typed, InTurn, Commit, HelperAtWork, SessionRecords
<1>2. /\ [c \in Branches |-> DeriveTask(On(c))] = task
      /\ [c \in Branches |-> DeriveTask(On(c))]' = after
      /\ \A name : TasksOf(name) = TasksIn(ledger, name)
      /\ TasksOf("task-start")' = TasksIn(ledger', "task-start")
      /\ TasksOf("task-finish")' = TasksIn(ledger', "task-finish")
  BY Mapped DEF On, StateOf, TasksOf, TasksIn
<1>3. ASSUME NEW state, OnlyMoves(ledger, ledger', b, state) PROVE after = [task EXCEPT ![b] = state]
  BY <1>3 DEF OnlyMoves
<1>4. ASSUME NEW t \in TaskIds, FitsStart(ledger, s, t) PROVE AbstractTasks!Start(b, t)
  <2> DEFINE e == Boundary("task-start", t, b)
  <2>1. /\ ledger' = Append(ledger, e) /\ e \in Named
        /\ OnlyMoves(ledger, ledger', b, Active(t))
    BY <1>1, <1>4, StartCommits
  <2>2. e.event = "task-start" /\ e.task = t
    BY DEF Boundary, Record
  <2> HIDE DEF e
  <2>3. after = [task EXCEPT ![b] = Active(t)]
    BY <1>3, <2>1
  <2>4. /\ TasksIn(ledger', "task-start") = TasksIn(ledger, "task-start") \union {t}
        /\ TasksIn(ledger', "task-finish") = TasksIn(ledger, "task-finish")
    BY <1>1, <2>1, <2>2, TasksInAppend
  <2>5. t \notin TasksIn(ledger, "task-start") /\ task[b].state # "active"
    BY <1>1, <1>4, FreshIsNotOpened DEF FitsStart
  <2> HIDE DEF task, after, s, b
  <2> QED BY <1>2, <2>3, <2>4, <2>5
          DEF AbstractTasks!Start, AbstractTasks!Open, AbstractTasks!Active, Active
<1>5. ASSUME NEW old \in TaskIds, FitsFinish(ledger, s, old) PROVE AbstractTasks!Finish(b)
  <2> DEFINE e == Boundary("task-finish", old, b)
  <2>1. /\ ledger' = Append(ledger, e) /\ e \in Named
        /\ OnlyMoves(ledger, ledger', b, Idle)
    BY <1>1, <1>5, FinishCommits
  <2>2. e.event = "task-finish" /\ e.task = old
    BY DEF Boundary, Record
  <2> HIDE DEF e
  <2>3. after = [task EXCEPT ![b] = Idle]
    BY <1>3, <2>1
  <2>4. /\ TasksIn(ledger', "task-start") = TasksIn(ledger, "task-start")
        /\ TasksIn(ledger', "task-finish") = TasksIn(ledger, "task-finish") \union {old}
    BY <1>1, <2>1, <2>2, TasksInAppend
  <2>5. task[b].state = "active" /\ task[b].task = old
    BY <1>1, <1>5 DEF FitsFinish, Active
  <2> HIDE DEF task, after, s, b
  <2> QED BY <1>2, <2>3, <2>4, <2>5 DEF AbstractTasks!Finish, AbstractTasks!Idle, Idle
<1>6. ASSUME NEW old \in TaskIds, NEW t \in TaskIds, FitsReset(ledger, s, old, t)
      PROVE  AbstractTasks!Reset(b, t)
  <2> DEFINE e == Boundary("task-reset", old, b)
             d == Boundary("task-start", t, b)
             mid == Append(ledger, e)
  <2>1. /\ ledger' = Append(mid, d) /\ e \in Named /\ d \in Named
        /\ OnlyMoves(ledger, ledger', b, Active(t))
    BY <1>1, <1>6, ResetCommits
  <2>2. e.event = "task-reset" /\ d.event = "task-start" /\ d.task = t
    BY DEF Boundary, Record
  <2>3. mid \in Seq(Named)
    BY <1>1, <2>1, AppendProperties
  <2> HIDE DEF e, d
  <2>4. after = [task EXCEPT ![b] = Active(t)]
    BY <1>3, <2>1
  <2>5. /\ TasksIn(mid, "task-start") = TasksIn(ledger, "task-start")
        /\ TasksIn(mid, "task-finish") = TasksIn(ledger, "task-finish")
    BY <1>1, <2>1, <2>2, TasksInAppend
  <2> HIDE DEF mid
  <2>6. /\ TasksIn(ledger', "task-start") = TasksIn(ledger, "task-start") \union {t}
        /\ TasksIn(ledger', "task-finish") = TasksIn(ledger, "task-finish")
    BY <2>1, <2>2, <2>3, <2>5, TasksInAppend
  <2>7. t \notin TasksIn(ledger, "task-start") /\ task[b].state = "active"
    BY <1>1, <1>6, FreshIsNotOpened DEF FitsReset, Active
  <2> HIDE DEF task, after, s, b
  <2> QED BY <1>2, <2>4, <2>6, <2>7
          DEF AbstractTasks!Reset, AbstractTasks!Open, AbstractTasks!Active, Active
<1>7. ASSUME NEW e \in Named, FitsEvidence(ledger, s, e) PROVE UNCHANGED AbstractTasks!vars
  <2>1. /\ ledger' = Append(ledger, e)
        /\ \A c \in Branches : StateOf(ledger', c) = StateOf(ledger, c)
    BY <1>1, <1>7, EvidenceCommits
  <2>2. e.event # "task-start" /\ e.event # "task-finish"
    BY <1>7, TaskLedgerAssumption DEF FitsEvidence, Evidences
  <2>3. /\ TasksIn(ledger', "task-start") = TasksIn(ledger, "task-start")
        /\ TasksIn(ledger', "task-finish") = TasksIn(ledger, "task-finish")
    BY <1>1, <2>1, <2>2, TasksInAppend
  <2>4. after = task
    BY <2>1
  <2> HIDE DEF task, after
  <2> QED BY <1>2, <2>3, <2>4 DEF AbstractTasks!vars
<1>8. \/ \E t \in TaskIds : AbstractTasks!Start(b, t) \/ AbstractTasks!Reset(b, t)
      \/ AbstractTasks!Finish(b)
      \/ UNCHANGED AbstractTasks!vars
  <2> HIDE DEF task, after, s, b
  <2> QED BY <1>1, <1>4, <1>5, <1>6, <1>7 DEF Fits
<1> HIDE DEF task, after, s, b
<1> QED BY <1>1, <1>8 DEF AbstractTasks!Next

(* Only a commit changes what Tasks sees.                                *)
LEMMA StepIsTasks ==
  TInv /\ [Next]_vars => (kills' = 0 => [AbstractTasks!Next]_AbstractTasks!vars)
<1> SUFFICES ASSUME TInv, [Next]_vars, kills' = 0
             PROVE  [AbstractTasks!Next]_AbstractTasks!vars
  OBVIOUS
<1>1. CASE UNCHANGED ledger
  BY <1>1 DEF AbstractTasks!vars, On, TasksOf
<1>2. CASE \E p \in Sessions : Commit(p)
  <2>1. PICK p \in Sessions : Commit(p)
    BY <1>2
  <2>2. kills = 0
    BY <2>1 DEF Commit, End
  <2> QED BY <2>1, <2>2, CommitIsTasks
<1> QED BY <1>1, <1>2
        DEF Next, vars, Command, Proceed, Checkout, Edit, Transition, Capture, Note, Fingerprint,
            DecideRecord, RefuseRecord, BeforeCommit, HelperFails, Kill, End

(* The commands implement the abstract tasks: each start, finish and reset *)
(* is one step of Tasks and everything else is none, as long as no command *)
(* is killed.                                                            *)
THEOREM CommandsAreTasks == Spec => ImplementsTasks
<1>1. Spec => AbstractTasks!Init
  BY InitInTurn, InitIsTasks DEF Spec
<1>2. (TInv /\ IInv) /\ [Next]_vars => [kills' = 0 => [AbstractTasks!Next]_AbstractTasks!vars]_vars
  BY StepIsTasks
<1> QED BY <1>1, <1>2, InTurnAlways, PTL DEF Spec, ImplementsTasks

-----------------------------------------------------------------------------
(* THE LAST EVENT OF A KIND.                                             *)
LEMMA LastRedIs ==
  ASSUME NEW t, IsSequence(t.events)
  PROVE  /\ LastRed(t) \in 0 .. Len(t.events) /\ (LastRed(t) = 0 \/ IsRed(t.events[LastRed(t)]))
         /\ \A j \in LastRed(t) + 1 .. Len(t.events) : ~IsRed(t.events[j])
<1> DEFINE n == Len(t.events)
           T == {i \in 1 .. n : IsRed(t.events[i])}
<1>1. \E i \in 0 .. n : (i = 0 \/ i \in T) /\ \A j \in i + 1 .. n : j \notin T
  <2>1. n \in Nat
    BY DEF IsSequence
  <2> HIDE DEF T, n
  <2> QED BY <2>1, LastExists
<1>2. \E i \in 0 .. n : (i = 0 \/ IsRed(t.events[i])) /\ \A j \in i + 1 .. n : ~IsRed(t.events[j])
  <2>1. n \in Nat
    BY DEF IsSequence
  <2> QED BY <1>1, <2>1
<1> QED BY <1>2 DEF LastRed, LastOf

LEMMA LastGreenIs ==
  ASSUME NEW t, IsSequence(t.events)
  PROVE  /\ LastOf(t, IsGreen) \in 0 .. Len(t.events)
         /\ LastOf(t, IsGreen) = 0 \/ IsGreen(t.events[LastOf(t, IsGreen)])
<1> DEFINE n == Len(t.events)
           T == {i \in 1 .. n : IsGreen(t.events[i])}
<1>1. \E i \in 0 .. n : (i = 0 \/ i \in T) /\ \A j \in i + 1 .. n : j \notin T
  <2>1. n \in Nat
    BY DEF IsSequence
  <2> HIDE DEF T, n
  <2> QED BY <2>1, LastExists
<1>2. \E i \in 0 .. n : (i = 0 \/ IsGreen(t.events[i])) /\ \A j \in i + 1 .. n : ~IsGreen(t.events[j])
  <2>1. n \in Nat
    BY DEF IsSequence
  <2> QED BY <1>1, <2>1
<1> QED BY <1>2 DEF LastOf

LEMMA LastReviewIs ==
  ASSUME NEW t, IsSequence(t.events)
  PROVE  /\ LastOf(t, IsReview) \in 0 .. Len(t.events)
         /\ LastOf(t, IsReview) = 0 \/ IsReview(t.events[LastOf(t, IsReview)])
         /\ \A j \in LastOf(t, IsReview) + 1 .. Len(t.events) : ~IsReview(t.events[j])
<1> DEFINE n == Len(t.events)
           T == {i \in 1 .. n : IsReview(t.events[i])}
<1>1. \E i \in 0 .. n : (i = 0 \/ i \in T) /\ \A j \in i + 1 .. n : j \notin T
  <2>1. n \in Nat
    BY DEF IsSequence
  <2> HIDE DEF T, n
  <2> QED BY <2>1, LastExists
<1>2. \E i \in 0 .. n : (i = 0 \/ IsReview(t.events[i])) /\ \A j \in i + 1 .. n : ~IsReview(t.events[j])
  <2>1. n \in Nat
    BY DEF IsSequence
  <2> QED BY <1>1, <2>1
<1> QED BY <1>2 DEF LastOf

LEMMA ReviewIsThere ==
  ASSUME NEW t, IsSequence(t.events)
  PROVE  Some(t, IsReview) <=> LastOf(t, IsReview) # 0
<1> DEFINE n == Len(t.events)
           l == LastOf(t, IsReview)
<1>1. /\ n \in Nat /\ l \in 0 .. n /\ (l = 0 \/ IsReview(t.events[l]))
      /\ \A j \in l + 1 .. n : ~IsReview(t.events[j])
  BY LastReviewIs DEF IsSequence
<1>2. Some(t, IsReview) <=> \E i \in 1 .. n : IsReview(t.events[i])
  BY DEF Some
<1> HIDE DEF l, n
<1>3. l # 0 => l \in 1 .. n
  BY <1>1
<1>4. l = 0 => 1 .. n = l + 1 .. n
  BY <1>1
<1>5. (\E i \in 1 .. n : IsReview(t.events[i])) <=> l # 0
  BY <1>1, <1>3, <1>4
<1> QED BY <1>2, <1>5 DEF l

-----------------------------------------------------------------------------
(* THE ORACLE AND THE GATE.                                              *)
LEMMA ScopedIs ==
  Scoped = ScopedAs(IF DeriveTask(events) = Legacy /\ events # <<>> /\ legacyCheckoutIsIdle
                    THEN Idle ELSE DeriveTask(events))
<1> DEFINE state(derived) ==
             IF derived = Legacy /\ events # <<>> /\ legacyCheckoutIsIdle THEN Idle ELSE derived
<1>1. Scoped = TheOne({ScopedAs(state(derived)) : derived \in {DeriveTask(events)}})
  BY DEF Scoped
<1>2. {ScopedAs(state(derived)) : derived \in {DeriveTask(events)}} = {ScopedAs(state(DeriveTask(events)))}
  OBVIOUS
<1>3. Scoped = ScopedAs(state(DeriveTask(events)))
  BY <1>1, <1>2 DEF TheOne
<1> QED BY <1>3

LEMMA StatesDiffer ==
  /\ \A x : /\ Active(x) # Legacy /\ Active(x) # Idle /\ Active(x) # Invalid
            /\ Active(x).state = "active" /\ Active(x).task = x
  /\ Legacy # Idle /\ Legacy # Invalid /\ Idle # Invalid
  /\ Legacy.state # "active" /\ Idle.state # "active" /\ Invalid.state # "active" /\ Legacy.task = None
BY DEF Active, Legacy, Idle, Invalid

(* Of a finished task nothing is claimed that the gate refuses.          *)
LEMMA FinishedAgrees ==
  ASSUME NEW t, Finished(t), pr \in {"none", "unknown", "pending", "failing", "green"}
  PROVE  gateReasons(t) \subseteq {"route"}
<1>1. Recordable(t) /\ ~ReviewDue(t) /\ PlanNext(t) # "slice"
  BY DEF Finished, NextStep, WithoutTask
<1>2. t.state # Idle /\ t.state # Invalid
  BY <1>1, StatesDiffer DEF Recordable
<1>3. PlanNext(t) # "review"
  BY <1>1 DEF ReviewDue
<1>4. Verdict(t) = "none" \/ Approved(t)
  BY <1>1 DEF ReviewDue, ReviewExpected
<1>5. ReviewClaimed(t) => Approved(t)
  BY <1>1, <1>3 DEF PlanNext, ReviewClaimed
<1>6. Verdict(t) = "none" => ~Stale(t)
  BY DEF Stale
<1>7. Approved(t) => Verdict(t) = "approved" /\ ~Stale(t)
  BY DEF Approved
<1>8. /\ {Verdict(t)} \intersect {"changes-requested", "error"} = {}
      /\ ~Stale(t) /\ ~ (ReviewClaimed(t) /\ Verdict(t) # "approved")
  BY <1>4, <1>5, <1>6, <1>7
<1> QED BY <1>1, <1>2, <1>8 DEF gateReasons

-----------------------------------------------------------------------------
(* THE LOOP'S INVARIANT.  An event of the loop names the task it falls   *)
(* into: none before the first boundary, and after a start, up to the    *)
(* next boundary, the one started.  The past has only greens of its own, *)
(* taken at their word.                                                  *)
InTask(s, n, t) ==
  /\ (\A i \in 1 .. n - 1 : ~IsBoundary(s[i])) => t = None
  /\ \A i \in 1 .. n - 1 :
       s[i].event = "task-start" /\ (\A k \in i + 1 .. n - 1 : ~IsBoundary(s[k])) => t = s[i].task

Owned(e) ==
  \/ e.event \in {"red", "review-request", "review"}
  \/ e.event = "verify" /\ (e.imported \/ e.snapshot # None)

(* What an approval answers.                                             *)
Asked(s, j) ==
  \E i \in 1 .. j - 1 :
    /\ s[i].event = "review-request" /\ s[i].id = s[j].request
    /\ s[i].snapshot = s[j].snapshot /\ s[i].task = s[j].task

(* What each event has to do with those before it.                       *)
Sound(s, j) ==
  /\ s[j].task \in TaskNames \union {None} /\ (IsBoundary(s[j]) => s[j].task \in TaskNames)
  /\ Owned(s[j]) => InTask(s, j, s[j].task)
  /\ IsReview(s[j]) /\ s[j].verdict = "approved" => Asked(s, j)
  /\ s[j].event = "verify" /\ ~s[j].imported /\ (\E i \in 1 .. j - 1 : IsRed(s[i]))
       => s[j].snapshot # None

AllSound(s) == IsSequence(s) /\ \A j \in 1 .. Len(s) : Sound(s, j)

LoopInv ==
  /\ LoopTypeOK /\ AllSound(events)
  /\ phase = "past" => \A i \in 1 .. Len(events) : ~IsRed(events[i])

LEMMA SoundLooksBack ==
  ASSUME NEW s, NEW r, NEW j \in Nat, j # 0, \A i \in 1 .. j : r[i] = s[i], Sound(s, j)
  PROVE  Sound(r, j)
<1>1. /\ r[j] = s[j] /\ \A i \in 1 .. j - 1 : r[i] = s[i]
      /\ \A i \in 1 .. j - 1 : \A k \in i + 1 .. j - 1 : k \in 1 .. j - 1
  OBVIOUS
<1>2. Owned(s[j]) => InTask(r, j, s[j].task)
  <2>1. SUFFICES ASSUME InTask(s, j, s[j].task) PROVE InTask(r, j, s[j].task)
    BY DEF Sound
  <2> QED BY <1>1, <2>1 DEF InTask
<1>3. Asked(s, j) => Asked(r, j)
  BY <1>1 DEF Asked
<1> QED BY <1>1, <1>2, <1>3 DEF Sound

LEMMA OneMoreSound ==
  ASSUME NEW s, AllSound(s), NEW e, Sound(Append(s, e), Len(s) + 1)
  PROVE  AllSound(Append(s, e))
<1> DEFINE r == Append(s, e)
<1>1. /\ Len(s) \in Nat /\ IsSequence(r) /\ Len(r) = Len(s) + 1
      /\ \A i \in 1 .. Len(s) : r[i] = s[i]
  BY AppendGrows DEF AllSound, IsSequence
<1> HIDE DEF r
<1>2. ASSUME NEW j \in 1 .. Len(s) PROVE Sound(r, j)
  <2>1. j \in Nat /\ j # 0 /\ \A i \in 1 .. j : r[i] = s[i]
    BY <1>1
  <2> QED BY <2>1, SoundLooksBack DEF AllSound
<1>3. 1 .. Len(r) = (1 .. Len(s)) \union {Len(s) + 1}
  BY <1>1
<1> QED BY <1>1, <1>2, <1>3 DEF AllSound, r

(* A boundary of a known task fits anywhere.                             *)
LEMMA BoundarySound ==
  ASSUME NEW s, AllSound(s), NEW e, e.event \in Boundaries, e.task \in TaskNames
  PROVE  AllSound(Append(s, e))
<1>1. Append(s, e)[Len(s) + 1] = e
  BY AppendGrows DEF AllSound
<1>2. ~Owned(e) /\ ~IsReview(e) /\ e.event # "verify" /\ IsBoundary(e)
  BY DEF Owned, IsReview, IsBoundary, Boundaries, Closes
<1>3. Sound(Append(s, e), Len(s) + 1)
  BY <1>1, <1>2 DEF Sound
<1> QED BY <1>3, OneMoreSound

-----------------------------------------------------------------------------
(* What is in scope: from first on, the events that name the task, each  *)
(* at its place m, and of those the loop is about all there are.         *)
View(t, first, m) ==
  /\ first \in 0 .. Len(events) /\ (first = 0 => t.state = Legacy)
  /\ first # 0 => events[first].event = "task-start" /\ events[first].task = t.state.task
  /\ m \in [1 .. Len(t.events) -> 1 .. Len(events)]
  /\ \A i \in 1 .. Len(t.events) : first <= m[i] /\ t.events[i] = events[m[i]]
  /\ \A i, j \in 1 .. Len(t.events) : i < j => m[i] < m[j]
  /\ \A k \in first + 1 .. Len(events) :
       /\ ~IsBoundary(events[k])
       /\ Owned(events[k]) =>
            events[k].task = t.state.task /\ \E i \in 1 .. Len(t.events) : m[i] = k

(* A state that events may be recorded for.                              *)
LEMMA RecordableMeans ==
  ASSUME IsSequence(events), NEW t, t = Scoped, Recordable(t)
  PROVE  \/ t.state = Legacy /\ t.events = events /\ DeriveTask(events) = Legacy
         \/ \E x : /\ t.state = Active(x) /\ DeriveTask(events) = Active(x)
                   /\ t.events = EventsOf(events, StartOfTask(events, x), x)
<1> DEFINE d == DeriveTask(events)
           state == IF d = Legacy /\ events # <<>> /\ legacyCheckoutIsIdle THEN Idle ELSE d
<1>1. t.state = state /\ t.events = ScopeTask(events, state)
  BY ScopedIs DEF ScopedAs
<1>2. t.state # Idle /\ t.state # Invalid
  BY StatesDiffer DEF Recordable
<1>3. t.state = d
  BY <1>1, <1>2
<1>4. CASE d = Legacy
  <2>1. ScopeTask(events, Legacy) = events
    BY StatesDiffer DEF ScopeTask
  <2>2. t.state = Legacy /\ t.events = ScopeTask(events, t.state)
    BY <1>1, <1>3, <1>4
  <2> QED BY <1>4, <2>1, <2>2
<1>5. CASE d # Legacy
  <2>1. PICK x : d = Active(x)
    BY <1>2, <1>3, <1>5, DerivedStates
  <2>2. ScopeTask(events, d) = EventsOf(events, StartOfTask(events, x), x)
    BY <2>1, StatesDiffer DEF ScopeTask
  <2> QED BY <1>1, <1>3, <2>1, <2>2
<1> QED BY <1>4, <1>5

LEMMA OwnedInScope ==
  ASSUME AllSound(events), NEW first \in 0 .. Len(events),
         \A k \in first + 1 .. Len(events) : ~IsBoundary(events[k]),
         NEW x, first = 0 => x = None, first # 0 => events[first].event = "task-start" /\ events[first].task = x,
         NEW k \in first + 1 .. Len(events), Owned(events[k])
  PROVE  events[k].task = x
<1>1. k \in 1 .. Len(events) /\ \A i \in first + 1 .. k - 1 : i \in first + 1 .. Len(events)
  BY DEF AllSound, IsSequence
<1>2. InTask(events, k, events[k].task)
  BY <1>1 DEF AllSound, Sound
<1>3. CASE first = 0
  BY <1>1, <1>2, <1>3 DEF InTask
<1>4. CASE first # 0
  <2>1. first \in 1 .. k - 1
    BY <1>1, <1>4 DEF AllSound, IsSequence
  <2> QED BY <1>1, <1>2, <1>4, <2>1 DEF InTask
<1> QED BY <1>3, <1>4

LEMMA ScopeView ==
  ASSUME AllSound(events), NEW t, t = Scoped, Recordable(t)
  PROVE  IsSequence(t.events) /\ \E first, m : View(t, first, m)
<1>1. IsSequence(events) /\ Len(events) \in Nat
  BY DEF AllSound, IsSequence
<1>2. CASE t.state = Legacy /\ t.events = events /\ DeriveTask(events) = Legacy
  <2> DEFINE m == [i \in 1 .. Len(events) |-> i]
  <2>1. \A k \in 0 + 1 .. Len(events) : ~IsBoundary(events[k])
    BY <1>1, <1>2, LegacyMeans
  <2>2. 0 \in 0 .. Len(events) /\ t.state.task = None
    BY <1>1, <1>2, StatesDiffer
  <2>3. \A k \in 0 + 1 .. Len(events) : Owned(events[k]) => events[k].task = None
    BY <2>1, <2>2, OwnedInScope
  <2>4. View(t, 0, m)
    BY <1>1, <1>2, <2>1, <2>2, <2>3 DEF View
  <2> QED BY <1>1, <1>2, <2>4
<1>3. ASSUME NEW x, t.state = Active(x), DeriveTask(events) = Active(x),
             t.events = EventsOf(events, StartOfTask(events, x), x)
      PROVE  IsSequence(t.events) /\ \E first, m : View(t, first, m)
  <2> DEFINE first == StartOfTask(events, x)
             n == Len(events)
  <2>1. LastStart(events, first, x)
    BY <1>1, <1>3, ActiveMeans
  <2>2. first \in 1 .. n /\ first # 0 /\ first \in 0 .. n /\ first \in Nat
        /\ events[first].event = "task-start" /\ events[first].task = x
        /\ \A k \in first + 1 .. n : ~IsBoundary(events[k])
    BY <1>1, <2>1 DEF LastStart
  <2> HIDE DEF first
  <2>3. IsSequence(t.events) /\ \E m : Places(m, t.events, events, first, n, x)
    BY <1>1, <1>3, <2>2, EventsOfMeans DEF first
  <2>4. PICK m : Places(m, t.events, events, first, n, x)
    BY <2>3
  <2>5. \A k \in first + 1 .. n : Owned(events[k]) => events[k].task = x
    BY <2>2, OwnedInScope
  <2>6. \A k \in first + 1 .. n : k \in first .. n
    BY <1>1, <2>2
  <2>7. m \in [1 .. Len(t.events) -> 1 .. n]
        /\ \A i \in 1 .. Len(t.events) : first <= m[i] /\ t.events[i] = events[m[i]]
    <3>1. first .. n \subseteq 1 .. n /\ \A k \in first .. n : first <= k
      BY <1>1, <2>2
    <3> QED BY <2>4, <3>1 DEF Places
  <2>8. t.state.task = x
    BY <1>3, StatesDiffer
  <2>9. \A k \in first + 1 .. n : Owned(events[k]) => \E i \in 1 .. Len(t.events) : m[i] = k
    BY <2>4, <2>5, <2>6 DEF Places
  <2>10. \A i, j \in 1 .. Len(t.events) : i < j => m[i] < m[j]
    BY <2>4 DEF Places
  <2>11. View(t, first, m)
    BY <2>2, <2>5, <2>7, <2>8, <2>9, <2>10 DEF View
  <2> QED BY <2>3, <2>11
<1> QED BY <1>1, <1>2, <1>3, RecordableMeans

(* The task that a command records for.                                  *)
LEMMA TaskInScope ==
  ASSUME LoopTypeOK, AllSound(events), NEW t, t = Scoped, Recordable(t)
  PROVE  t.state.task \in TaskNames \union {None} /\ (t.state # Legacy => t.state.task \in TaskNames)
         /\ InTask(events, Len(events) + 1, t.state.task)
<1>1. PICK first, m : View(t, first, m)
  BY ScopeView
<1>2. Len(events) \in Nat /\ Len(events) + 1 - 1 = Len(events) /\ first \in 0 .. Len(events)
  BY <1>1 DEF View, AllSound, IsSequence
<1>3. CASE first = 0
  <2>1. t.state = Legacy /\ t.state.task = None
    BY <1>1, <1>3, StatesDiffer DEF View
  <2>2. \A k \in 1 .. Len(events) : ~IsBoundary(events[k])
    BY <1>1, <1>3 DEF View
  <2>3. \A k \in 1 .. Len(events) : events[k].event # "task-start"
    BY <2>2 DEF IsBoundary, Boundaries
  <2> QED BY <1>2, <2>1, <2>2, <2>3 DEF InTask
<1>4. CASE first # 0
  <2>1. first \in 1 .. Len(events) /\ events[first].event = "task-start"
        /\ events[first].task = t.state.task /\ IsBoundary(events[first])
    BY <1>1, <1>2, <1>4 DEF View, IsBoundary, Boundaries
  <2>2. t.state.task \in TaskNames
    BY <2>1 DEF AllSound, Sound
  <2>3. ASSUME NEW i \in 1 .. Len(events), events[i].event = "task-start",
               \A k \in i + 1 .. Len(events) : ~IsBoundary(events[k])
        PROVE  i = first
    <3>1. ~ (i < first)
      BY <1>2, <2>1, <2>3
    <3>2. IsBoundary(events[i])
      BY <2>3 DEF IsBoundary, Boundaries
    <3>3. ~ (i > first)
      BY <1>1, <1>2, <2>1, <3>2 DEF View
    <3> QED BY <1>2, <3>1, <3>3
  <2> QED BY <1>2, <2>1, <2>2, <2>3 DEF InTask
<1> QED BY <1>3, <1>4

(* An event recorded for the task that is found.                         *)
LEMMA CommandSound ==
  ASSUME LoopTypeOK, AllSound(events), NEW t, t = Scoped, Recordable(t),
         NEW e, ~IsBoundary(e), e.task = t.state.task,
         e.event = "verify" /\ ~e.imported => e.snapshot # None,
         IsReview(e) /\ e.verdict = "approved" =>
           \E i \in 1 .. Len(t.events) :
             /\ t.events[i].event = "review-request" /\ t.events[i].id = e.request
             /\ t.events[i].snapshot = e.snapshot
  PROVE  AllSound(Append(events, e))
<1> DEFINE r == Append(events, e)
           n == Len(events)
<1>1. /\ n \in Nat /\ r[n + 1] = e /\ \A i \in 1 .. n : r[i] = events[i]
  BY AppendGrows DEF AllSound, IsSequence
<1>2. t.state.task \in TaskNames \union {None} /\ InTask(events, n + 1, t.state.task)
  BY TaskInScope
<1> HIDE DEF r, n
<1>3. InTask(r, n + 1, e.task)
  <2>1. /\ \A i \in 1 .. (n + 1) - 1 : r[i] = events[i]
        /\ \A i \in 1 .. (n + 1) - 1 : \A k \in i + 1 .. (n + 1) - 1 : k \in 1 .. (n + 1) - 1
    BY <1>1
  <2> QED BY <1>2, <2>1 DEF InTask
<1>4. IsReview(e) /\ e.verdict = "approved" => Asked(r, n + 1)
  <2>1. SUFFICES ASSUME IsReview(e), e.verdict = "approved" PROVE Asked(r, n + 1)
    OBVIOUS
  <2>2. PICK i \in 1 .. Len(t.events) :
          /\ t.events[i].event = "review-request" /\ t.events[i].id = e.request
          /\ t.events[i].snapshot = e.snapshot
    BY <2>1
  <2>3. PICK first, m : View(t, first, m)
    BY ScopeView
  <2> DEFINE k == m[i]
  <2>4. k \in 1 .. n /\ first \in 0 .. n /\ first <= k /\ events[k] = t.events[i]
    BY <2>3 DEF View, n
  <2>5. k # first
    BY <2>2, <2>3, <2>4 DEF View
  <2>6. k \in first + 1 .. n /\ Owned(events[k])
    BY <1>1, <2>2, <2>4, <2>5 DEF Owned
  <2>7. events[k].task = t.state.task
    BY <2>3, <2>6 DEF View, n
  <2>8. r[k] = events[k] /\ k \in 1 .. (n + 1) - 1
    BY <1>1, <2>4
  <2> HIDE DEF k
  <2>9. r[k].event = "review-request" /\ r[k].id = r[n + 1].request
        /\ r[k].snapshot = r[n + 1].snapshot /\ r[k].task = r[n + 1].task
    BY <1>1, <2>2, <2>4, <2>7, <2>8
  <2> QED BY <2>8, <2>9 DEF Asked
<1>5. Sound(r, n + 1)
  BY <1>1, <1>2, <1>3, <1>4 DEF Sound
<1> QED BY <1>5, OneMoreSound DEF r, n

-----------------------------------------------------------------------------
(* THE STEPS.  What is not an event is stored with its type.             *)
CheckoutTyped ==
  /\ written \in Code /\ code \in 0 .. written /\ docs \in BOOLEAN /\ caps \subseteq AllCaps
  /\ commits \in Nat /\ committed \in Tree

RestTyped ==
  /\ plan \in Plans \union {None} /\ onBase \in BOOLEAN
  /\ pr \in {"none", "unknown", "pending", "failing", "green"}
  /\ run \in {None} \union
       [kind : {"red", "verify"}, tagged : BOOLEAN, state : {Legacy} \union {Active(t) : t \in TaskNames}]

LEMMA TypeSplits ==
  LoopTypeOK <=> /\ phase \in {"past", "now"} /\ CheckoutTyped /\ RestTyped
             /\ \A i \in 1 .. Len(events) : events[i].task \in TaskNames \union {None}
BY DEF LoopTypeOK, CheckoutTyped, RestTyped

LEMMA NowKeeps ==
  ASSUME phase' = "now", CheckoutTyped', RestTyped', AllSound(events') PROVE LoopInv'
<1>1. \A i \in 1 .. Len(events') : events'[i].task \in TaskNames \union {None}
  BY DEF AllSound, Sound
<1>2. LoopTypeOK'
  BY <1>1 DEF LoopTypeOK, CheckoutTyped, RestTyped
<1> QED BY <1>2 DEF LoopInv

LEMMA FilesTyped == ASSUME CheckoutTyped PROVE files \in Tree /\ checkoutSnapshot # None
<1>1. code \in Code
  BY LoopAssumption DEF CheckoutTyped, Code
<1>2. files \in Tree
  BY <1>1 DEF CheckoutTyped, files, Tree
<1>3. checkoutSnapshot \in Nat \X Tree
  BY <1>2 DEF checkoutSnapshot, CheckoutTyped
<1> QED BY <1>2, <1>3, SnapshotAssumption

LEMMA SameCheckout == ASSUME CheckoutTyped, UNCHANGED checkout PROVE CheckoutTyped'
BY DEF CheckoutTyped, checkout, files

(* Writing files, and committing them.                                   *)
LEMMA WriteKeeps ==
  ASSUME CheckoutTyped, NEW content \in Nat, content <= written + 1, Write(content),
         \/ UNCHANGED <<commits, committed>>
         \/ committed' = files' /\ commits' = commits + 1
  PROVE  CheckoutTyped'
<1>1. /\ written \in 0 .. MaxCode /\ written < MaxCode /\ written \in Nat /\ MaxCode \in Nat
      /\ code' = content /\ written' = IF content > written THEN content ELSE written
      /\ docs' = docs /\ caps' = caps
  BY LoopAssumption DEF CheckoutTyped, Write, Code
<1>2. written' \in Code /\ code' \in 0 .. written' /\ code' \in Code
  BY <1>1 DEF Code
<1>3. docs' \in BOOLEAN /\ caps' \subseteq AllCaps
  BY <1>1 DEF CheckoutTyped
<1>4. files' \in Tree
  BY <1>2, <1>3 DEF files, Tree
<1>5. commits' \in Nat /\ committed' \in Tree
  BY <1>4 DEF CheckoutTyped
<1> QED BY <1>2, <1>3, <1>5 DEF CheckoutTyped

LEMMA EditKeeps ==
  ASSUME CheckoutTyped, NEW content \in {New, 0}, EditFiles(content)
  PROVE  CheckoutTyped' /\ UNCHANGED <<events, plan>>
<1>1. written \in Nat
  BY LoopAssumption DEF CheckoutTyped, Code
<1>2. content \in Nat /\ content <= written + 1
  BY <1>1 DEF New
<1> QED BY <1>2, WriteKeeps DEF EditFiles

LEMMA CommitKeeps ==
  ASSUME CheckoutTyped, CommitFiles PROVE CheckoutTyped' /\ UNCHANGED <<events, plan>>
<1>1. files \in Tree
  BY FilesTyped
<1>2. committed' = files /\ commits' = commits + 1 /\ UNCHANGED <<code, docs, caps, written, events, plan>>
  BY DEF CommitFiles, files
<1> QED BY <1>1, <1>2 DEF CheckoutTyped

LEMMA RouteTyped == Routes[Via] \in AllCaps
BY LoopAssumption DEF Routes, AllCaps

(* Nothing is advised but repair, or nothing, without a task.            *)
LEMMA AdviceNeedsTask ==
  ASSUME NEW t, NextStep(t) \notin {"repair", "idle"} PROVE Recordable(t)
BY DEF NextStep, WithoutTask

LEMMA RunTyped ==
  ASSUME LoopTypeOK, AllSound(events), NEW t, t = Scoped, Recordable(t)
  PROVE  t.state \in {Legacy} \union {Active(x) : x \in TaskNames}
<1>1. t.state = Legacy \/ (t.state = Active(t.state.task) /\ t.state.task \in TaskNames)
  BY TaskInScope DEF Recordable
<1> QED BY <1>1

-----------------------------------------------------------------------------
LEMMA LoopInitKeeps == ASSUME LoopInit PROVE LoopInv
<1>1. events = <<>> /\ phase = "past"
  BY DEF LoopInit
<1>2. Len(events) = 0 /\ IsSequence(events)
  BY <1>1 DEF IsSequence
<1>3. AllSound(events) /\ \A i \in 1 .. Len(events) : ~IsRed(events[i])
  BY <1>2 DEF AllSound
<1>4. 0 \in Code /\ 0 \in 0 .. 0
  BY LoopAssumption DEF Code
<1>5. committed \in Tree
  <2>1. committed = <<0, FALSE, AllCaps>>
    BY DEF LoopInit, files
  <2> QED BY <1>4, <2>1 DEF Tree
<1>6. CheckoutTyped
  <2>1. code = 0 /\ written = 0 /\ docs = FALSE /\ caps = AllCaps /\ commits = 0
    BY DEF LoopInit
  <2> QED BY <1>4, <1>5, <2>1 DEF CheckoutTyped
<1>7. RestTyped
  <2>1. plan = None /\ onBase = FALSE /\ pr = "none" /\ run = None
    BY DEF LoopInit
  <2> QED BY <2>1 DEF RestTyped
<1>8. LoopTypeOK
  BY <1>1, <1>2, <1>6, <1>7, TypeSplits
<1> QED BY <1>3, <1>8 DEF LoopInv

LEMMA RememberKeeps == ASSUME LoopInv, Remember PROVE LoopInv'
<1>1. PICK e \in PastEvents : events' = Append(events, e)
  BY DEF Remember
<1>2. phase = "past" /\ phase' = "past" /\ UNCHANGED <<checkout, plan, onBase, pr, run>>
  BY DEF Remember
<1>3. /\ e.task \in TaskNames \union {None} /\ (IsBoundary(e) => e.task \in TaskNames)
      /\ e.event \in Boundaries \union {"verify"}
      /\ e.event = "verify" => ~e.imported /\ e.snapshot = None
  BY DEF PastEvents, IsBoundary, Boundaries, Closes
<1>4. ~Owned(e) /\ ~IsReview(e) /\ ~IsRed(e)
  BY <1>3 DEF Owned, IsReview, IsRed, Boundaries, Closes
<1>5. /\ Len(events) \in Nat /\ Len(events') = Len(events) + 1 /\ events'[Len(events) + 1] = e
      /\ \A i \in 1 .. Len(events) : events'[i] = events[i]
  BY <1>1, AppendGrows DEF LoopInv, AllSound, IsSequence
<1>6. \A i \in 1 .. Len(events) + 1 : ~IsRed(events'[i])
  BY <1>2, <1>4, <1>5 DEF LoopInv
<1>7. Sound(Append(events, e), Len(events) + 1)
  <2>1. \A i \in 1 .. Len(events) + 1 - 1 : ~IsRed(Append(events, e)[i])
    BY <1>1, <1>5, <1>6
  <2>2. Append(events, e)[Len(events) + 1] = e
    BY <1>1, <1>5
  <2> QED BY <1>3, <1>4, <2>1, <2>2 DEF Sound
<1>8. AllSound(events')
  BY <1>1, <1>7, OneMoreSound DEF LoopInv
<1>9. CheckoutTyped' /\ RestTyped'
  BY <1>2, TypeSplits, SameCheckout DEF LoopInv, RestTyped
<1>10. LoopTypeOK'
  <2>1. \A i \in 1 .. Len(events') : events'[i].task \in TaskNames \union {None}
    BY <1>8 DEF AllSound, Sound
  <2> QED BY <1>2, <1>9, <2>1 DEF LoopTypeOK, CheckoutTyped, RestTyped
<1> QED BY <1>2, <1>5, <1>6, <1>8, <1>10 DEF LoopInv

LEMMA ArriveKeeps == ASSUME LoopInv, Arrive PROVE LoopInv'
<1>1. OldPlan \in Plans
  BY DEF OldPlan, Plans
<1>2. /\ phase' = "now" /\ plan' \in Plans \union {None} /\ onBase' \in BOOLEAN
      /\ pr' \in {"none", "unknown"} /\ UNCHANGED <<events, checkout, run>>
  BY <1>1 DEF Arrive
<1>3. CheckoutTyped' /\ RestTyped'
  BY <1>2, TypeSplits, SameCheckout DEF LoopInv, RestTyped
<1>4. AllSound(events')
  BY <1>2 DEF LoopInv
<1> QED BY <1>2, <1>3, <1>4, NowKeeps

(* One event more, and nothing else but the command that recorded it.    *)
LEMMA RecordKeeps ==
  ASSUME LoopInv, phase' = "now", UNCHANGED <<onBase, pr>>, run' \in {run, None},
         NEW t, t = Scoped, Recordable(t),
         NEW e, RecordEvent(e), ~IsBoundary(e), e.task = t.state.task,
         e.event = "verify" /\ ~e.imported => e.snapshot # None,
         IsReview(e) /\ e.verdict = "approved" =>
           \E i \in 1 .. Len(t.events) :
             /\ t.events[i].event = "review-request" /\ t.events[i].id = e.request
             /\ t.events[i].snapshot = e.snapshot
  PROVE  LoopInv'
<1>1. AllSound(Append(events, e))
  BY CommandSound DEF LoopInv
<1>2. events' = Append(events, e) /\ UNCHANGED <<checkout, plan>>
  BY DEF RecordEvent
<1>3. CheckoutTyped' /\ RestTyped'
  BY <1>2, TypeSplits, SameCheckout DEF LoopInv, RestTyped
<1> QED BY <1>1, <1>2, <1>3, NowKeeps

(* The events stay; what else is written has its type.                   *)
LEMMA QuietKeeps ==
  ASSUME LoopInv, phase' = "now", UNCHANGED <<onBase, events>>, CheckoutTyped',
         plan' \in Plans \union {None}, pr' \in {"none", "unknown", "pending", "failing", "green"},
         run' \in {None, run}
           \union [kind : {"red", "verify"}, tagged : BOOLEAN,
                   state : {Legacy} \union {Active(t) : t \in TaskNames}]
  PROVE  LoopInv'
<1>1. RestTyped'
  BY TypeSplits DEF LoopInv, RestTyped
<1> QED BY <1>1, NowKeeps DEF LoopInv

LEMMA AgentKeeps == ASSUME LoopInv, Agent PROVE LoopInv'
<1>1. PICK t : t = Scoped /\
        LET step == NextStep(t) IN
           \/ step = "docs" /\ DecideDocs(t)
           \/ step = "red" /\ \E tagged \in BOOLEAN : BeginRun(t, "red", tagged)
           \/ step = "implement" /\ Implement
           \/ step = "verify" /\ BeginRun(t, "verify", FALSE)
           \/ step = "prove" /\ BeginRun(t, "red", TRUE)
           \/ step = "continue" /\ ~SliceProven(t) /\ BeginRun(t, "red", TRUE)
           \/ step = "continue" /\ SliceProven(t) /\ TickBoxes
           \/ step = "review" /\ CloseReview(t)
           \/ step = "evidence" /\ Publish
           \/ step = "drive" /\ Drive
  BY DEF Agent
<1>2. phase' = "now" /\ UNCHANGED onBase /\ run = None
  BY DEF Agent, Now
<1>3. CheckoutTyped /\ RestTyped /\ LoopTypeOK /\ AllSound(events)
  BY TypeSplits DEF LoopInv
<1>4. CASE NextStep(t) = "docs" /\ DecideDocs(t)
  <2>1. Recordable(t) /\ UNCHANGED <<pr, run>>
    BY <1>4, AdviceNeedsTask DEF DecideDocs
  <2>2. CASE docs' = TRUE /\ UNCHANGED <<events, code, written, caps, commits, committed, plan>>
    <3>1. CheckoutTyped'
      BY <1>3, <2>2 DEF CheckoutTyped
    <3> QED BY <1>2, <1>3, <2>1, <2>2, <3>1, QuietKeeps DEF RestTyped
  <2> DEFINE e == [event |-> "docs", task |-> t.state.task,
                   decision |-> IF docsChanged THEN "updated-first" ELSE "checked"]
  <2>3. CASE RecordEvent(e)
    <3>1. ~IsBoundary(e) /\ e.task = t.state.task /\ e.event # "verify" /\ ~IsReview(e)
      BY DEF IsBoundary, Boundaries, Closes, IsReview
    <3> HIDE DEF e
    <3> QED BY <1>1, <1>2, <2>1, <2>3, <3>1, RecordKeeps
  <2> QED BY <1>4, <2>2, <2>3 DEF DecideDocs
<1>5. ASSUME NEW kind \in {"red", "verify"}, NEW tagged \in BOOLEAN, BeginRun(t, kind, tagged)
      PROVE  LoopInv'
  <2>1. /\ Recordable(t) /\ UNCHANGED <<events, checkout, plan, pr>>
        /\ run' = [kind |-> kind, tagged |-> tagged, state |-> t.state]
    BY <1>5 DEF BeginRun
  <2>2. t.state \in {Legacy} \union {Active(x) : x \in TaskNames}
    BY <1>1, <1>3, <2>1, RunTyped
  <2>3. CheckoutTyped'
    BY <1>3, <2>1, SameCheckout
  <2>4. run' \in [kind : {"red", "verify"}, tagged : BOOLEAN,
                  state : {Legacy} \union {Active(x) : x \in TaskNames}]
    BY <2>1, <2>2
  <2> QED BY <1>2, <1>3, <2>1, <2>3, <2>4, QuietKeeps DEF RestTyped
<1>6. CASE Implement
  <2>1. CheckoutTyped' /\ UNCHANGED <<events, plan, pr, run>>
    BY <1>3, <1>6, EditKeeps DEF Implement
  <2> QED BY <1>2, <1>3, <2>1, QuietKeeps DEF RestTyped
<1>7. CASE NextStep(t) = "continue" /\ TickBoxes
  <2>1. PICK review \in {plan.boxes.review, TRUE} :
          plan' = [plan EXCEPT !.boxes = [slice |-> TRUE, review |-> review]]
    BY <1>7 DEF TickBoxes
  <2>2. UNCHANGED <<events, checkout, pr, run>>
    BY <1>7 DEF TickBoxes, EditPlan
  <2>3. PlanNext(t) = "slice"
    BY <1>3, <1>7 DEF NextStep, WithoutTask, RestTyped
  <2>4. plan \in Plans
    BY <1>3, <2>3 DEF PlanNext, HasItems, taskPlanContent, RestTyped
  <2>5. plan' \in Plans
    BY <2>1, <2>4 DEF Plans
  <2>6. CheckoutTyped'
    BY <1>3, <2>2, SameCheckout
  <2> QED BY <1>2, <1>3, <2>2, <2>5, <2>6, QuietKeeps DEF RestTyped
<1>8. CASE NextStep(t) = "review" /\ CloseReview(t)
  <2>1. Recordable(t)
    BY <1>8, AdviceNeedsTask
  <2>2. CASE EnableRoute
    <3>1. caps' \subseteq AllCaps
      BY <1>3, <2>2, RouteTyped DEF EnableRoute, CheckoutTyped
    <3>2. UNCHANGED <<events, code, written, docs, commits, committed, plan, pr, run>>
      BY <2>2 DEF EnableRoute
    <3>3. CheckoutTyped'
      BY <1>3, <3>1, <3>2 DEF CheckoutTyped
    <3> QED BY <1>2, <1>3, <3>2, <3>3, QuietKeeps DEF RestTyped
  <2> DEFINE e == [event |-> "review-request", task |-> t.state.task, id |-> Len(events), via |-> Via,
                   snapshot |-> reviewSnapshot(t)]
  <2>3. CASE Dispatch(t)
    <3>1. ~IsBoundary(e) /\ e.task = t.state.task /\ e.event # "verify" /\ ~IsReview(e)
      BY DEF IsBoundary, Boundaries, Closes, IsReview
    <3>2. RecordEvent(e) /\ UNCHANGED <<pr, run>>
      BY <2>3 DEF Dispatch
    <3> HIDE DEF e
    <3> QED BY <1>1, <1>2, <2>1, <3>1, <3>2, RecordKeeps
  <2> QED BY <1>6, <1>8, <2>2, <2>3 DEF CloseReview
<1>9. CASE Publish
  <2>1. /\ CheckoutTyped' /\ UNCHANGED <<events, plan, run>>
        /\ pr' \in {pr, "pending"}
    BY <1>3, <1>9, CommitKeeps, SameCheckout DEF Publish
  <2> QED BY <1>2, <1>3, <2>1, QuietKeeps DEF RestTyped
<1>10. CASE Drive
  <2>1. pr' = "pending" /\ UNCHANGED <<run, plan, events>>
    BY <1>10 DEF Drive
  <2>2. CASE UNCHANGED checkout
    <3>1. CheckoutTyped'
      BY <1>3, <2>2, SameCheckout
    <3> QED BY <1>2, <1>3, <2>1, <3>1, QuietKeeps DEF RestTyped
  <2>3. CASE Write(New) /\ committed' = files' /\ commits' = commits + 1
    <3>1. New \in Nat /\ New <= written + 1
      BY <1>3, LoopAssumption DEF New, CheckoutTyped, Code
    <3>2. CheckoutTyped'
      BY <1>3, <2>3, <3>1, WriteKeeps
    <3> QED BY <1>2, <1>3, <2>1, <3>2, QuietKeeps DEF RestTyped
  <2> QED BY <1>10, <2>2, <2>3 DEF Drive
<1> QED BY <1>1, <1>4, <1>5, <1>6, <1>7, <1>8, <1>9, <1>10

LEMMA EndRunKeeps == ASSUME LoopInv, EndRun PROVE LoopInv'
<1>1. PICK t : t = Scoped /\
        IF SameBoundary(run.state, t.state)
        THEN RecordEvent(Outcome(t, TRUE)) \/ RecordEvent(Outcome(t, FALSE))
        ELSE UNCHANGED <<events, checkout, plan>>
  BY DEF EndRun
<1>2. phase' = "now" /\ run' = None /\ run # None /\ UNCHANGED <<onBase, pr>>
  BY DEF EndRun, Now
<1>3. CheckoutTyped /\ RestTyped /\ LoopTypeOK /\ AllSound(events)
  BY TypeSplits DEF LoopInv
<1>4. run.state \in {Legacy} \union {Active(x) : x \in TaskNames}
  BY <1>2, <1>3 DEF RestTyped
<1>5. CASE SameBoundary(run.state, t.state)
  <2>1. Recordable(t)
    BY <1>4, <1>5, StatesDiffer DEF SameBoundary, Recordable
  <2>2. ASSUME NEW shown \in BOOLEAN, RecordEvent(Outcome(t, shown)) PROVE LoopInv'
    <3> DEFINE e == Outcome(t, shown)
    <3>1. checkoutSnapshot # None
      BY <1>3, FilesTyped
    <3>2. e.event \in {"red", "verify"} /\ e.task = t.state.task /\ e.snapshot # None
      BY <3>1 DEF Outcome
    <3>3. ~IsBoundary(e) /\ ~IsReview(e)
      BY <3>2 DEF IsBoundary, Boundaries, Closes, IsReview
    <3> HIDE DEF e
    <3> QED BY <1>1, <1>2, <2>1, <2>2, <3>2, <3>3, RecordKeeps DEF e
  <2> QED BY <1>1, <1>5, <2>2
<1>6. CASE ~SameBoundary(run.state, t.state)
  <2>1. UNCHANGED <<events, checkout, plan>>
    BY <1>1, <1>6
  <2>2. CheckoutTyped'
    BY <1>3, <2>1, SameCheckout
  <2> QED BY <1>2, <1>3, <2>1, <2>2, QuietKeeps DEF RestTyped
<1> QED BY <1>5, <1>6

LEMMA AnswerKeeps == ASSUME LoopInv, Answer PROVE LoopInv'
<1>1. PICK t : t = Scoped /\ \E i \in OpenRequests(t) : \E verdict \in Grades(t, t.events[i]) :
        Recordable(t) /\
        RecordEvent([event |-> "review", task |-> t.state.task, request |-> t.events[i].id,
                verdict |-> verdict, snapshot |-> reviewSnapshot(t)])
  BY DEF Answer
<1>2. phase' = "now" /\ UNCHANGED <<onBase, pr, run>>
  BY DEF Answer, Now
<1>3. PICK i \in OpenRequests(t) : \E verdict \in Grades(t, t.events[i]) :
        Recordable(t) /\
        RecordEvent([event |-> "review", task |-> t.state.task, request |-> t.events[i].id,
                verdict |-> verdict, snapshot |-> reviewSnapshot(t)])
  BY <1>1
<1>8. PICK verdict \in Grades(t, t.events[i]) :
        Recordable(t) /\
        RecordEvent([event |-> "review", task |-> t.state.task, request |-> t.events[i].id,
                verdict |-> verdict, snapshot |-> reviewSnapshot(t)])
  BY <1>3
<1> DEFINE e == [event |-> "review", task |-> t.state.task, request |-> t.events[i].id,
                 verdict |-> verdict, snapshot |-> reviewSnapshot(t)]
<1>4. ~IsBoundary(e) /\ e.task = t.state.task /\ e.event # "verify" /\ e.verdict = verdict
      /\ e.request = t.events[i].id /\ e.snapshot = reviewSnapshot(t)
  BY DEF IsBoundary, Boundaries, Closes
<1>5. i \in 1 .. Len(t.events) /\ t.events[i].event = "review-request"
  BY DEF OpenRequests
<1>6. verdict = "approved" => t.events[i].snapshot = reviewSnapshot(t)
  BY DEF Grades
<1>7. RecordEvent(e) /\ Recordable(t)
  BY <1>8
<1> HIDE DEF e
<1> QED BY <1>1, <1>2, <1>4, <1>5, <1>6, <1>7, RecordKeeps

LEMMA ForgeKeeps == ASSUME LoopInv, Forge PROVE LoopInv'
<1>1. CheckoutTyped /\ RestTyped
  BY TypeSplits DEF LoopInv
<1>2. phase' = "now" /\ pr' \in {"green", "failing"} /\ UNCHANGED <<onBase, events, checkout, plan, run>>
  BY DEF Forge, Now
<1>3. CheckoutTyped'
  BY <1>1, <1>2, SameCheckout
<1> QED BY <1>1, <1>2, <1>3, QuietKeeps DEF RestTyped

LEMMA TouchFilesKeeps == ASSUME LoopInv, TouchFiles PROVE LoopInv'
<1>1. CheckoutTyped /\ RestTyped
  BY TypeSplits DEF LoopInv
<1>2. phase' = "now" /\ UNCHANGED <<onBase, pr, run>>
  BY DEF TouchFiles, Unasked, Now
<1>3. CheckoutTyped' /\ UNCHANGED <<events, plan>>
  <2>1. CASE EditFiles(New) \/ EditFiles(0)
    BY <1>1, <2>1, EditKeeps
  <2>2. CASE docs' = ~docs /\ UNCHANGED <<events, code, written, caps, commits, committed, plan>>
    BY <1>1, <2>2 DEF CheckoutTyped
  <2>3. CASE caps' \in SUBSET AllCaps /\ UNCHANGED <<events, code, written, docs, commits, committed, plan>>
    BY <1>1, <2>3 DEF CheckoutTyped
  <2>4. CASE CommitFiles
    BY <1>1, <2>4, CommitKeeps
  <2> QED BY <2>1, <2>2, <2>3, <2>4 DEF TouchFiles
<1> QED BY <1>1, <1>2, <1>3, QuietKeeps DEF RestTyped

LEMMA PlanKeeps ==
  ASSUME LoopInv, Unasked, EditPlan, plan' \in Plans \union {None} PROVE LoopInv'
<1>1. CheckoutTyped /\ RestTyped
  BY TypeSplits DEF LoopInv
<1>2. phase' = "now" /\ UNCHANGED <<onBase, pr, run, events, checkout>>
  BY DEF Unasked, Now, EditPlan
<1>3. CheckoutTyped'
  BY <1>1, <1>2, SameCheckout
<1> QED BY <1>1, <1>2, <1>3, QuietKeeps DEF RestTyped

LEMMA TouchPlanKeeps == ASSUME LoopInv, TouchPlan PROVE LoopInv'
<1>1. plan \in Plans \union {None}
  BY TypeSplits DEF LoopInv, RestTyped
<1>2. OldPlan \in Plans
  BY DEF OldPlan, Plans
<1>3. plan' \in Plans \union {None}
  <2>1. CASE plan' \in {None, OldPlan}
    BY <1>2, <2>1
  <2>2. CASE plan # None /\ plan' = [plan EXCEPT !.words = 2]
    BY <1>1, <2>2 DEF Plans
  <2>3. CASE plan # None /\ plan' = [plan EXCEPT !.boxes.slice = ~@]
    BY <1>1, <2>3 DEF Plans
  <2>4. CASE plan # None /\ plan' = [plan EXCEPT !.boxes.review = ~@]
    BY <1>1, <2>4 DEF Plans
  <2> QED BY <2>1, <2>2, <2>3, <2>4 DEF TouchPlan
<1> QED BY <1>3, PlanKeeps DEF TouchPlan

LEMMA DeferKeeps == ASSUME LoopInv, Defer PROVE LoopInv'
<1>1. plan \in Plans \union {None}
  BY TypeSplits DEF LoopInv, RestTyped
<1>2. [OldPlan EXCEPT !.words = 0, !.cuts = 1] \in Plans
  <2>1. OldPlan \in Plans
    BY DEF OldPlan, Plans
  <2>2. ASSUME NEW p \in Plans PROVE [p EXCEPT !.words = 0, !.cuts = 1] \in Plans
    <3>1. [p EXCEPT !.words = 0] \in Plans
      BY DEF Plans
    <3>2. ASSUME NEW q \in Plans PROVE [q EXCEPT !.cuts = 1] \in Plans
      BY DEF Plans
    <3>3. [p EXCEPT !.words = 0, !.cuts = 1] = [[p EXCEPT !.words = 0] EXCEPT !.cuts = 1]
      OBVIOUS
    <3> QED BY <3>1, <3>2, <3>3
  <2> QED BY <2>1, <2>2
<1>3. plan # None => [plan EXCEPT !.cuts = IF @ < 2 THEN @ + 1 ELSE 2] \in Plans
  BY <1>1 DEF Plans
<1>4. plan' \in Plans \union {None}
  BY <1>2, <1>3 DEF Defer
<1> QED BY <1>4, PlanKeeps DEF Defer

LEMMA SwitchKeeps == ASSUME LoopInv, SwitchTask PROVE LoopInv'
<1>1. CheckoutTyped /\ RestTyped /\ LoopTypeOK /\ AllSound(events) /\ IsSequence(events)
  BY TypeSplits DEF LoopInv, AllSound
<1>2. phase' = "now" /\ UNCHANGED <<onBase, pr, run, checkout, plan>>
  BY DEF SwitchTask, Unasked, Now
<1> DEFINE state == DeriveTask(events)
           Closing(kind) == Append(events, [event |-> kind, task |-> state.task])
<1>3. ASSUME NEW s, AllSound(s), NEW x \in TaskNames PROVE AllSound(Append(s, StartOf(x)))
  <2>1. StartOf(x).event \in Boundaries /\ StartOf(x).task \in TaskNames
    BY DEF StartOf, Boundaries
  <2> QED BY <1>3, <2>1, BoundarySound
<1>4. ASSUME state.state = "active", NEW kind \in Closes PROVE AllSound(Closing(kind))
  <2>1. PICK x : \E i \in 1 .. Len(events) :
          state = Active(x) /\ events[i].event = "task-start" /\ events[i].task = x
    BY <1>1, <1>4, DerivedStates, StatesDiffer
  <2>2. x \in TaskNames
    BY <1>1, <2>1 DEF AllSound, Sound, IsBoundary, Boundaries
  <2>3. state.task \in TaskNames
    BY <2>1, <2>2, StatesDiffer
  <2> HIDE DEF state
  <2> DEFINE e == [event |-> kind, task |-> state.task]
  <2>4. e.event \in Boundaries /\ e.task \in TaskNames
    BY <2>3 DEF Boundaries
  <2> QED BY <1>1, <2>4, BoundarySound
<1>5. AllSound(events')
  <2>1. \/ \E x \in Fresh : events' = Append(events, StartOf(x))
        \/ state.state = "active" /\ events' = Closing("task-finish")
        \/ state.state = "active" /\ \E x \in Fresh : events' = Append(Closing("task-reset"), StartOf(x))
    BY DEF SwitchTask
  <2>2. Fresh \subseteq TaskNames /\ {"task-finish", "task-reset"} \subseteq Closes
    BY DEF Fresh, Closes
  <2> HIDE DEF state, Closing
  <2> QED BY <1>1, <1>3, <1>4, <2>1, <2>2
<1>6. CheckoutTyped' /\ RestTyped'
  BY <1>1, <1>2, SameCheckout DEF RestTyped
<1> QED BY <1>2, <1>5, <1>6, NowKeeps

LEMMA RecordOtherKeeps == ASSUME LoopInv, RecordOther PROVE LoopInv'
<1>1. PICK t : t = Scoped /\ Recordable(t) /\ \E e \in Others(t) : RecordEvent(e)
  BY DEF RecordOther
<1>2. PICK e \in Others(t) : RecordEvent(e)
  BY <1>1
<1>3. phase' = "now" /\ UNCHANGED <<onBase, pr, run>>
  BY DEF RecordOther, Unasked, Now
<1>4. /\ e.event \in {"red", "verify", "scope", "review-cancelled"} /\ e.task = t.state.task
      /\ e.event = "verify" => e.imported
  BY DEF Others, Collected
<1>5. ~IsBoundary(e) /\ ~IsReview(e)
  BY <1>4 DEF IsBoundary, Boundaries, Closes, IsReview
<1> QED BY <1>1, <1>2, <1>3, <1>4, <1>5, RecordKeeps

LEMMA LoopStepKeeps == ASSUME LoopInv, [LoopNext]_loopVars PROVE LoopInv'
<1>1. CASE UNCHANGED loopVars
  BY <1>1 DEF loopVars, LoopInv, LoopTypeOK, files, checkout
<1> QED BY <1>1, RememberKeeps, ArriveKeeps, AgentKeeps, EndRunKeeps, AnswerKeeps, ForgeKeeps,
           TouchFilesKeeps, TouchPlanKeeps, DeferKeeps, SwitchKeeps, RecordOtherKeeps DEF LoopNext

-----------------------------------------------------------------------------
(* WHAT FOLLOWS.                                                         *)
LEMMA ScopeHolds == ASSUME LoopInv PROVE ScopeIsSound
<1>1. IsSequence(events) /\ LoopTypeOK
  BY DEF LoopInv, AllSound
<1> DEFINE d == DeriveTask(events)
           scope == ScopeTask(events, d)
           Described(state, sc) ==
             /\ state = ReferenceState(events)
             /\ CASE state.state = "active" ->
                       /\ sc # <<>> /\ Head(sc).event = "task-start"
                       /\ \A i \in 1 .. Len(sc) : sc[i].task = state.task /\ sc[i].event \notin Closes
                  [] state = Legacy -> sc = events
                  [] OTHER -> sc = <<>>
<1>2. d = ReferenceState(events)
  BY <1>1, DerivedIsReference
<1>3. ASSUME d = Legacy PROVE Described(d, scope)
  <2>1. scope = events
    BY <1>3, StatesDiffer DEF ScopeTask
  <2> HIDE DEF d, scope
  <2> QED BY <1>2, <1>3, <2>1, StatesDiffer
<1>4. ASSUME NEW x, d = Active(x) PROVE Described(d, scope)
  <2> DEFINE first == StartOfTask(events, x)
             n == Len(events)
             kept == EventsOf(events, first, x)
  <2>1. LastStart(events, first, x)
    BY <1>1, <1>4, ActiveMeans
  <2>2. first \in 1 .. n /\ n \in Nat /\ events[first].event = "task-start" /\ events[first].task = x
        /\ \A k \in first + 1 .. n : ~IsBoundary(events[k])
    BY <1>1, <2>1 DEF LastStart, IsSequence
  <2>3. scope = kept /\ d.state = "active" /\ d.task = x /\ d # Legacy
    BY <1>4, StatesDiffer DEF ScopeTask
  <2> HIDE DEF d, scope, first, n, kept
  <2>4. IsSequence(kept) /\ \E m : Places(m, kept, events, first, n, x)
    BY <1>1, <2>2, EventsOfMeans DEF kept, n
  <2>5. PICK m : Places(m, kept, events, first, n, x)
    BY <2>4
  <2>6. Len(kept) \in Nat /\ first \in first .. n
    BY <2>2, <2>4 DEF IsSequence
  <2>7. PICK i \in 1 .. Len(kept) : m[i] = first
    BY <2>2, <2>5, <2>6 DEF Places
  <2>8. i = 1
    <3>1. CASE 1 < i
      <4>1. 1 \in 1 .. Len(kept) /\ m[1] < m[i] /\ m[1] \in first .. n
        BY <2>5, <2>6, <2>7, <3>1 DEF Places
      <4> QED BY <2>2, <2>7, <4>1
    <3> QED BY <2>6, <2>7, <3>1
  <2>9. kept # <<>> /\ Head(kept) = kept[1] /\ kept[1].event = "task-start"
    <3>1. kept \in Seq(Elements(kept)) /\ kept # <<>>
      BY <2>4, <2>6, <2>7, SequenceTyped
    <3>2. Head(kept) = kept[1]
      BY <3>1
    <3>3. kept[1] = events[first]
      BY <2>5, <2>7, <2>8 DEF Places
    <3> QED BY <2>2, <3>1, <3>2, <3>3
  <2>10. ASSUME NEW j \in 1 .. Len(kept) PROVE kept[j].task = x /\ kept[j].event \notin Closes
    <3>1. kept[j] = events[m[j]] /\ events[m[j]].task = x /\ m[j] \in first .. n
      BY <2>5 DEF Places
    <3>2. m[j] = first \/ m[j] \in first + 1 .. n
      BY <2>2, <3>1
    <3>3. events[m[j]].event \notin Closes
      BY <2>2, <3>2 DEF IsBoundary, Boundaries, Closes
    <3> QED BY <3>1, <3>3
  <2> QED BY <1>2, <2>3, <2>9, <2>10
<1>5. ASSUME d \in {Idle, Invalid} PROVE Described(d, scope)
  <2>1. scope = <<>>
    BY <1>5, StatesDiffer DEF ScopeTask
  <2> HIDE DEF d, scope
  <2> QED BY <1>2, <1>5, <2>1, StatesDiffer
<1>6. d \in {Legacy, Idle, Invalid} \/ \E x : d = Active(x)
  BY <1>1, DerivedStates
<1>7. Described(d, scope)
  <2> HIDE DEF d, scope, Described
  <2> QED BY <1>3, <1>4, <1>5, <1>6
<1>8. DerivationIsSound
  BY <1>7 DEF DerivationIsSound
<1> QED BY <1>1, <1>8 DEF ScopeIsSound

LEMMA StatusHolds == ASSUME LoopInv PROVE StatusIsSound
<1>1. pr \in {"none", "unknown", "pending", "failing", "green"}
  BY DEF LoopInv, LoopTypeOK
<1> QED BY <1>1, ScopeHolds, FinishedAgrees DEF StatusIsSound, GateAgreesWithStatus

LEMMA FinishedHolds == ASSUME LoopInv PROVE FinishedIsEarned
<1> SUFFICES ASSUME NEW t, t = Scoped, Finished(t)
    PROVE  \E red, green \in 1 .. Len(events) :
             /\ IsRed(events[red]) /\ IsGreen(events[green]) /\ red < green
             /\ events[green].snapshot = checkoutSnapshot
             /\ \A i \in {red, green} : events[i].task = t.state.task
             /\ \A i \in green .. Len(events) : events[i].event \notin Boundaries /\ ~IsRed(events[i])
  BY DEF FinishedIsEarned
<1>0. AllSound(events) /\ pr \in {"none", "unknown", "pending", "failing", "green"}
  BY DEF LoopInv, LoopTypeOK
<1>1. Recordable(t) /\ LastRed(t) # 0 /\ VerifyDone(t)
  BY DEF Finished, NextStep, WithoutTask
<1>2. IsSequence(t.events) /\ \E first, m : View(t, first, m)
  BY <1>0, <1>1, ScopeView
<1>3. PICK first, m : View(t, first, m)
  BY <1>2
<1> DEFINE r == LastRed(t)
           g == LastOf(t, IsGreen)
           n == Len(t.events)
           len == Len(events)
<1>4. /\ n \in Nat /\ len \in Nat /\ r \in 1 .. n /\ IsRed(t.events[r])
      /\ \A j \in r + 1 .. n : ~IsRed(t.events[j])
  BY <1>0, <1>1, <1>2, LastRedIs DEF AllSound, IsSequence
<1>5. g \in 0 .. n /\ (g = 0 \/ IsGreen(t.events[g])) /\ r < g /\ Stands(t.events[g])
  BY <1>1, <1>2, LastGreenIs DEF VerifyDone
<1> HIDE DEF r, g, n, len
<1>6. g \in 1 .. n /\ IsGreen(t.events[g]) /\ r < g
  BY <1>4, <1>5
<1> DEFINE red == m[r]
           green == m[g]
<1>7. /\ red \in 1 .. len /\ green \in 1 .. len /\ red < green /\ first <= red
      /\ t.events[r] = events[red] /\ t.events[g] = events[green]
  BY <1>3, <1>4, <1>6 DEF View, n, len
<1>8. first \in 0 .. len /\ first < red
  <2>1. red # first
    BY <1>3, <1>4, <1>7 DEF View, IsRed
  <2> QED BY <1>3, <1>4, <1>7, <2>1 DEF View, len
<1> HIDE DEF red, green
<1>9. red \in first + 1 .. len /\ green \in first + 1 .. len
  BY <1>4, <1>7, <1>8
<1>10. IsRed(events[red]) /\ IsGreen(events[green])
  BY <1>4, <1>6, <1>7
<1>11. events[green].snapshot = checkoutSnapshot /\ events[green].snapshot # None
  <2>1. ~events[green].imported /\ events[green].snapshot \in {None, checkoutSnapshot}
    BY <1>5, <1>7 DEF Stands
  <2>2. red \in 1 .. green - 1 /\ events[green].event = "verify"
    BY <1>4, <1>7, <1>10 DEF IsGreen
  <2>3. Sound(events, green)
    BY <1>0, <1>7 DEF AllSound, len
  <2>4. events[green].snapshot # None
    BY <1>10, <2>1, <2>2, <2>3 DEF Sound
  <2> QED BY <2>1, <2>4
<1>12. events[red].task = t.state.task /\ events[green].task = t.state.task
  <2>1. Owned(events[red]) /\ Owned(events[green])
    BY <1>10, <1>11 DEF Owned, IsRed, IsGreen
  <2> QED BY <1>3, <1>9, <2>1 DEF View, len
<1>13. ASSUME NEW i \in green .. len PROVE events[i].event \notin Boundaries /\ ~IsRed(events[i])
  <2>1. i \in first + 1 .. len
    BY <1>4, <1>8, <1>9
  <2>2. ~IsBoundary(events[i])
    BY <1>3, <2>1 DEF View, len
  <2>3. ASSUME IsRed(events[i]) PROVE FALSE
    <3>1. PICK k \in 1 .. n : m[k] = i
      BY <1>3, <2>1, <2>3 DEF View, Owned, IsRed, n, len
    <3>2. t.events[k] = events[i]
      BY <1>3, <3>1 DEF View, n
    <3>3. ~ (k \in r + 1 .. n)
      BY <1>4, <2>3, <3>2
    <3>4. k < g
      BY <1>4, <1>6, <3>3
    <3>5. m[k] < m[g]
      BY <1>3, <1>6, <3>4 DEF View, n
    <3>6. i < green /\ green <= i
      BY <1>4, <1>7, <3>1, <3>5 DEF green
    <3> QED BY <1>4, <1>7, <3>6
  <2> QED BY <2>2, <2>3 DEF IsBoundary
<1> QED BY <1>7, <1>10, <1>11, <1>12, <1>13 DEF len

LEMMA ClaimsHold == ASSUME LoopInv PROVE ClaimsAreProven
<1> SUFFICES ASSUME NEW t, t = Scoped, gateReasons(t) = {}, ReviewClaimed(t)
    PROVE  \E request, review \in 1 .. Len(events) :
             /\ events[request].event = "review-request" /\ events[request].snapshot = reviewSnapshot(t)
             /\ IsReview(events[review]) /\ events[review].verdict = "approved"
             /\ events[review].request = events[request].id
             /\ \A i \in {request, review} : events[i].task = t.state.task
             /\ \A i \in review + 1 .. Len(events) : ~IsReview(events[i])
  BY DEF ClaimsAreProven
<1>0. AllSound(events)
  BY DEF LoopInv
<1>1. Recordable(t)
  BY DEF ReviewClaimed, HasItems, taskPlanContent
<1>2. t.state # Idle /\ t.state # Invalid
  BY <1>1, StatesDiffer DEF Recordable
<1>3. Verdict(t) = "approved" /\ ~Stale(t)
  <2>1. /\ ~ (ReviewClaimed(t) /\ Verdict(t) # "approved")
        /\ ~Stale(t)
    BY <1>1, <1>2 DEF gateReasons
  <2> QED BY <2>1
<1>4. Some(t, IsReview) /\ Newest(t).verdict = "approved" /\ Newest(t).snapshot = reviewSnapshot(t)
  BY <1>3 DEF Verdict, Stale
<1>5. IsSequence(t.events) /\ \E first, m : View(t, first, m)
  BY <1>0, <1>1, ScopeView
<1>6. PICK first, m : View(t, first, m)
  BY <1>5
<1> DEFINE l == LastOf(t, IsReview)
           n == Len(t.events)
           len == Len(events)
<1>7. /\ n \in Nat /\ len \in Nat /\ l \in 0 .. n /\ l # 0 /\ IsReview(t.events[l])
      /\ \A j \in l + 1 .. n : ~IsReview(t.events[j])
  BY <1>0, <1>4, <1>5, LastReviewIs, ReviewIsThere DEF AllSound, IsSequence
<1>8. t.events[l].verdict = "approved" /\ t.events[l].snapshot = reviewSnapshot(t)
  BY <1>4 DEF Newest
<1> HIDE DEF l, n, len
<1>9. l \in 1 .. n
  BY <1>7
<1> DEFINE review == m[l]
<1>10. review \in 1 .. len /\ first <= review /\ t.events[l] = events[review] /\ first \in 0 .. len
  BY <1>6, <1>9 DEF View, n, len
<1>11. review # first
  BY <1>6, <1>7, <1>10 DEF View, IsReview
<1> HIDE DEF review
<1>12. review \in first + 1 .. len
  BY <1>7, <1>10, <1>11
<1>13. Asked(events, review)
  <2>1. Sound(events, review)
    BY <1>0, <1>10 DEF AllSound, len
  <2> QED BY <1>7, <1>8, <1>10, <2>1 DEF Sound
<1>14. PICK request \in 1 .. review - 1 :
         /\ events[request].event = "review-request" /\ events[request].id = events[review].request
         /\ events[request].snapshot = events[review].snapshot
         /\ events[request].task = events[review].task
  BY <1>13 DEF Asked
<1>15. request \in 1 .. len
  BY <1>7, <1>10
<1>16. events[review].task = t.state.task
  <2>1. Owned(events[review])
    BY <1>7, <1>10 DEF Owned, IsReview
  <2> QED BY <1>6, <1>12, <2>1 DEF View, len
<1>17. ASSUME NEW i \in review + 1 .. len, IsReview(events[i]) PROVE FALSE
  <2>1. i \in first + 1 .. len /\ Owned(events[i])
    BY <1>7, <1>10, <1>12, <1>17 DEF Owned, IsReview
  <2>2. PICK k \in 1 .. n : m[k] = i
    BY <1>6, <2>1 DEF View, n, len
  <2>3. t.events[k] = events[i]
    BY <1>6, <2>2 DEF View, n
  <2>4. ~ (k \in l + 1 .. n)
    BY <1>7, <1>17, <2>3
  <2>5. k < l \/ k = l
    BY <1>7, <1>9, <2>4
  <2>6. m[k] < m[l] \/ m[k] = m[l]
    BY <1>6, <1>9, <2>5 DEF View, n
  <2> QED BY <1>7, <1>10, <2>2, <2>6 DEF review
<1> QED BY <1>7, <1>8, <1>10, <1>14, <1>15, <1>16, <1>17 DEF len

-----------------------------------------------------------------------------
(* The ledger only grows.                                                *)
Grown ==
  /\ IsSequence(events') /\ Len(events) <= Len(events')
  /\ \A i \in 1 .. Len(events) : events'[i] = events[i]

LEMMA OneMoreGrows == ASSUME IsSequence(events), NEW e, events' = Append(events, e) PROVE Grown
<1>1. Len(events) \in Nat
  BY DEF IsSequence
<1> QED BY <1>1, AppendGrows DEF Grown

LEMMA TwoMoreGrow ==
  ASSUME IsSequence(events), NEW e, NEW f, events' = Append(Append(events, e), f) PROVE Grown
<1> DEFINE r == Append(events, e)
<1>1. /\ Len(events) \in Nat /\ IsSequence(r) /\ Len(r) = Len(events) + 1
      /\ \A i \in 1 .. Len(events) : r[i] = events[i]
  BY AppendGrows DEF IsSequence
<1> HIDE DEF r
<1>2. /\ IsSequence(events') /\ Len(events') = Len(r) + 1 /\ \A i \in 1 .. Len(r) : events'[i] = r[i]
  BY <1>1, AppendGrows DEF r
<1> QED BY <1>1, <1>2 DEF Grown

LEMMA StepGrows == ASSUME IsSequence(events), LoopNext PROVE Grown
<1>1. ASSUME UNCHANGED events PROVE Grown
  <2>1. Len(events) \in Nat
    BY DEF IsSequence
  <2> QED BY <1>1, <2>1 DEF Grown
<1>2. ASSUME NEW e, RecordEvent(e) PROVE Grown
  BY <1>2, OneMoreGrows DEF RecordEvent
<1>3. CASE Remember
  BY <1>3, OneMoreGrows DEF Remember
<1>4. CASE Arrive \/ Forge \/ TouchFiles \/ TouchPlan \/ Defer
  BY <1>1, <1>4 DEF Arrive, Forge, TouchFiles, TouchPlan, Defer, EditFiles, CommitFiles, EditPlan
<1>5. CASE Agent
  <2>1. UNCHANGED events \/ \E e : RecordEvent(e)
    BY <1>5 DEF Agent, DecideDocs, BeginRun, Implement, EditFiles, TickBoxes, EditPlan, CloseReview,
                EnableRoute, Dispatch, Publish, CommitFiles, Drive
  <2> QED BY <1>1, <1>2, <2>1
<1>6. CASE EndRun
  BY <1>1, <1>2, <1>6 DEF EndRun
<1>7. CASE Answer
  BY <1>2, <1>7 DEF Answer
<1>8. CASE RecordOther
  BY <1>2, <1>8 DEF RecordOther
<1>9. CASE SwitchTask
  <2>1. \E e, f : events' = Append(events, e) \/ events' = Append(Append(events, e), f)
    BY <1>9 DEF SwitchTask
  <2> QED BY <2>1, OneMoreGrows, TwoMoreGrow
<1> QED BY <1>3, <1>4, <1>5, <1>6, <1>7, <1>8, <1>9 DEF LoopNext

LEMMA ScopedParts ==
  LET d == DeriveTask(events)
      state == IF d = Legacy /\ events # <<>> /\ legacyCheckoutIsIdle THEN Idle ELSE d
  IN  Scoped.state = state /\ Scoped.events = ScopeTask(events, state)
BY ScopedIs DEF ScopedAs

LEMMA ScopedPartsNext ==
  LET d == DeriveTask(events')
      state == IF d = Legacy /\ events' # <<>> /\ legacyCheckoutIsIdle' THEN Idle ELSE d
  IN  Scoped'.state = state /\ Scoped'.events = ScopeTask(events', state)
<1>1. (LET d == DeriveTask(events)
           state == IF d = Legacy /\ events # <<>> /\ legacyCheckoutIsIdle THEN Idle ELSE d
       IN  Scoped.state = state /\ Scoped.events = ScopeTask(events, state))'
  BY ScopedParts, PTL
<1> QED BY <1>1

(* What was in scope is in scope still, as long as the task is the same. *)
LEMMA ScopeGrows ==
  ASSUME IsSequence(events), Grown, NEW t, t = Scoped, NEW u, u = Scoped', Recordable(t), u.state = t.state
  PROVE  /\ IsSequence(t.events) /\ IsSequence(u.events) /\ Len(t.events) <= Len(u.events)
         /\ \A i \in 1 .. Len(t.events) : u.events[i] = t.events[i]
<1>1. IsSequence(events') /\ Recordable(u)
  BY DEF Grown, Recordable
<1>2. \/ t.state = Legacy /\ t.events = events /\ DeriveTask(events) = Legacy
      \/ \E x : /\ t.state = Active(x) /\ DeriveTask(events) = Active(x)
                /\ t.events = EventsOf(events, StartOfTask(events, x), x)
  BY RecordableMeans
<1>3. \/ u.state = Legacy /\ u.events = events' /\ DeriveTask(events') = Legacy
      \/ \E x : /\ u.state = Active(x) /\ DeriveTask(events') = Active(x)
                /\ u.events = EventsOf(events', StartOfTask(events', x), x)
  <2> DEFINE d == DeriveTask(events')
             state == IF d = Legacy /\ events' # <<>> /\ legacyCheckoutIsIdle' THEN Idle ELSE d
  <2>1. u.state = state /\ u.events = ScopeTask(events', state)
    BY ScopedPartsNext
  <2>2. u.state # Idle /\ u.state # Invalid
    BY <1>1, StatesDiffer DEF Recordable
  <2>3. u.state = d
    BY <2>1, <2>2
  <2>4. CASE d = Legacy
    <3>1. ScopeTask(events', Legacy) = events'
      BY StatesDiffer DEF ScopeTask
    <3>2. u.state = Legacy /\ u.events = ScopeTask(events', u.state)
      BY <2>1, <2>3, <2>4
    <3> QED BY <2>4, <3>1, <3>2
  <2>5. CASE d # Legacy
    <3>1. PICK x : d = Active(x)
      BY <1>1, <2>2, <2>3, <2>5, DerivedStates
    <3>2. ScopeTask(events', d) = EventsOf(events', StartOfTask(events', x), x)
      BY <3>1, StatesDiffer DEF ScopeTask
    <3> QED BY <2>1, <2>3, <3>1, <3>2
  <2> QED BY <2>4, <2>5
<1>4. CASE t.state = Legacy
  <2>1. t.events = events /\ u.events = events'
    BY <1>2, <1>3, <1>4, StatesDiffer
  <2> QED BY <1>1, <2>1 DEF Grown
<1>5. CASE t.state # Legacy
  <2>1. PICK x : /\ t.state = Active(x) /\ DeriveTask(events) = Active(x)
                 /\ t.events = EventsOf(events, StartOfTask(events, x), x)
    BY <1>2, <1>5
  <2>2. PICK y : /\ u.state = Active(y) /\ DeriveTask(events') = Active(y)
                 /\ u.events = EventsOf(events', StartOfTask(events', y), y)
    BY <1>3, <1>5
  <2>3. x = y
    <3>1. Active(x).task = x /\ Active(y).task = y
      BY StatesDiffer
    <3> QED BY <2>1, <2>2, <3>1
  <2> DEFINE first == StartOfTask(events, x)
  <2>4. first \in 1 .. Len(events) /\ events[first].event = "task-start" /\ events[first].task = x
    BY <2>1, ActiveMeans DEF LastStart
  <2>5. Len(events) \in Nat /\ Len(events') \in Nat
    BY <1>1 DEF IsSequence
  <2> HIDE DEF first
  <2>6. first \in 1 .. Len(events') /\ events'[first].event = "task-start" /\ events'[first].task = x
    BY <2>4, <2>5 DEF Grown
  <2>7. \A k \in 1 .. Len(events') :
          events'[k].event = "task-start" /\ events'[k].task = x => k = StartOfTask(events', x)
    BY <1>1, <2>2, <2>3, ActiveMeans
  <2>8. first = StartOfTask(events', x)
    BY <2>6, <2>7
  <2>9. IsSequence(EventsOf(events, first, x)) /\ IsSequence(EventsOf(events', first, x))
    BY <1>1, <2>4, <2>6, EventsOfMeans
  <2>10. /\ Len(EventsOf(events, first, x)) <= Len(EventsOf(events', first, x))
         /\ \A i \in 1 .. Len(EventsOf(events, first, x)) :
              EventsOf(events', first, x)[i] = EventsOf(events, first, x)[i]
    BY <1>1, <2>4, EventsOfGrows DEF Grown
  <2>11. t.events = EventsOf(events, first, x) /\ u.events = EventsOf(events', first, x)
    BY <2>1, <2>2, <2>3, <2>8 DEF first
  <2> QED BY <2>9, <2>10, <2>11
<1> QED BY <1>4, <1>5

(* An approval of the same plan and files stands.                        *)
LEMMA ApprovalStands ==
  ASSUME IsSequence(events), Grown, UNCHANGED files, NEW t, t = Scoped, NEW u, u = Scoped',
         Approved(t), u.state = t.state, LastOf(u, IsReview) = LastOf(t, IsReview),
         taskPlanContent(t) # None, taskPlanContent(u)' # None, plan'.words = plan.words
  PROVE  Approved(u)'
<1>1. Recordable(t) /\ Verdict(t) = "approved" /\ Newest(t).snapshot = reviewSnapshot(t)
  BY DEF taskPlanContent, Approved, Stale
<1>2. Some(t, IsReview) /\ Newest(t).verdict = "approved"
  BY <1>1 DEF Verdict
<1> DEFINE l == LastOf(t, IsReview)
<1>3. /\ IsSequence(t.events) /\ IsSequence(u.events) /\ Len(t.events) <= Len(u.events)
      /\ \A i \in 1 .. Len(t.events) : u.events[i] = t.events[i]
  BY <1>1, ScopeGrows
<1>4. l \in 0 .. Len(t.events) /\ Len(t.events) \in Nat /\ l # 0 /\ IsReview(t.events[l])
  BY <1>2, <1>3, LastReviewIs, ReviewIsThere DEF IsSequence
<1> HIDE DEF l
<1>6. l \in 1 .. Len(t.events)
  BY <1>4
<1>7. u.events[l] = t.events[l]
  BY <1>3, <1>6
<1>8. Some(u, IsReview)
  <2>1. l \in 1 .. Len(u.events)
    BY <1>3, <1>4, <1>6 DEF IsSequence
  <2> QED BY <1>4, <1>7, <2>1 DEF Some
<1>9. Newest(u) = Newest(t)
  BY <1>7 DEF Newest, l
<1>10. reviewSnapshot(u)' = reviewSnapshot(t)
  BY DEF reviewSnapshot, changedContentFingerprints, normalizedPlanContent
<1> QED BY <1>1, <1>2, <1>8, <1>9, <1>10 DEF Approved, Stale, Verdict, Newest, Some

(* The invariant: each event has to do with those before it what it says,*)
(* in every history (status.mjs, recorders.mjs, review.mjs).             *)
THEOREM LoopSound == LoopSpec => []LoopInv
<1>1. LoopInit => LoopInv
  BY LoopInitKeeps
<1>2. LoopInv /\ [LoopNext]_loopVars => LoopInv'
  BY LoopStepKeeps
<1> QED BY <1>1, <1>2, PTL DEF LoopSpec

(* What status and the gate read is of the active task alone, whatever   *)
(* the ledger of the branch holds, and nothing is called finished that   *)
(* the gate would refuse (scopeTaskEvents, status, gateReasons).         *)
THEOREM StatusStaysSound == LoopSpec => []StatusIsSound
<1>1. LoopInv => StatusIsSound
  BY StatusHolds
<1> QED BY <1>1, LoopSound, PTL

(* What status calls finished has a red and a later green of its task    *)
(* that stands for the checkout, and a review the gate lets pass has a   *)
(* request over exactly what stands here (deriveLoopState, gateReasons). *)
THEOREM DoneStaysProven == LoopSpec => []DoneIsProven
<1>1. LoopInv => DoneIsProven
  BY FinishedHolds, ClaimsHold DEF DoneIsProven
<1> QED BY <1>1, LoopSound, PTL

(* Where the task has a plan of its own, no step that leaves the files   *)
(* and the plan's words alone makes an approval stale (reviewSnapshot,   *)
(* normalizedPlanContent).                                               *)
THEOREM ApprovalsStayStanding == LoopSpec => BookkeepingKeepsApproval
<1>1. ASSUME LoopInv, [LoopNext]_loopVars
      PROVE  [phase = "now" /\ files' = files =>
                \A t \in {Scoped}, u \in {Scoped'} :
                  /\ Approved(t) /\ u.state = t.state /\ LastOf(u, IsReview) = LastOf(t, IsReview)
                  /\ taskPlanContent(t) # None /\ taskPlanContent(u)' # None /\ plan'.words = plan.words
                  => Approved(u)']_loopVars
  <2>1. CASE UNCHANGED loopVars
    BY <2>1
  <2>2. CASE LoopNext
    <3>1. IsSequence(events) /\ Grown
      BY <1>1, <2>2, StepGrows DEF LoopInv, AllSound
    <3>2. SUFFICES ASSUME files' = files, NEW t, t = Scoped, NEW u, u = Scoped',
                          Approved(t), u.state = t.state, LastOf(u, IsReview) = LastOf(t, IsReview),
                          taskPlanContent(t) # None, taskPlanContent(u)' # None, plan'.words = plan.words
                   PROVE  Approved(u)'
      OBVIOUS
    <3> QED BY <3>1, <3>2, ApprovalStands
  <2> QED BY <1>1, <2>1, <2>2
<1> QED BY <1>1, LoopSound, PTL DEF BookkeepingKeepsApproval, LoopSpec
=============================================================================
