----------------------- MODULE LedgerTransaction_proofs -----------------------
(***************************************************************************)
(* Proofs about LedgerTransaction: first what holds whoever runs beside  *)
(* whom, then what the ledger lock adds to it as long as every writer has*)
(* it and no command is killed under its helper.                         *)
(***************************************************************************)
EXTENDS LedgerTransaction, SequenceTheorems, FiniteSetTheorems, TLAPS

-----------------------------------------------------------------------------
(* A session that settles a temporary has listed it, and has a box for it. *)
HasItsTemporary ==
  \A w \in Writers :
    /\ pc[w] \in {"box", "stage", "publish", "payload"} => found[w] # <<>>
    /\ pc[w] \in {"stage", "publish", "payload"} => box[Token(w)] # NoFile

(* No reading of the ledger glues two lines, or has a line of a writer   *)
(* that has yet to rename its temporary over it.                         *)
Published == {"verify", "done", "uncertain", "crashed"}

Sound(file) ==
  file # NoFile =>
    \A i \in 1 .. Len(file.lines) :
      /\ file.lines[i] # "torn"
      /\ file.lines[i] \in Writers => pc[file.lines[i]] \in Published

ReadingsAreSound == Sound(ledger) /\ \A w \in Writers : Sound(original[w])

IInv == TypeOK /\ HasItsTemporary /\ ReadingsAreSound

-----------------------------------------------------------------------------
LEMMA InitInv == Init => IInv
<1> SUFFICES ASSUME Init PROVE IInv
  OBVIOUS
<1>1. ledger \in File \union {NoFile} /\ (ledger # NoFile => ledger.lines = <<History>>)
  <2>1. <<History>> \in Seq(Writers \union {History, "torn"})
    OBVIOUS
  <2>2. ledger = NoFile \/ ledger \in [inode : {History}, lines : {<<History>>}, ended : BOOLEAN]
    BY DEF Init
  <2> QED BY <2>1, <2>2 DEF File
<1>2. TypeOK
  BY <1>1, WriterAssumption DEF Init, TypeOK, Names, PCs
<1>3. HasItsTemporary
  BY DEF Init, HasItsTemporary
<1>4. ReadingsAreSound
  BY <1>1, WriterAssumption DEF Init, ReadingsAreSound, Sound
<1> QED BY <1>2, <1>3, <1>4 DEF IInv

(* What the head of the list is, and what the rest.                      *)
LEMMA FirstFound ==
  ASSUME TypeOK, NEW w \in Writers, found[w] # <<>>
  PROVE  /\ Token(w) \in Writers /\ Prov(w) \in Provenance
         /\ Tail(found[w]) \in Seq([token : Writers, prov : Provenance])
         /\ Head(found[w]) = found[w][1] /\ Len(found[w]) \in Nat \ {0}
         /\ Len(Tail(found[w])) = Len(found[w]) - 1
         /\ \A i \in 1 .. Len(Tail(found[w])) : Tail(found[w])[i] = found[w][i + 1]
<1>1. found[w] \in Seq([token : Writers, prov : Provenance])
  BY DEF TypeOK
<1>2. Head(found[w]) \in [token : Writers, prov : Provenance]
  BY <1>1, HeadTailProperties
<1> QED BY <1>1, <1>2, HeadTailProperties DEF Token, Prov

LEMMA GotoTypes ==
  ASSUME TypeOK, NEW w \in Writers, NEW label \in PCs, Goto(w, label)
  PROVE  /\ pc' \in [Writers -> PCs] /\ pc'[w] = label
         /\ \A v \in Writers \ {w} : pc'[v] = pc[v]
BY DEF TypeOK, Goto

LEMMA StopTypes ==
  ASSUME TypeOK, NEW w \in Writers, NEW label \in PCs, Stop(w, label)
  PROVE  lock' \in Writers \union {NoFile} /\ lock' \in {lock, NoFile} /\ Goto(w, label)
BY DEF TypeOK, Stop, Unlock

(* What a writer publishes: what it read, and its record after it.       *)
LEMMA ContentIs ==
  ASSUME TypeOK, NEW w \in Writers
  PROVE  LET before == IF original[w] = NoFile THEN <<>> ELSE original[w].lines
         IN  /\ Content(w) \in File /\ Content(w) # NoFile /\ Content(w).inode = w
             /\ Content(w).lines = Append(before, w)
             /\ before \in Seq(Writers \union {History, "torn"})
<1> DEFINE before == IF original[w] = NoFile THEN <<>> ELSE original[w].lines
<1>1. before \in Seq(Writers \union {History, "torn"})
  BY DEF TypeOK, File
<1>2. Content(w) = [inode |-> w, ended |-> TRUE, lines |-> Append(before, w)]
  <2> DEFINE file == original[w]
             glued == file.lines # <<>> /\ ~file.ended /\ ~WritesSeparator(file)
  <2>1. ~glued
    BY Zenon DEF WritesSeparator
  <2>2. Content(w) = [inode |-> w, ended |-> TRUE,
                      lines |-> IF file = NoFile THEN <<w>>
                                ELSE Append(IF glued THEN Front(file.lines) ELSE file.lines,
                                            IF glued THEN "torn" ELSE w)]
    BY DEF Content
  <2>3. Append(<<>>, w) = <<w>>
    OBVIOUS
  <2> HIDE DEF glued
  <2> QED BY <2>1, <2>2, <2>3
<1>3. Append(before, w) \in Seq(Writers \union {History, "torn"})
  BY <1>1
<1> HIDE DEF before
<1>4. Content(w) \in File /\ Content(w).inode = w /\ Content(w).lines = Append(before, w)
  BY <1>2, <1>3 DEF File
<1> QED BY <1>1, <1>4, NoFileAssumption DEF before

-----------------------------------------------------------------------------
(* A step that only moves one session on.                                *)
LEMMA MovesOn ==
  ASSUME IInv, NEW w \in Writers, NEW label \in PCs, Goto(w, label),
         lock' \in Writers \union {NoFile},
         UNCHANGED <<ledger, temp, written, box, session>>,
         crashes' \in 0 .. MaxCrashes, orphans' \in 0 .. MaxOrphans,
         label \in {"box", "stage", "publish", "payload"} => found[w] # <<>>,
         label \in {"stage", "publish", "payload"} => box[Token(w)] # NoFile,
         pc[w] \in Published => label \in Published
  PROVE  IInv'
<1>1. /\ pc' \in [Writers -> PCs] /\ pc'[w] = label
      /\ \A v \in Writers \ {w} : pc'[v] = pc[v]
  BY GotoTypes DEF IInv
<1>2. TypeOK'
  BY <1>1 DEF IInv, TypeOK, session
<1>3. HasItsTemporary'
  BY <1>1 DEF IInv, HasItsTemporary, Token, session
<1>4. \A v \in Writers : pc[v] \in Published => pc'[v] \in Published
  BY <1>1
<1>5. ReadingsAreSound'
  BY <1>4 DEF IInv, ReadingsAreSound, Sound, session
<1> QED BY <1>2, <1>3, <1>5 DEF IInv

(* A step that leaves the ledger and its readings alone.                 *)
LEMMA ReadingsStay ==
  ASSUME IInv, NEW w \in Writers, NEW label \in PCs, Goto(w, label),
         pc[w] \notin Published, UNCHANGED <<ledger, original>>
  PROVE  ReadingsAreSound'
<1>1. \A v \in Writers : pc[v] \in Published => pc'[v] \in Published
  BY GotoTypes DEF IInv
<1> QED BY <1>1 DEF IInv, ReadingsAreSound, Sound

(* The temporaries as w lists them: all of them, each once.              *)
LEMMA Listing ==
  ASSUME TypeOK, NEW w \in Writers, ListActive(w)
  PROVE  LET list == found'[w]
             there == {t \in Writers : temp[t] # "none"}
         IN  /\ found' = [found EXCEPT ![w] = list]
             /\ list \in Seq([token : Writers, prov : Provenance])
             /\ \A i \in 1 .. Len(list) : list[i].token \in there /\ list[i] = Observed(list[i].token)
             /\ \A i, j \in 1 .. Len(list) : list[i].token = list[j].token => i = j
             /\ \A t \in there : \E i \in 1 .. Len(list) : list[i].token = t
<1> DEFINE there == {t \in Writers : temp[t] # "none"}
           n == Cardinality(there)
<1>1. PICK order \in SetToSeqs(there) :
        found' = [found EXCEPT ![w] = [i \in DOMAIN order |-> Observed(order[i])]]
  BY DEF ListActive
<1>2. IsFiniteSet(there) /\ n \in Nat
  BY FS_Subset, FS_CardinalityType, WriterAssumption
<1>3. order \in [1 .. n -> there] /\ \A i, j \in 1 .. n : i # j => order[i] # order[j]
  BY <1>1 DEF SetToSeqs
<1> DEFINE list == [i \in 1 .. n |-> Observed(order[i])]
<1>4. DOMAIN order = 1 .. n /\ found'[w] = list /\ found' = [found EXCEPT ![w] = list]
  BY <1>1, <1>3 DEF TypeOK
<1>5. order \in Injection(1 .. n, there)
  BY <1>3 DEF Injection, IsInjective
<1>6. n = Cardinality(1 .. n)
  BY <1>2, FS_Interval
<1>7. order \in Surjection(1 .. n, there)
  BY <1>2, <1>5, <1>6, FS_Injection
<1>8. \A t \in there : \E i \in 1 .. n : order[i] = t
  BY <1>7 DEF Surjection
<1>9. \A t \in there : Observed(t) \in [token : Writers, prov : Provenance] /\ Observed(t).token = t
  BY DEF TypeOK, Names, Observed, Provenance
<1> HIDE DEF there, n
<1>10. list \in Seq([token : Writers, prov : Provenance]) /\ Len(list) = n
  <2>1. \A i \in 1 .. n : list[i] \in [token : Writers, prov : Provenance]
    BY <1>3, <1>9
  <2>2. list \in [1 .. n -> [token : Writers, prov : Provenance]]
    BY <2>1
  <2> QED BY <1>2, <2>2
<1>11. \A i \in 1 .. n : list[i] = Observed(order[i]) /\ list[i].token = order[i]
  BY <1>3, <1>9
<1> HIDE DEF list
<1> QED BY <1>3, <1>4, <1>8, <1>10, <1>11 DEF there

LEMMA ListKeeps ==
  ASSUME IInv, NEW w \in Writers, ListActive(w) PROVE IInv'
<1>1. found' \in [Writers -> Seq([token : Writers, prov : Provenance])]
  BY Listing DEF IInv, TypeOK
<1>2. Goto(w, "snapshot") /\ "snapshot" \in PCs /\ pc[w] = "list"
      /\ \A v \in Writers \ {w} : found'[v] = found[v]
  BY DEF ListActive, PCs, IInv, TypeOK
<1>3. /\ pc' \in [Writers -> PCs] /\ pc'[w] = "snapshot"
      /\ \A v \in Writers \ {w} : pc'[v] = pc[v]
  BY <1>2, GotoTypes DEF IInv
<1>4. TypeOK'
  BY <1>1, <1>3 DEF IInv, TypeOK, ListActive, budget
<1>5. HasItsTemporary'
  BY <1>2, <1>3 DEF IInv, HasItsTemporary, Token, ListActive
<1>6. ReadingsAreSound'
  BY <1>2, ReadingsStay DEF ListActive, Published
<1> QED BY <1>4, <1>5, <1>6 DEF IInv

LEMMA ReadKeeps ==
  ASSUME IInv, NEW w \in Writers, ReadOriginal(w) PROVE IInv'
<1>1. Goto(w, "settle") /\ "settle" \in PCs /\ pc[w] = "snapshot"
  BY DEF ReadOriginal, PCs
<1>2. /\ pc' \in [Writers -> PCs] /\ pc'[w] = "settle"
      /\ \A v \in Writers \ {w} : pc'[v] = pc[v]
  BY <1>1, GotoTypes DEF IInv
<1>3. original' \in [Writers -> File \union {NoFile}] /\ original'[w] = ledger
      /\ \A v \in Writers \ {w} : original'[v] = original[v]
  BY DEF ReadOriginal, IInv, TypeOK
<1>4. TypeOK'
  BY <1>2, <1>3 DEF IInv, TypeOK, ReadOriginal, budget
<1>5. HasItsTemporary'
  BY <1>2 DEF IInv, HasItsTemporary, Token, ReadOriginal
<1>6. \A v \in Writers : pc[v] \in Published => pc'[v] \in Published
  BY <1>1, <1>2 DEF Published
<1>7. ReadingsAreSound'
  BY <1>3, <1>6 DEF IInv, ReadingsAreSound, Sound, ReadOriginal
<1> QED BY <1>4, <1>5, <1>7 DEF IInv

(* A step that changes the box of the temporary w settles.               *)
LEMMA BoxKeeps ==
  ASSUME IInv, NEW w \in Writers, NEW b \in Box, found[w] # <<>>,
         box' = [box EXCEPT ![Token(w)] = b],
         NEW label \in PCs, Goto(w, label), pc[w] \notin Published,
         lock' \in Writers \union {NoFile},
         UNCHANGED <<ledger, temp, written, session, budget>>
  PROVE  IInv'
<1>1. /\ pc' \in [Writers -> PCs] /\ pc'[w] = label
      /\ \A v \in Writers \ {w} : pc'[v] = pc[v]
  BY GotoTypes DEF IInv
<1>2. Token(w) \in Writers
  BY FirstFound DEF IInv
<1>3. /\ box' \in [Writers -> Box \union {NoFile}] /\ box'[Token(w)] # NoFile
      /\ \A t \in Writers : box[t] # NoFile => box'[t] # NoFile
  BY <1>2, NoFileAssumption DEF IInv, TypeOK
<1>4. TypeOK'
  BY <1>1, <1>3 DEF IInv, TypeOK, session, budget
<1>5. \A v \in Writers : found[v] # <<>> => Token(v) \in Writers
  BY FirstFound DEF IInv
<1>6. HasItsTemporary'
  BY <1>1, <1>3, <1>5 DEF IInv, HasItsTemporary, Token, session
<1>7. ReadingsAreSound'
  BY ReadingsStay DEF session
<1> QED BY <1>4, <1>6, <1>7 DEF IInv

LEMMA OpenBoxKeeps ==
  ASSUME IInv, NEW w \in Writers, OpenBox(w) PROVE IInv'
<1>1. found[w] # <<>> /\ Token(w) \in Writers /\ pc[w] = "box"
  BY FirstFound DEF OpenBox, IInv, HasItsTemporary
<1>2. UNCHANGED <<ledger, temp, written, lock, session, budget>> /\ Goto(w, "stage")
      /\ "stage" \in PCs /\ pc[w] \notin Published /\ lock' \in Writers \union {NoFile}
  BY <1>1 DEF OpenBox, PCs, Published, IInv, TypeOK
<1>3. CASE box[Token(w)] # NoFile
  <2>1. box' = box /\ crashes' \in 0 .. MaxCrashes /\ orphans' \in 0 .. MaxOrphans
    BY <1>3 DEF OpenBox, IInv, TypeOK, budget
  <2> QED BY <1>1, <1>2, <1>3, <2>1, MovesOn
<1>4. CASE box[Token(w)] = NoFile
  <2> DEFINE b == [staged |-> NoFile, inventory |-> NoFile, payload |-> FALSE]
  <2>1. b \in Box /\ box' = [box EXCEPT ![Token(w)] = b]
    BY <1>4 DEF OpenBox, Box
  <2> HIDE DEF b
  <2> QED BY <1>1, <1>2, <2>1, BoxKeeps
<1> QED BY <1>3, <1>4

LEMMA StageKeeps ==
  ASSUME IInv, NEW w \in Writers, StageInventory(w) PROVE IInv'
<1>1. /\ found[w] # <<>> /\ Token(w) \in Writers /\ Prov(w) \in Provenance /\ pc[w] = "stage"
      /\ box[Token(w)] \in Box /\ pc[w] \notin Published
  BY FirstFound DEF StageInventory, IInv, HasItsTemporary, TypeOK, Published
<1>2. UNCHANGED <<ledger, temp, written, session, budget>>
      /\ crashes' \in 0 .. MaxCrashes /\ orphans' \in 0 .. MaxOrphans
  BY DEF StageInventory, IInv, TypeOK, budget
<1>3. CASE box[Token(w)].inventory = NoFile
  <2> DEFINE b == [box[Token(w)] EXCEPT !.staged = Prov(w)]
  <2>1. b \in Box
    BY <1>1 DEF Box
  <2>2. box' = [box EXCEPT ![Token(w)] = b] /\ Goto(w, "publish") /\ "publish" \in PCs
        /\ lock' \in Writers \union {NoFile}
    BY <1>3 DEF StageInventory, PCs, IInv, TypeOK
  <2> HIDE DEF b
  <2> QED BY <1>1, <1>2, <2>1, <2>2, BoxKeeps
<1>4. CASE box[Token(w)].inventory # NoFile
  <2>1. \E label \in {"payload", "failed"} :
          Goto(w, label) /\ label \in PCs /\ lock' \in Writers \union {NoFile}
    BY <1>4, StopTypes DEF StageInventory, PCs, IInv, TypeOK
  <2>2. UNCHANGED box /\ box[Token(w)] # NoFile
    BY <1>1, <1>4, NoFileAssumption DEF StageInventory
  <2> QED BY <1>1, <1>2, <2>1, <2>2, MovesOn
<1> QED BY <1>3, <1>4

LEMMA PublishKeeps ==
  ASSUME IInv, NEW w \in Writers, PublishInventory(w) PROVE IInv'
<1>1. /\ found[w] # <<>> /\ Token(w) \in Writers /\ Prov(w) \in Provenance /\ pc[w] = "publish"
      /\ box[Token(w)] \in Box /\ pc[w] \notin Published
  BY FirstFound DEF PublishInventory, IInv, HasItsTemporary, TypeOK, Published
<1>2. UNCHANGED <<ledger, temp, written, session, budget>>
      /\ crashes' \in 0 .. MaxCrashes /\ orphans' \in 0 .. MaxOrphans
  BY DEF PublishInventory, IInv, TypeOK, budget
<1> DEFINE old == box[Token(w)]
           b == [old EXCEPT !.staged = NoFile, !.inventory = old.staged]
<1>3. CASE old.staged = NoFile \/ old.inventory # NoFile
  <2>1. Stop(w, "failed") /\ "failed" \in PCs /\ UNCHANGED box
    BY <1>3 DEF PublishInventory, PCs
  <2>2. Goto(w, "failed") /\ lock' \in Writers \union {NoFile}
    BY <2>1, StopTypes DEF IInv
  <2> QED BY <1>1, <1>2, <2>1, <2>2, MovesOn
<1>4. CASE ~(old.staged = NoFile \/ old.inventory # NoFile)
  <2>1. \E label \in {"payload", "failed"} :
          Goto(w, label) /\ label \in PCs /\ lock' \in Writers \union {NoFile}
    BY <1>4, StopTypes DEF PublishInventory, PCs, IInv, TypeOK
  <2>2. b \in Box
    BY <1>1 DEF Box
  <2>3. box' = [box EXCEPT ![Token(w)] = b]
    BY <1>1, <1>4 DEF PublishInventory, IInv, TypeOK, Box
  <2> HIDE DEF b
  <2> QED BY <1>1, <1>2, <2>1, <2>2, <2>3, BoxKeeps
<1> QED BY <1>3, <1>4

LEMMA PayloadKeeps ==
  ASSUME IInv, NEW w \in Writers, MovePayload(w) PROVE IInv'
<1>1. /\ found[w] # <<>> /\ Token(w) \in Writers /\ Prov(w) \in Provenance /\ pc[w] = "payload"
      /\ box[Token(w)] \in Box /\ pc[w] \notin Published
  BY FirstFound DEF MovePayload, IInv, HasItsTemporary, TypeOK, Published
<1>2. UNCHANGED <<ledger, written, original, budget>>
      /\ crashes' \in 0 .. MaxCrashes /\ orphans' \in 0 .. MaxOrphans
  BY DEF MovePayload, IInv, TypeOK, budget
<1> DEFINE old == box[Token(w)]
           b == [old EXCEPT !.payload = TRUE]
<1>3. CASE temp[Token(w)] # Prov(w).phase \/ old.payload
  <2>1. Stop(w, "failed") /\ "failed" \in PCs /\ UNCHANGED <<temp, box, found>>
    BY <1>3 DEF MovePayload, PCs
  <2>2. Goto(w, "failed") /\ lock' \in Writers \union {NoFile}
    BY <2>1, StopTypes DEF IInv
  <2> QED BY <1>1, <1>2, <2>1, <2>2, MovesOn DEF session
<1>4. CASE ~(temp[Token(w)] # Prov(w).phase \/ old.payload)
  <2>1. /\ temp' = [temp EXCEPT ![Token(w)] = "none"]
        /\ found' = [found EXCEPT ![w] = Tail(found[w])]
        /\ Goto(w, "settle") /\ "settle" \in PCs /\ lock' = lock
        /\ box' = [box EXCEPT ![Token(w)] = b]
    BY <1>4 DEF MovePayload, PCs
  <2>2. b \in Box
    BY <1>1 DEF Box
  <2> HIDE DEF b
  <2>3. /\ pc' \in [Writers -> PCs] /\ pc'[w] = "settle"
        /\ \A v \in Writers \ {w} : pc'[v] = pc[v]
    BY <2>1, GotoTypes DEF IInv
  <2>4. /\ box' \in [Writers -> Box \union {NoFile}]
        /\ \A t \in Writers : box[t] # NoFile => box'[t] # NoFile
        /\ temp' \in [Writers -> Names]
    BY <1>1, <2>1, <2>2, NoFileAssumption DEF IInv, TypeOK, Names
  <2>5. /\ found' \in [Writers -> Seq([token : Writers, prov : Provenance])]
        /\ \A v \in Writers \ {w} : found'[v] = found[v]
    BY <1>1, <2>1, FirstFound DEF IInv, TypeOK
  <2>6. TypeOK'
    BY <1>2, <2>1, <2>3, <2>4, <2>5 DEF IInv, TypeOK, budget
  <2>7. \A v \in Writers : found[v] # <<>> => Token(v) \in Writers
    BY FirstFound DEF IInv
  <2>8. HasItsTemporary'
    BY <2>3, <2>4, <2>5, <2>7 DEF IInv, HasItsTemporary, Token
  <2>9. ReadingsAreSound'
    BY <1>1, <1>2, <2>1, ReadingsStay
  <2> QED BY <2>6, <2>8, <2>9 DEF IInv
<1> QED BY <1>3, <1>4

(* A step of the transaction proper that changes its own temporary.      *)
LEMMA TempKeeps ==
  ASSUME IInv, NEW w \in Writers, temp' \in [Writers -> Names], written' \subseteq Writers,
         NEW label \in {"write", "rename", "compare", "failed"}, Goto(w, label),
         pc[w] \notin Published, lock' \in Writers \union {NoFile},
         UNCHANGED <<ledger, box, session, budget>>
  PROVE  IInv'
<1>1. /\ pc' \in [Writers -> PCs] /\ pc'[w] = label
      /\ \A v \in Writers \ {w} : pc'[v] = pc[v]
  BY GotoTypes DEF IInv, PCs
<1>2. TypeOK'
  BY <1>1 DEF IInv, TypeOK, session, budget
<1>3. HasItsTemporary'
  BY <1>1 DEF IInv, HasItsTemporary, Token, session
<1>4. ReadingsAreSound'
  BY ReadingsStay DEF session, PCs
<1> QED BY <1>2, <1>3, <1>4 DEF IInv

LEMMA OwnTempKeeps ==
  ASSUME IInv, NEW w \in Writers, CreateTemp(w) \/ WriteTemp(w) \/ RenamePrepared(w)
  PROVE  IInv'
<1>1. ASSUME Stop(w, "failed"), UNCHANGED <<ledger, temp, written, box, session, budget>>,
             pc[w] \notin Published
      PROVE  IInv'
  <2>1. Goto(w, "failed") /\ lock' \in Writers \union {NoFile} /\ pc[w] \notin Published
        /\ temp' = temp /\ written' = written /\ UNCHANGED <<ledger, box, session, budget>>
    BY <1>1, StopTypes DEF IInv, PCs
  <2>2. temp' \in [Writers -> Names] /\ written' \subseteq Writers
    BY <2>1 DEF IInv, TypeOK
  <2> QED BY <2>1, <2>2, TempKeeps
<1>2. CASE CreateTemp(w)
  BY <1>1, <1>2, TempKeeps DEF CreateTemp, IInv, TypeOK, Names, Published
<1>3. CASE WriteTemp(w)
  BY <1>3, TempKeeps DEF WriteTemp, IInv, TypeOK, Published
<1>4. CASE RenamePrepared(w)
  <2>1. CASE temp[w] # "reset"
    BY <1>1, <1>4, <2>1 DEF RenamePrepared, Published
  <2>2. CASE temp[w] = "reset"
    <3>1. /\ temp' = [temp EXCEPT ![w] = "prepared"] /\ Goto(w, "compare") /\ lock' = lock
          /\ written' = written /\ pc[w] = "rename"
          /\ UNCHANGED <<ledger, box, session, budget>>
      BY <1>4, <2>2 DEF RenamePrepared
    <3>2. temp' \in [Writers -> Names] /\ written' \subseteq Writers
          /\ lock' \in Writers \union {NoFile} /\ pc[w] \notin Published
      BY <3>1 DEF IInv, TypeOK, Names, Published
    <3> QED BY <3>1, <3>2, TempKeeps
  <2> QED BY <2>1, <2>2
<1> QED BY <1>2, <1>3, <1>4

LEMMA SwapKeeps ==
  ASSUME IInv, NEW w \in Writers, SwapIn(w) PROVE IInv'
<1>1. pc[w] = "swap" /\ UNCHANGED <<written, box, session, budget>>
  BY DEF SwapIn
<1>2. CASE temp[w] # "prepared" \/ (original[w] = NoFile /\ ledger # NoFile)
  <2>1. Stop(w, "failed") /\ "failed" \in PCs /\ UNCHANGED <<ledger, temp>>
    BY <1>2 DEF SwapIn, PCs
  <2>2. Goto(w, "failed") /\ lock' \in Writers \union {NoFile}
    BY <2>1, StopTypes DEF IInv
  <2>3. crashes' \in 0 .. MaxCrashes /\ orphans' \in 0 .. MaxOrphans
    BY <1>1 DEF IInv, TypeOK, budget
  <2>4. UNCHANGED <<ledger, temp, written, box, session>> /\ pc[w] \notin Published
    BY <1>1, <2>1 DEF Published
  <2> HIDE <1>2
  <2> QED BY <2>1, <2>2, <2>3, <2>4, MovesOn
<1>3. CASE ~(temp[w] # "prepared" \/ (original[w] = NoFile /\ ledger # NoFile))
  <2>1. /\ ledger' = Content(w) /\ temp' = [temp EXCEPT ![w] = "none"]
        /\ Goto(w, "verify") /\ "verify" \in PCs /\ lock' = lock
    BY <1>3 DEF SwapIn, PCs
  <2>2. /\ pc' \in [Writers -> PCs] /\ pc'[w] = "verify"
        /\ \A v \in Writers \ {w} : pc'[v] = pc[v]
    BY <2>1, GotoTypes DEF IInv
  <2>3. Content(w) \in File
    BY ContentIs DEF IInv
  <2>4. TypeOK'
    BY <1>1, <2>1, <2>2, <2>3 DEF IInv, TypeOK, Names, session, budget
  <2>5. HasItsTemporary'
    BY <1>1, <2>2 DEF IInv, HasItsTemporary, Token, session
  <2>6. \A v \in Writers : pc[v] \in Published => pc'[v] \in Published
    BY <1>1, <2>2 DEF Published
  <2>7. ASSUME NEW v \in Writers PROVE Sound(original[v])'
    BY <1>1, <2>6 DEF IInv, ReadingsAreSound, Sound, session
  <2> DEFINE before == IF original[w] = NoFile THEN <<>> ELSE original[w].lines
  <2>8. /\ before \in Seq(Writers \union {History, "torn"}) /\ ledger'.lines = Append(before, w)
    BY <2>1, ContentIs DEF IInv
  <2>9. /\ Len(ledger'.lines) = Len(before) + 1 /\ ledger'.lines[Len(before) + 1] = w
        /\ Len(before) \in Nat /\ \A i \in 1 .. Len(before) : ledger'.lines[i] = before[i]
    BY <2>8, AppendProperties
  <2>10. \A i \in 1 .. Len(before) :
           before[i] # "torn" /\ (before[i] \in Writers => pc'[before[i]] \in Published)
    BY <2>6 DEF IInv, ReadingsAreSound, Sound
  <2>11. w # "torn" /\ pc'[w] \in Published
    BY <2>2, WriterAssumption DEF Published
  <2> HIDE DEF before
  <2>12. ASSUME NEW i \in 1 .. Len(ledger'.lines)
         PROVE  /\ ledger'.lines[i] # "torn"
                /\ ledger'.lines[i] \in Writers => pc'[ledger'.lines[i]] \in Published
    <3>1. CASE i \in 1 .. Len(before)
      BY <2>9, <2>10, <3>1
    <3>2. CASE i = Len(before) + 1
      BY <2>9, <2>11, <3>2
    <3> QED BY <2>9, <3>1, <3>2
  <2>13. Sound(ledger)'
    BY <2>12 DEF Sound
  <2> QED BY <2>4, <2>5, <2>7, <2>13 DEF IInv, ReadingsAreSound
<1> QED BY <1>2, <1>3

-----------------------------------------------------------------------------
LEMMA StopsKeep ==
  ASSUME IInv, NEW w \in Writers, NEW label \in {"done", "failed", "uncertain", "crashed"},
         Stop(w, label), UNCHANGED <<ledger, temp, written, box, session>>,
         crashes' \in 0 .. MaxCrashes, orphans' = orphans,
         pc[w] \in Published => label \in Published
  PROVE  IInv'
<1>1. Goto(w, label) /\ lock' \in Writers \union {NoFile} /\ label \in PCs
  BY StopTypes DEF IInv, PCs
<1>2. orphans' \in 0 .. MaxOrphans
  BY DEF IInv, TypeOK
<1> QED BY <1>1, <1>2, MovesOn

LEMMA StepInv == IInv /\ [Next]_vars => IInv'
<1> SUFFICES ASSUME IInv, [Next]_vars PROVE IInv'
  OBVIOUS
<1>1. crashes \in 0 .. MaxCrashes /\ orphans \in 0 .. MaxOrphans
      /\ lock \in Writers \union {NoFile}
  BY DEF IInv, TypeOK
<1>2. ASSUME NEW w \in Writers, Begin(w) PROVE IInv'
  <2>1. Goto(w, "list") /\ "list" \in PCs /\ lock' \in Writers \union {NoFile}
        /\ UNCHANGED <<ledger, temp, written, box, session>> /\ pc[w] \notin Published
    BY <1>1, <1>2 DEF Begin, PCs, Published
  <2>2. crashes' = crashes /\ orphans' = orphans
    BY <1>2 DEF Begin, budget
  <2> QED BY <1>1, <2>1, <2>2, MovesOn
<1>3. ASSUME NEW w \in Writers, SettleNext(w) PROVE IInv'
  <2>1. UNCHANGED <<ledger, temp, written, box, session>> /\ pc[w] \notin Published
        /\ crashes' = crashes /\ orphans' = orphans
    BY <1>3 DEF SettleNext, Published, budget
  <2>2. CASE found[w] # <<>> /\ Goto(w, "box") /\ UNCHANGED lock
    BY <1>1, <2>1, <2>2, MovesOn DEF PCs
  <2>3. CASE Stop(w, "done")
    BY <1>1, <2>1, <2>3, StopsKeep
  <2>4. CASE Goto(w, "prepare") /\ UNCHANGED lock
    BY <1>1, <2>1, <2>4, MovesOn DEF PCs
  <2> QED BY <1>3, <2>2, <2>3, <2>4 DEF SettleNext
<1>4. ASSUME NEW w \in Writers, CompareCurrent(w) PROVE IInv'
  <2>1. UNCHANGED <<ledger, temp, written, box, session>> /\ pc[w] \notin Published
        /\ crashes' = crashes /\ orphans' = orphans
    BY <1>4 DEF CompareCurrent, Published, budget
  <2>2. CASE Goto(w, "commit") /\ UNCHANGED lock
    BY <1>1, <2>1, <2>2, MovesOn DEF PCs
  <2>3. CASE Stop(w, "failed")
    BY <1>1, <2>1, <2>3, StopsKeep
  <2> QED BY <1>4, <2>2, <2>3 DEF CompareCurrent
<1>5. ASSUME NEW w \in Writers, StatNames(w) PROVE IInv'
  <2>1. UNCHANGED <<ledger, temp, written, box, session>> /\ pc[w] \notin Published
        /\ crashes' = crashes /\ orphans' = orphans
    BY <1>5 DEF StatNames, Published, budget
  <2>2. CASE Goto(w, "swap") /\ UNCHANGED lock
    BY <1>1, <2>1, <2>2, MovesOn DEF PCs
  <2>3. CASE Stop(w, "failed")
    BY <1>1, <2>1, <2>3, StopsKeep
  <2> QED BY <1>5, <2>2, <2>3 DEF StatNames
<1>6. ASSUME NEW w \in Writers, VerifyPublished(w) PROVE IInv'
  <2>1. UNCHANGED <<ledger, temp, written, box, session>>
        /\ crashes' = crashes /\ orphans' = orphans
        /\ (Stop(w, "done") \/ Stop(w, "uncertain"))
    BY <1>6 DEF VerifyPublished, budget
  <2> QED BY <1>1, <2>1, StopsKeep DEF Published
<1>7. ASSUME NEW w \in Writers, BranchSwitched(w) PROVE IInv'
  <2>1. UNCHANGED <<ledger, temp, written, box, session>> /\ pc[w] \notin Published
        /\ crashes' = crashes /\ orphans' = orphans /\ Stop(w, "failed")
    BY <1>7 DEF BranchSwitched, Published, budget
  <2> QED BY <1>1, <2>1, StopsKeep
<1>8. ASSUME NEW w \in Writers, CrashHelper(w) PROVE IInv'
  <2>1. UNCHANGED <<ledger, temp, written, box, session>> /\ orphans' = orphans
        /\ Stop(w, "crashed") /\ crashes' = crashes + 1 /\ crashes < MaxCrashes
    BY <1>8 DEF CrashHelper
  <2>2. crashes' \in 0 .. MaxCrashes
    BY <1>1, <2>1, WriterAssumption
  <2> QED BY <2>1, <2>2, StopsKeep DEF Published
<1>9. ASSUME NEW w \in Writers, KillCommand(w) PROVE IInv'
  <2>1. UNCHANGED <<ledger, temp, written, box, pc, found, original, crashes>>
        /\ lock' = NoFile /\ orphans' \in 0 .. MaxOrphans
    BY <1>1, <1>9, WriterAssumption DEF KillCommand, session
  <2> QED BY <2>1 DEF IInv, TypeOK, HasItsTemporary, Token, ReadingsAreSound, Sound
<1>10. CASE UNCHANGED vars
  BY <1>10 DEF vars, session, budget, IInv, TypeOK, HasItsTemporary, Token, ReadingsAreSound, Sound
<1> QED
  BY <1>2, <1>3, <1>4, <1>5, <1>6, <1>7, <1>8, <1>9, <1>10, ListKeeps, ReadKeeps, OpenBoxKeeps,
     StageKeeps, PublishKeeps, PayloadKeeps, OwnTempKeeps, SwapKeeps
  DEF Next, Settle, Commit

-----------------------------------------------------------------------------
(* A writer told that nothing was recorded may retry: its record is not in *)
(* the ledger, whoever else runs, with the ledger lock or without it,    *)
(* whoever is killed and wherever (mutateLedgerWithNativeSession).       *)
THEOREM FailureIsTrue == Spec => []FailedNotRecorded
<1>1. IInv => FailedNotRecorded
  <2> SUFFICES ASSUME IInv, NEW w \in Writers, pc[w] = "failed", Recorded(w) PROVE FALSE
    BY DEF FailedNotRecorded
  <2>1. ledger # NoFile /\ \E i \in 1 .. Len(ledger.lines) : ledger.lines[i] = w
    <3>1. ledger # NoFile
      BY DEF Recorded, Lines
    <3>2. Lines = ledger.lines /\ DOMAIN Lines = 1 .. Len(ledger.lines)
      BY <3>1 DEF Lines, IInv, TypeOK, File
    <3> QED BY <3>1, <3>2 DEF Recorded
  <2> QED BY <2>1 DEF IInv, ReadingsAreSound, Sound, Published
<1> QED BY InitInv, StepInv, <1>1, PTL DEF Spec

(* No race and no kill glues a record to a last line that lacks its      *)
(* newline, and every variable keeps its type.                           *)
THEOREM WholeLines == Spec => [](TypeOK /\ LinesStayWhole)
<1>1. IInv => TypeOK /\ LinesStayWhole
  <2> SUFFICES ASSUME IInv PROVE LinesStayWhole
    BY DEF IInv
  <2>1. CASE ledger = NoFile
    BY <2>1 DEF LinesStayWhole, Lines
  <2>2. CASE ledger # NoFile
    <3>1. Lines = ledger.lines /\ DOMAIN Lines = 1 .. Len(ledger.lines)
      BY <2>2 DEF Lines, IInv, TypeOK, File
    <3> QED BY <2>2, <3>1 DEF IInv, ReadingsAreSound, Sound, LinesStayWhole
  <2> QED BY <2>1, <2>2
<1> QED BY InitInv, StepInv, <1>1, PTL DEF Spec

-----------------------------------------------------------------------------
(* From here on every writer needs the lock, and no command is killed    *)
(* while its helper runs: the lock then lets one session run at a time.  *)
Serialised == LockFree = {} /\ MaxOrphans = 0

Running(w) == pc[w] # "idle" /\ ~Ended(w)

Exclusive == \A w \in Writers : Running(w) <=> lock = w

(* The stages of a session, and where its own temporary is in each.      *)
Settling == {"snapshot", "settle", "box", "stage", "publish", "payload"}
Committing == {"prepare", "write", "rename", "compare", "commit", "swap", "verify"}
AfterReading == ((Settling \union Committing) \ {"snapshot", "verify"})

TempAt(label) ==
  IF label \in {"write", "rename"} THEN "reset"
  ELSE IF label \in {"compare", "commit", "swap"} THEN "prepared" ELSE "none"

(* What w has listed and not settled is all there is, as it is.          *)
ListIsTrue(w) ==
  LET there == {t \in Writers : temp[t] # "none"}
  IN  /\ \A i \in 1 .. Len(found[w]) :
           found[w][i].token \in there /\ found[w][i] = Observed(found[w][i].token)
      /\ \A i, j \in 1 .. Len(found[w]) : found[w][i].token = found[w][j].token => i = j
      /\ \A t \in there : \E i \in 1 .. Len(found[w]) : found[w][i].token = t

Consistent(w) ==
  /\ ~Ended(w) => temp[w] = TempAt(pc[w])
  /\ pc[w] = "done" => temp[w] = "none" /\ (w \notin Recovering => Recorded(w))
  /\ pc[w] = "verify" => Recorded(w) /\ InodeOf(ledger) = w
  /\ pc[w] \in Settling => ListIsTrue(w)
  /\ pc[w] \in AfterReading => original[w] = ledger
  /\ pc[w] \in Committing => \A t \in Writers \ {w} : temp[t] = "none"
  /\ pc[w] = "publish" => box[Token(w)].staged = Prov(w) /\ box[Token(w)].inventory = NoFile
  /\ pc[w] = "payload" => box[Token(w)].staged = NoFile /\ box[Token(w)].inventory = Prov(w)

(* A box is made for a session that is over, and its inventory is true.  *)
BoxIsTrue(t) ==
  box[t] # NoFile =>
    /\ Ended(t)
    /\ box[t].inventory # NoFile => box[t].staged = NoFile
    /\ box[t].payload => temp[t] = "none" /\ box[t].inventory # NoFile
    /\ temp[t] # "none" => box[t].inventory \in {NoFile, Observed(t).prov}

SInv ==
  /\ IInv /\ Exclusive
  /\ \A w \in Writers : Consistent(w)
  /\ \A t \in Writers : BoxIsTrue(t)

LEMMA SerialInit == Init => SInv
<1> SUFFICES ASSUME Init PROVE SInv
  OBVIOUS
<1>1. IInv
  BY InitInv
<1>2. Exclusive
  BY WriterAssumption DEF Init, Exclusive, Running
<1>3. ASSUME NEW w \in Writers PROVE Consistent(w) /\ BoxIsTrue(w)
  BY DEF Init, Consistent, BoxIsTrue, Ended, TempAt, Settling, Committing, AfterReading
<1> QED BY <1>1, <1>2, <1>3 DEF SInv

(* While a session runs, the others are idle or over, and what it has    *)
(* listed are temporaries of sessions that are over.                     *)
LEMMA Alone ==
  ASSUME SInv, NEW w \in Writers, Running(w)
  PROVE  lock = w /\ \A v \in Writers \ {w} : ~Running(v)
BY DEF SInv, Exclusive

LEMMA TokenIsOver ==
  ASSUME SInv, NEW w \in Writers, pc[w] \in {"box", "stage", "publish", "payload"}
  PROVE  /\ Running(w) /\ found[w] # <<>> /\ Token(w) \in Writers \ {w} /\ Prov(w) \in Provenance
         /\ temp[Token(w)] # "none" /\ Ended(Token(w)) /\ Prov(w) = Observed(Token(w)).prov
<1>1. Running(w) /\ found[w] # <<>> /\ ListIsTrue(w) /\ temp[w] = "none"
  BY DEF Running, Ended, SInv, IInv, HasItsTemporary, Consistent, Settling, TempAt
<1>2. /\ Token(w) \in Writers /\ Prov(w) \in Provenance
      /\ Head(found[w]) = found[w][1] /\ 1 \in 1 .. Len(found[w])
  BY <1>1, FirstFound DEF SInv, IInv
<1>3. temp[Token(w)] # "none" /\ Prov(w) = Observed(Token(w)).prov
  BY <1>1, <1>2 DEF ListIsTrue, Token, Prov
<1>4. Token(w) # w
  BY <1>1, <1>3
<1>5. ~Running(Token(w)) /\ pc[Token(w)] # "idle"
  BY <1>1, <1>2, <1>3, <1>4, Alone DEF SInv, Consistent, TempAt, Ended
<1> QED BY <1>1, <1>2, <1>3, <1>4, <1>5 DEF Running

(* A step of w: what it has to do for the others to be as they must.     *)
LEMMA SerialStep ==
  ASSUME SInv, IInv', NEW w \in Writers, NEW label \in PCs, Goto(w, label),
         \/ Running(w) /\ lock' = lock /\ label \notin {"idle", "done", "failed", "uncertain", "crashed"}
         \/ Running(w) /\ Unlock(w) /\ label \in {"done", "failed", "uncertain", "crashed"}
         \/ pc[w] = "idle" /\ lock = NoFile /\ lock' = w /\ label = "list",
         \A t \in Writers \ {w} : temp'[t] \in {temp[t], "none"},
         \A t \in Writers : Recorded(t) => Recorded(t)',
         \A t \in Writers \ {w} : t \in written' <=> t \in written,
         \A t \in Writers \ {w} : (box'[t] = box[t] /\ temp'[t] = temp[t]) \/ BoxIsTrue(t)',
         box'[w] = box[w],
         Consistent(w)'
  PROVE  SInv'
<1>1. /\ pc'[w] = label /\ \A v \in Writers \ {w} : pc'[v] = pc[v]
  BY GotoTypes DEF SInv, IInv
<1>2. \A v \in Writers \ {w} : ~Running(v)
  BY WriterAssumption, Alone DEF SInv, Exclusive
<1>3. Exclusive'
  <2>1. CASE Running(w)
    BY <1>1, <2>1, Alone, WriterAssumption DEF SInv, Exclusive, Running, Ended, Unlock
  <2>2. CASE pc[w] = "idle" /\ lock = NoFile /\ lock' = w /\ label = "list"
    BY <1>1, <2>2, WriterAssumption DEF SInv, Exclusive, Running, Ended
  <2> QED BY <2>1, <2>2 DEF Running
<1>4. ASSUME NEW v \in Writers \ {w} PROVE Consistent(v)'
  <2>1. pc'[v] = pc[v] /\ pc[v] \in {"idle", "done", "failed", "uncertain", "crashed"}
    BY <1>1, <1>2 DEF Running, Ended
  <2>2. /\ pc[v] = "idle" => temp[v] = "none"
        /\ pc[v] = "done" => temp[v] = "none" /\ (v \notin Recovering => Recorded(v))
    BY DEF SInv, Consistent, Ended, TempAt
  <2>3. /\ pc[v] = "idle" => temp'[v] = "none"
        /\ pc[v] = "done" => temp'[v] = "none" /\ (v \notin Recovering => Recorded(v)')
    BY <2>2
  <2> QED BY <2>1, <2>3 DEF Consistent, Ended, TempAt, Settling, Committing, AfterReading
<1>5. box[w] = NoFile
  BY DEF SInv, BoxIsTrue, Running, Ended
<1>6. ASSUME NEW t \in Writers PROVE BoxIsTrue(t)'
  <2>1. CASE t = w
    BY <1>5, <2>1 DEF BoxIsTrue
  <2>2. CASE t # w /\ box'[t] = box[t] /\ temp'[t] = temp[t]
    BY <1>1, <2>2 DEF SInv, BoxIsTrue, Observed, Ended
  <2> QED BY <2>1, <2>2
<1> QED BY <1>3, <1>4, <1>6 DEF SInv

(* A step that leaves all files and boxes as they are.                   *)
LEMMA QuietStep ==
  ASSUME SInv, IInv', NEW w \in Writers, NEW label \in PCs, Goto(w, label),
         \/ Running(w) /\ lock' = lock /\ label \notin {"idle", "done", "failed", "uncertain", "crashed"}
         \/ Running(w) /\ Unlock(w) /\ label \in {"done", "failed", "uncertain", "crashed"}
         \/ pc[w] = "idle" /\ lock = NoFile /\ lock' = w /\ label = "list",
         UNCHANGED <<ledger, temp, written, box>>,
         Consistent(w)'
  PROVE  SInv'
<1>1. \A t \in Writers : Recorded(t) => Recorded(t)'
  BY DEF Recorded, Lines
<1> QED BY <1>1, SerialStep

(* A session that fails, or is killed, leaves a consistent state.        *)
LEMMA StopStep ==
  ASSUME SInv, IInv', NEW w \in Writers, NEW label \in {"failed", "uncertain", "crashed"},
         Stop(w, label), Running(w), UNCHANGED <<ledger, temp, written, box>>
  PROVE  SInv'
<1>1. pc'[w] = label /\ label \in PCs /\ Goto(w, label) /\ Unlock(w)
  BY GotoTypes DEF SInv, IInv, PCs, Stop
<1>2. Consistent(w)'
  BY <1>1 DEF Consistent, Ended, Settling, Committing, AfterReading
<1> QED BY <1>1, <1>2, QuietStep

LEMMA BeginSerial ==
  ASSUME SInv, IInv', Serialised, NEW w \in Writers, Begin(w) PROVE SInv'
<1>1. /\ pc[w] = "idle" /\ lock = NoFile /\ lock' = w /\ Goto(w, "list") /\ "list" \in PCs
      /\ UNCHANGED <<ledger, temp, written, box>>
  BY DEF Begin, Serialised, PCs
<1>2. pc'[w] = "list" /\ temp'[w] = "none"
  BY <1>1, GotoTypes DEF SInv, IInv, Consistent, TempAt, Ended
<1>3. Consistent(w)'
  BY <1>2 DEF Consistent, TempAt, Settling, Committing, AfterReading, Ended
<1> QED BY <1>1, <1>3, QuietStep

LEMMA ListSerial ==
  ASSUME SInv, IInv', NEW w \in Writers, ListActive(w) PROVE SInv'
<1>1. /\ pc[w] = "list" /\ Goto(w, "snapshot") /\ "snapshot" \in PCs /\ lock' = lock
      /\ UNCHANGED <<ledger, temp, written, box>>
  BY DEF ListActive, PCs
<1>2. Running(w) /\ pc'[w] = "snapshot" /\ temp'[w] = "none"
  BY <1>1, GotoTypes DEF SInv, IInv, Consistent, TempAt, Ended, Running
<1>3. ListIsTrue(w)'
  BY <1>1, Listing DEF SInv, IInv, ListIsTrue, Observed
<1>4. Consistent(w)'
  BY <1>2, <1>3 DEF Consistent, TempAt, Committing, AfterReading, Ended
<1> QED BY <1>1, <1>2, <1>4, QuietStep

LEMMA ReadSerial ==
  ASSUME SInv, IInv', NEW w \in Writers, ReadOriginal(w) PROVE SInv'
<1>1. /\ pc[w] = "snapshot" /\ Goto(w, "settle") /\ "settle" \in PCs /\ lock' = lock
      /\ UNCHANGED <<ledger, temp, written, box, found>> /\ original'[w] = ledger
  BY DEF ReadOriginal, PCs, SInv, IInv, TypeOK
<1>2. Running(w) /\ pc'[w] = "settle" /\ temp'[w] = "none" /\ ListIsTrue(w)
  BY <1>1, GotoTypes DEF SInv, IInv, Consistent, TempAt, Ended, Running, Settling
<1>3. ListIsTrue(w)'
  BY <1>1, <1>2 DEF ListIsTrue, Observed
<1>4. Consistent(w)'
  BY <1>1, <1>2, <1>3 DEF Consistent, TempAt, Committing, AfterReading, Ended
<1> QED BY <1>1, <1>2, <1>4, QuietStep

LEMMA SettleNextSerial ==
  ASSUME SInv, IInv', NEW w \in Writers, SettleNext(w) PROVE SInv'
<1>1. /\ pc[w] = "settle" /\ UNCHANGED <<ledger, temp, written, box>>
      /\ found' = found /\ original' = original
  BY DEF SettleNext, session
<1>2. Running(w) /\ temp'[w] = "none" /\ ListIsTrue(w) /\ original[w] = ledger
  BY <1>1 DEF SInv, Consistent, TempAt, Ended, Running, Settling, AfterReading
<1>3. ListIsTrue(w)'
  BY <1>1, <1>2 DEF ListIsTrue, Observed
<1>4. CASE Goto(w, "box") /\ UNCHANGED lock
  <2>1. pc'[w] = "box" /\ "box" \in PCs
    BY <1>4, GotoTypes DEF SInv, IInv, PCs
  <2>2. Consistent(w)'
    BY <1>1, <1>2, <1>3, <2>1 DEF Consistent, TempAt, Committing, Ended
  <2> QED BY <1>1, <1>2, <1>4, <2>1, <2>2, QuietStep
<1>5. CASE w \in Recovering /\ Stop(w, "done")
  <2>1. pc'[w] = "done" /\ "done" \in PCs /\ Goto(w, "done") /\ Unlock(w)
    BY <1>5, GotoTypes DEF SInv, IInv, PCs, Stop
  <2>2. Consistent(w)'
    BY <1>2, <1>5, <2>1 DEF Consistent, Settling, Committing, AfterReading, Ended
  <2> QED BY <1>1, <1>2, <2>1, <2>2, QuietStep
<1>6. CASE found[w] = <<>> /\ Goto(w, "prepare") /\ UNCHANGED lock
  <2>1. pc'[w] = "prepare" /\ "prepare" \in PCs
    BY <1>6, GotoTypes DEF SInv, IInv, PCs
  <2>2. \A t \in Writers : temp[t] = "none"
    BY <1>2, <1>6 DEF ListIsTrue
  <2>3. Consistent(w)'
    BY <1>1, <1>2, <2>1, <2>2 DEF Consistent, TempAt, Settling, Ended
  <2> QED BY <1>1, <1>2, <1>6, <2>1, <2>3, QuietStep
<1> QED BY <1>4, <1>5, <1>6 DEF SettleNext

-----------------------------------------------------------------------------
(* Steps at the box of the temporary that w settles.                     *)
Fits(w, b, label) ==
  /\ b.inventory # NoFile => b.staged = NoFile
  /\ b.payload = FALSE
  /\ b.inventory \in {NoFile, Prov(w)}
  /\ label = "publish" => b.staged = Prov(w) /\ b.inventory = NoFile
  /\ label = "payload" => b.staged = NoFile /\ b.inventory = Prov(w)

LEMMA BoxStep ==
  ASSUME SInv, IInv', NEW w \in Writers, pc[w] \in {"box", "stage", "publish", "payload"},
         NEW b, box' = [box EXCEPT ![Token(w)] = b],
         NEW label \in {"stage", "publish", "payload"}, Goto(w, label), lock' = lock,
         UNCHANGED <<ledger, temp, written, session>>, Fits(w, b, label)
  PROVE  SInv'
<1>0. PICK t \in Writers : t = Token(w)
  BY TokenIsOver
<1>1. /\ Running(w) /\ t \in Writers \ {w} /\ temp[t] # "none" /\ Ended(t)
      /\ Prov(w) = Observed(t).prov
  BY <1>0, TokenIsOver
<1>2. pc'[w] = label /\ \A v \in Writers \ {w} : pc'[v] = pc[v]
  BY GotoTypes DEF SInv, IInv, PCs
<1>3. box'[t] = b /\ \A v \in Writers \ {t} : box'[v] = box[v]
  BY <1>0 DEF SInv, IInv, TypeOK
<1>4. Ended(t)' /\ Observed(t)' = Observed(t) /\ temp' = temp
  BY <1>1, <1>2 DEF Ended, Observed
<1>5. BoxIsTrue(t)'
  BY <1>1, <1>3, <1>4 DEF BoxIsTrue, Fits
<1>6. ListIsTrue(w) /\ temp[w] = "none" /\ original[w] = ledger
  BY <1>1 DEF SInv, Consistent, TempAt, Ended, Running, Settling, AfterReading
<1>7. ListIsTrue(w)' /\ Token(w)' = t /\ Prov(w)' = Prov(w)
  BY <1>0, <1>6 DEF ListIsTrue, Observed, Token, Prov, session
<1>8. original'[w] = ledger' /\ temp'[w] = "none"
  BY <1>6 DEF session
<1>9. Consistent(w)'
  BY <1>2, <1>3, <1>7, <1>8 DEF Consistent, TempAt, Committing, Ended, Fits
<1>10. \A v \in Writers : Recorded(v) => Recorded(v)'
  BY DEF Recorded, Lines
<1>11. label \in PCs
  BY DEF PCs
<1>12. \A v \in Writers \ {w} : (box'[v] = box[v] /\ temp'[v] = temp[v]) \/ BoxIsTrue(v)'
  BY <1>3, <1>4, <1>5
<1>13. box'[w] = box[w]
  BY <1>1, <1>3
<1> QED BY <1>1, <1>4, <1>9, <1>10, <1>11, <1>12, <1>13, SerialStep

(* What the box of a listed temporary is.                                *)
LEMMA BoxAtHand ==
  ASSUME SInv, NEW w \in Writers, pc[w] \in {"box", "stage", "publish", "payload"},
         box[Token(w)] # NoFile
  PROVE  LET b == box[Token(w)]
         IN  /\ b \in Box /\ (b.inventory # NoFile => b.staged = NoFile) /\ b.payload = FALSE
             /\ b.inventory \in {NoFile, Prov(w)}
<1> DEFINE b == box[Token(w)]
<1>1. /\ Token(w) \in Writers /\ temp[Token(w)] # "none"
      /\ Prov(w) = Observed(Token(w)).prov
  BY TokenIsOver
<1>2. b \in Box /\ BoxIsTrue(Token(w))
  BY <1>1 DEF SInv, IInv, TypeOK
<1>3. b.payload \in BOOLEAN /\ ~b.payload
  BY <1>1, <1>2 DEF BoxIsTrue, Box
<1> QED BY <1>1, <1>2, <1>3 DEF BoxIsTrue

LEMMA OpenBoxSerial ==
  ASSUME SInv, IInv', NEW w \in Writers, OpenBox(w) PROVE SInv'
<1>1. /\ pc[w] = "box" /\ Goto(w, "stage") /\ lock' = lock
      /\ UNCHANGED <<ledger, temp, written, session>>
  BY DEF OpenBox
<1>2. Token(w) \in Writers
  BY <1>1, TokenIsOver
<1>3. CASE box[Token(w)] # NoFile
  <2>1. box' = [box EXCEPT ![Token(w)] = box[Token(w)]]
    BY <1>2, <1>3 DEF OpenBox, SInv, IInv, TypeOK
  <2>2. Fits(w, box[Token(w)], "stage")
    BY <1>1, <1>3, BoxAtHand DEF Fits
  <2> QED BY <1>1, <2>1, <2>2, BoxStep
<1>4. CASE box[Token(w)] = NoFile
  <2> DEFINE b == [staged |-> NoFile, inventory |-> NoFile, payload |-> FALSE]
  <2>1. box' = [box EXCEPT ![Token(w)] = b]
    BY <1>4 DEF OpenBox
  <2>2. Fits(w, b, "stage")
    BY DEF Fits
  <2> HIDE DEF b
  <2> QED BY <1>1, <2>1, <2>2, BoxStep
<1> QED BY <1>3, <1>4

LEMMA StageSerial ==
  ASSUME SInv, IInv', NEW w \in Writers, StageInventory(w) PROVE SInv'
<1> DEFINE old == box[Token(w)]
<1>1. /\ pc[w] = "stage" /\ UNCHANGED <<ledger, temp, written, session>>
  BY DEF StageInventory
<1>2. /\ Token(w) \in Writers /\ Prov(w) # NoFile
      /\ old \in Box /\ (old.inventory # NoFile => old.staged = NoFile) /\ old.payload = FALSE
      /\ old.inventory \in {NoFile, Prov(w)}
  BY <1>1, TokenIsOver, BoxAtHand, NoFileAssumption DEF SInv, IInv, HasItsTemporary
<1>3. CASE old.inventory = NoFile
  <2> DEFINE b == [old EXCEPT !.staged = Prov(w)]
  <2>1. box' = [box EXCEPT ![Token(w)] = b] /\ Goto(w, "publish") /\ lock' = lock
    BY <1>2, <1>3 DEF StageInventory, SInv, IInv, TypeOK, Box
  <2>2. b.staged = Prov(w) /\ b.inventory = NoFile /\ b.payload = FALSE
    BY <1>2, <1>3 DEF Box
  <2> HIDE DEF b
  <2>3. Fits(w, b, "publish")
    BY <2>2 DEF Fits
  <2> QED BY <1>1, <2>1, <2>3, BoxStep
<1>4. CASE old.inventory # NoFile
  <2>1. box' = [box EXCEPT ![Token(w)] = old] /\ Goto(w, "payload") /\ lock' = lock
    BY <1>2, <1>4 DEF StageInventory, SInv, IInv, TypeOK
  <2>2. Fits(w, old, "payload")
    BY <1>2, <1>4 DEF Fits
  <2> HIDE DEF old
  <2> QED BY <1>1, <2>1, <2>2, BoxStep
<1> QED BY <1>3, <1>4

LEMMA PublishSerial ==
  ASSUME SInv, IInv', NEW w \in Writers, PublishInventory(w) PROVE SInv'
<1> DEFINE old == box[Token(w)]
           b == [old EXCEPT !.staged = NoFile, !.inventory = old.staged]
<1>1. /\ pc[w] = "publish" /\ UNCHANGED <<ledger, temp, written, session>>
  BY DEF PublishInventory
<1>2. /\ Token(w) \in Writers /\ Prov(w) # NoFile /\ old \in Box /\ old.payload = FALSE
      /\ old.staged = Prov(w) /\ old.inventory = NoFile
  BY <1>1, TokenIsOver, BoxAtHand, NoFileAssumption DEF SInv, IInv, HasItsTemporary, Consistent
<1>3. box' = [box EXCEPT ![Token(w)] = b] /\ Goto(w, "payload") /\ lock' = lock
  BY <1>2 DEF PublishInventory, SInv, IInv, TypeOK, Box
<1>4. b.staged = NoFile /\ b.inventory = Prov(w) /\ b.payload = FALSE
  BY <1>2 DEF Box
<1> HIDE DEF b
<1>5. Fits(w, b, "payload")
  BY <1>4 DEF Fits
<1> QED BY <1>1, <1>3, <1>5, BoxStep

(* The temporary is retained: one entry less to settle, for a true list. *)
LEMMA PayloadSerial ==
  ASSUME SInv, IInv', NEW w \in Writers, MovePayload(w) PROVE SInv'
<1>0. PICK t \in Writers : t = Token(w)
  BY TokenIsOver DEF MovePayload
<1> DEFINE old == box[t]
           b == [old EXCEPT !.payload = TRUE]
<1>1. pc[w] = "payload" /\ UNCHANGED <<ledger, written, original>>
  BY DEF MovePayload
<1>2. /\ Running(w) /\ found[w] # <<>> /\ t \in Writers \ {w} /\ temp[t] # "none" /\ Ended(t)
      /\ Prov(w) = Observed(t).prov /\ Prov(w) \in Provenance
  BY <1>0, <1>1, TokenIsOver
<1>3. old \in Box /\ ~old.payload /\ old.staged = NoFile /\ old.inventory = Prov(w)
  BY <1>0, <1>1, BoxAtHand DEF SInv, IInv, HasItsTemporary, Consistent
<1>4. temp[t] = Prov(w).phase
  BY <1>2 DEF Observed
<1>5. /\ temp' = [temp EXCEPT ![t] = "none"] /\ box' = [box EXCEPT ![t] = b]
      /\ found' = [found EXCEPT ![w] = Tail(found[w])] /\ Goto(w, "settle") /\ lock' = lock
  BY <1>0, <1>3, <1>4 DEF MovePayload
<1>6. b \in Box /\ b.payload /\ b.staged = NoFile /\ b.inventory # NoFile /\ b # NoFile
  BY <1>2, <1>3, NoFileAssumption DEF Box
<1> HIDE DEF b
<1>7. pc'[w] = "settle" /\ \A v \in Writers \ {w} : pc'[v] = pc[v]
  BY <1>5, GotoTypes DEF SInv, IInv, PCs
<1>8. /\ temp'[t] = "none" /\ \A v \in Writers \ {t} : temp'[v] = temp[v]
      /\ box'[t] = b /\ \A v \in Writers \ {t} : box'[v] = box[v]
      /\ found'[w] = Tail(found[w])
  BY <1>2, <1>5 DEF SInv, IInv, TypeOK
<1>9. BoxIsTrue(t)'
  BY <1>2, <1>6, <1>7, <1>8 DEF BoxIsTrue, Ended
<1>10. ListIsTrue(w) /\ temp[w] = "none" /\ original[w] = ledger
  BY <1>1, <1>2 DEF SInv, Consistent, TempAt, Ended, Running, Settling, AfterReading
<1>11. ListIsTrue(w)'
  <2> DEFINE n == Len(found[w])
             list == found'[w]
             there == {v \in Writers : temp[v] # "none"}
  <2>1. /\ n \in Nat \ {0} /\ Len(list) = n - 1 /\ t = found[w][1].token
        /\ \A i \in 1 .. n - 1 : list[i] = found[w][i + 1]
    BY <1>0, <1>2, <1>8, FirstFound DEF SInv, IInv, Token
  <2>2. /\ \A i \in 1 .. n : found[w][i].token \in there /\ found[w][i] = Observed(found[w][i].token)
        /\ \A i, j \in 1 .. n : found[w][i].token = found[w][j].token => i = j
        /\ \A v \in there : \E i \in 1 .. n : found[w][i].token = v
    BY <1>10 DEF ListIsTrue
  <2>3. there' = there \ {t}
    BY <1>8
  <2>4. \A v \in there' : Observed(v)' = Observed(v)
    BY <1>1, <1>8, <2>3 DEF Observed
  <2> HIDE DEF there, n
  <2>5. ASSUME NEW i \in 1 .. n - 1
        PROVE  /\ i + 1 \in 1 .. n /\ list[i] = found[w][i + 1]
               /\ list[i].token \in there' /\ list[i] = Observed(list[i].token)
    <3>1. i + 1 \in 1 .. n /\ 1 \in 1 .. n /\ i + 1 # 1 /\ list[i] = found[w][i + 1]
      BY <2>1
    <3>2. list[i].token # t
      BY <2>1, <2>2, <3>1
    <3> QED BY <2>2, <2>3, <3>1, <3>2
  <2>6. ASSUME NEW i \in 1 .. n - 1, NEW j \in 1 .. n - 1, list[i].token = list[j].token
        PROVE  i = j
    <3>1. i + 1 = j + 1
      BY <2>2, <2>5, <2>6
    <3> QED BY <2>1, <3>1
  <2>7. ASSUME NEW v \in there' PROVE \E i \in 1 .. n - 1 : list[i].token = v
    <3>1. PICK i \in 1 .. n : found[w][i].token = v
      BY <2>2, <2>3
    <3>2. i # 1
      BY <2>1, <2>3, <3>1
    <3>3. i - 1 \in 1 .. n - 1 /\ list[i - 1] = found[w][i - 1 + 1] /\ i - 1 + 1 = i
      BY <2>1, <3>2
    <3> QED BY <3>1, <3>3
  <2> QED BY <2>1, <2>4, <2>5, <2>6, <2>7 DEF ListIsTrue, there
<1>12. original'[w] = ledger' /\ temp'[w] = "none"
  BY <1>1, <1>2, <1>8, <1>10
<1>13. Consistent(w)'
  BY <1>7, <1>11, <1>12 DEF Consistent, TempAt, Committing, Ended
<1>14. \A v \in Writers : Recorded(v) => Recorded(v)'
  BY <1>1 DEF Recorded, Lines
<1>15. /\ \A v \in Writers \ {w} : temp'[v] \in {temp[v], "none"}
       /\ \A v \in Writers \ {w} : (box'[v] = box[v] /\ temp'[v] = temp[v]) \/ BoxIsTrue(v)'
       /\ box'[w] = box[w] /\ "settle" \in PCs
  BY <1>2, <1>8, <1>9 DEF PCs
<1>16. Running(w) /\ Goto(w, "settle") /\ lock' = lock /\ written' = written
  BY <1>1, <1>2, <1>5
<1> QED BY <1>13, <1>14, <1>15, <1>16, SerialStep

-----------------------------------------------------------------------------
(* The steps of the transaction proper: its own temporary is all there is, *)
(* and the ledger is as the session read it.                             *)
LEMMA OwnTempStep ==
  ASSUME SInv, IInv', NEW w \in Writers, pc[w] \in {"prepare", "write", "rename", "compare", "commit"},
         NEW label \in {"write", "rename", "compare", "commit", "swap"}, Goto(w, label),
         \A t \in Writers \ {w} : temp'[t] = temp[t],
         temp'[w] = TempAt(label), lock' = lock,
         \A t \in Writers \ {w} : t \in written' <=> t \in written,
         UNCHANGED <<ledger, box, session>>
  PROVE  SInv'
<1>1. Running(w) /\ original[w] = ledger /\ \A t \in Writers \ {w} : temp[t] = "none"
  BY DEF SInv, Consistent, Running, Ended, AfterReading, Committing
<1>2. pc'[w] = label /\ label \in PCs
  BY GotoTypes DEF SInv, IInv, PCs
<1>3. original'[w] = ledger' /\ \A t \in Writers \ {w} : temp'[t] = "none"
  BY <1>1 DEF session
<1>4. Consistent(w)'
  BY <1>2, <1>3 DEF Consistent, Settling, Ended
<1>5. \A t \in Writers : Recorded(t) => Recorded(t)'
  BY DEF Recorded, Lines
<1>6. \A t \in Writers \ {w} : temp'[t] \in {temp[t], "none"}
  OBVIOUS
<1>7. box' = box
  OBVIOUS
<1> QED BY <1>1, <1>2, <1>4, <1>5, <1>6, <1>7, SerialStep

LEMMA OwnTempSerial ==
  ASSUME SInv, IInv', NEW w \in Writers,
         CreateTemp(w) \/ WriteTemp(w) \/ RenamePrepared(w) \/ CompareCurrent(w) \/ StatNames(w)
  PROVE  SInv'
<1>1. /\ pc[w] \in {"prepare", "write", "rename", "compare", "commit"} /\ Running(w)
      /\ UNCHANGED <<ledger, box, session>>
      /\ temp[w] = TempAt(pc[w])
  BY DEF CreateTemp, WriteTemp, RenamePrepared, CompareCurrent, StatNames, SInv, Consistent,
         Running, Ended
<1>2. temp \in [Writers -> Names]
  BY DEF SInv, IInv, TypeOK
<1>3. CASE Stop(w, "failed") /\ UNCHANGED <<temp, written>>
  BY <1>1, <1>3, StopStep
<1>4. CASE CreateTemp(w) /\ temp' = [temp EXCEPT ![w] = "reset"] /\ Goto(w, "write") /\ UNCHANGED lock
  BY <1>1, <1>2, <1>4, OwnTempStep DEF CreateTemp, TempAt
<1>5. CASE WriteTemp(w)
  BY <1>1, <1>2, <1>5, OwnTempStep DEF WriteTemp, TempAt
<1>6. CASE /\ RenamePrepared(w) /\ temp' = [temp EXCEPT ![w] = "prepared"]
           /\ Goto(w, "compare") /\ UNCHANGED lock
  BY <1>1, <1>2, <1>6, OwnTempStep DEF RenamePrepared, TempAt
<1>7. CASE CompareCurrent(w) /\ Goto(w, "commit") /\ UNCHANGED <<lock, temp, written>>
  BY <1>1, <1>2, <1>7, OwnTempStep DEF CompareCurrent, TempAt
<1>8. CASE StatNames(w) /\ Goto(w, "swap") /\ UNCHANGED <<lock, temp, written>>
  BY <1>1, <1>2, <1>8, OwnTempStep DEF StatNames, TempAt
<1> QED BY <1>3, <1>4, <1>5, <1>6, <1>7, <1>8
        DEF CreateTemp, WriteTemp, RenamePrepared, CompareCurrent, StatNames

(* Under the lock the published ledger is the one before and one record. *)
LEMMA SwapAppends ==
  ASSUME SInv, NEW w \in Writers, SwapIn(w)
  PROVE  /\ ledger' = Content(w) /\ temp' = [temp EXCEPT ![w] = "none"] /\ Goto(w, "verify")
         /\ lock' = lock /\ UNCHANGED <<written, box, session>>
         /\ Lines' = Append(Lines, w) /\ Lines \in Seq(Writers \union {History, "torn"})
         /\ ~Recorded(w) /\ Recorded(w)' /\ InodeOf(ledger)' = w
         /\ \A v \in Writers : Recorded(v) => Recorded(v)'
<1>1. pc[w] = "swap" /\ temp[w] = "prepared" /\ original[w] = ledger
  BY DEF SwapIn, SInv, Consistent, TempAt, Ended, AfterReading, Committing
<1>2. /\ ledger' = Content(w) /\ temp' = [temp EXCEPT ![w] = "none"] /\ Goto(w, "verify")
      /\ lock' = lock /\ UNCHANGED <<written, box, session>>
  BY <1>1 DEF SwapIn
<1> DEFINE before == IF original[w] = NoFile THEN <<>> ELSE original[w].lines
<1>3. /\ before \in Seq(Writers \union {History, "torn"}) /\ ledger'.lines = Append(before, w)
      /\ ledger' # NoFile /\ ledger'.inode = w
  BY <1>2, ContentIs DEF SInv, IInv
<1>4. Lines = before /\ Lines' = Append(Lines, w)
  BY <1>1, <1>3 DEF Lines
<1> HIDE DEF before
<1>5. /\ Len(before) \in Nat /\ DOMAIN Lines = 1 .. Len(before) /\ DOMAIN Lines' = 1 .. Len(before) + 1
      /\ Lines'[Len(before) + 1] = w /\ \A i \in 1 .. Len(before) : Lines'[i] = Lines[i]
  BY <1>3, <1>4, AppendProperties
<1>6. \A v \in Writers : Recorded(v) => Recorded(v)'
  BY <1>5 DEF Recorded
<1>7. Recorded(w)'
  BY <1>5 DEF Recorded
<1>8. ~Recorded(w)
  <2> SUFFICES ASSUME NEW i \in 1 .. Len(before), Lines[i] = w PROVE FALSE
    BY <1>5 DEF Recorded
  <2>1. ledger # NoFile /\ Lines = ledger.lines
    BY <1>3, <1>4 DEF Lines
  <2>2. Sound(ledger) /\ i \in 1 .. Len(ledger.lines)
    BY <1>4, <2>1 DEF SInv, IInv, ReadingsAreSound
  <2> QED BY <1>1, <2>1, <2>2 DEF Sound, Published
<1> QED BY <1>2, <1>3, <1>4, <1>6, <1>7, <1>8 DEF InodeOf

LEMMA SwapSerial ==
  ASSUME SInv, IInv', NEW w \in Writers, SwapIn(w) PROVE SInv'
<1>1. /\ temp' = [temp EXCEPT ![w] = "none"] /\ Goto(w, "verify") /\ lock' = lock
      /\ UNCHANGED <<written, box, session>> /\ Recorded(w)' /\ InodeOf(ledger)' = w
      /\ \A v \in Writers : Recorded(v) => Recorded(v)'
  BY SwapAppends
<1>2. pc[w] = "swap" /\ Running(w) /\ \A t \in Writers \ {w} : temp[t] = "none"
  BY DEF SwapIn, Running, Ended, SInv, Consistent, Committing
<1>3. temp'[w] = "none" /\ \A t \in Writers \ {w} : temp'[t] = temp[t]
  BY <1>1 DEF SInv, IInv, TypeOK
<1>4. pc'[w] = "verify" /\ "verify" \in PCs
  BY <1>1, GotoTypes DEF SInv, IInv, PCs
<1>5. InodeOf(ledger') = w
  BY <1>1 DEF InodeOf
<1>6. Consistent(w)'
  BY <1>1, <1>2, <1>3, <1>4, <1>5 DEF Consistent, TempAt, Settling, AfterReading, Ended
<1>7. \A t \in Writers \ {w} : box'[t] = box[t] /\ temp'[t] = temp[t]
  BY <1>1, <1>3
<1>8. box'[w] = box[w] /\ written' = written
  BY <1>1
<1> QED BY <1>1, <1>2, <1>3, <1>4, <1>6, <1>7, <1>8, SerialStep

LEMMA VerifySerial ==
  ASSUME SInv, IInv', NEW w \in Writers, VerifyPublished(w) PROVE SInv'
<1>1. /\ pc[w] = "verify" /\ Running(w) /\ temp[w] = "none" /\ Recorded(w) /\ InodeOf(ledger) = w
      /\ UNCHANGED <<ledger, temp, written, box>>
  BY DEF VerifyPublished, SInv, Consistent, TempAt, Running, Ended
<1>2. Stop(w, "done")
  BY <1>1 DEF VerifyPublished
<1>3. pc'[w] = "done" /\ "done" \in PCs /\ Goto(w, "done") /\ Unlock(w)
  BY <1>2, GotoTypes DEF SInv, IInv, PCs, Stop
<1>4. Recorded(w)' /\ temp'[w] = "none"
  BY <1>1 DEF Recorded, Lines
<1>5. Consistent(w)'
  BY <1>3, <1>4 DEF Consistent, Settling, Committing, AfterReading, Ended
<1> QED BY <1>1, <1>3, <1>5, QuietStep

(* Under the lock every step keeps what makes leftovers settleable.      *)
LEMMA SerialInv == ASSUME Serialised PROVE SInv /\ [Next]_vars => SInv'
<1> SUFFICES ASSUME SInv, [Next]_vars PROVE SInv'
  OBVIOUS
<1>1. IInv'
  BY StepInv DEF SInv
<1>2. ASSUME NEW w \in Writers, BranchSwitched(w) PROVE SInv'
  BY <1>1, <1>2, StopStep DEF BranchSwitched, Running, Ended
<1>3. ASSUME NEW w \in Writers, CrashHelper(w) PROVE SInv'
  BY <1>1, <1>3, StopStep DEF CrashHelper, Running
<1>4. ASSUME NEW w \in Writers, KillCommand(w) PROVE FALSE
  BY <1>4 DEF KillCommand, Serialised, SInv, IInv, TypeOK
<1>5. CASE UNCHANGED vars
  <2>1. /\ ledger' = ledger /\ temp' = temp /\ written' = written /\ box' = box /\ lock' = lock
        /\ pc' = pc /\ found' = found /\ original' = original
    BY <1>5 DEF vars, session
  <2>2. \A w \in Writers : (ListIsTrue(w)' <=> ListIsTrue(w)) /\ (Recorded(w)' <=> Recorded(w))
    BY <2>1 DEF ListIsTrue, Observed, Recorded, Lines
  <2>3. \A w \in Writers : Consistent(w)'
    BY <2>1, <2>2 DEF SInv, Consistent, Ended, Token, Prov
  <2>4. \A w \in Writers : BoxIsTrue(w)'
    BY <2>1 DEF SInv, BoxIsTrue, Ended, Observed
  <2>5. Exclusive'
    BY <2>1 DEF SInv, Exclusive, Running, Ended
  <2> QED BY <1>1, <2>3, <2>4, <2>5 DEF SInv
<1> QED
  BY <1>1, <1>2, <1>3, <1>4, <1>5, BeginSerial, ListSerial, ReadSerial, SettleNextSerial,
     OpenBoxSerial, StageSerial, PublishSerial, PayloadSerial, OwnTempSerial, SwapSerial,
     VerifySerial
  DEF Next, Settle, Commit

-----------------------------------------------------------------------------
LEMMA Settleable == SInv => LeftoversAreSettleable
<1> SUFFICES ASSUME SInv PROVE LeftoversAreSettleable
  OBVIOUS
<1>1. TypeOK
  BY DEF SInv, IInv
<1>2. LinesStayWhole
  <2>1. CASE ledger = NoFile
    BY <2>1 DEF LinesStayWhole, Lines
  <2>2. CASE ledger # NoFile
    <3>1. Lines = ledger.lines /\ DOMAIN Lines = 1 .. Len(ledger.lines)
      BY <1>1, <2>2 DEF Lines, TypeOK, File
    <3> QED BY <2>2, <3>1 DEF SInv, IInv, ReadingsAreSound, Sound, LinesStayWhole
  <2> QED BY <2>1, <2>2
<1>3. OnlyStrandedSettled
  BY DEF SInv, BoxIsTrue, OnlyStrandedSettled
<1>4. StrandedRecoverable
  BY DEF SInv, BoxIsTrue, StrandedRecoverable
<1>5. RetainedIsListed
  BY DEF SInv, BoxIsTrue, RetainedIsListed, ledgerQuarantineInventory, trustedLedgerQuarantine
<1> QED BY <1>1, <1>2, <1>3, <1>4, <1>5 DEF LeftoversAreSettleable

(* Who is done: a session that has settled all there was and only recovers,*)
(* or one that finds its own file at the name of the ledger.             *)
LEMMA DoneStep ==
  ASSUME SInv, Next, NEW w \in Writers, pc[w] # "done", pc'[w] = "done"
  PROVE  \/ pc[w] = "settle" /\ found[w] = <<>> /\ w \in Recovering /\ UNCHANGED temp
         \/ pc[w] = "verify" /\ UNCHANGED temp
<1>1. PICK v \in Writers : Begin(v) \/ Settle(v) \/ Commit(v) \/ BranchSwitched(v)
                             \/ CrashHelper(v) \/ KillCommand(v)
  BY DEF Next
<1>2. pc' # pc /\ pc \in [Writers -> PCs]
  BY DEF SInv, IInv, TypeOK
<1>3. CASE Begin(v) \/ BranchSwitched(v) \/ CrashHelper(v) \/ KillCommand(v)
  BY <1>2, <1>3 DEF Begin, BranchSwitched, CrashHelper, KillCommand, Stop, Goto
<1>4. CASE Settle(v)
  BY <1>2, <1>4
  DEF Settle, ListActive, ReadOriginal, SettleNext, OpenBox, StageInventory, PublishInventory,
      MovePayload, Stop, Goto
<1>5. CASE Commit(v)
  BY <1>2, <1>5
  DEF Commit, CreateTemp, WriteTemp, RenamePrepared, CompareCurrent, StatNames, SwapIn,
      VerifyPublished, Stop, Goto
<1> QED BY <1>1, <1>3, <1>4, <1>5

LEMMA DoneIsDrained ==
  ASSUME SInv, Next, NEW w \in Writers, pc[w] # "done", pc'[w] = "done", NEW t \in Writers
  PROVE  temp'[t] = "none"
<1>1. CASE pc[w] = "settle" /\ found[w] = <<>> /\ UNCHANGED temp
  BY <1>1 DEF SInv, Consistent, Settling, ListIsTrue
<1>2. CASE pc[w] = "verify" /\ UNCHANGED temp
  BY <1>2 DEF SInv, Consistent, Committing, TempAt, Ended
<1> QED BY <1>1, <1>2, DoneStep

-----------------------------------------------------------------------------
(* What any session leaves on disk, wherever it was killed, the next one *)
(* can settle (quarantineLedgerTemp, mutateLedgerWithNativeSession): for *)
(* any number of sessions and kills, as long as all of them take the lock. *)
THEOREM LeftoversSettle == ASSUME Serialised PROVE Spec => []LeftoversAreSettleable
BY SerialInit, SerialInv, Settleable, PTL DEF Spec

(* A session that succeeds leaves nobody's temporary behind it.          *)
THEOREM DoneDrains == ASSUME Serialised PROVE Spec => SuccessDrains
<1>1. Spec => []SInv
  BY SerialInit, SerialInv, PTL DEF Spec
<1>2. SInv /\ [Next]_vars =>
        [\A w \in Writers : pc[w] # "done" /\ pc'[w] = "done"
           => \A t \in Writers : temp'[t] = "none"]_pc
  BY DoneIsDrained DEF vars
<1> QED BY <1>1, <1>2, PTL DEF Spec, SuccessDrains

(* Under the lock the ledger is append-only, as method/README.md says; the *)
(* run append_only shows that without it it is not.                      *)
THEOREM AppendOnlyUnderLock == ASSUME Serialised PROVE Spec => []RecordedStays
<1>1. SInv => RecordedStays
  BY DEF SInv, Consistent, RecordedStays, AnswerOf
<1> QED BY SerialInit, SerialInv, <1>1, PTL DEF Spec

-----------------------------------------------------------------------------
(* The refinement of LedgerLog: what each step is to the log.            *)
Answering == [w \in Writers |-> AnswerOf(w)]

LEMMA LogStarts == Init => Log!LogInit
<1> SUFFICES ASSUME Init PROVE Log!LogInit
  OBVIOUS
<1>1. Lines \in {<<>>, <<History>>}
  BY DEF Init, Lines
<1>2. \A w \in Writers : AnswerOf(w) = "none"
  BY DEF Init, AnswerOf
<1> QED BY <1>1, <1>2 DEF Log!LogInit

LEMMA SwapIsAppend ==
  ASSUME SInv, NEW w \in Writers, SwapIn(w) PROVE Log!AppendRecord(w)
<1>1. Lines' = Append(Lines, w) /\ ~Recorded(w) /\ Goto(w, "verify") /\ pc[w] = "swap"
  BY SwapAppends DEF SwapIn
<1>2. pc'[w] = "verify" /\ \A v \in Writers \ {w} : pc'[v] = pc[v]
  BY <1>1, GotoTypes DEF SInv, IInv, PCs
<1>3. AnswerOf(w) = "none" /\ AnswerOf(w)' = "none"
  BY <1>1, <1>2 DEF AnswerOf
<1>4. \A v \in Writers : AnswerOf(v)' = AnswerOf(v)
  BY <1>2, <1>3 DEF AnswerOf
<1>5. Answering' = Answering /\ Answering[w] = "none"
  BY <1>3, <1>4 DEF Answering
<1>6. ~Log!Logged(w)
  BY <1>1 DEF Log!Logged, Recorded
<1> QED BY <1>1, <1>5, <1>6 DEF Log!AppendRecord, Answering

(* A session that moves on without touching the ledger is no step of the *)
(* log; one that ends answers.                                           *)
LEMMA StaysSilent ==
  ASSUME SInv, NEW w \in Writers, NEW label \in PCs, Goto(w, label), UNCHANGED ledger,
         pc[w] \notin {"done", "failed", "uncertain", "crashed"},
         label \notin {"failed", "uncertain", "crashed"},
         label = "done" => w \in Recovering
  PROVE  UNCHANGED <<Lines, Answering>>
<1>1. pc'[w] = label /\ \A v \in Writers \ {w} : pc'[v] = pc[v]
  BY GotoTypes DEF SInv, IInv
<1>2. \A v \in Writers : AnswerOf(v)' = AnswerOf(v)
  BY <1>1 DEF AnswerOf
<1> QED BY <1>2 DEF Answering, Lines

LEMMA Answers ==
  ASSUME SInv, NEW w \in Writers, NEW label \in {"done", "failed", "uncertain", "crashed"},
         Goto(w, label), UNCHANGED ledger, Running(w),
         label = "done" => w \notin Recovering /\ Recorded(w),
         label = "failed" => ~Recorded(w)
  PROVE  Log!Answer(w)
<1> DEFINE answer == IF label = "done" THEN "recorded"
                     ELSE IF label = "failed" THEN "failed" ELSE "unknown"
<1>1. pc'[w] = label /\ \A v \in Writers \ {w} : pc'[v] = pc[v]
  BY GotoTypes DEF SInv, IInv, PCs
<1>2. AnswerOf(w) = "none" /\ AnswerOf(w)' = answer
  BY <1>1 DEF AnswerOf, Running, Ended
<1>3. \A v \in Writers \ {w} : AnswerOf(v)' = AnswerOf(v)
  BY <1>1 DEF AnswerOf
<1> HIDE DEF answer
<1>4. Answering' = [Answering EXCEPT ![w] = answer] /\ Answering[w] = "none"
  BY <1>2, <1>3 DEF Answering
<1>5. UNCHANGED Lines /\ (Log!Logged(w) <=> Recorded(w))
  BY DEF Lines, Log!Logged, Recorded
<1> QED BY <1>4, <1>5 DEF Log!Answer, Answering, answer

LEMMA StopAnswers ==
  ASSUME SInv, SInv', NEW w \in Writers, NEW label \in {"failed", "uncertain", "crashed"},
         Stop(w, label), UNCHANGED ledger, Running(w)
  PROVE  Log!Answer(w)
<1>1. Goto(w, label) /\ pc'[w] = label
  BY GotoTypes DEF Stop, SInv, IInv, PCs
<1>2. label = "failed" => ~Recorded(w)
  <2> SUFFICES ASSUME label = "failed", Recorded(w) PROVE FALSE
    OBVIOUS
  <2>1. Lines' = Lines /\ Recorded(w)'
    BY DEF Lines, Recorded
  <2>2. ledger # NoFile /\ Lines = ledger.lines
    BY DEF Recorded, Lines
  <2>3. \E i \in 1 .. Len(ledger.lines) : ledger.lines[i] = w
    <3>1. DOMAIN Lines = 1 .. Len(ledger.lines)
      BY <2>2 DEF SInv, IInv, TypeOK, File
    <3> QED BY <2>2, <3>1 DEF Recorded
  <2>4. Sound(ledger)'
    BY DEF SInv, IInv, ReadingsAreSound
  <2> QED BY <1>1, <2>2, <2>3, <2>4 DEF Sound, Published
<1> QED BY <1>1, <1>2, Answers

LEMMA LogSteps ==
  ASSUME SInv, SInv', Serialised, [Next]_vars
  PROVE  Log!LogNext \/ UNCHANGED <<Lines, Answering>>
<1>1. ASSUME NEW w \in Writers, Begin(w) PROVE UNCHANGED <<Lines, Answering>>
  BY <1>1, StaysSilent DEF Begin, PCs
<1>2. ASSUME NEW w \in Writers, KillCommand(w) PROVE FALSE
  BY <1>2 DEF KillCommand, Serialised, SInv, IInv, TypeOK
<1>3. ASSUME NEW w \in Writers, CrashHelper(w) \/ BranchSwitched(w) PROVE Log!Answer(w)
  BY <1>3, StopAnswers DEF CrashHelper, BranchSwitched, Running, Ended
<1>4. ASSUME NEW w \in Writers, Settle(w)
      PROVE  Log!Answer(w) \/ UNCHANGED <<Lines, Answering>>
  <2>1. UNCHANGED ledger /\ Running(w) /\ pc[w] \notin {"done", "failed", "uncertain", "crashed"}
    BY <1>4 DEF Settle, ListActive, ReadOriginal, SettleNext, OpenBox, StageInventory,
                PublishInventory, MovePayload, Running, Ended
  <2>2. \/ Stop(w, "failed")
        \/ w \in Recovering /\ Stop(w, "done")
        \/ \E label \in {"snapshot", "settle", "box", "stage", "publish", "payload", "prepare"} :
             Goto(w, label)
    BY <1>4 DEF Settle, ListActive, ReadOriginal, SettleNext, OpenBox, StageInventory,
                PublishInventory, MovePayload
  <2>3. CASE Stop(w, "failed")
    BY <2>1, <2>3, StopAnswers
  <2>4. CASE w \in Recovering /\ Stop(w, "done")
    BY <2>1, <2>4, StaysSilent DEF Stop, PCs
  <2>5. CASE \E label \in {"snapshot", "settle", "box", "stage", "publish", "payload", "prepare"} :
               Goto(w, label)
    BY <2>1, <2>5, StaysSilent DEF PCs
  <2> QED BY <2>2, <2>3, <2>4, <2>5
<1>5. ASSUME NEW w \in Writers,
             \/ CreateTemp(w) \/ WriteTemp(w) \/ RenamePrepared(w) \/ CompareCurrent(w)
             \/ StatNames(w)
      PROVE  Log!Answer(w) \/ UNCHANGED <<Lines, Answering>>
  <2>1. UNCHANGED ledger /\ Running(w) /\ pc[w] \notin {"done", "failed", "uncertain", "crashed"}
    BY <1>5 DEF CreateTemp, WriteTemp, RenamePrepared, CompareCurrent, StatNames, Running, Ended
  <2>2. \/ Stop(w, "failed")
        \/ \E label \in {"write", "rename", "compare", "commit", "swap"} : Goto(w, label)
    BY <1>5 DEF CreateTemp, WriteTemp, RenamePrepared, CompareCurrent, StatNames
  <2>3. CASE Stop(w, "failed")
    BY <2>1, <2>3, StopAnswers
  <2>4. CASE \E label \in {"write", "rename", "compare", "commit", "swap"} : Goto(w, label)
    BY <2>1, <2>4, StaysSilent DEF PCs
  <2> QED BY <2>2, <2>3, <2>4
<1>6. ASSUME NEW w \in Writers, VerifyPublished(w)
      PROVE  Log!Answer(w) \/ UNCHANGED <<Lines, Answering>>
  <2>1. /\ UNCHANGED ledger /\ Running(w) /\ Recorded(w) /\ InodeOf(ledger) = w
        /\ pc[w] \notin {"done", "failed", "uncertain", "crashed"}
    BY <1>6 DEF VerifyPublished, Running, Ended, SInv, Consistent
  <2>2. Goto(w, "done") /\ "done" \in PCs
    BY <1>6, <2>1 DEF VerifyPublished, Stop, PCs
  <2>3. CASE w \in Recovering
    BY <2>1, <2>2, <2>3, StaysSilent
  <2>4. CASE w \notin Recovering
    BY <2>1, <2>2, <2>4, Answers
  <2> QED BY <2>3, <2>4
<1>7. CASE UNCHANGED vars
  BY <1>7 DEF vars, Lines, Answering, AnswerOf
<1> QED BY <1>1, <1>2, <1>3, <1>4, <1>5, <1>6, <1>7, SwapIsAppend DEF Next, Commit, Log!LogNext

(* With the lock, the sessions together are an append-only log whose     *)
(* answers are true, whichever helper is killed at whichever step.       *)
THEOREM TransactionsAreALog == ASSUME Serialised PROVE Spec => ImplementsLog
<1>1. Spec => []SInv
  BY SerialInit, SerialInv, PTL DEF Spec
<1>2. SInv /\ SInv' /\ [Next]_vars => [Log!LogNext]_(Log!logVars)
  BY LogSteps DEF Log!logVars, Answering
<1> QED BY LogStarts, <1>1, <1>2, PTL DEF Spec, ImplementsLog, Log!LogSpec
=============================================================================
