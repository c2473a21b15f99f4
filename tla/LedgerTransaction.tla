-------------------------- MODULE LedgerTransaction --------------------------
(***************************************************************************)
(* One ledger mutation as the native helper carries it out                 *)
(* (mutateLedgerWithNativeSession and quarantineLedgerTemp in              *)
(* cli/ledger.mjs): settle what interrupted transactions left in .stdd,    *)
(* copy the ledger plus the new records into a private temporary, and      *)
(* rename that over ledger.jsonl.                                          *)
(*                                                                         *)
(* A writer is one such session.  Most run in a child of the command that  *)
(* holds the ledger lock; the publishers of cli/worker.mjs run it without  *)
(* the lock (LockFree).  The helper may be killed at any point, and so may *)
(* the command, whose lock then counts as abandoned although its helper    *)
(* goes on.  A writer's name stands for its random token, for the inode it *)
(* creates and for the records it appends.                                 *)
(***************************************************************************)
EXTENDS Naturals, Sequences, FiniteSets, SequencesExt

CONSTANTS
  Writers,     \* helper sessions
  LockFree,    \* those that run without the ledger lock
  Recovering,  \* those with no records to append: recovery only
  NoFile,      \* an absent file
  History,     \* the line an existing ledger begins with
  MaxLines,    \* the largest ledger a transaction may publish
  MaxCrashes,  \* bound: helpers killed
  MaxOrphans   \* bound: commands killed while their helper runs

ASSUME WriterAssumption ==
  /\ IsFiniteSet(Writers)
  /\ LockFree \subseteq Writers
  /\ Recovering \subseteq Writers
  /\ History \notin Writers
  /\ "torn" \notin Writers \union {History}
  /\ NoFile \notin Writers \union {History}
  /\ MaxLines \in Nat
  /\ MaxCrashes \in Nat
  /\ MaxOrphans \in Nat

VARIABLES
  ledger,    \* ledger.jsonl: NoFile, or its inode, lines and final newline
  temp,      \* temp[t]: the name t's temporary has in .stdd, if any
  written,   \* the writers whose temporary has its full content
  box,       \* box[t]: the retained quarantine directory for token t
  lock,      \* the writer whose command holds the ledger lock
  pc,        \* where the session stands
  found,     \* found[w]: the active temporaries w listed and has yet to settle
  original,  \* original[w]: the ledger as w read it first
  crashes, orphans

vars == <<ledger, temp, written, box, lock, pc, found, original, crashes, orphans>>

session == <<found, original>>
budget == <<crashes, orphans>>

Names == {"none", "reset", "prepared"}
Provenance == [phase : {"reset", "prepared"}, full : BOOLEAN]
File == [inode : Writers \union {History}, lines : Seq(Writers \union {History, "torn"}),
         ended : BOOLEAN]
Box == [staged : Provenance \union {NoFile}, inventory : Provenance \union {NoFile},
        payload : BOOLEAN]

ASSUME NoFileAssumption == NoFile \notin File \union Provenance \union Box

PCs == {"idle", "list", "snapshot", "settle", "box", "stage", "publish", "payload",
        "prepare", "write", "rename", "compare", "commit", "swap", "verify",
        "done", "failed", "uncertain", "crashed"}

TypeOK ==
  /\ ledger \in File \union {NoFile}
  /\ temp \in [Writers -> Names]
  /\ written \subseteq Writers
  /\ box \in [Writers -> Box \union {NoFile}]
  /\ lock \in Writers \union {NoFile}
  /\ pc \in [Writers -> PCs]
  /\ found \in [Writers -> Seq([token : Writers, prov : Provenance])]
  /\ original \in [Writers -> File \union {NoFile}]
  /\ crashes \in 0 .. MaxCrashes
  /\ orphans \in 0 .. MaxOrphans

(* No ledger yet, or one whose last line an editor or an old release may   *)
(* have left without its newline.                                          *)
Init ==
  /\ ledger \in {NoFile} \union
       [inode : {History}, lines : {<<History>>}, ended : BOOLEAN]
  /\ temp = [w \in Writers |-> "none"]
  /\ written = {}
  /\ box = [w \in Writers |-> NoFile]
  /\ lock = NoFile
  /\ pc = [w \in Writers |-> "idle"]
  /\ found = [w \in Writers |-> <<>>]
  /\ original = [w \in Writers |-> NoFile]
  /\ crashes = 0
  /\ orphans = 0

Goto(w, label) == pc' = [pc EXCEPT ![w] = label]

Ended(w) == pc[w] \in {"done", "failed", "uncertain", "crashed"}

(* A slip: the lock is released on success only.                           *)
UnlockWhenDone(w) == lock' = IF lock = w /\ pc'[w] = "done" THEN NoFile ELSE lock

(* A session that stops gives its command's lock back.                     *)
Unlock(w) == lock' = IF lock = w THEN NoFile ELSE lock

Stop(w, outcome) == Goto(w, outcome) /\ Unlock(w)

-----------------------------------------------------------------------------
Begin(w) ==
  /\ pc[w] = "idle"
  /\ IF w \in LockFree THEN UNCHANGED lock
     ELSE lock = NoFile /\ lock' = w
  /\ Goto(w, "list")
  /\ UNCHANGED <<ledger, temp, written, box, session, budget>>

Observed(t) == [token |-> t, prov |-> [phase |-> temp[t], full |-> t \in written]]

(* The listing is sorted by name; tokens are random, so any order does.    *)
ListActive(w) ==
  /\ pc[w] = "list"
  /\ \E order \in SetToSeqs({t \in Writers : temp[t] # "none"}) :
       found' = [found EXCEPT ![w] = [i \in DOMAIN order |-> Observed(order[i])]]
  /\ Goto(w, "snapshot")
  /\ UNCHANGED <<ledger, temp, written, box, lock, original, budget>>

ReadOriginal(w) ==
  /\ pc[w] = "snapshot"
  /\ original' = [original EXCEPT ![w] = ledger]
  /\ Goto(w, "settle")
  /\ UNCHANGED <<ledger, temp, written, box, lock, found, budget>>

(* A slip: a session that only recovers stops after the first temporary.   *)
SettleFirst(w) ==
  /\ pc[w] = "settle"
  /\ IF w \in Recovering THEN Stop(w, "done")
     ELSE Goto(w, IF found[w] = <<>> THEN "prepare" ELSE "box") /\ UNCHANGED lock
  /\ UNCHANGED <<ledger, temp, written, box, session, budget>>

(* Temporaries first, one after the other; then the transaction proper,    *)
(* unless this session only recovers.                                      *)
SettleNext(w) ==
  /\ pc[w] = "settle"
  /\ \/ found[w] # <<>> /\ Goto(w, "box") /\ UNCHANGED lock
     \/ found[w] = <<>> /\ w \in Recovering /\ Stop(w, "done")
     \/ found[w] = <<>> /\ w \notin Recovering /\ Goto(w, "prepare") /\ UNCHANGED lock
  /\ UNCHANGED <<ledger, temp, written, box, session, budget>>

-----------------------------------------------------------------------------
(* quarantineLedgerTemp for the first temporary still in found[w].         *)

Token(w) == Head(found[w]).token
(* A slip: a stranded temporary is taken to be complete.                   *)
ProvAssumed(w) == [phase |-> Head(found[w]).prov.phase, full |-> TRUE]

Prov(w) == Head(found[w]).prov

OpenBox(w) ==
  /\ pc[w] = "box"
  /\ box' = IF box[Token(w)] # NoFile THEN box
            ELSE [box EXCEPT ![Token(w)] =
                    [staged |-> NoFile, inventory |-> NoFile, payload |-> FALSE]]
  /\ Goto(w, "stage")
  /\ UNCHANGED <<ledger, temp, written, lock, session, budget>>

(* An inventory that is there already is kept, and must say the same; a    *)
(* staged one left behind is written over.                                 *)
StageInventory(w) ==
  /\ pc[w] = "stage"
  /\ IF box[Token(w)].inventory = NoFile
     THEN /\ box' = [box EXCEPT ![Token(w)].staged = Prov(w)]
          /\ Goto(w, "publish")
          /\ UNCHANGED lock
     ELSE /\ IF box[Token(w)].inventory = Prov(w)
             THEN Goto(w, "payload") /\ UNCHANGED lock
             ELSE Stop(w, "failed")
          /\ UNCHANGED box
  /\ UNCHANGED <<ledger, temp, written, session, budget>>

PublishInventory(w) ==
  /\ pc[w] = "publish"
  /\ LET b == box[Token(w)]
     IN  IF b.staged = NoFile \/ b.inventory # NoFile
         THEN Stop(w, "failed") /\ UNCHANGED box
         ELSE /\ box' = [box EXCEPT ![Token(w)].staged = NoFile,
                                    ![Token(w)].inventory = b.staged]
              /\ IF b.staged = Prov(w)
                 THEN Goto(w, "payload") /\ UNCHANGED lock
                 ELSE Stop(w, "failed")
  /\ UNCHANGED <<ledger, temp, written, session, budget>>

(* The temporary leaves the active namespace under the name it was listed  *)
(* with, or the rename fails.                                              *)
MovePayload(w) ==
  /\ pc[w] = "payload"
  /\ LET t == Token(w)
     IN  IF temp[t] # Prov(w).phase \/ box[t].payload
         THEN Stop(w, "failed") /\ UNCHANGED <<temp, box, found>>
         ELSE /\ temp' = [temp EXCEPT ![t] = "none"]
              /\ box' = [box EXCEPT ![t].payload = TRUE]
              /\ found' = [found EXCEPT ![w] = Tail(found[w])]
              /\ Goto(w, "settle")
              /\ UNCHANGED lock
  /\ UNCHANGED <<ledger, written, original, budget>>

-----------------------------------------------------------------------------
(* The transaction.                                                        *)

CreateTemp(w) ==
  /\ pc[w] = "prepare"
  /\ IF original[w] # NoFile /\ Len(original[w].lines) + 1 > MaxLines
     THEN Stop(w, "failed") /\ UNCHANGED temp
     ELSE /\ temp' = [temp EXCEPT ![w] = "reset"]
          /\ Goto(w, "write")
          /\ UNCHANGED lock
  /\ UNCHANGED <<ledger, written, box, session, budget>>

(* Written through the held file, wherever its name has gone.              *)
WriteTemp(w) ==
  /\ pc[w] = "write"
  /\ written' = written \union {w}
  /\ Goto(w, "rename")
  /\ UNCHANGED <<ledger, temp, box, lock, session, budget>>

RenamePrepared(w) ==
  /\ pc[w] = "rename"
  /\ IF temp[w] = "reset"
     THEN /\ temp' = [temp EXCEPT ![w] = "prepared"]
          /\ Goto(w, "compare")
          /\ UNCHANGED lock
     ELSE Stop(w, "failed") /\ UNCHANGED temp
  /\ UNCHANGED <<ledger, written, box, session, budget>>

(* Identity and bytes of the ledger must be those of the first reading.    *)
CompareCurrent(w) ==
  /\ pc[w] = "compare"
  /\ IF temp[w] = "prepared" /\ ledger = original[w]
     THEN Goto(w, "commit") /\ UNCHANGED lock
     ELSE Stop(w, "failed")
  /\ UNCHANGED <<ledger, temp, written, box, session, budget>>

InodeOf(file) == IF file = NoFile THEN NoFile ELSE file.inode

(* The helper's rename looks at both names once more ...                   *)
StatNames(w) ==
  /\ pc[w] = "commit"
  /\ IF /\ temp[w] = "prepared"
        /\ original[w] # NoFile => InodeOf(ledger) = InodeOf(original[w])
     THEN Goto(w, "swap") /\ UNCHANGED lock
     ELSE Stop(w, "failed")
  /\ UNCHANGED <<ledger, temp, written, box, session, budget>>

(* The new content: the bytes first read, a newline when the last one is   *)
(* missing, and the records.  Without that newline the first record would  *)
(* be glued to the line before it.                                         *)
WritesSeparator(file) == file.lines # <<>> /\ ~file.ended

(* A slip: the temporary holds the new records only.                       *)
ContentAlone(w) == [inode |-> w, ended |-> TRUE, lines |-> <<w>>]

Content(w) ==
  LET file == original[w]
      glued == file.lines # <<>> /\ ~file.ended /\ ~WritesSeparator(file)
  IN  [inode |-> w, ended |-> TRUE,
       lines |-> IF file = NoFile THEN <<w>>
                 ELSE Append(IF glued THEN Front(file.lines) ELSE file.lines,
                             IF glued THEN "torn" ELSE w)]

(* ... and then replaces whatever the target name holds; only an absent    *)
(* ledger is bound atomically, by the no-replace rename.                   *)
SwapIn(w) ==
  /\ pc[w] = "swap"
  /\ IF temp[w] # "prepared" \/ (original[w] = NoFile /\ ledger # NoFile)
     THEN Stop(w, "failed") /\ UNCHANGED <<ledger, temp>>
     ELSE /\ ledger' = Content(w)
          /\ temp' = [temp EXCEPT ![w] = "none"]
          /\ Goto(w, "verify")
          /\ UNCHANGED lock
  /\ UNCHANGED <<written, box, session, budget>>

(* A slip: a ledger that changed after the rename counts as a failure.     *)
VerifyOrFail(w) ==
  /\ pc[w] = "verify"
  /\ Stop(w, IF InodeOf(ledger) = w THEN "done" ELSE "failed")
  /\ UNCHANGED <<ledger, temp, written, box, session, budget>>

VerifyPublished(w) ==
  /\ pc[w] = "verify"
  /\ Stop(w, IF InodeOf(ledger) = w THEN "done" ELSE "uncertain")
  /\ UNCHANGED <<ledger, temp, written, box, session, budget>>

(* beforeCommit: the checkout may have left the branch the records are for *)
(* at each of the points where a session with records asks.                *)
BranchSwitched(w) ==
  /\ w \notin Recovering
  /\ \/ pc[w] \in {"box", "publish", "payload", "prepare", "rename", "commit"}
     \/ pc[w] = "stage" /\ box[Token(w)].inventory = NoFile
  /\ Stop(w, "failed")
  /\ UNCHANGED <<ledger, temp, written, box, session, budget>>

-----------------------------------------------------------------------------
(* The helper is killed: its command reports an unknown outcome and        *)
(* releases the lock.                                                      *)
CrashHelper(w) ==
  /\ pc[w] # "idle" /\ ~Ended(w)
  /\ crashes < MaxCrashes
  /\ crashes' = crashes + 1
  /\ Stop(w, "crashed")
  /\ UNCHANGED <<ledger, temp, written, box, session, orphans>>

(* The command is killed: the next contender finds the lock's owner dead.  *)
KillCommand(w) ==
  /\ lock = w
  /\ orphans < MaxOrphans
  /\ orphans' = orphans + 1
  /\ lock' = NoFile
  /\ UNCHANGED <<ledger, temp, written, box, pc, session, crashes>>

Settle(w) ==
  \/ ListActive(w) \/ ReadOriginal(w) \/ SettleNext(w) \/ OpenBox(w)
  \/ StageInventory(w) \/ PublishInventory(w) \/ MovePayload(w)

Commit(w) ==
  \/ CreateTemp(w) \/ WriteTemp(w) \/ RenamePrepared(w) \/ CompareCurrent(w)
  \/ StatNames(w) \/ SwapIn(w) \/ VerifyPublished(w)

Next ==
  \E w \in Writers :
    Begin(w) \/ Settle(w) \/ Commit(w) \/ BranchSwitched(w)
      \/ CrashHelper(w) \/ KillCommand(w)

Spec == Init /\ [][Next]_vars

(* The kernel runs every helper it does not kill, and a command waiting    *)
(* for the lock asks again.                                                *)
FairSpec == Spec /\ \A w \in Writers : WF_vars(Begin(w) \/ Settle(w) \/ Commit(w))

-----------------------------------------------------------------------------
(* A box is listed when it holds an inventory and its payload and nothing  *)
(* else; a box still in the making is nobody's to count on.                *)
trustedLedgerQuarantine(b) ==
  b # NoFile /\ b.staged = NoFile /\ b.inventory # NoFile /\ b.payload

ledgerQuarantineInventory == {t \in Writers : trustedLedgerQuarantine(box[t])}

Lines == IF ledger = NoFile THEN <<>> ELSE ledger.lines

Recorded(w) == \E i \in DOMAIN Lines : Lines[i] = w

(* What the command tells its caller about a session's records.            *)
AnswerOf(w) ==
  CASE pc[w] = "done" /\ w \notin Recovering -> "recorded"
    [] pc[w] = "failed"                      -> "failed"
    [] pc[w] \in {"uncertain", "crashed"}    -> "unknown"
    [] OTHER                                 -> "none"

Log == INSTANCE LedgerLog WITH log <- Lines, answer <- [w \in Writers |-> AnswerOf(w)]

(* The sessions together are an append-only log whose answers are true,    *)
(* whichever helper is killed at whichever step.                           *)
ImplementsLog == Log!LogSpec

(* method/README.md calls the ledger append-only JSONL: a record that a    *)
(* session has reported as recorded is still there whatever is published   *)
(* after it.                                                               *)
RecordedStays == \A w \in Writers : AnswerOf(w) = "recorded" => Recorded(w)

(* A writer told that nothing was recorded may retry: its record is not in *)
(* the ledger, not even after a race with writers outside the lock.        *)
FailedNotRecorded == \A w \in Writers : pc[w] = "failed" => ~Recorded(w)

(* A last line without its newline is never glued to the next record.      *)
LinesStayWhole == \A i \in DOMAIN Lines : Lines[i] # "torn"

(* Recovery takes only what an interrupted transaction left behind, never  *)
(* the temporary of one that still runs (the "stranded active temp" of     *)
(* method/reference-generated-state.md).                                   *)
OnlyStrandedSettled ==
  \A t \in Writers : box[t] # NoFile /\ box[t].payload => Ended(t)

(* "A crash leaves the exact temp recoverable": an inventory that recovery *)
(* has published for a stranded temporary still describes it, so the next  *)
(* recovery does not stop at it.                                           *)
StrandedRecoverable ==
  \A t \in Writers :
    Ended(t) /\ temp[t] # "none" /\ box[t] # NoFile /\ box[t].inventory # NoFile
      => box[t].inventory = Observed(t).prov

(* What recovery has retained, it shows: a payload never lies in a box     *)
(* that the inventory leaves out, nor beside another inventory's rest.     *)
RetainedIsListed ==
  \A t \in Writers : box[t] # NoFile /\ box[t].payload => t \in ledgerQuarantineInventory

(* What any session, alive or dead, leaves on disk is what the next one    *)
(* can settle: whole lines, strangers' files untouched, inventories true,  *)
(* and nothing of it looks like a file of the user's.                      *)
LeftoversAreSettleable ==
  TypeOK /\ LinesStayWhole /\ OnlyStrandedSettled /\ StrandedRecoverable /\ RetainedIsListed

(* A session that succeeds leaves no temporary of anybody's in the active  *)
(* transaction namespace.                                                  *)
SuccessDrains ==
  [][\A w \in Writers : pc[w] # "done" /\ pc'[w] = "done"
       => \A t \in Writers : temp'[t] = "none"]_pc

(* Every session ends and every lock is given back, although each waits    *)
(* for the one before it.                                                  *)
AllSessionsEnd == <>[](lock = NoFile /\ \A w \in Writers : Ended(w))
=============================================================================
