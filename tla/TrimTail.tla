------------------------------- MODULE TrimTail -------------------------------
(***************************************************************************)
(* In-place trimming of a damaged block log (log-repair's tail/trim.rs):   *)
(* trim-tail, resume-tail-trim and its --rollback, and the saved           *)
(* inspection, over the log, its index and the journal directories.  The   *)
(* process may stop after any step, by an error or a kill; power may fail, *)
(* losing what was not synced; something else may write to the files.      *)
(*                                                                         *)
(* The bytes of a file up to the cut are its prefix, `TailLen` bytes after *)
(* it its tail.  Only identity matters of contents: `body` names the bytes *)
(* a file holds, and a foreign write gives it a new one.  A file cut       *)
(* within its tail has the same cut: the first entry that fails to parse   *)
(* fails still.  Publishing a journal file (`atomic_file`) is one step, as *)
(* nothing depends on what happens between its link and the sync of the    *)
(* directory.                                                              *)
(***************************************************************************)
EXTENDS Integers, Sequences, FiniteSets

CONSTANTS
    Journals,      \* names of journal directories
    None,          \* no journal
    TailLen,       \* bytes after the cut of the log and of the index
    TornWrites,    \* a filesystem may show garbage where an unsynced write was
    MaxPowerLoss,  \* bound: power losses
    MaxForeign     \* bound: foreign writes

Files == {"log", "index"}

ASSUME TrimAssumption ==
    /\ TailLen \in [Files -> Nat]
    /\ None \notin Journals
    /\ TornWrites \in BOOLEAN
    /\ MaxPowerLoss \in Nat
    /\ MaxForeign \in Nat

(* The files of a new journal in the order `prepare_inspected` publishes    *)
(* them: lock, log.tail, index.tail, intent.json, intent.sha256.            *)
Artifacts == 5

Mixed == 0     \* the body of a file with saved bytes written onto others

VARIABLES
    body,          \* file :> the bytes it holds, the original ones being 1
    size,          \* file :> tail bytes present
    synced,        \* file :> tail bytes present if power fails
    made,          \* the journal directories that exist
    published,     \* journal :> how many of its artifacts are published
    saved,         \* journal :> the bodies its hashes are of
    tail,          \* journal :> the lengths of the tails it saves
    rollbackIntent, receipt, rollbackReceipt,   \* the journals with these markers
    inspected,     \* the files unchanged since the saved inspection
    inspection,    \* the bodies it inspected; empty without one of this boot
    pc, journal, rollback, turn,   \* the process: step, journal, --rollback, file
    seen,          \* the files unchanged since the process took their stamps
    cut,           \* observer: what was truncated, <<file, body, bytes>>
    bodies,        \* how many bodies there have been
    losses, writes \* power losses and foreign writes so far

target == <<body, size, synced>>
dirs == <<made, published, saved, tail, rollbackIntent, receipt, rollbackReceipt>>
checkpoint == <<inspected, inspection>>
process == <<pc, journal, rollback, turn, seen>>
world == <<bodies, losses, writes>>
vars == <<target, dirs, checkpoint, process, cut, world>>

Nothing == [f \in Files |-> 0]

Init ==
    /\ body = [f \in Files |-> 1]
    /\ size = TailLen
    /\ synced = TailLen
    /\ made = {}
    /\ published = [j \in Journals |-> 0]
    /\ saved = [j \in Journals |-> Nothing]
    /\ tail = [j \in Journals |-> Nothing]
    /\ rollbackIntent = {} /\ receipt = {} /\ rollbackReceipt = {}
    /\ inspected = {}
    /\ inspection = Nothing
    /\ pc = "none" /\ journal = None /\ rollback = FALSE /\ turn = "log" /\ seen = {}
    /\ cut = {}
    /\ bodies = 1 /\ losses = 0 /\ writes = 0

TypeOK ==
    /\ body \in [Files -> Nat]
    /\ size \in [Files -> Nat] /\ \A f \in Files : size[f] <= TailLen[f]
    /\ synced \in [Files -> Nat] /\ \A f \in Files : synced[f] <= TailLen[f]
    /\ made \subseteq Journals
    /\ published \in [Journals -> 0..Artifacts]
    /\ saved \in [Journals -> [Files -> Nat]]
    /\ tail \in [Journals -> [Files -> Nat]]
    /\ \A j \in Journals : \A f \in Files : tail[j][f] <= TailLen[f]
    /\ rollbackIntent \subseteq Journals
    /\ receipt \subseteq Journals
    /\ rollbackReceipt \subseteq Journals
    /\ inspected \subseteq Files
    /\ inspection \in [Files -> Nat]
    /\ pc \in {"none", "inspect", "scan", "publish", "mark", "write", "sync", "verify"}
    /\ journal \in Journals \cup {None}
    /\ rollback \in BOOLEAN
    /\ turn \in Files
    /\ seen \subseteq Files
    /\ cut \subseteq Files \X Nat \X Nat
    /\ bodies \in Nat
    /\ losses \in Nat
    /\ writes \in Nat

-----------------------------------------------------------------------------
(* `Journal::load` accepts a journal whose intent checksum was published:  *)
(* the artifacts before it are then complete.                              *)
Committed(j) == published[j] = Artifacts

(* `unchanged`: the live stamps (ctime included) of both files are those   *)
(* the process knows.                                                      *)
Unchanged == seen = Files

(* A file changes: the stamp in a saved inspection is no longer its own.   *)
Touch(f) == inspected' = inspected \ {f}

(* A mutant: a file half restored is refused even by a rollback. *)
CheckedStateWhole(f, j, partial) ==
    /\ body[f] = saved[j][f]
    /\ size[f] \in {0, tail[j][f]}

(* `checked_state`: the prefix and the tail bytes present are the saved    *)
(* ones, and the length is one the operation leaves.                       *)
CheckedState(f, j, partial) ==
    /\ body[f] = saved[j][f]
    /\ size[f] <= tail[j][f]
    /\ partial \/ size[f] \in {0, tail[j][f]}

(* Trimming cuts the log first, a rollback restores the index first. *)
FirstTurn(rb) == IF rb THEN "index" ELSE "log"
LastTurn(rb) == IF rb THEN "log" ELSE "index"

(* The length an operation is to leave. *)
Goal(f) == IF rollback THEN tail[journal][f] ELSE 0

Exit == pc' = "none" /\ journal' = None /\ rollback' = FALSE /\ turn' = "log" /\ seen' = {}

-----------------------------------------------------------------------------
(* inspect --save-inspection: stamps, the scan, stamps again, then the     *)
(* checkpoint.  There has to be something to trim (`trim_geometry`).       *)
InspectBegin ==
    /\ pc = "none" /\ inspection = Nothing
    /\ pc' = "inspect"
    /\ seen' = Files
    /\ UNCHANGED <<target, dirs, checkpoint, journal, rollback, turn, cut, world>>

InspectSave ==
    /\ pc = "inspect"
    /\ IF Unchanged /\ size # Nothing
       THEN inspected' = Files /\ inspection' = body
       ELSE UNCHANGED checkpoint
    /\ Exit
    /\ UNCHANGED <<target, dirs, cut, world>>

-----------------------------------------------------------------------------
(* trim-tail with an unused journal name: the input is scanned, from its   *)
(* stamps on.                                                              *)
Run(j) ==
    /\ pc = "none" /\ j \notin made
    /\ pc' = "scan"
    /\ journal' = j
    /\ seen' = Files
    /\ UNCHANGED <<target, dirs, checkpoint, rollback, turn, cut, world>>

(* The directory of a journal for what the scan, old or new, has seen. *)
CreateJournal(j, scanned) ==
    /\ made' = made \cup {j}
    /\ saved' = [saved EXCEPT ![j] = scanned]
    /\ tail' = [tail EXCEPT ![j] = size]
    /\ UNCHANGED <<published, rollbackIntent, receipt, rollbackReceipt>>

(* The tails are read, and nothing may have changed since the stamps. *)
Scanned ==
    /\ pc = "scan"
    /\ IF Unchanged /\ size # Nothing
       THEN /\ CreateJournal(journal, body)
            /\ pc' = "publish"
            /\ UNCHANGED <<journal, rollback, turn, seen>>
       ELSE Exit /\ UNCHANGED dirs
    /\ UNCHANGED <<target, checkpoint, cut, world>>

(* trim-tail reusing an inspection of this boot: its stamps must be the    *)
(* files' own, and its hashes, of a prefix not read again, are taken over. *)
RunInspected(j) ==
    /\ pc = "none" /\ j \notin made
    /\ inspection # Nothing
    /\ inspected = Files
    /\ CreateJournal(j, inspection)
    /\ pc' = "publish"
    /\ journal' = j
    /\ seen' = inspected
    /\ UNCHANGED <<target, checkpoint, rollback, turn, cut, world>>

Publish ==
    /\ pc = "publish" /\ ~Committed(journal)
    /\ published' = [published EXCEPT ![journal] = @ + 1]
    /\ UNCHANGED <<target, made, saved, tail, rollbackIntent, receipt, rollbackReceipt, checkpoint,
                   process, cut, world>>

(* The journal is loaded back and the files looked at again before the     *)
(* first cut.                                                              *)
Prepared ==
    /\ pc = "publish" /\ Committed(journal)
    /\ IF Unchanged
       THEN pc' = "write" /\ turn' = FirstTurn(FALSE) /\ UNCHANGED <<journal, rollback, seen>>
       ELSE Exit
    /\ UNCHANGED <<target, dirs, checkpoint, cut, world>>

(* resume-tail-trim: no trim once a rollback was started.  A journal whose *)
(* receipt exists is only checked.                                         *)
Resume(j, rb) ==
    /\ pc = "none" /\ Committed(j)
    /\ rb \/ j \notin rollbackIntent
    /\ \A f \in Files : CheckedState(f, j, j \in rollbackIntent)
    /\ j \notin (IF rb THEN rollbackReceipt ELSE receipt)
    /\ journal' = j
    /\ rollback' = rb
    /\ seen' = Files
    /\ turn' = FirstTurn(rb)
    /\ pc' = IF rb /\ j \notin rollbackIntent THEN "mark" ELSE "write"
    /\ UNCHANGED <<target, dirs, checkpoint, cut, world>>

(* rollback-intent.json comes before the first byte restored. *)
MarkRollback ==
    /\ pc = "mark"
    /\ rollbackIntent' = rollbackIntent \cup {journal}
    /\ pc' = "write"
    /\ UNCHANGED <<target, made, published, saved, tail, receipt, rollbackReceipt, checkpoint,
                   journal, rollback, turn, seen, cut, world>>

-----------------------------------------------------------------------------
(* A mutant: the stamps are not looked at again before the cut. *)
TrimBlindly ==
    /\ pc = "write" /\ ~rollback
    /\ IF size[turn] # 0
       THEN /\ size' = [size EXCEPT ![turn] = 0]
            /\ cut' = cut \cup {<<turn, body[turn], size[turn]>>}
            /\ Touch(turn)
       ELSE UNCHANGED <<size, cut, inspected>>
    /\ pc' = "sync"
    /\ UNCHANGED <<body, synced, dirs, inspection, journal, rollback, turn, seen, world>>

(* `set_len` of the file whose turn it is. *)
Trim ==
    /\ pc = "write" /\ ~rollback /\ Unchanged
    /\ IF size[turn] # 0
       THEN /\ size' = [size EXCEPT ![turn] = 0]
            /\ cut' = cut \cup {<<turn, body[turn], size[turn]>>}
            /\ Touch(turn)
       ELSE UNCHANGED <<size, cut, inspected>>
    /\ pc' = "sync"
    /\ UNCHANGED <<body, synced, dirs, inspection, journal, rollback, turn, seen, world>>

(* `write_extent` of the missing bytes: one write that is never retried;   *)
(* a short one is synced too and ends the process in Sync.                 *)
Restore ==
    /\ pc = "write" /\ rollback /\ Unchanged
    /\ IF size[turn] < Goal(turn)
       THEN \E n \in size[turn] + 1 .. Goal(turn) :
               /\ size' = [size EXCEPT ![turn] = n]
               /\ body' = [body EXCEPT ![turn] =
                              IF @ = saved[journal][turn] THEN @ ELSE Mixed]
               /\ Touch(turn)
       ELSE UNCHANGED <<size, body, inspected>>
    /\ pc' = "sync"
    /\ UNCHANGED <<synced, dirs, inspection, journal, rollback, turn, seen, cut, world>>

(* A mutant: one sync of both files at the end. *)
SyncAtTheEnd ==
    /\ pc = "sync"
    /\ synced' = IF turn = LastTurn(rollback) THEN size ELSE synced
    /\ IF size[turn] = Goal(turn) /\ Files \ {turn} \subseteq seen
       THEN /\ seen' = Files
            /\ pc' = IF turn = LastTurn(rollback) THEN "verify" ELSE "write"
            /\ turn' = LastTurn(rollback)
            /\ UNCHANGED <<journal, rollback>>
       ELSE Exit
    /\ UNCHANGED <<body, size, dirs, checkpoint, cut, world>>

(* `sync_all`, changed or not; the length is looked at, the other file's   *)
(* stamp compared and this one's taken anew.  Then it is the other file's  *)
(* turn, or time to read both back.                                        *)
Sync ==
    /\ pc = "sync"
    /\ synced' = [synced EXCEPT ![turn] = size[turn]]
    /\ IF size[turn] = Goal(turn) /\ Files \ {turn} \subseteq seen
       THEN /\ seen' = Files
            /\ pc' = IF turn = LastTurn(rollback) THEN "verify" ELSE "write"
            /\ turn' = LastTurn(rollback)
            /\ UNCHANGED <<journal, rollback>>
       ELSE Exit
    /\ UNCHANGED <<body, size, dirs, checkpoint, cut, world>>

(* A mutant: the receipt goes by the stamps alone. *)
PublishReceiptUnread ==
    /\ pc = "verify"
    /\ IF Unchanged /\ \A f \in Files : size[f] = Goal(f)
       THEN IF rollback
            THEN rollbackReceipt' = rollbackReceipt \cup {journal} /\ UNCHANGED receipt
            ELSE receipt' = receipt \cup {journal} /\ UNCHANGED rollbackReceipt
       ELSE UNCHANGED <<receipt, rollbackReceipt>>
    /\ Exit
    /\ UNCHANGED <<target, made, published, saved, tail, rollbackIntent, checkpoint, cut, world>>

(* Both files are read back and compared with the journal; the receipt. *)
PublishReceipt ==
    /\ pc = "verify"
    /\ IF Unchanged /\ \A f \in Files : body[f] = saved[journal][f] /\ size[f] = Goal(f)
       THEN IF rollback
            THEN rollbackReceipt' = rollbackReceipt \cup {journal} /\ UNCHANGED receipt
            ELSE receipt' = receipt \cup {journal} /\ UNCHANGED rollbackReceipt
       ELSE UNCHANGED <<receipt, rollbackReceipt>>
    /\ Exit
    /\ UNCHANGED <<target, made, published, saved, tail, rollbackIntent, checkpoint, cut, world>>

-----------------------------------------------------------------------------
(* A failed check, an error of the operating system, a kill. *)
Stop ==
    /\ pc # "none"
    /\ Exit
    /\ UNCHANGED <<target, dirs, checkpoint, cut, world>>

(* The lengths a power loss may leave: a truncation is undone or not, an   *)
(* extension cut anywhere.                                                 *)
Left(f) == {size[f]} \cup synced[f]..size[f] \cup {synced[f]}

(* Power fails; with it goes the boot identity the inspection was for. *)
PowerLoss ==
    /\ losses < MaxPowerLoss
    /\ losses' = losses + 1
    /\ \E log \in Left("log") : \E index \in Left("index") :
          size' = [f \in Files |-> IF f = "log" THEN log ELSE index]
    /\ synced' = size'
    /\ \E garbled \in SUBSET {f \in Files : TornWrites /\ size'[f] > synced[f]} :
          /\ body' = [f \in Files |-> IF f \in garbled THEN bodies + 1 ELSE body[f]]
          /\ bodies' = bodies + 1
    /\ inspected' = {} /\ inspection' = Nothing
    /\ Exit
    /\ UNCHANGED <<dirs, cut, writes>>

(* Something else writes to a file, and it stays written. *)
ForeignWrite(f) ==
    /\ writes < MaxForeign
    /\ writes' = writes + 1
    /\ bodies' = bodies + 1
    /\ body' = [body EXCEPT ![f] = bodies + 1]
    /\ \E n \in 0..TailLen[f] :
          /\ size' = [size EXCEPT ![f] = n]
          /\ synced' = [synced EXCEPT ![f] = n]
    /\ Touch(f)
    /\ seen' = seen \ {f}
    /\ UNCHANGED <<dirs, inspection, pc, journal, rollback, turn, cut, losses>>

Begin ==
    \/ InspectBegin
    \/ \E j \in Journals : Run(j)
    \/ \E j \in Journals : RunInspected(j)
    \/ \E j \in Journals : \E rb \in BOOLEAN : Resume(j, rb)

Work ==
    \/ InspectSave
    \/ Scanned
    \/ Publish
    \/ Prepared
    \/ MarkRollback
    \/ Trim
    \/ Restore
    \/ Sync
    \/ PublishReceipt

Next ==
    \/ Begin
    \/ Work
    \/ Stop
    \/ PowerLoss
    \/ \E f \in Files : ForeignWrite(f)

Spec == Init /\ [][Next]_vars

-----------------------------------------------------------------------------
(* No byte is lost: whatever truncation of whatever run removed is in a    *)
(* journal that `Journal::load` accepts (prepare_inspected commits the     *)
(* journal, then `unchanged` is asked, then set_len).                      *)
SavedBeforeCut ==
    \A c \in cut : \E j \in Journals :
        Committed(j) /\ saved[j][c[1]] = c[2] /\ tail[j][c[1]] >= c[3]

(* However a run, a resume or a rollback is interrupted, by a kill or by a *)
(* power loss that undoes what was not synced, the index of the original   *)
(* pair has an entry for every block the log has (log before index when    *)
(* trimming, index before log when restoring, a sync between the two).     *)
IndexCoversLog ==
    (\A f \in Files : body[f] = 1) /\ size["log"] > 0 => size["index"] = TailLen["index"]

(* A rollback never writes saved bytes onto a file that is not the one     *)
(* they were cut from (`checked_state`, and `unchanged` before the write). *)
OnlySavedBytes == \A f \in Files : body[f] # Mixed

(* A receipt is published only when the files are durably what it says.    *)
ReceiptsTrue ==
    [][/\ \A j \in receipt' \ receipt : synced = Nothing /\ body = saved[j]
       /\ \A j \in rollbackReceipt' \ rollbackReceipt : synced = tail[j] /\ body = saved[j]]_vars

(* Once something was cut there is always a journal whose rollback the     *)
(* tool accepts, at whatever point runs were stopped or power failed, as   *)
(* long as nothing else wrote to the files and no unsynced write was       *)
(* garbled (`checked_state` and its `partial`).                            *)
AWayBack ==
    cut # {} /\ (\A f \in Files : body[f] = 1) =>
        \E j \in Journals :
            /\ Committed(j)
            /\ \A f \in Files : CheckedState(f, j, j \in rollbackIntent)

-----------------------------------------------------------------------------
(* The inductive invariant: what a process knows of its journal and of the *)
(* files at each of its steps, and what a journal and the disk hold.       *)
Working == pc \in {"publish", "mark", "write", "sync", "verify"}

(* Where a process is, and how far its journal has come. *)
ProcessInv ==
    /\ pc \in {"none", "inspect", "scan", "publish"} => rollback = FALSE /\ turn = "log"
    /\ pc = "scan" => journal \in Journals \ made
    /\ Working => journal \in made
    /\ pc \in {"mark", "write", "sync", "verify"} => published[journal] = Artifacts
    /\ pc = "mark" => rollback = TRUE /\ turn = "index"
    /\ pc = "verify" => turn = LastTurn(rollback)

(* A journal of the original pair that saves log bytes saves the whole     *)
(* tail of the index; one that was not made has published nothing.         *)
JournalInv ==
    \A j \in Journals :
        /\ j \notin made => published[j] = 0
        /\ saved[j]["log"] = 1 /\ saved[j]["index"] = 1 /\ tail[j]["log"] > 0
              => tail[j]["index"] = TailLen["index"]

InspectInv == \A f \in inspected : inspection[f] = body[f]

(* A file with an unchanged stamp, and not yet written to, is as saved. *)
SeenInv ==
    Working /\ pc # "verify" =>
        \A f \in seen :
            f = turn \/ turn = FirstTurn(rollback) =>
                body[f] = saved[journal][f] /\ size[f] <= tail[journal][f]

(* The journal of a process is of the original file if the file is. *)
OriginalInv == Working => \A f \in Files : body[f] = 1 => saved[journal][f] = 1

(* The file that was written first is synced, and has its new length if it *)
(* is still the original one.                                              *)
SyncedInv ==
    /\ pc \in {"write", "sync"} /\ turn = LastTurn(rollback) =>
          /\ synced[FirstTurn(rollback)] = size[FirstTurn(rollback)]
          /\ body[FirstTurn(rollback)] = 1 =>
                size[FirstTurn(rollback)] = Goal(FirstTurn(rollback))
    /\ pc = "verify" => synced = size

BodyInv == bodies >= 1 /\ OnlySavedBytes

(* `IndexCoversLog`, of what is on disk as well as of what was written. *)
CoverInv ==
    body["log"] = 1 /\ body["index"] = 1 /\ (size["log"] > 0 \/ synced["log"] > 0) =>
        size["index"] = TailLen["index"] /\ synced["index"] = TailLen["index"]

IInv ==
    /\ TypeOK
    /\ ProcessInv
    /\ JournalInv
    /\ InspectInv
    /\ SeenInv
    /\ OriginalInv
    /\ SyncedInv
    /\ BodyInv
    /\ CoverInv
    /\ SavedBeforeCut
=============================================================================
