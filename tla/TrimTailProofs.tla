---------------------------- MODULE TrimTailProofs ----------------------------
(***************************************************************************)
(* Proofs about in-place tail trimming, for any set of journals, any tail  *)
(* lengths, any number of power losses and foreign writes, torn or not.    *)
(* `IInv` is shown to hold initially and to be kept by each action; each   *)
(* lemma has one step per group of conjuncts the action can disturb.       *)
(***************************************************************************)
EXTENDS TrimTail, TLAPS

LEMMA InitInv == Init => IInv
<1> SUFFICES ASSUME Init PROVE IInv
  OBVIOUS
<1> USE TrimAssumption DEF Files, Artifacts, Init, Nothing
<1>1. TypeOK
  <2>1. /\ body \in [Files -> Nat] /\ size \in [Files -> Nat] /\ synced \in [Files -> Nat]
        /\ \A f \in Files : size[f] <= TailLen[f] /\ synced[f] <= TailLen[f]
    OBVIOUS
  <2>2. /\ published \in [Journals -> 0..Artifacts]
        /\ saved \in [Journals -> [Files -> Nat]] /\ tail \in [Journals -> [Files -> Nat]]
        /\ \A j \in Journals : \A f \in Files : tail[j][f] <= TailLen[f]
    OBVIOUS
  <2>3. inspection \in [Files -> Nat]
    OBVIOUS
  <2> QED
    BY <2>1, <2>2, <2>3, Zenon DEF TypeOK
<1>2. ProcessInv /\ SeenInv /\ OriginalInv /\ SyncedInv
  BY DEF ProcessInv, SeenInv, OriginalInv, SyncedInv, Working
<1>3. JournalInv /\ InspectInv /\ BodyInv /\ CoverInv /\ SavedBeforeCut
  BY DEF JournalInv, InspectInv, BodyInv, OnlySavedBytes, CoverInv, SavedBeforeCut, Mixed
<1> QED
  BY <1>1, <1>2, <1>3 DEF IInv

LEMMA InspectBeginInv ==
    ASSUME IInv, InspectBegin
    PROVE  IInv'
<1> USE TrimAssumption DEF Files, InspectBegin, target, dirs, checkpoint, world
<1>1. TypeOK'
  BY DEF IInv, TypeOK
<1>2. ProcessInv' /\ SeenInv' /\ OriginalInv' /\ SyncedInv'
  BY DEF IInv, ProcessInv, SeenInv, OriginalInv, SyncedInv, Working
<1>3. JournalInv' /\ InspectInv' /\ BodyInv' /\ CoverInv' /\ SavedBeforeCut'
  BY DEF IInv, JournalInv, InspectInv, BodyInv, OnlySavedBytes, CoverInv, SavedBeforeCut, Committed
<1> QED
  BY <1>1, <1>2, <1>3 DEF IInv

LEMMA InspectSaveInv ==
    ASSUME IInv, InspectSave
    PROVE  IInv'
<1> USE TrimAssumption DEF Files, InspectSave, Exit, Unchanged, target, dirs, checkpoint, world
<1>1. TypeOK'
  BY Zenon DEF IInv, TypeOK
<1>2. ProcessInv' /\ SeenInv' /\ OriginalInv' /\ SyncedInv'
  BY DEF IInv, ProcessInv, SeenInv, OriginalInv, SyncedInv, Working
<1>3. JournalInv' /\ InspectInv' /\ BodyInv' /\ CoverInv' /\ SavedBeforeCut'
  BY DEF IInv, JournalInv, InspectInv, BodyInv, OnlySavedBytes, CoverInv, SavedBeforeCut, Committed
<1> QED
  BY <1>1, <1>2, <1>3 DEF IInv

LEMMA RunInv ==
    ASSUME IInv, NEW j \in Journals, Run(j)
    PROVE  IInv'
<1> USE TrimAssumption DEF Files, Run, target, dirs, checkpoint, world
<1>1. TypeOK'
  BY DEF IInv, TypeOK
<1>2. ProcessInv' /\ SeenInv' /\ OriginalInv' /\ SyncedInv'
  BY DEF IInv, ProcessInv, SeenInv, OriginalInv, SyncedInv, Working
<1>3. JournalInv' /\ InspectInv' /\ BodyInv' /\ CoverInv' /\ SavedBeforeCut'
  BY DEF IInv, JournalInv, InspectInv, BodyInv, OnlySavedBytes, CoverInv, SavedBeforeCut, Committed
<1> QED
  BY <1>1, <1>2, <1>3 DEF IInv

(* A new journal of files as they are: it saves the tails that are there,  *)
(* and no other journal changes.                                           *)
LEMMA CreateJournalInv ==
    ASSUME IInv, NEW j \in Journals, j \notin made,
           CreateJournal(j, body), UNCHANGED <<target, cut>>
    PROVE  /\ made' \subseteq Journals /\ j \in made'
           /\ published' = published
           /\ rollbackIntent' = rollbackIntent
           /\ receipt' = receipt /\ rollbackReceipt' = rollbackReceipt
           /\ saved' \in [Journals -> [Files -> Nat]]
           /\ tail' \in [Journals -> [Files -> Nat]]
           /\ \A i \in Journals : \A f \in Files : tail'[i][f] <= TailLen[f]
           /\ saved'[j] = body /\ tail'[j] = size
           /\ JournalInv'
           /\ SavedBeforeCut'
<1> USE TrimAssumption DEF Files, CreateJournal, target
<1>1. /\ saved' \in [Journals -> [Files -> Nat]]
      /\ saved'[j] = body
      /\ \A i \in Journals \ {j} : saved'[i] = saved[i]
  BY DEF IInv, TypeOK
<1>2. /\ tail' \in [Journals -> [Files -> Nat]]
      /\ tail'[j] = size
      /\ \A i \in Journals \ {j} : tail'[i] = tail[i]
  BY DEF IInv, TypeOK
<1>3. \A i \in Journals : \A f \in Files : tail'[i][f] <= TailLen[f]
  BY <1>2 DEF IInv, TypeOK
<1>4. JournalInv'
  <2> SUFFICES ASSUME NEW i \in Journals
               PROVE  /\ i \notin made' => published'[i] = 0
                      /\ saved'[i]["log"] = 1 /\ saved'[i]["index"] = 1 /\ tail'[i]["log"] > 0
                            => tail'[i]["index"] = TailLen["index"]
    BY DEF JournalInv
  <2>1. CASE i = j
    BY <2>1, <1>1, <1>2 DEF IInv, CoverInv
  <2>2. CASE i # j
    BY <2>2, <1>1, <1>2 DEF IInv, JournalInv
  <2> QED
    BY <2>1, <2>2
<1>5. SavedBeforeCut'
  <2> SUFFICES ASSUME NEW c \in cut
               PROVE  \E i \in Journals : /\ published[i] = Artifacts
                                          /\ saved'[i][c[1]] = c[2]
                                          /\ tail'[i][c[1]] >= c[3]
    BY DEF SavedBeforeCut, Committed
  <2>1. PICK i \in Journals : /\ published[i] = Artifacts
                              /\ saved[i][c[1]] = c[2]
                              /\ tail[i][c[1]] >= c[3]
    BY DEF IInv, SavedBeforeCut, Committed
  <2>2. i # j
    BY <2>1 DEF IInv, JournalInv, Artifacts
  <2> QED
    BY <2>1, <2>2, <1>1, <1>2
<1> QED
  BY <1>1, <1>2, <1>3, <1>4, <1>5 DEF IInv, TypeOK

(* Publishing starts, with the stamps of the files the journal is of. *)
LEMMA NewJournalInv ==
    ASSUME IInv, NEW j \in Journals, j \notin made,
           CreateJournal(j, body),
           pc' = "publish", journal' = j, rollback' = FALSE, turn' = "log", seen' \subseteq Files,
           UNCHANGED <<target, checkpoint, cut, world>>
    PROVE  IInv'
<1> USE TrimAssumption DEF Files, target, checkpoint, world
<1>1. UNCHANGED <<target, cut>>
  OBVIOUS
<1>2. /\ made' \subseteq Journals /\ j \in made'
      /\ published' = published
      /\ rollbackIntent' = rollbackIntent
      /\ receipt' = receipt /\ rollbackReceipt' = rollbackReceipt
      /\ saved' \in [Journals -> [Files -> Nat]]
      /\ tail' \in [Journals -> [Files -> Nat]]
      /\ \A i \in Journals : \A f \in Files : tail'[i][f] <= TailLen[f]
      /\ saved'[j] = body /\ tail'[j] = size
      /\ JournalInv'
      /\ SavedBeforeCut'
  BY <1>1, CreateJournalInv
<1>3. TypeOK'
  BY <1>2, Zenon DEF IInv, TypeOK
<1>4. ProcessInv'
  BY <1>2 DEF IInv, ProcessInv, Working
<1>5. OriginalInv'
  BY <1>2 DEF OriginalInv
<1>6. SeenInv'
  <2> SUFFICES ASSUME NEW f \in Files
               PROVE  body[f] = saved'[j][f] /\ size[f] <= tail'[j][f]
    BY DEF SeenInv
  <2> QED
    BY <1>2 DEF IInv, TypeOK
<1>7. InspectInv' /\ SyncedInv' /\ BodyInv' /\ CoverInv'
  BY DEF IInv, InspectInv, SyncedInv, BodyInv, OnlySavedBytes, CoverInv
<1> QED
  BY <1>2, <1>3, <1>4, <1>5, <1>6, <1>7 DEF IInv

LEMMA StopInv ==
    ASSUME IInv, Stop
    PROVE  IInv'
<1> USE TrimAssumption DEF Files, Stop, Exit, target, dirs, checkpoint, world
<1>1. TypeOK'
  BY Zenon DEF IInv, TypeOK
<1>2. ProcessInv' /\ SeenInv' /\ OriginalInv' /\ SyncedInv'
  BY DEF IInv, ProcessInv, SeenInv, OriginalInv, SyncedInv, Working
<1>3. JournalInv' /\ InspectInv' /\ BodyInv' /\ CoverInv' /\ SavedBeforeCut'
  BY DEF IInv, JournalInv, InspectInv, BodyInv, OnlySavedBytes, CoverInv, SavedBeforeCut, Committed
<1> QED
  BY <1>1, <1>2, <1>3 DEF IInv

LEMMA ScannedInv ==
    ASSUME IInv, Scanned
    PROVE  IInv'
<1> USE TrimAssumption DEF Files
<1>1. CASE ~(Unchanged /\ size # Nothing)
  <2>1. Stop
    BY <1>1 DEF Scanned, Stop
  <2> QED
    BY <2>1, StopInv
<1>2. CASE Unchanged /\ size # Nothing
  <2>1. journal \in Journals /\ journal \notin made /\ rollback = FALSE /\ turn = "log"
    BY DEF IInv, ProcessInv, Scanned
  <2>2. /\ CreateJournal(journal, body)
        /\ pc' = "publish" /\ journal' = journal /\ rollback' = FALSE /\ turn' = "log"
        /\ seen' \subseteq Files
        /\ UNCHANGED <<target, checkpoint, cut, world>>
    BY <1>2, <2>1 DEF Scanned, Unchanged
  <2> QED
    BY <2>1, <2>2, NewJournalInv, Zenon
<1> QED
  BY <1>1, <1>2

LEMMA RunInspectedInv ==
    ASSUME IInv, NEW j \in Journals, RunInspected(j)
    PROVE  IInv'
<1>1. j \notin made /\ rollback = FALSE /\ turn = "log"
  BY DEF IInv, ProcessInv, RunInspected
<1>2. inspection = body
  BY DEF IInv, InspectInv, TypeOK, RunInspected
<1>3. /\ CreateJournal(j, body)
      /\ pc' = "publish" /\ journal' = j /\ rollback' = FALSE /\ turn' = "log"
      /\ seen' \subseteq Files
      /\ UNCHANGED <<target, checkpoint, cut, world>>
  BY <1>1, <1>2 DEF RunInspected, IInv, TypeOK
<1> QED
  BY <1>1, <1>3, NewJournalInv, Zenon

LEMMA PublishInv ==
    ASSUME IInv, Publish
    PROVE  IInv'
<1> USE TrimAssumption DEF Files, Artifacts, Publish, target, checkpoint, process, world
<1>1. journal \in Journals /\ published[journal] \in 0 .. 4
  BY DEF IInv, TypeOK, ProcessInv, Committed, Working
<1>2. /\ published' \in [Journals -> 0 .. 5]
      /\ \A j \in Journals \ {journal} : published'[j] = published[j]
  BY <1>1 DEF IInv, TypeOK
<1>3. TypeOK'
  BY <1>2 DEF IInv, TypeOK
<1>4. ProcessInv'
  BY DEF IInv, ProcessInv, Working, LastTurn
<1>5. JournalInv'
  BY <1>2 DEF IInv, ProcessInv, JournalInv, Working
<1>6. SeenInv' /\ OriginalInv'
  BY DEF IInv, SeenInv, OriginalInv, Working, FirstTurn
<1>7. InspectInv' /\ SyncedInv' /\ BodyInv' /\ CoverInv'
  BY DEF IInv, InspectInv, SyncedInv, BodyInv, OnlySavedBytes, CoverInv
<1>8. SavedBeforeCut'
  <2> SUFFICES ASSUME NEW c \in cut
               PROVE  \E i \in Journals : /\ published'[i] = Artifacts
                                          /\ saved[i][c[1]] = c[2]
                                          /\ tail[i][c[1]] >= c[3]
    BY DEF SavedBeforeCut, Committed
  <2>1. PICK i \in Journals : /\ published[i] = Artifacts
                              /\ saved[i][c[1]] = c[2]
                              /\ tail[i][c[1]] >= c[3]
    BY DEF IInv, SavedBeforeCut, Committed
  <2> QED
    BY <2>1, <1>1, <1>2, SMTT(90)
<1> QED
  BY <1>3, <1>4, <1>5, <1>6, <1>7, <1>8 DEF IInv

LEMMA PreparedInv ==
    ASSUME IInv, Prepared
    PROVE  IInv'
<1> USE TrimAssumption DEF Files, Artifacts
<1>1. CASE ~Unchanged
  BY <1>1, Zenon DEF Prepared, Exit, IInv, TypeOK, ProcessInv, JournalInv, InspectInv, SeenInv,
     OriginalInv, SyncedInv, BodyInv, OnlySavedBytes, CoverInv, SavedBeforeCut, Committed,
     Working, LastTurn, target, dirs, checkpoint, world
<1>2. CASE Unchanged
  <2>1. /\ pc = "publish" /\ published[journal] = Artifacts
        /\ pc' = "write" /\ turn' = "log" /\ turn = "log" /\ rollback = FALSE
        /\ UNCHANGED <<journal, rollback, seen>>
        /\ UNCHANGED <<target, dirs, checkpoint, cut, world>>
    BY <1>2 DEF Prepared, Committed, FirstTurn, IInv, ProcessInv
  <2> USE <2>1 DEF target, dirs, checkpoint, world
  <2>2. TypeOK'
    BY DEF IInv, TypeOK
  <2>3. ProcessInv' /\ OriginalInv'
    BY DEF IInv, ProcessInv, OriginalInv, Working
  <2>4. SeenInv'
    BY DEF IInv, SeenInv, Working
  <2>5. SyncedInv'
    BY DEF SyncedInv, LastTurn
  <2>6. JournalInv' /\ InspectInv' /\ BodyInv' /\ CoverInv' /\ SavedBeforeCut'
    BY DEF IInv, JournalInv, InspectInv, BodyInv, OnlySavedBytes, CoverInv, SavedBeforeCut, Committed
  <2> QED
    BY <2>2, <2>3, <2>4, <2>5, <2>6 DEF IInv
<1> QED
  BY <1>1, <1>2

LEMMA ResumeInv ==
    ASSUME IInv, NEW j \in Journals, NEW rb \in BOOLEAN, Resume(j, rb)
    PROVE  IInv'
<1> USE TrimAssumption DEF Files, Artifacts, target, dirs, checkpoint, world
<1>1. /\ pc = "none" /\ published[j] = Artifacts
      /\ \A f \in Files : body[f] = saved[j][f] /\ size[f] <= tail[j][f]
      /\ journal' = j /\ rollback' = rb /\ seen' = Files
      /\ turn' = FirstTurn(rb)
      /\ UNCHANGED <<target, dirs, checkpoint, cut, world>>
  BY DEF Resume, Committed, CheckedState
<1>2. \/ pc' = "write"
      \/ pc' = "mark" /\ rb = TRUE
  BY DEF Resume
<1>3. j \in made
  BY <1>1 DEF IInv, JournalInv
<1>4. TypeOK'
  BY <1>1, <1>2 DEF IInv, TypeOK, FirstTurn
<1>5. ProcessInv'
  <2>1. /\ pc' \in {"mark", "write"} /\ journal' \in made' /\ published'[journal'] = Artifacts
        /\ pc' = "mark" => rollback' = TRUE /\ turn' = "index"
    BY <1>1, <1>2, <1>3 DEF FirstTurn
  <2> QED
    BY <2>1 DEF ProcessInv, Working
<1>6. SeenInv' /\ OriginalInv'
  BY <1>1 DEF SeenInv, OriginalInv
<1>7. SyncedInv'
  BY <1>1, <1>2 DEF SyncedInv, FirstTurn, LastTurn
<1>8. JournalInv' /\ InspectInv' /\ BodyInv' /\ CoverInv' /\ SavedBeforeCut'
  BY <1>1 DEF IInv, JournalInv, InspectInv, BodyInv, OnlySavedBytes, CoverInv, SavedBeforeCut,
     Committed
<1> QED
  BY <1>4, <1>5, <1>6, <1>7, <1>8 DEF IInv

LEMMA MarkRollbackInv ==
    ASSUME IInv, MarkRollback
    PROVE  IInv'
<1> USE TrimAssumption DEF Files, Artifacts, MarkRollback, target, checkpoint, world
<1>1. /\ journal \in made /\ made \subseteq Journals
      /\ rollback = TRUE /\ turn = "index" /\ published[journal] = Artifacts
  BY DEF IInv, TypeOK, ProcessInv, Working
<1>2. rollbackIntent' \subseteq Journals
  BY <1>1 DEF IInv, TypeOK
<1>3. TypeOK'
  BY <1>2, SMTT(90) DEF IInv, TypeOK
<1>4. ProcessInv'
  BY <1>1 DEF ProcessInv, Working
<1>o. OriginalInv'
  BY DEF IInv, OriginalInv, Working
<1>5. SeenInv'
  BY DEF IInv, SeenInv, Working, FirstTurn
<1>6. SyncedInv'
  BY <1>1 DEF SyncedInv, LastTurn
<1>7. JournalInv' /\ InspectInv' /\ BodyInv' /\ CoverInv' /\ SavedBeforeCut'
  BY DEF IInv, JournalInv, InspectInv, BodyInv, OnlySavedBytes, CoverInv, SavedBeforeCut, Committed
<1> QED
  BY <1>3, <1>4, <1>o, <1>5, <1>6, <1>7 DEF IInv

LEMMA TrimInv ==
    ASSUME IInv, Trim
    PROVE  IInv'
<1> USE TrimAssumption DEF Files, Artifacts
<1>1. /\ pc = "write" /\ pc' = "sync" /\ rollback = FALSE /\ seen = Files
      /\ UNCHANGED <<body, synced, inspection, journal, rollback, turn, seen>>
      /\ UNCHANGED <<made, published, saved, tail, rollbackIntent, receipt, rollbackReceipt>>
      /\ UNCHANGED <<bodies, losses, writes>>
  BY DEF Trim, Unchanged, dirs, world, IInv, TypeOK
<1>2. /\ turn \in Files /\ size \in [Files -> Nat] /\ body \in [Files -> Nat]
      /\ tail \in [Journals -> [Files -> Nat]]
  BY DEF IInv, TypeOK
<1>3. /\ size' = [size EXCEPT ![turn] = 0]
      /\ inspected' \subseteq inspected
      /\ cut' \subseteq cut \cup {<<turn, body[turn], size[turn]>>}
  <2>1. CASE size[turn] # 0
    BY <2>1 DEF Trim, Touch
  <2>2. CASE size[turn] = 0
    BY <2>2, <1>2 DEF Trim
  <2> QED
    BY <2>1, <2>2
<1>4. /\ size' \in [Files -> Nat] /\ size'[turn] = 0
      /\ \A f \in Files : size'[f] <= size[f]
      /\ \A f \in Files \ {turn} : size'[f] = size[f]
  BY <1>2, <1>3
<1>5. /\ journal \in made /\ journal \in Journals /\ published[journal] = Artifacts
      /\ body[turn] = saved[journal][turn] /\ size[turn] <= tail[journal][turn]
  BY <1>1, <1>2 DEF IInv, TypeOK, ProcessInv, SeenInv, Working
<1>6. TypeOK'
  <2>1. cut' \subseteq Files \X Nat \X Nat
    BY <1>2, <1>3 DEF IInv, TypeOK
  <2>2. \A f \in Files : size'[f] <= TailLen[f]
    BY <1>4, <1>2 DEF IInv, TypeOK
  <2> QED
    BY <2>1, <2>2, <1>1, <1>3, <1>4 DEF IInv, TypeOK
<1>7. ProcessInv' /\ OriginalInv'
  BY <1>1 DEF IInv, ProcessInv, OriginalInv, Working
<1>8. SeenInv'
  <2> SUFFICES ASSUME NEW f \in seen, f = turn \/ turn = FirstTurn(rollback)
               PROVE  body[f] = saved[journal][f] /\ size'[f] <= tail[journal][f]
    BY <1>1 DEF SeenInv, FirstTurn
  <2>1. body[f] = saved[journal][f] /\ size[f] <= tail[journal][f]
    BY <1>1 DEF IInv, SeenInv, Working
  <2> QED
    BY <2>1, <1>1, <1>2, <1>4, <1>5
<1>9. SyncedInv'
  BY <1>1, <1>2, <1>4 DEF IInv, SyncedInv, FirstTurn, LastTurn, Goal
<1>10. CoverInv'
  <2>1. CASE turn = "log"
    BY <2>1, <1>1, <1>2, <1>4 DEF IInv, CoverInv, TypeOK
  <2>2. CASE turn = "index"
    <3>1. body["log"] = 1 => size["log"] = 0 /\ synced["log"] = 0
      BY <2>2, <1>1 DEF IInv, SyncedInv, FirstTurn, LastTurn, Goal
    <3> QED
      BY <3>1, <2>2, <1>1, <1>4 DEF CoverInv
  <2> QED
    BY <2>1, <2>2, <1>2
<1>11. SavedBeforeCut'
  <2> SUFFICES ASSUME NEW c \in cut'
               PROVE  \E i \in Journals : /\ published[i] = Artifacts
                                          /\ saved[i][c[1]] = c[2]
                                          /\ tail[i][c[1]] >= c[3]
    BY <1>1 DEF SavedBeforeCut, Committed
  <2>1. CASE c \in cut
    BY <2>1 DEF IInv, SavedBeforeCut, Committed
  <2>2. CASE c = <<turn, body[turn], size[turn]>>
    <3>1. c[1] = turn /\ c[2] = body[turn] /\ c[3] = size[turn]
      BY <2>2
    <3>2. tail[journal][turn] >= size[turn]
      BY <1>2, <1>5
    <3> QED
      BY <3>1, <3>2, <1>5
  <2> QED
    BY <2>1, <2>2, <1>3
<1>12. JournalInv' /\ InspectInv' /\ BodyInv'
  BY <1>1, <1>3 DEF IInv, JournalInv, InspectInv, BodyInv, OnlySavedBytes
<1> QED
  BY <1>6, <1>7, <1>8, <1>9, <1>10, <1>11, <1>12 DEF IInv

LEMMA RestoreInv ==
    ASSUME IInv, Restore
    PROVE  IInv'
<1> USE TrimAssumption DEF Files, Artifacts
<1>1. /\ pc = "write" /\ rollback = TRUE /\ seen = Files
      /\ UNCHANGED <<synced, inspection, cut, bodies, losses, writes>>
      /\ UNCHANGED <<made, published, saved, tail, rollbackIntent, receipt, rollbackReceipt>>
  BY DEF Restore, Unchanged, dirs, world, IInv, TypeOK
<1>2. /\ turn \in Files /\ size \in [Files -> Nat] /\ body \in [Files -> Nat]
      /\ tail \in [Journals -> [Files -> Nat]] /\ synced \in [Files -> Nat]
      /\ \A j \in Journals : \A f \in Files : tail[j][f] <= TailLen[f]
  BY DEF IInv, TypeOK
<1>3. /\ journal \in made /\ journal \in Journals /\ published[journal] = Artifacts
      /\ body[turn] = saved[journal][turn] /\ size[turn] <= tail[journal][turn]
  BY <1>1, <1>2, Zenon DEF IInv, TypeOK, ProcessInv, SeenInv, Working
<1>4. /\ body' = body /\ inspected' \subseteq inspected
      /\ size' \in [Files -> Nat]
      /\ \A f \in Files \ {turn} : size'[f] = size[f]
      /\ size[turn] <= size'[turn] /\ size'[turn] <= tail[journal][turn]
      /\ pc' = "sync" /\ UNCHANGED <<journal, rollback, turn, seen>>
  <2>0. pc' = "sync" /\ UNCHANGED <<journal, rollback, turn, seen>>
    BY DEF Restore
  <2>1. CASE ~(size[turn] < Goal(turn))
    BY <2>0, <2>1, <1>2, <1>3 DEF Restore
  <2>2. CASE size[turn] < Goal(turn)
    <3>1. PICK n \in size[turn] + 1 .. Goal(turn) :
             /\ size' = [size EXCEPT ![turn] = n]
             /\ body' = [body EXCEPT ![turn] = IF @ = saved[journal][turn] THEN @ ELSE Mixed]
             /\ Touch(turn)
      BY <2>2 DEF Restore
    <3>2. body' = body
      BY <3>1, <1>2, <1>3
    <3>3. Goal(turn) = tail[journal][turn] /\ tail[journal][turn] \in Nat
      BY <1>1, <1>2, <1>3 DEF Goal
    <3>4. n \in Nat /\ size[turn] <= n /\ n <= tail[journal][turn]
      BY <3>1, <3>3, <1>2
    <3>5. inspected' \subseteq inspected
      BY <3>1 DEF Touch
    <3> QED
      BY <2>0, <3>1, <3>2, <3>4, <3>5, <1>2
  <2> QED
    BY <2>1, <2>2
<1>5. TypeOK'
  <2>1. \A f \in Files : size'[f] <= TailLen[f]
    <3> SUFFICES ASSUME NEW f \in Files PROVE size'[f] <= TailLen[f]
      OBVIOUS
    <3>1. CASE f = turn
      BY <3>1, <1>2, <1>3, <1>4
    <3>2. CASE f # turn
      BY <3>2, <1>4 DEF IInv, TypeOK
    <3> QED
      BY <3>1, <3>2
  <2> QED
    BY <2>1, <1>1, <1>4 DEF IInv, TypeOK
<1>6. ProcessInv' /\ OriginalInv'
  BY <1>1, <1>4 DEF IInv, ProcessInv, OriginalInv, Working
<1>7. SeenInv'
  <2> SUFFICES ASSUME NEW f \in seen, f = turn \/ turn = FirstTurn(rollback)
               PROVE  body[f] = saved[journal][f] /\ size'[f] <= tail[journal][f]
    BY <1>1, <1>4 DEF SeenInv, FirstTurn, Working
  <2>1. body[f] = saved[journal][f] /\ size[f] <= tail[journal][f]
    BY <1>1, Zenon DEF IInv, SeenInv, Working
  <2> QED
    BY <2>1, <1>1, <1>4
<1>8. SyncedInv'
  BY <1>1, <1>2, <1>4 DEF IInv, SyncedInv, FirstTurn, LastTurn, Goal
<1>9. CoverInv'
  <2>1. CASE turn = "index"
    <3> SUFFICES ASSUME body["log"] = 1, body["index"] = 1, size["log"] > 0 \/ synced["log"] > 0
                 PROVE  size'["index"] = TailLen["index"] /\ synced["index"] = TailLen["index"]
      BY <2>1, <1>1, <1>4 DEF CoverInv
    <3>1. size["index"] = TailLen["index"] /\ synced["index"] = TailLen["index"]
      BY DEF IInv, CoverInv
    <3> QED
      BY <3>1, <2>1, <1>2, <1>3, <1>4
  <2>2. CASE turn = "log"
    <3> SUFFICES ASSUME body["log"] = 1, body["index"] = 1, size'["log"] > 0 \/ synced["log"] > 0
                 PROVE  size["index"] = TailLen["index"] /\ synced["index"] = TailLen["index"]
      BY <2>2, <1>1, <1>4 DEF CoverInv
    <3>1. CASE synced["log"] > 0
      BY <3>1 DEF IInv, CoverInv
    <3>2. CASE size'["log"] > 0
      <4>1. saved[journal]["log"] = 1 /\ saved[journal]["index"] = 1
        BY <1>1 DEF IInv, OriginalInv, Working
      <4>2. tail[journal]["log"] > 0
        BY <3>2, <2>2, <1>2, <1>3, <1>4
      <4>3. tail[journal]["index"] = TailLen["index"]
        BY <4>1, <4>2, <1>3 DEF IInv, JournalInv
      <4>4. size["index"] = tail[journal]["index"] /\ synced["index"] = size["index"]
        BY <2>2, <1>1 DEF IInv, SyncedInv, FirstTurn, LastTurn, Goal
      <4> QED
        BY <4>3, <4>4
    <3> QED
      BY <3>1, <3>2
  <2> QED
    BY <2>1, <2>2, <1>2
<1>10. JournalInv' /\ InspectInv' /\ BodyInv' /\ SavedBeforeCut'
  BY <1>1, <1>4 DEF IInv, JournalInv, InspectInv, BodyInv, OnlySavedBytes, SavedBeforeCut, Committed
<1> QED
  BY <1>5, <1>6, <1>7, <1>8, <1>9, <1>10 DEF IInv

LEMMA SyncInv ==
    ASSUME IInv, Sync
    PROVE  IInv'
<1> USE TrimAssumption DEF Files, Artifacts, Sync, Exit, target, dirs, checkpoint, world,
        FirstTurn, LastTurn
<1>1. TypeOK'
  BY Zenon DEF IInv, TypeOK
<1>2. ProcessInv' /\ OriginalInv'
  BY DEF IInv, TypeOK, ProcessInv, OriginalInv, Working
<1>3. SeenInv'
  BY DEF IInv, TypeOK, SeenInv, Working
<1>4. SyncedInv'
  BY DEF IInv, TypeOK, SyncedInv, Goal
<1>5. CoverInv'
  <2>1. /\ body' = body /\ size' = size
        /\ \A f \in Files : synced'[f] \in {synced[f], size[f]}
    BY DEF IInv, TypeOK
  <2>2. CoverInv
    BY DEF IInv
  <2> QED
    BY ONLY <2>1, <2>2 DEF CoverInv, Files
<1>6. JournalInv' /\ InspectInv' /\ BodyInv' /\ SavedBeforeCut'
  BY DEF IInv, JournalInv, InspectInv, BodyInv, OnlySavedBytes, SavedBeforeCut, Committed
<1> QED
  BY <1>1, <1>2, <1>3, <1>4, <1>5, <1>6 DEF IInv

LEMMA PublishReceiptInv ==
    ASSUME IInv, PublishReceipt
    PROVE  IInv'
<1> USE TrimAssumption DEF Files, Artifacts
<1>1. /\ pc' = "none" /\ journal' = None /\ rollback' = FALSE /\ turn' = "log" /\ seen' = {}
      /\ UNCHANGED <<target, made, published, saved, tail, rollbackIntent, checkpoint, cut, world>>
      /\ receipt' \subseteq receipt \cup {journal}
      /\ rollbackReceipt' \subseteq rollbackReceipt \cup {journal}
  BY DEF PublishReceipt, Exit
<1>2. journal \in Journals
  BY DEF PublishReceipt, IInv, TypeOK, ProcessInv, Working
<1> USE DEF target, checkpoint, world
<1>3. TypeOK'
  BY <1>1, <1>2, Zenon DEF IInv, TypeOK
<1>4. ProcessInv' /\ SeenInv' /\ OriginalInv' /\ SyncedInv'
  BY <1>1 DEF ProcessInv, SeenInv, OriginalInv, SyncedInv, Working
<1>5. JournalInv' /\ InspectInv' /\ BodyInv' /\ CoverInv' /\ SavedBeforeCut'
  BY <1>1 DEF IInv, JournalInv, InspectInv, BodyInv, OnlySavedBytes, CoverInv, SavedBeforeCut,
     Committed
<1> QED
  BY <1>3, <1>4, <1>5 DEF IInv

LEMMA PowerLossInv ==
    ASSUME IInv, PowerLoss
    PROVE  IInv'
<1> USE TrimAssumption DEF Files, Artifacts
<1>1. /\ pc' = "none" /\ journal' = None /\ rollback' = FALSE /\ turn' = "log" /\ seen' = {}
      /\ inspected' = {} /\ inspection' = Nothing
      /\ UNCHANGED <<dirs, cut, writes>>
      /\ losses' = losses + 1 /\ synced' = size'
  BY DEF PowerLoss, Exit
<1>2. /\ size \in [Files -> Nat] /\ body \in [Files -> Nat] /\ synced \in [Files -> Nat]
      /\ \A f \in Files : size[f] <= TailLen[f] /\ synced[f] <= TailLen[f]
      /\ bodies \in Nat /\ bodies >= 1 /\ \A f \in Files : body[f] # Mixed
  BY DEF IInv, TypeOK, BodyInv, OnlySavedBytes
<1>3. PICK log \in Left("log"), index \in Left("index") :
         size' = [f \in Files |-> IF f = "log" THEN log ELSE index]
  BY DEF PowerLoss
<1>4. /\ log \in Nat /\ log <= TailLen["log"]
      /\ index \in Nat /\ index <= TailLen["index"]
      /\ log > 0 => size["log"] > 0 \/ synced["log"] > 0
      /\ size["index"] = synced["index"] => index = size["index"]
  BY <1>2, <1>3 DEF Left
<1>5. PICK garbled \in SUBSET Files :
         /\ body' = [f \in Files |-> IF f \in garbled THEN bodies + 1 ELSE body[f]]
         /\ bodies' = bodies + 1
  BY SMTT(90) DEF PowerLoss
<1>6. TypeOK'
  <2>1. /\ size' \in [Files -> Nat] /\ \A f \in Files : size'[f] <= TailLen[f]
        /\ body' \in [Files -> Nat]
    <3>1. size' \in [Files -> Nat] /\ \A f \in Files : size'[f] <= TailLen[f]
      BY <1>3, <1>4, SMTT(90)
    <3>2. body' \in [Files -> Nat]
      BY <1>2, <1>5, SMTT(90)
    <3> QED
      BY <3>1, <3>2
  <2>2. inspection' \in [Files -> Nat] /\ losses' \in Nat /\ bodies' \in Nat
    <3>1. losses \in Nat
      BY DEF IInv, TypeOK
    <3>2. inspection' \in [Files -> Nat]
      BY <1>1 DEF Nothing
    <3> QED
      BY <1>1, <1>2, <1>5, <3>1, <3>2
  <2> QED
    BY <2>1, <2>2, <1>1, Zenon DEF IInv, TypeOK, dirs
<1>7. ProcessInv' /\ SeenInv' /\ OriginalInv' /\ SyncedInv'
  BY <1>1 DEF ProcessInv, SeenInv, OriginalInv, SyncedInv, Working
<1>8. BodyInv'
  BY <1>2, <1>5 DEF BodyInv, OnlySavedBytes, Mixed
<1>9. CoverInv'
  <2> SUFFICES ASSUME body'["log"] = 1, body'["index"] = 1, log > 0
               PROVE  index = TailLen["index"]
    BY <1>1, <1>3 DEF CoverInv
  <2>1. body["log"] = 1 /\ body["index"] = 1
    BY <1>2, <1>5, SMTT(90)
  <2> QED
    BY <2>1, <1>4 DEF IInv, CoverInv
<1>10. JournalInv' /\ InspectInv' /\ SavedBeforeCut'
  BY <1>1 DEF IInv, JournalInv, InspectInv, SavedBeforeCut, Committed, dirs
<1> QED
  BY <1>6, <1>7, <1>8, <1>9, <1>10 DEF IInv

LEMMA ForeignWriteInv ==
    ASSUME IInv, NEW f \in Files, ForeignWrite(f)
    PROVE  IInv'
<1> USE TrimAssumption DEF Files, Artifacts
<1>1. /\ UNCHANGED <<dirs, inspection, pc, journal, rollback, turn, cut, losses>>
      /\ writes' = writes + 1 /\ bodies' = bodies + 1
      /\ body' = [body EXCEPT ![f] = bodies + 1]
      /\ inspected' = inspected \ {f} /\ seen' = seen \ {f}
  BY DEF ForeignWrite, Touch
<1>2. /\ size \in [Files -> Nat] /\ body \in [Files -> Nat] /\ synced \in [Files -> Nat]
      /\ bodies \in Nat /\ bodies >= 1 /\ \A g \in Files : body[g] # Mixed
  BY DEF IInv, TypeOK, BodyInv, OnlySavedBytes
<1>3. PICK n \in 0 .. TailLen[f] :
         size' = [size EXCEPT ![f] = n] /\ synced' = [synced EXCEPT ![f] = n]
  BY Zenon DEF ForeignWrite
<1>4. /\ body' \in [Files -> Nat] /\ body'[f] # 1 /\ body'[f] # 0
      /\ \A g \in Files \ {f} : body'[g] = body[g] /\ size'[g] = size[g] /\ synced'[g] = synced[g]
      /\ size' \in [Files -> Nat] /\ synced' \in [Files -> Nat] /\ size'[f] = synced'[f]
      /\ size'[f] <= TailLen[f]
  <2>1. body' \in [Files -> Nat] /\ body'[f] # 1 /\ body'[f] # 0
    BY <1>1, <1>2
  <2>2. \A g \in Files \ {f} : body'[g] = body[g] /\ size'[g] = size[g] /\ synced'[g] = synced[g]
    BY <1>1, <1>2, <1>3
  <2>3. n \in Nat /\ n <= TailLen[f]
    BY <1>3
  <2>4. size' \in [Files -> Nat] /\ synced' \in [Files -> Nat] /\ size'[f] = n /\ synced'[f] = n
    BY <1>2, <1>3, <2>3
  <2> QED
    BY <2>1, <2>2, <2>3, <2>4
<1> USE DEF dirs
<1>5. TypeOK'
  <2>1. /\ \A g \in Files : size[g] <= TailLen[g] /\ synced[g] <= TailLen[g]
        /\ writes \in Nat
        /\ inspected \subseteq Files /\ seen \subseteq Files
    BY DEF IInv, TypeOK
  <2>2. \A g \in Files : size'[g] <= TailLen[g] /\ synced'[g] <= TailLen[g]
    <3> SUFFICES ASSUME NEW g \in Files
                 PROVE  size'[g] <= TailLen[g] /\ synced'[g] <= TailLen[g]
      OBVIOUS
    <3>1. CASE g = f
      BY <3>1, <1>4
    <3>2. CASE g # f
      BY <3>2, <1>4, <2>1
    <3> QED
      BY <3>1, <3>2
  <2>3. writes' \in Nat /\ bodies' \in Nat
    BY <1>1, <1>2, <2>1
  <2>4. inspected' \subseteq Files /\ seen' \subseteq Files
    BY <1>1, <2>1
  <2>5. /\ (made \subseteq Journals)' /\ (published \in [Journals -> 0..Artifacts])'
        /\ (saved \in [Journals -> [Files -> Nat]])'
        /\ (tail \in [Journals -> [Files -> Nat]])'
        /\ (\A j \in Journals : \A g \in Files : tail[j][g] <= TailLen[g])'
        /\ (rollbackIntent \subseteq Journals)' /\ (receipt \subseteq Journals)'
        /\ (rollbackReceipt \subseteq Journals)'
    BY <1>1 DEF IInv, TypeOK
  <2>6. /\ (inspection \in [Files -> Nat])'
        /\ (pc \in {"none", "inspect", "scan", "publish", "mark", "write", "sync", "verify"})'
        /\ (journal \in Journals \cup {None})' /\ (rollback \in BOOLEAN)'
        /\ (turn \in Files)' /\ (cut \subseteq Files \X Nat \X Nat)' /\ (losses \in Nat)'
    BY <1>1 DEF IInv, TypeOK
  <2> QED
    BY <2>2, <2>3, <2>4, <2>5, <2>6, <1>4, Zenon DEF TypeOK
<1>6. /\ ProcessInv'
      /\ JournalInv'
      /\ SavedBeforeCut'
  <2>1. ProcessInv'
    BY <1>1 DEF IInv, ProcessInv, Working, LastTurn
  <2>2. JournalInv'
    BY <1>1 DEF IInv, JournalInv
  <2>3. SavedBeforeCut'
    BY <1>1 DEF IInv, SavedBeforeCut, Committed
  <2> QED
    BY <2>1, <2>2, <2>3
<1>7. SeenInv' /\ InspectInv'
  BY <1>1, <1>4 DEF IInv, TypeOK, SeenInv, InspectInv, Working, FirstTurn
<1>8. OriginalInv'
  BY <1>1, <1>4 DEF IInv, OriginalInv, Working
<1>9. SyncedInv'
  <2>1. ASSUME pc = "verify" PROVE synced' = size'
    <3>1. synced = size
      BY <2>1 DEF IInv, SyncedInv
    <3> QED
      BY <3>1, <1>3
  <2>2. ASSUME pc \in {"write", "sync"}, turn = LastTurn(rollback), NEW g \in Files,
               g = FirstTurn(rollback)
        PROVE  synced'[g] = size'[g] /\ (body'[g] = 1 => size'[g] = Goal(g)')
    <3>1. synced[g] = size[g] /\ (body[g] = 1 => size[g] = Goal(g))
      BY <2>2 DEF IInv, SyncedInv
    <3> QED
      BY <3>1, <1>1, <1>4 DEF Goal
  <2> QED
    BY <2>1, <2>2, <1>1 DEF SyncedInv, FirstTurn, LastTurn
<1>10. BodyInv' /\ CoverInv'
  BY <1>1, <1>2, <1>4 DEF BodyInv, OnlySavedBytes, CoverInv, Mixed
<1> QED
  BY <1>5, <1>6, <1>7, <1>8, <1>9, <1>10 DEF IInv

(* Every step, of a process, of the power supply or of somebody else, keeps *)
(* the inductive invariant.                                                 *)
THEOREM StepInv == IInv /\ [Next]_vars => IInv'
<1> SUFFICES ASSUME IInv, [Next]_vars PROVE IInv'
  OBVIOUS
<1>1. CASE Begin
  BY <1>1, InspectBeginInv, RunInv, RunInspectedInv, ResumeInv DEF Begin
<1>2. CASE Work
  BY <1>2, InspectSaveInv, ScannedInv, PublishInv, PreparedInv, MarkRollbackInv, TrimInv,
     RestoreInv, SyncInv, PublishReceiptInv DEF Work
<1>3. CASE Stop
  BY <1>3, StopInv
<1>4. CASE PowerLoss
  BY <1>4, PowerLossInv
<1>5. CASE \E f \in Files : ForeignWrite(f)
  BY <1>5, ForeignWriteInv
<1>6. CASE UNCHANGED vars
  BY <1>6, ZenonT(90) DEF vars, target, dirs, checkpoint, process, world, IInv, TypeOK, ProcessInv,
     JournalInv, InspectInv, SeenInv, OriginalInv, SyncedInv, BodyInv, OnlySavedBytes, CoverInv,
     SavedBeforeCut, Committed, Working, FirstTurn, LastTurn, Goal
<1> QED
  BY <1>1, <1>2, <1>3, <1>4, <1>5, <1>6 DEF Next

THEOREM Invariance == Spec => []IInv
<1>1. Init => IInv
  BY InitInv
<1>2. IInv /\ [Next]_vars => IInv'
  BY StepInv
<1> QED
  BY <1>1, <1>2, PTL DEF Spec

(* Lengths never exceed the original ones, whatever is cut and restored, by *)
(* any number of runs of trim-tail and resume-tail-trim.                    *)
THEOREM Types == Spec => []TypeOK
  BY Invariance, PTL DEF IInv

(* Nothing is cut from either file that a committed journal does not hold,  *)
(* for any number of journals, power losses and foreign writes.             *)
THEOREM NothingLost == Spec => []SavedBeforeCut
  BY Invariance, PTL DEF IInv

(* The index of the original pair covers its log after any interruption. *)
THEOREM IndexCovers == Spec => []IndexCoversLog
<1>1. IInv => IndexCoversLog
  BY DEF IInv, CoverInv, IndexCoversLog, Files
<1> QED
  BY <1>1, Invariance, PTL

(* A rollback writes onto no file but the one its bytes were cut from. *)
THEOREM NoForeignBytes == Spec => []OnlySavedBytes
  BY Invariance, PTL DEF IInv, BodyInv

(* A receipt, of a trim or of a rollback, is true of what is on disk. *)
THEOREM Receipts == Spec => ReceiptsTrue
<1> DEFINE Says ==
      /\ \A j \in receipt' \ receipt : synced = Nothing /\ body = saved[j]
      /\ \A j \in rollbackReceipt' \ rollbackReceipt : synced = tail[j] /\ body = saved[j]
<1>1. IInv /\ [Next]_vars => [Says]_vars
  <2> SUFFICES ASSUME IInv, Next PROVE Says
    OBVIOUS
  <2>1. CASE PublishReceipt
    <3>1. /\ synced = size /\ journal \in Journals
          /\ size \in [Files -> Nat] /\ body \in [Files -> Nat]
          /\ saved[journal] \in [Files -> Nat] /\ tail[journal] \in [Files -> Nat]
      BY <2>1 DEF PublishReceipt, IInv, SyncedInv, TypeOK, ProcessInv, Working
    <3>2. ASSUME \A f \in Files : body[f] = saved[journal][f]
          PROVE  body = saved[journal]
      BY <3>1, <3>2
    <3>3. ASSUME receipt' # receipt
          PROVE  /\ receipt' = receipt \cup {journal} /\ rollbackReceipt' = rollbackReceipt
                 /\ synced = Nothing /\ body = saved[journal]
      <4>1. /\ receipt' = receipt \cup {journal} /\ rollbackReceipt' = rollbackReceipt
            /\ \A f \in Files : body[f] = saved[journal][f]
            /\ \A f \in Files : size[f] = 0
        BY <2>1, <3>3 DEF PublishReceipt, Goal
      <4>2. size = Nothing
        BY <4>1, <3>1 DEF Nothing
      <4> QED
        BY <4>1, <4>2, <3>1, <3>2
    <3>4. ASSUME rollbackReceipt' # rollbackReceipt
          PROVE  /\ rollbackReceipt' = rollbackReceipt \cup {journal} /\ receipt' = receipt
                 /\ synced = tail[journal] /\ body = saved[journal]
      <4>1. /\ rollbackReceipt' = rollbackReceipt \cup {journal} /\ receipt' = receipt
            /\ \A f \in Files : body[f] = saved[journal][f]
            /\ \A f \in Files : size[f] = tail[journal][f]
        BY <2>1, <3>4 DEF PublishReceipt, Goal
      <4>2. size = tail[journal]
        BY <4>1, <3>1
      <4> QED
        BY <4>1, <4>2, <3>1, <3>2
    <3> QED
      BY <3>3, <3>4, SMTT(90)
  <2>2. CASE ~PublishReceipt
    <3>1. receipt' = receipt /\ rollbackReceipt' = rollbackReceipt
      BY <2>2 DEF Next, Begin, Work, InspectBegin, InspectSave, Run, Scanned, RunInspected,
         CreateJournal, Publish, Prepared, Resume, MarkRollback, Trim, Restore, Sync, Stop,
         PowerLoss, ForeignWrite, dirs
    <3> QED
      BY <3>1, SMTT(90)
  <2> QED
    BY <2>1, <2>2
<1>2. Spec => [][Says]_vars
  BY <1>1, Invariance, PTL DEF Spec
<1> QED
  BY <1>2 DEF ReceiptsTrue

-----------------------------------------------------------------------------
(* The way back.  As long as neither file's bytes were replaced, the first *)
(* journal that cut anything holds the whole of both tails; and a length   *)
(* other than nothing and all of a tail comes of a rollback, whose journal *)
(* is marked and holds the whole tail of that file.                        *)
Original == \A f \in Files : body[f] = 1

OfOriginal(j) == \A f \in Files : saved[j][f] = 1

Whole(j) == \A f \in Files : tail[j][f] = TailLen[f]

FirstCutInv ==
    Original =>
        /\ cut = {} => /\ \A f \in Files : size[f] = TailLen[f] /\ synced[f] = TailLen[f]
                       /\ \A j \in Journals : OfOriginal(j) => Whole(j)
        /\ cut # {} => \E j \in Journals : Committed(j) /\ OfOriginal(j) /\ Whole(j)

Ends(f) == {0, TailLen[f]}

(* A length between the two, here or in a journal, or one that a power     *)
(* loss may leave.                                                         *)
Partial(f) ==
    \/ size[f] \notin Ends(f)
    \/ synced[f] \notin Ends(f)
    \/ size[f] > synced[f]
    \/ \E j \in Journals : OfOriginal(j) /\ tail[j][f] \notin Ends(f)

Marked(f) ==
    \E j \in rollbackIntent : Committed(j) /\ OfOriginal(j) /\ tail[j][f] = TailLen[f]

PartialInv == Original => \A f \in Files : Partial(f) => Marked(f)

MarkInv == pc \in {"write", "sync"} /\ rollback => journal \in rollbackIntent

BackInv == FirstCutInv /\ PartialInv /\ MarkInv

LEMMA BackInit == Init => BackInv
  BY TrimAssumption DEF Init, BackInv, FirstCutInv, PartialInv, MarkInv, Original, OfOriginal, Whole,
     Partial, Ends, Files, Nothing

(* A step that leaves the files and what journals save alone. *)
LEMMA BackKept ==
    ASSUME IInv, BackInv, UNCHANGED <<body, size, synced, cut, saved, tail>>,
           \A j \in Journals : Committed(j) => Committed(j)',
           rollbackIntent \subseteq rollbackIntent'
    PROVE  FirstCutInv' /\ PartialInv'
<1>1. FirstCutInv'
  BY DEF BackInv, FirstCutInv, Original, OfOriginal, Whole
<1>2. PartialInv'
  <2> SUFFICES ASSUME Original, NEW f \in Files, Partial(f)
               PROVE  Marked(f)'
    BY DEF PartialInv, Original, Partial, OfOriginal, Ends
  <2>1. PICK j \in rollbackIntent : Committed(j) /\ OfOriginal(j) /\ tail[j][f] = TailLen[f]
    BY DEF BackInv, PartialInv, Marked
  <2>2. j \in Journals
    BY <2>1 DEF IInv, TypeOK
  <2> QED
    BY <2>1, <2>2 DEF Marked, OfOriginal
<1> QED
  BY <1>1, <1>2

(* A new journal saves the files as they are. *)
LEMMA BackCreate ==
    ASSUME IInv, BackInv, NEW j \in Journals, j \notin made,
           CreateJournal(j, body), UNCHANGED <<body, size, synced, cut>>
    PROVE  FirstCutInv' /\ PartialInv'
<1>1. /\ saved'[j] = body /\ tail'[j] = size
      /\ \A i \in Journals \ {j} : saved'[i] = saved[i] /\ tail'[i] = tail[i]
      /\ published' = published /\ rollbackIntent' = rollbackIntent
  BY DEF CreateJournal, IInv, TypeOK
<1>2. \A i \in Journals : Committed(i) => i # j
  BY DEF IInv, JournalInv, Committed, Artifacts
<1>3. \A i \in Journals : i # j => /\ OfOriginal(i)' <=> OfOriginal(i)
                                   /\ Whole(i)' <=> Whole(i)
  <2> SUFFICES ASSUME NEW i \in Journals, i # j
               PROVE  /\ OfOriginal(i)' <=> OfOriginal(i)
                      /\ Whole(i)' <=> Whole(i)
    OBVIOUS
  <2>1. saved'[i] = saved[i] /\ tail'[i] = tail[i]
    BY <1>1
  <2>2. OfOriginal(i)' <=> OfOriginal(i)
    BY <2>1 DEF OfOriginal
  <2>3. Whole(i)' <=> Whole(i)
    BY <2>1 DEF Whole
  <2> QED
    BY <2>2, <2>3
<1>4. FirstCutInv'
  <2> SUFFICES ASSUME Original
               PROVE  /\ cut = {} => /\ \A f \in Files : size[f] = TailLen[f] /\ synced[f] = TailLen[f]
                                     /\ \A i \in Journals : OfOriginal(i)' => Whole(i)'
                      /\ cut # {} => \E i \in Journals : Committed(i)' /\ OfOriginal(i)' /\ Whole(i)'
    BY DEF FirstCutInv, Original
  <2>1. ASSUME cut = {}
        PROVE  /\ \A f \in Files : size[f] = TailLen[f] /\ synced[f] = TailLen[f]
               /\ \A i \in Journals : OfOriginal(i)' => Whole(i)'
    <3>1. \A f \in Files : size[f] = TailLen[f] /\ synced[f] = TailLen[f]
      BY <2>1 DEF BackInv, FirstCutInv
    <3>2. Whole(j)'
      BY <3>1, <1>1 DEF Whole
    <3> QED
      BY <2>1, <3>1, <3>2, <1>3 DEF BackInv, FirstCutInv
  <2>2. ASSUME cut # {}
        PROVE  \E i \in Journals : Committed(i)' /\ OfOriginal(i)' /\ Whole(i)'
    <3>1. PICK i \in Journals : Committed(i) /\ OfOriginal(i) /\ Whole(i)
      BY <2>2 DEF BackInv, FirstCutInv
    <3> QED
      BY <3>1, <1>1, <1>2, <1>3 DEF Committed
  <2> QED
    BY <2>1, <2>2
<1>5. PartialInv'
  <2> SUFFICES ASSUME Original, NEW f \in Files, Partial(f)'
               PROVE  Marked(f)'
    BY DEF PartialInv, Original
  <2>1. Partial(f)
    <3> SUFFICES ASSUME NEW i \in Journals, OfOriginal(i)', tail'[i][f] \notin Ends(f)
                 PROVE  Partial(f)
      BY DEF Partial, Ends
    <3>1. CASE i = j
      BY <3>1, <1>1 DEF Partial
    <3>2. CASE i # j
      BY <3>2, <1>1, <1>3 DEF Partial
    <3> QED
      BY <3>1, <3>2
  <2>2. PICK i \in rollbackIntent : Committed(i) /\ OfOriginal(i) /\ tail[i][f] = TailLen[f]
    BY <2>1 DEF BackInv, PartialInv, Marked
  <2>3. i \in Journals
    BY <2>2 DEF IInv, TypeOK
  <2> QED
    BY <2>2, <2>3, <1>1, <1>2, <1>3 DEF Marked, Committed
<1> QED
  BY <1>4, <1>5

LEMMA BackTrim ==
    ASSUME IInv, BackInv, Trim
    PROVE  FirstCutInv' /\ PartialInv'
<1> USE TrimAssumption DEF Files
<1>1. /\ pc = "write" /\ seen = Files /\ turn \in Files /\ size \in [Files -> Nat]
      /\ UNCHANGED <<body, synced, published, saved, tail, rollbackIntent>>
  BY DEF Trim, Unchanged, dirs, IInv, TypeOK
<1>2. \/ size' = size /\ cut' = cut
      \/ size' = [size EXCEPT ![turn] = 0] /\ cut' # {}
  BY Zenon DEF Trim
<1>3. \A f \in Files : size'[f] \in {0, size[f]}
  BY <1>1, <1>2
<1>4. FirstCutInv'
  <2>1. CASE cut' = {}
    BY <2>1, <1>1, <1>2 DEF BackInv, FirstCutInv, Original, OfOriginal, Whole
  <2>2. CASE cut # {} /\ cut' # {}
    BY <2>2, <1>1 DEF BackInv, FirstCutInv, Original, OfOriginal, Whole, Committed
  <2>3. CASE cut = {} /\ cut' # {}
    <3> SUFFICES ASSUME Original
                 PROVE  \E j \in Journals : Committed(j)' /\ OfOriginal(j)' /\ Whole(j)'
      BY <2>3, <1>1 DEF FirstCutInv, Original
    <3>1. journal \in Journals /\ Committed(journal) /\ OfOriginal(journal)
      BY <1>1 DEF IInv, TypeOK, ProcessInv, OriginalInv, Working, Original, OfOriginal, Committed
    <3>2. Whole(journal)
      BY <3>1, <2>3 DEF BackInv, FirstCutInv
    <3> QED
      BY <3>1, <3>2, <1>1 DEF OfOriginal, Whole, Committed
  <2> QED
    BY <2>1, <2>2, <2>3, <1>2
<1>5. PartialInv'
  <2> SUFFICES ASSUME Original, NEW f \in Files, Partial(f)'
               PROVE  Marked(f)'
    BY <1>1 DEF PartialInv, Original
  <2>1. Partial(f)
    <3>1. synced[f] \in Nat /\ size[f] \in Nat
      BY DEF IInv, TypeOK
    <3> QED
      BY <1>1, <1>3, <3>1 DEF Partial, Ends, OfOriginal
  <2> QED
    BY <2>1, <1>1 DEF BackInv, PartialInv, Marked, OfOriginal, Committed
<1> QED
  BY <1>4, <1>5

LEMMA BackRestore ==
    ASSUME IInv, BackInv, Restore
    PROVE  FirstCutInv' /\ PartialInv'
<1> USE TrimAssumption DEF Files
<1>1. /\ pc = "write" /\ rollback = TRUE /\ seen = Files /\ turn \in Files
      /\ size \in [Files -> Nat] /\ body \in [Files -> Nat] /\ synced \in [Files -> Nat]
      /\ UNCHANGED <<synced, published, saved, tail, rollbackIntent, cut>>
  BY DEF Restore, Unchanged, dirs, IInv, TypeOK
<1>2. /\ journal \in Journals /\ Committed(journal) /\ journal \in rollbackIntent
      /\ tail[journal] \in [Files -> Nat] /\ \A f \in Files : tail[journal][f] <= TailLen[f]
  BY <1>1 DEF IInv, TypeOK, ProcessInv, Working, Committed, BackInv, MarkInv
<1>3. CASE size' = size /\ body' = body
  BY <1>1, <1>3, BackKept DEF Committed
<1>4. CASE size[turn] < tail[journal][turn]
  <2>1. PICK n \in size[turn] + 1 .. tail[journal][turn] :
           /\ size' = [size EXCEPT ![turn] = n]
           /\ body' = [body EXCEPT ![turn] = IF @ = saved[journal][turn] THEN @ ELSE Mixed]
    BY <1>1, <1>4 DEF Restore, Goal
  <2>2. Original' => Original /\ OfOriginal(journal)
    <3>1. Original' => Original
      BY <2>1, <1>1 DEF Original, Mixed
    <3> QED
      BY <3>1, <1>1 DEF IInv, OriginalInv, Working, Original, OfOriginal
  <2>3. n \in Nat /\ n > 0 /\ tail[journal][turn] >= n /\ tail[journal][turn] \in Nat
    BY <1>1, <1>2, <2>1
  <2>4. Original => cut # {}
    BY <1>1, <1>2, <1>4 DEF BackInv, FirstCutInv, IInv, TypeOK
  <2>5. FirstCutInv'
    BY <2>2, <2>4, <1>1 DEF BackInv, FirstCutInv, OfOriginal, Whole, Committed
  <2>6. PartialInv'
    <3> SUFFICES ASSUME Original', NEW f \in Files, Partial(f)'
                 PROVE  Marked(f)'
      BY DEF PartialInv
    <3>1. Original /\ OfOriginal(journal)
      BY <2>2
    <3>2. Marked(f) => Marked(f)'
      BY <1>1 DEF Marked, OfOriginal, Committed
    <3>3. CASE f # turn
      <4>1. size'[f] = size[f]
        BY <3>3, <2>1, <1>1
      <4>2. Partial(f)
        BY <4>1, <1>1 DEF Partial, Ends, OfOriginal
      <4> QED
        BY <4>2, <3>1, <3>2 DEF BackInv, PartialInv
    <3>4. CASE f = turn
      <4>1. CASE tail[journal][turn] \in Ends(turn)
        <5>1. tail[journal][turn] = TailLen[turn]
          BY <4>1, <2>3 DEF Ends
        <5>2. Marked(f)
          BY <5>1, <3>4, <3>1, <1>2 DEF Marked
        <5> QED
          BY <5>2, <3>2
      <4>2. CASE tail[journal][turn] \notin Ends(turn)
        <5>1. Partial(f)
          BY <4>2, <3>4, <3>1, <1>2 DEF Partial
        <5> QED
          BY <5>1, <3>1, <3>2 DEF BackInv, PartialInv
      <4> QED
        BY <4>1, <4>2
    <3> QED
      BY <3>3, <3>4
  <2> QED
    BY <2>5, <2>6
<1> QED
  BY <1>3, <1>4, <1>1 DEF Restore, Goal

LEMMA BackSync ==
    ASSUME IInv, BackInv, Sync
    PROVE  FirstCutInv' /\ PartialInv'
<1> USE TrimAssumption DEF Files
<1>1. /\ turn \in Files /\ size \in [Files -> Nat] /\ synced \in [Files -> Nat]
      /\ synced' = [synced EXCEPT ![turn] = size[turn]]
      /\ UNCHANGED <<body, size, published, saved, tail, rollbackIntent, cut>>
  BY DEF Sync, dirs, IInv, TypeOK
<1>2. \A f \in Files : synced'[f] \in {synced[f], size[f]}
  BY <1>1
<1>3. FirstCutInv'
  BY <1>1, <1>2 DEF BackInv, FirstCutInv, Original, OfOriginal, Whole, Committed
<1>4. PartialInv'
  <2> SUFFICES ASSUME Original, NEW f \in Files, Partial(f)'
               PROVE  Marked(f)'
    BY <1>1 DEF PartialInv, Original
  <2>1. Partial(f)
    BY <1>1, <1>2 DEF Partial, Ends, OfOriginal
  <2> QED
    BY <2>1, <1>1 DEF BackInv, PartialInv, Marked, OfOriginal, Committed
<1> QED
  BY <1>3, <1>4

LEMMA BackPowerLoss ==
    ASSUME IInv, BackInv, PowerLoss
    PROVE  FirstCutInv' /\ PartialInv'
<1> USE TrimAssumption DEF Files
<1>1. /\ size \in [Files -> Nat] /\ synced \in [Files -> Nat] /\ synced' = size'
      /\ body \in [Files -> Nat] /\ bodies \in Nat /\ bodies >= 1
      /\ UNCHANGED <<published, saved, tail, rollbackIntent, cut>>
  BY DEF PowerLoss, dirs, IInv, TypeOK, BodyInv
<1>2. Original' => Original
  <2>1. PICK garbled \in SUBSET Files :
           body' = [f \in Files |-> IF f \in garbled THEN bodies + 1 ELSE body[f]]
    BY SMTT(90) DEF PowerLoss
  <2> QED
    BY <2>1, <1>1 DEF Original
<1>3. \A f \in Files : size'[f] \in Left(f)
  <2>1. PICK log \in Left("log"), index \in Left("index") :
           size' = [f \in Files |-> IF f = "log" THEN log ELSE index]
    BY DEF PowerLoss
  <2> QED
    BY <2>1
<1>4. \A f \in Files : size'[f] \in {size[f], synced[f]} \/ size[f] > synced[f]
  BY <1>1, <1>3 DEF Left
<1>5. FirstCutInv'
  <2>1. Original /\ cut = {} => \A f \in Files : size'[f] = TailLen[f] /\ synced'[f] = TailLen[f]
    BY <1>1, <1>3 DEF BackInv, FirstCutInv, Left
  <2> QED
    BY <2>1, <1>1, <1>2 DEF BackInv, FirstCutInv, OfOriginal, Whole, Committed
<1>6. PartialInv'
  <2> SUFFICES ASSUME Original, NEW f \in Files, Partial(f)'
               PROVE  Marked(f)'
    BY <1>2 DEF PartialInv
  <2>1. Partial(f)
    <3>1. ~(size'[f] > synced'[f])
      <4>1. size'[f] \in Nat
        BY <1>1, <1>3 DEF Left
      <4> QED
        BY <4>1, <1>1
    <3> QED
      BY <3>1, <1>1, <1>4 DEF Partial, Ends, OfOriginal
  <2> QED
    BY <2>1, <1>1 DEF BackInv, PartialInv, Marked, OfOriginal, Committed
<1> QED
  BY <1>5, <1>6

(* Every step keeps it; a foreign write ends the case it is about. *)
LEMMA BackStep == IInv /\ BackInv /\ [Next]_vars => BackInv'
<1> SUFFICES ASSUME IInv, BackInv, [Next]_vars PROVE BackInv'
  OBVIOUS
<1> USE TrimAssumption
<1> DEFINE Same == /\ UNCHANGED <<body, size, synced, cut, saved, tail, published>>
                   /\ rollbackIntent \subseteq rollbackIntent'
<1>1. Same => FirstCutInv' /\ PartialInv'
  BY BackKept DEF Committed
<1>2. MarkInv'
  <2> USE DEF BackInv, MarkInv, dirs
  <2>1. CASE Begin
    BY <2>1, Zenon DEF Begin, InspectBegin, Run, RunInspected, Resume
  <2>2. CASE InspectSave \/ Scanned \/ Publish \/ Prepared
    BY <2>2, Zenon DEF InspectSave, Scanned, Publish, Prepared, Exit, process, IInv, ProcessInv
  <2>3. CASE MarkRollback
    BY <2>3 DEF MarkRollback
  <2>4. CASE Trim \/ Restore
    <3>1. pc = "write" /\ UNCHANGED <<journal, rollback, rollbackIntent>>
      BY <2>4 DEF Trim, Restore
    <3> QED
      BY <3>1
  <2>5. CASE Sync
    BY <2>5 DEF Sync, Exit
  <2>6. CASE PublishReceipt \/ Stop \/ PowerLoss
    BY <2>6 DEF PublishReceipt, Stop, PowerLoss, Exit
  <2>7. CASE (\E f \in Files : ForeignWrite(f)) \/ UNCHANGED vars
    <3>1. UNCHANGED <<pc, journal, rollback, rollbackIntent>>
      BY <2>7 DEF ForeignWrite, vars, process
    <3> QED
      BY <3>1
  <2> QED
    BY <2>1, <2>2, <2>3, <2>4, <2>5, <2>6, <2>7 DEF Next, Work
<1>3. CASE Begin
  <2>1. CASE \E j \in Journals : RunInspected(j)
    <3>1. PICK j \in Journals : RunInspected(j)
      BY <2>1
    <3>2. inspection = body
      BY <3>1 DEF RunInspected, IInv, TypeOK, InspectInv
    <3>3. j \notin made /\ CreateJournal(j, body) /\ UNCHANGED <<body, size, synced, cut>>
      BY <3>1, <3>2 DEF RunInspected, target
    <3> QED
      BY <3>3, <1>2, BackCreate DEF BackInv
  <2>2. CASE InspectBegin \/ (\E j \in Journals : Run(j)) \/ \E j \in Journals : \E rb \in BOOLEAN : Resume(j, rb)
    <3>1. Same
      BY <2>2 DEF InspectBegin, Run, Resume, target, dirs
    <3> QED
      BY <3>1, <1>1, <1>2 DEF BackInv
  <2> QED
    BY <1>3, <2>1, <2>2 DEF Begin
<1>4. CASE Work
  <2>1. CASE InspectSave \/ Prepared \/ MarkRollback \/ PublishReceipt
    <3>1. Same
      BY <2>1, Zenon DEF InspectSave, Prepared, MarkRollback, PublishReceipt, target, dirs
    <3> QED
      BY <3>1, <1>1, <1>2 DEF BackInv
  <2>2. CASE Publish
    <3>1. \A j \in Journals : Committed(j) => Committed(j)'
      BY <2>2 DEF Publish, Committed, IInv, TypeOK
    <3>2. UNCHANGED <<body, size, synced, cut, saved, tail, rollbackIntent>>
      BY <2>2 DEF Publish, target
    <3> QED
      BY <3>1, <3>2, <1>2, BackKept DEF BackInv
  <2>3. CASE Scanned
    <3>1. UNCHANGED <<body, size, synced, cut>>
      BY <2>3 DEF Scanned, target
    <3>2. CASE UNCHANGED dirs
      <4>1. Same
        BY <3>1, <3>2 DEF dirs
      <4> QED
        BY <4>1, <1>1, <1>2 DEF BackInv
    <3>3. CASE CreateJournal(journal, body)
      <4>1. journal \in Journals \ made
        BY <2>3 DEF Scanned, IInv, ProcessInv
      <4> QED
        BY <4>1, <3>1, <3>3, <1>2, BackCreate DEF BackInv
    <3> QED
      BY <2>3, <3>2, <3>3 DEF Scanned
  <2> QED
    BY <1>4, <2>1, <2>2, <2>3, <1>2, BackTrim, BackRestore, BackSync DEF Work, BackInv
<1>5. CASE Stop \/ UNCHANGED vars
  <2>1. Same
    BY <1>5 DEF Stop, vars, target, dirs
  <2> QED
    BY <2>1, <1>1, <1>2 DEF BackInv
<1>6. CASE PowerLoss
  BY <1>6, <1>2, BackPowerLoss DEF BackInv
<1>7. CASE \E f \in Files : ForeignWrite(f)
  <2>1. PICK f \in Files : ForeignWrite(f)
    BY <1>7
  <2>2. body'[f] = bodies + 1 /\ bodies \in Nat /\ bodies >= 1
    BY <2>1 DEF ForeignWrite, IInv, TypeOK, BodyInv
  <2>3. ~Original'
    BY <2>2 DEF Original
  <2> QED
    BY <2>3, <1>2 DEF BackInv, FirstCutInv, PartialInv
<1> QED
  BY <1>3, <1>4, <1>5, <1>6, <1>7 DEF Next

(* Once something was cut, and as long as nothing else wrote to the files  *)
(* and nothing was garbled, resume-tail-trim --rollback accepts some       *)
(* journal: of any number, after any number of runs, rollbacks, kills and  *)
(* power losses.                                                           *)
THEOREM WayBack == Spec => []AWayBack
<1>1. IInv /\ BackInv => AWayBack
  <2> SUFFICES ASSUME IInv, BackInv, cut # {}, Original
               PROVE  \E j \in Journals :
                         /\ Committed(j)
                         /\ \A f \in Files : CheckedState(f, j, j \in rollbackIntent)
    BY DEF AWayBack, Original
  <2>1. /\ size["log"] \in Nat /\ size["log"] <= TailLen["log"]
        /\ size["index"] \in Nat /\ size["index"] <= TailLen["index"]
        /\ rollbackIntent \subseteq Journals
    BY DEF IInv, TypeOK, Files
  <2>2. CASE size["log"] \notin Ends("log")
    <3>1. Partial("log")
      BY <2>2 DEF Partial
    <3>2. PICK j \in rollbackIntent : Committed(j) /\ OfOriginal(j) /\ tail[j]["log"] = TailLen["log"]
      BY <3>1 DEF BackInv, PartialInv, Marked, Files
    <3>3. TailLen["log"] > 0
      BY <2>1, <2>2, TrimAssumption DEF Ends, Files
    <3>4. tail[j]["index"] = TailLen["index"]
      BY <3>2, <3>3, <2>1 DEF IInv, JournalInv, OfOriginal, Files
    <3> QED
      BY <3>2, <3>4, <2>1 DEF CheckedState, Original, OfOriginal, Files
  <2>3. CASE size["log"] \in Ends("log") /\ size["index"] \notin Ends("index")
    <3>1. Partial("index")
      BY <2>3 DEF Partial
    <3>2. PICK j \in rollbackIntent : /\ Committed(j) /\ OfOriginal(j)
                                     /\ tail[j]["index"] = TailLen["index"]
      BY <3>1 DEF BackInv, PartialInv, Marked, Files
    <3>3. size["log"] = 0 /\ tail[j]["log"] \in Nat
      BY <2>1, <2>3, <3>2 DEF IInv, TypeOK, CoverInv, Original, Ends, Files
    <3> QED
      BY <3>2, <3>3, <2>1 DEF CheckedState, Original, OfOriginal, Files
  <2>4. CASE size["log"] \in Ends("log") /\ size["index"] \in Ends("index")
    <3>1. PICK j \in Journals : Committed(j) /\ OfOriginal(j) /\ Whole(j)
      BY DEF BackInv, FirstCutInv
    <3> QED
      BY <3>1, <2>1, <2>4 DEF CheckedState, Original, OfOriginal, Whole, Ends, Files
  <2> QED
    BY <2>2, <2>3, <2>4
<1>2. Spec => [](IInv /\ BackInv)
  <2>1. Init => BackInv
    BY BackInit
  <2>2. IInv /\ BackInv /\ [Next]_vars => BackInv'
    BY BackStep
  <2> QED
    BY <2>1, <2>2, Invariance, PTL DEF Spec
<1> QED
  BY <1>1, <1>2, PTL
=============================================================================
