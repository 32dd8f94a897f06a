--------------------------- MODULE DiskScanProofs ----------------------------
(***************************************************************************)
(* What scan_disk promises of its checkpoint, for any range, chunk size    *)
(* and number of threads, any kills and failures, and any growth of the    *)
(* chain between two runs.                                                 *)
(*                                                                         *)
(* CheckpointCovers alone is not inductive: the checkpoint is written from *)
(* the monitor's watermark, the watermark from the chunks marked done, and *)
(* a chunk is marked done by a worker that walked it.  Covered states what *)
(* each of these stands for while the process is up.                       *)
(***************************************************************************)
EXTENDS DiskScan, TLAPS

MonitorStates == {"off", "sleep", "advance", "exit", "final"}
WorkerStates == {"off", "take", "scan", "done"}

(* The range, the cursor, the chunks and the watermark are block numbers,  *)
(* and the range is the command's.                                         *)
TypeOK ==
    /\ end \in Int /\ start \in Int /\ cursor \in Int
    /\ worker \in [Threads -> [pc : WorkerStates, cs : Int, at : Int, ce : Int]]
    /\ completed \subseteq Int
    /\ mon \in [pc : MonitorStates, wm : Int]
    /\ ckpt = None \/ ckpt \in Int

(* The last block of the chunk that starts at c: the last chunk is cut to  *)
(* the end of the range.                                                   *)
ChunkEnd(c) == Lower(c + Chunk - 1, end)

(* What is below the watermark, in a chunk marked done, and behind a       *)
(* worker in its chunk, has been read.                                     *)
Covered ==
    /\ Up =>
        /\ FirstBlock .. start - 1 \subseteq scanned
        /\ FirstBlock .. Watermark - 1 \subseteq scanned
        /\ \A c \in completed : c .. ChunkEnd(c) \subseteq scanned
        /\ \A t \in Threads : Scanning(t) =>
              /\ worker[t].ce = ChunkEnd(worker[t].cs)
              /\ worker[t].cs .. worker[t].at - 1 \subseteq scanned
    /\ ~Up => \A t \in Threads : worker[t].pc = "off"
    /\ CheckpointCovers

IInv == TypeOK /\ Covered

-----------------------------------------------------------------------------
(* The watermark over a chunk that is done is the watermark after it: what *)
(* lies between is the chunk, cut to the end of the range as it is.        *)
LEMMA OverAChunk ==
    ASSUME NEW wm \in Int, NEW last \in Int, NEW S,
           FirstBlock .. Lower(wm, last + 1) - 1 \subseteq S,
           wm .. Lower(wm + Chunk - 1, last) \subseteq S
    PROVE  FirstBlock .. Lower(wm + Chunk, last + 1) - 1 \subseteq S
BY ChunkAssumption, RangeAssumption DEF Lower

LEMMA InitCovered == Init => IInv
BY RangeAssumption
   DEF Init, IInv, TypeOK, Covered, CheckpointCovers, At, Up, WorkerStates, MonitorStates, Scanning

LEMMA TypeStep == TypeOK /\ [Next]_vars => TypeOK'
<1> SUFFICES ASSUME TypeOK, [Next]_vars PROVE TypeOK'
  OBVIOUS
<1> USE RangeAssumption, ChunkAssumption DEF TypeOK, WorkerStates, MonitorStates, At, out, seen
<1>1. CASE Start
  BY <1>1 DEF Start, Resume
<1>2. CASE Grow
  BY <1>2 DEF Grow
<1>3. CASE Crash
  <2>1. UNCHANGED <<end, start, cursor, completed, ckpt>> /\ mon' = [mon EXCEPT !.pc = "off"] /\ worker' = [t \in Threads |-> At("off")]
    BY <1>3 DEF Crash
  <2> QED
    BY <2>1
<1>4. ASSUME NEW t \in Threads, Take(t) PROVE TypeOK'
  BY <1>4 DEF Take, Lower
<1>5. ASSUME NEW t \in Threads, ScanBlock(t) PROVE TypeOK'
  <2>1. UNCHANGED <<end, start, cursor, completed, ckpt, mon>> /\ worker' = [worker EXCEPT ![t].at = @ + 1]
    BY <1>5 DEF ScanBlock
  <2> QED
    BY <2>1
<1>6. ASSUME NEW t \in Threads, ChunkFails(t) PROVE TypeOK'
  BY <1>6 DEF ChunkFails
<1>7. ASSUME NEW t \in Threads, ChunkDone(t) PROVE TypeOK'
  <2>1. UNCHANGED <<end, start, cursor, ckpt, mon>> /\ worker' = [worker EXCEPT ![t] = At("take")]
    BY <1>7 DEF ChunkDone
  <2>2. completed' = completed \cup {worker[t].cs} /\ worker[t].cs \in Int
    BY <1>7 DEF ChunkDone
  <2>3. completed' \subseteq Int
    BY <2>2, Zenon
  <2>4. worker' \in [Threads -> [pc : WorkerStates, cs : Int, at : Int, ce : Int]]
    BY <2>1
  <2> QED
    BY <2>1, <2>3, <2>4
<1>8. CASE Flush
  BY <1>8 DEF Flush
<1>9. CASE Wake
  BY <1>9 DEF Wake
<1>10. CASE Advance
  BY <1>10 DEF Advance
<1>11. CASE Publish
  BY <1>11 DEF Publish, Watermark, Lower
<1>12. CASE Join
  BY <1>12 DEF Join
<1>13. CASE Finish
  BY <1>13 DEF Finish, Watermark, Lower
<1>14. CASE UNCHANGED vars
  BY <1>14 DEF vars
<1> QED
  BY <1>1, <1>2, <1>3, <1>4, <1>5, <1>6, <1>7, <1>8, <1>9, <1>10, <1>11, <1>12, <1>13, <1>14 DEF Next, WorkerStep

LEMMA CoveredStep == IInv /\ [Next]_vars => Covered'
<1> SUFFICES ASSUME TypeOK, Covered, [Next]_vars PROVE Covered'
  BY DEF IInv
<1> USE RangeAssumption, ChunkAssumption DEF TypeOK, WorkerStates, MonitorStates, At, out, seen
<1>1. CASE Start
  <2>1. start' = Resume /\ completed' = {} /\ mon' = [pc |-> "sleep", wm |-> Resume] /\ UNCHANGED <<end, ckpt, scanned>>
    BY <1>1 DEF Start
  <2>2. worker' = [t \in Threads |-> At("take")]
    BY <1>1 DEF Start
  <2>3. FirstBlock .. Resume - 1 \subseteq scanned
    BY DEF Resume, Covered, CheckpointCovers
  <2> Resume \in Int
    BY DEF Resume
  <2>4. FirstBlock .. Lower(Resume, end + 1) - 1 \subseteq scanned
    BY <2>3 DEF Lower
  <2>5. Watermark' = Lower(Resume, end + 1)
    BY <2>1 DEF Watermark
  <2> QED
    BY <2>1, <2>2, <2>3, <2>4, <2>5 DEF Covered, CheckpointCovers, Up, Scanning
<1>2. CASE Grow
  BY <1>2 DEF Grow, Covered, CheckpointCovers, Up
<1>3. CASE Crash
  <2>1. UNCHANGED <<end, start, cursor, completed, ckpt, scanned>> /\ mon'.pc = "off" /\ worker' = [t \in Threads |-> At("off")]
    BY <1>3 DEF Crash
  <2> QED
    BY <2>1 DEF Covered, CheckpointCovers, Up
<1>4. ASSUME NEW t \in Threads, Take(t) PROVE Covered'
  <2>1. UNCHANGED <<end, start, completed, ckpt, mon, scanned>>
    BY <1>4 DEF Take
  <2>2. \A u \in Threads : u # t => worker'[u] = worker[u]
    BY <1>4 DEF Take
  <2>3. worker'[t].pc = "scan" => /\ worker'[t].ce = ChunkEnd(worker'[t].cs)
                                  /\ worker'[t].cs .. worker'[t].at - 1 \subseteq scanned
    BY <1>4 DEF Take, ChunkEnd, Lower
  <2>4. Up
    BY <1>4 DEF Take, Covered
  <2> QED
    BY <2>1, <2>2, <2>3, <2>4 DEF Covered, CheckpointCovers, Up, Scanning, Watermark, ChunkEnd
<1>5. ASSUME NEW t \in Threads, ScanBlock(t) PROVE Covered'
  <2>1. UNCHANGED <<end, start, completed, ckpt, mon>> /\ scanned' = scanned \cup {worker[t].at}
    BY <1>5 DEF ScanBlock
  <2>2. worker' = [worker EXCEPT ![t].at = @ + 1]
    BY <1>5 DEF ScanBlock
  <2>3. Up /\ worker[t].pc = "scan"
    BY <1>5 DEF ScanBlock, Covered, Scanning
  <2>4. \A u \in Threads : /\ worker'[u].pc = worker[u].pc /\ worker'[u].cs = worker[u].cs /\ worker'[u].ce = worker[u].ce
                            /\ worker'[u].at = IF u = t THEN worker[u].at + 1 ELSE worker[u].at
    BY <2>2
  <2>5. \A u \in Threads : Scanning(u) => worker'[u].cs .. worker'[u].at - 1 \subseteq scanned'
    BY <2>1, <2>3, <2>4 DEF Covered, Scanning
  <2> QED
    BY <2>1, <2>3, <2>4, <2>5 DEF Covered, CheckpointCovers, Up, Scanning, Watermark, ChunkEnd
<1>6. ASSUME NEW t \in Threads, ChunkFails(t) PROVE Covered'
  BY <1>6 DEF ChunkFails, Covered, CheckpointCovers, Up, Scanning, Watermark, ChunkEnd
<1>7. ASSUME NEW t \in Threads, ChunkDone(t) PROVE Covered'
  <2>1. UNCHANGED <<end, start, ckpt, mon, scanned>> /\ completed' = completed \cup {worker[t].cs}
    BY <1>7 DEF ChunkDone
  <2>2. worker' = [worker EXCEPT ![t] = At("take")]
    BY <1>7 DEF ChunkDone
  <2>3. Up /\ worker[t].cs .. ChunkEnd(worker[t].cs) \subseteq scanned
    BY <1>7 DEF ChunkDone, Covered, Scanning, ChunkEnd, Lower
  <2> QED
    BY <2>1, <2>2, <2>3 DEF Covered, CheckpointCovers, Up, Scanning, Watermark, ChunkEnd
<1>8. CASE Flush
  BY <1>8 DEF Flush, Covered, CheckpointCovers, Up, Scanning, Watermark, ChunkEnd
<1>9. CASE Wake
  BY <1>9 DEF Wake, Covered, CheckpointCovers, Up, Scanning, Watermark, ChunkEnd
<1>10. CASE Advance
  <2>1. UNCHANGED <<end, start, completed, ckpt, scanned, worker>> /\ mon' = [mon EXCEPT !.wm = @ + Chunk]
    BY <1>10 DEF Advance
  <2>2. Up /\ mon.wm .. ChunkEnd(mon.wm) \subseteq scanned /\ FirstBlock .. Watermark - 1 \subseteq scanned
    BY <1>10 DEF Advance, Covered, Up
  <2>3. FirstBlock .. Lower(mon.wm + Chunk, end + 1) - 1 \subseteq scanned
    BY <2>2, OverAChunk DEF Watermark, ChunkEnd
  <2> QED
    BY <2>1, <2>2, <2>3 DEF Covered, CheckpointCovers, Up, Scanning, Watermark, ChunkEnd
<1>11. CASE Publish
  BY <1>11 DEF Publish, Covered, CheckpointCovers, Up, Scanning, Watermark, ChunkEnd
<1>12. CASE Join
  <2>1. UNCHANGED <<end, start, completed, ckpt, scanned, worker>> /\ mon' = [pc |-> "final", wm |-> start]
    BY <1>12 DEF Join
  <2>2. FirstBlock .. start - 1 \subseteq scanned /\ Up
    BY <1>12 DEF Join, Covered, Up
  <2>3. FirstBlock .. Lower(start, end + 1) - 1 \subseteq scanned
    BY <2>2 DEF Lower
  <2> QED
    BY <2>1, <2>2, <2>3 DEF Covered, CheckpointCovers, Up, Scanning, Watermark, ChunkEnd
<1>13. CASE Finish
  BY <1>13 DEF Finish, Covered, CheckpointCovers, Up, Scanning, Watermark, ChunkEnd
<1>14. CASE UNCHANGED vars
  BY <1>14 DEF vars, Covered, CheckpointCovers, Up, Scanning, Watermark, ChunkEnd
<1> QED
  BY <1>1, <1>2, <1>3, <1>4, <1>5, <1>6, <1>7, <1>8, <1>9, <1>10, <1>11, <1>12, <1>13, <1>14 DEF Next, WorkerStep

(* The checkpoint of scan_disk never passes a block that no run has read,  *)
(* for every range, chunk size and number of threads, whichever chunks     *)
(* fail, whenever the process is killed, however the chain grows.          *)
THEOREM Checkpoint == Spec => []CheckpointCovers
<1>1. Init => IInv
  BY InitCovered
<1>2. IInv /\ [Next]_vars => IInv'
  BY TypeStep, CoveredStep DEF IInv
<1>3. IInv => CheckpointCovers
  BY DEF IInv, Covered
<1> QED
  BY <1>1, <1>2, <1>3, PTL DEF Spec
-----------------------------------------------------------------------------
(* The chunks of a run start at these blocks. *)
Point(k) == start + k * Chunk

(* Every chunk below the watermark, and below the checkpoint, is marked    *)
(* done: a watermark taken again from the start, as the end of scan_disk   *)
(* takes it, comes at least as far as the checkpoint.                      *)
Marked ==
    /\ ckpt = None \/ ckpt <= end + 1
    /\ Up =>
        /\ ckpt = None \/ \A k \in Nat : Point(k) < ckpt => Point(k) \in completed
        /\ \A k \in Nat : Point(k) < mon.wm => Point(k) \in completed
        /\ \E k \in Nat : mon.wm = Point(k)

LEMMA NoneBefore == ASSUME NEW C \in Nat, NEW k \in Nat PROVE k * C >= 0
  OBVIOUS

LEMMA NextPoint ==
    ASSUME NEW C \in Nat \ {0}, NEW k \in Nat, NEW K \in Nat, k * C < K * C + C
    PROVE  k = K \/ k * C < K * C
<1>1. ASSUME k >= K + 1 PROVE FALSE
  <2>1. PICK d \in Nat : k = K + 1 + d
    <3>1. k - K - 1 \in Nat /\ k = K + 1 + (k - K - 1)
      BY <1>1
    <3> QED
      BY <3>1
  <2>2. k * C = K * C + C + d * C
    BY <2>1
  <2> QED
    BY <2>2, NoneBefore
<1>2. ASSUME k < K PROVE k * C < K * C
  <2>1. PICK d \in Nat : K = k + 1 + d
    <3>1. K - k - 1 \in Nat /\ K = k + 1 + (K - k - 1)
      BY <1>2
    <3> QED
      BY <3>1
  <2>2. K * C = k * C + C + d * C
    BY <2>1
  <2> QED
    BY <2>2, NoneBefore
<1> QED
  BY <1>1, <1>2
LEMMA MarkedInit == Init => Marked
  BY RangeAssumption DEF Init, Marked, Up

LEMMA MarkedStep == IInv /\ Marked /\ [Next]_vars => Marked' /\ (ckpt # None => ckpt' >= ckpt)
<1> SUFFICES ASSUME TypeOK, Covered, Marked, [Next]_vars PROVE Marked' /\ (ckpt # None => ckpt' >= ckpt)
  BY DEF IInv
<1> USE RangeAssumption, ChunkAssumption DEF TypeOK, WorkerStates, MonitorStates, out, seen
<1>1. CASE Start
  <2> Resume \in Int
    BY DEF Resume
  <2>1. start' = Resume /\ completed' = {} /\ mon' = [pc |-> "sleep", wm |-> Resume] /\ UNCHANGED <<end, ckpt, scanned>>
    BY <1>1 DEF Start
  <2>2. \A k \in Nat : ~(Point(k)' < Resume) /\ k * Chunk >= 0
    BY <2>1, NoneBefore DEF Point
  <2>3. Resume = Point(0)'
    BY <2>1 DEF Point
  <2>4. ckpt = None \/ ckpt <= Resume
    BY DEF Resume
  <2>5. ckpt = None \/ \A k \in Nat : ~(Point(k)' < ckpt)
    BY <2>1, <2>2, <2>4 DEF Point
  <2> QED
    BY <2>1, <2>2, <2>3, <2>5 DEF Marked, Up
<1>2. CASE Grow
  BY <1>2 DEF Grow, Marked, Up
<1>3. CASE Crash
  <2>1. UNCHANGED <<end, ckpt>> /\ mon'.pc = "off"
    BY <1>3 DEF Crash
  <2> QED
    BY <2>1 DEF Marked, Up
<1>4. ASSUME NEW t \in Threads, WorkerStep(t) PROVE Marked' /\ (ckpt # None => ckpt' >= ckpt)
  <2>1. UNCHANGED <<end, start, ckpt, mon>> /\ completed \subseteq completed'
    BY <1>4 DEF WorkerStep, Take, ScanBlock, ChunkFails, ChunkDone
  <2>2. \A k \in Nat : Point(k)' = Point(k)
    BY <2>1 DEF Point
  <2>3. Up' = Up /\ (ckpt # None => ckpt' >= ckpt)
    BY <2>1 DEF Up
  <2>4. ASSUME Up PROVE /\ ckpt = None \/ \A k \in Nat : Point(k)' < ckpt' => Point(k)' \in completed'
                        /\ \A k \in Nat : Point(k)' < mon'.wm => Point(k)' \in completed'
    BY <2>1, <2>2, <2>4, Zenon DEF Marked
  <2> QED
    BY <2>1, <2>2, <2>3, <2>4 DEF Marked
<1>5. CASE Flush \/ UNCHANGED vars
  <2>1. UNCHANGED <<end, start, ckpt, mon, completed>>
    BY <1>5 DEF Flush, vars
  <2>2. \A k \in Nat : Point(k)' = Point(k)
    BY <2>1 DEF Point
  <2> QED
    BY <2>1, <2>2 DEF Marked, Up
<1>6. CASE Wake
  <2>1. UNCHANGED <<end, start, ckpt, completed>> /\ mon'.pc = "advance" /\ mon'.wm = mon.wm /\ mon.pc = "sleep"
    BY <1>6 DEF Wake
  <2> QED
    BY <2>1 DEF Marked, Up, Point
<1>7. CASE Advance
  <2>1. UNCHANGED <<end, start, ckpt, completed>> /\ mon'.pc = mon.pc /\ mon'.wm = mon.wm + Chunk /\ Up /\ mon.wm \in completed
    BY <1>7 DEF Advance, Up
  <2>2. PICK K \in Nat : mon.wm = Point(K)
    BY <2>1 DEF Marked
  <2>3. mon'.wm = Point(K + 1)'
    BY <2>1, <2>2 DEF Point
  <2>4. ASSUME NEW k \in Nat, Point(k) < mon.wm + Chunk PROVE Point(k) \in completed
    <3>1. k * Chunk < K * Chunk + Chunk /\ k * Chunk \in Int /\ K * Chunk \in Int
      BY <2>2, <2>4 DEF Point
    <3>2. k = K \/ k * Chunk < K * Chunk
      BY <3>1, NextPoint
    <3> QED
      BY <2>1, <2>2, <3>1, <3>2 DEF Point, Marked
  <2>5. \A k \in Nat : Point(k)' = Point(k) /\ K + 1 \in Nat
    BY <2>1 DEF Point
  <2> QED
    BY <2>1, <2>3, <2>4, <2>5 DEF Marked, Up
<1>8. CASE Publish \/ Finish
  <2>1. UNCHANGED <<end, start, completed>> /\ mon'.wm = mon.wm /\ Up /\ mon.wm \notin completed /\ ckpt' = Lower(mon.wm, end + 1)
    BY <1>8 DEF Publish, Finish, Up, Watermark
  <2>2. ckpt = None \/ (ckpt <= mon.wm /\ ckpt <= end + 1)
    <3>1. PICK K \in Nat : mon.wm = Point(K)
      BY <2>1 DEF Marked
    <3>2. ckpt = None \/ ~(Point(K) < ckpt)
      BY <2>1, <3>1 DEF Marked
    <3> QED
      BY <3>1, <3>2 DEF Marked
  <2>3. ckpt' <= mon.wm /\ ckpt' <= end + 1 /\ ckpt' \in Int /\ (ckpt = None \/ ckpt <= ckpt')
    BY <2>1, <2>2 DEF Lower
  <2>4. \A k \in Nat : Point(k) < mon.wm => Point(k) \in completed
    BY <2>1 DEF Marked
  <2>5. \A k \in Nat : Point(k) \in Int /\ Point(k)' = Point(k)
    BY <2>1 DEF Point
  <2> QED
    BY <2>1, <2>3, <2>4, <2>5 DEF Marked
<1>9. CASE Join
  <2>1. UNCHANGED <<end, start, ckpt, completed>> /\ mon' = [pc |-> "final", wm |-> start] /\ Up
    BY <1>9 DEF Join, Up
  <2>2. start = Point(0)' /\ \A k \in Nat : ~(Point(k)' < start) /\ Point(k)' = Point(k)
    BY <2>1, NoneBefore DEF Point
  <2> QED
    BY <2>1, <2>2 DEF Marked, Up
<1> QED
  BY <1>1, <1>2, <1>3, <1>4, <1>5, <1>6, <1>7, <1>8, <1>9 DEF Next

(* The checkpoint never goes back, over restarts too: neither the monitor, *)
(* which moves its watermark on, nor the end of scan_disk, which takes the *)
(* watermark again from the start, writes one below the checkpoint found.  *)
THEOREM Forward == Spec => [][ckpt # None => ckpt' >= ckpt]_vars
<1>1. Init => IInv /\ Marked
  BY InitCovered, MarkedInit
<1>2. IInv /\ Marked /\ [Next]_vars => (IInv /\ Marked)'
  BY TypeStep, CoveredStep, MarkedStep DEF IInv
<1>3. IInv /\ Marked /\ [Next]_vars => [ckpt # None => ckpt' >= ckpt]_vars
  BY MarkedStep
<1> QED
  BY <1>1, <1>2, <1>3, PTL DEF Spec
-----------------------------------------------------------------------------
(* The chunks in hand lie below the cursor, and no two overlap. *)
Apart ==
    /\ \A t \in Threads : Scanning(t) => worker[t].cs + Chunk <= cursor /\ worker[t].ce <= worker[t].cs + Chunk - 1
    /\ \A t, u \in Threads : t # u /\ Scanning(t) /\ Scanning(u) =>
          worker[t].cs + Chunk <= worker[u].cs \/ worker[u].cs + Chunk <= worker[t].cs

LEMMA ApartStep == TypeOK /\ Apart /\ [Next]_vars => Apart'
<1> SUFFICES ASSUME TypeOK, Apart, [Next]_vars PROVE Apart'
  OBVIOUS
<1> USE RangeAssumption, ChunkAssumption DEF TypeOK, WorkerStates, MonitorStates, At, out, seen
<1>1. CASE Start \/ Crash \/ Finish
  <2>1. \A t \in Threads : worker'[t].pc # "scan"
    BY <1>1 DEF Start, Crash, Finish
  <2> QED
    BY <2>1 DEF Apart, Scanning
<1>2. ASSUME NEW t \in Threads, Take(t) PROVE Apart'
  <2>1. cursor' = cursor + Chunk /\ \A u \in Threads : u # t => worker'[u] = worker[u]
    BY <1>2 DEF Take
  <2>2. worker'[t].pc = "scan" => worker'[t].cs = cursor /\ worker'[t].ce <= cursor + Chunk - 1
    BY <1>2 DEF Take, Lower
  <2>3. \A u \in Threads : worker[u].cs \in Int /\ worker[u].ce \in Int
    OBVIOUS
  <2> QED
    BY <2>1, <2>2, <2>3 DEF Apart, Scanning
<1>3. ASSUME NEW t \in Threads, ScanBlock(t) \/ ChunkFails(t) \/ ChunkDone(t) PROVE Apart'
  <2>1. cursor' = cursor /\ \A u \in Threads : worker'[u].pc = "scan" => worker[u].pc = "scan" /\ worker'[u].cs = worker[u].cs /\ worker'[u].ce = worker[u].ce
    <3>1. CASE ScanBlock(t)
      BY <3>1 DEF ScanBlock
    <3>2. CASE ChunkFails(t) \/ ChunkDone(t)
      BY <3>2 DEF ChunkFails, ChunkDone
    <3> QED
      BY <1>3, <3>1, <3>2
  <2> QED
    BY <2>1 DEF Apart, Scanning
<1>4. CASE Grow \/ Flush \/ Wake \/ Advance \/ Publish \/ Join \/ UNCHANGED vars
  <2>1. UNCHANGED <<worker, cursor>>
    BY <1>4 DEF Grow, Flush, Wake, Advance, Publish, Join, vars
  <2> QED
    BY <2>1 DEF Apart, Scanning
<1> QED
  BY <1>1, <1>2, <1>3, <1>4 DEF Next, WorkerStep

(* No block is in the chunks of two workers of a run at once: the chunks   *)
(* fetch_add hands out never overlap, so that no document is sent twice    *)
(* by one run.                                                             *)
THEOREM OneWorkerPerBlock ==
    Spec => [](\A t, u \in Threads : t # u /\ Scanning(t) /\ Scanning(u) =>
                  (worker[t].cs .. worker[t].ce) \cap (worker[u].cs .. worker[u].ce) = {})
<1> DEFINE Disjoint == \A t, u \in Threads : t # u /\ Scanning(t) /\ Scanning(u) =>
                          (worker[t].cs .. worker[t].ce) \cap (worker[u].cs .. worker[u].ce) = {}
<1>1. Init => TypeOK /\ Apart
  <2>1. Init => Apart
    BY DEF Init, Apart, Scanning, At
  <2> QED
    BY <2>1, InitCovered DEF IInv
<1>2. TypeOK /\ Apart /\ [Next]_vars => (TypeOK /\ Apart)'
  BY TypeStep, ApartStep
<1>3. TypeOK /\ Apart => Disjoint
  <2> SUFFICES ASSUME TypeOK, Apart, NEW t \in Threads, NEW u \in Threads, t # u, Scanning(t), Scanning(u),
                      NEW b \in worker[t].cs .. worker[t].ce, b \in worker[u].cs .. worker[u].ce
               PROVE  FALSE
    OBVIOUS
  <2> QED
    BY ChunkAssumption DEF TypeOK, Apart
<1> QED
  BY <1>1, <1>2, <1>3, PTL DEF Spec
=============================================================================
