------------------------------ MODULE DiskScan -------------------------------
(***************************************************************************)
(* abi-scanner --from-disk: scan_disk (core/src/disk.rs) and the output it *)
(* resumes (abi-scanner/src/main.rs).  Workers take chunks of blocks from  *)
(* a shared cursor and send the ABI documents they find to one writer; a   *)
(* monitor writes a checkpoint of the blocks done without a gap.  The      *)
(* process may be killed at any moment and started again with the same     *)
(* command, after the chain has grown.                                     *)
(*                                                                         *)
(* A document is [block, abi]; Docs[b] are the ABI versions that     *)
(* block b gives one account, in order.                                    *)
(***************************************************************************)
EXTENDS Integers, Sequences, FiniteSets

CONSTANTS
    FirstBlock,          \* the first block of the range
    FirstEnd, LastBlock, \* its last block in the first run, and the highest ever
    Docs,           \* block |-> sequence of ABI versions
    Threads, Chunk,
    MaxCrashes,     \* bound: times the process is killed
    MaxFails,       \* bound: chunks that fail, and entries that do not read
    None

VARIABLES
    end,            \* last block of the range, clamped to the index
    start, cursor,  \* of this run
    worker,         \* thread |-> [pc, cs, at, ce]: its chunk and place
    completed,      \* chunks done, by first block
    pending,        \* documents sent, in the channel or in the writer's buffer
    file,           \* whole lines of the output
    torn,           \* the document the output ends with a part of, or None
    ckpt,           \* the checkpoint, or None
    mon,            \* the monitor, then the end of scan_disk: [pc, wm]
    scanned,        \* observer: blocks read to their end, in any run
    skipped,        \* observer: blocks whose entry did not read
    lost,           \* observer: a kill dropped a document below the checkpoint
    crashes, fails

vars == <<end, start, cursor, worker, completed, pending, file, torn, ckpt, mon,
          scanned, skipped, lost, crashes, fails>>
out == <<pending, file, torn, lost>>
seen == <<scanned, skipped>>

ASSUME ChunkAssumption == Chunk \in Nat \ {0}
ASSUME RangeAssumption == FirstBlock \in Nat /\ FirstEnd \in Nat /\ LastBlock \in Nat /\ FirstBlock <= FirstEnd

At(pc) == [pc |-> pc, cs |-> FirstBlock, at |-> FirstBlock, ce |-> FirstBlock]
Up == mon.pc # "off"
Highest(S) == CHOOSE x \in S : \A y \in S : y <= x
Lower(a, b) == IF a < b THEN a ELSE b

Init ==
    /\ end = FirstEnd /\ start = FirstBlock /\ cursor = FirstBlock
    /\ worker = [t \in Threads |-> At("off")] /\ completed = {}
    /\ pending = <<>> /\ file = <<>> /\ torn = None
    /\ ckpt = None /\ mon = [pc |-> "off", wm |-> FirstBlock]
    /\ scanned = {} /\ skipped = {} /\ lost = FALSE /\ crashes = 0 /\ fails = 0

-----------------------------------------------------------------------------
(* scan_disk starts at the checkpoint, never before the range asked for.   *)
Resume == IF ckpt = None THEN FirstBlock ELSE IF ckpt < FirstBlock THEN FirstBlock ELSE ckpt

(* Mutant: a torn last line is left in place. *)
StartAfterTornLine ==
    /\ ~Up
    /\ Resume <= end
    /\ start' = Resume
    /\ cursor' = start'
    /\ completed' = {}
    /\ worker' = [t \in Threads |-> At("take")]
    /\ file' = IF ckpt = None THEN <<>> ELSE file
    /\ torn' = IF ckpt = None THEN None ELSE torn
    /\ mon' = [pc |-> "sleep", wm |-> start']
    /\ UNCHANGED <<end, pending, ckpt, seen, lost, crashes, fails>>

(* main: with a checkpoint the output is appended to, its torn line cut;   *)
(* without one it is created anew.  A checkpoint past the end is all done. *)
Start ==
    /\ ~Up
    /\ Resume <= end
    /\ start' = Resume
    /\ cursor' = start'
    /\ completed' = {}
    /\ worker' = [t \in Threads |-> At("take")]
    /\ file' = IF ckpt = None THEN <<>> ELSE file
    /\ torn' = None
    /\ mon' = [pc |-> "sleep", wm |-> start']
    /\ UNCHANGED <<end, pending, ckpt, seen, lost, crashes, fails>>

(* Between two runs the log grows by a block. *)
Grow ==
    /\ ~Up /\ end < LastBlock
    /\ end' = end + 1
    /\ UNCHANGED <<start, cursor, worker, completed, out, ckpt, mon, seen, crashes, fails>>

-----------------------------------------------------------------------------
(* A worker takes the next chunk, fetch_add on the cursor, or ends. *)
Take(t) ==
    /\ worker[t].pc = "take"
    /\ cursor' = cursor + Chunk
    /\ worker' = [worker EXCEPT ![t] =
                    IF cursor > end THEN At("done")
                    ELSE [pc |-> "scan", cs |-> cursor, at |-> cursor, ce |-> Lower(cursor + Chunk - 1, end)]]
    /\ UNCHANGED <<end, start, completed, out, ckpt, mon, seen, crashes, fails>>

Scanning(t) == worker[t].pc = "scan"

(* worker_scan sends the documents of a block; an entry that does not read *)
(* is logged and passed over.                                              *)
ScanBlock(t) ==
    /\ Scanning(t) /\ worker[t].at <= worker[t].ce
    /\ worker' = [worker EXCEPT ![t].at = @ + 1]
    /\ LET b == worker[t].at
       IN  /\ scanned' = scanned \cup {b}
           /\ \/ /\ pending' = pending \o [i \in DOMAIN Docs[b] |-> [block |-> b, abi |-> Docs[b][i]]]
                 /\ UNCHANGED <<skipped, fails>>
              \/ /\ fails < MaxFails
                 /\ fails' = fails + 1
                 /\ skipped' = skipped \cup {b}
                 /\ UNCHANGED pending
    /\ UNCHANGED <<end, start, cursor, completed, file, torn, lost, ckpt, mon, crashes>>

(* Mutant: a chunk that failed counts as completed. *)
ChunkFailsCompleted(t) ==
    /\ Scanning(t) /\ worker[t].at <= worker[t].ce
    /\ fails < MaxFails /\ mon.pc # "advance"
    /\ fails' = fails + 1
    /\ completed' = completed \cup {worker[t].cs}
    /\ worker' = [worker EXCEPT ![t] = At("take")]
    /\ UNCHANGED <<end, start, cursor, out, ckpt, mon, seen, crashes>>

(* A chunk that fails is logged and left for the next run. *)
ChunkFails(t) ==
    /\ Scanning(t) /\ worker[t].at <= worker[t].ce
    /\ fails < MaxFails
    /\ fails' = fails + 1
    /\ worker' = [worker EXCEPT ![t] = At("take")]
    /\ UNCHANGED <<end, start, cursor, completed, out, ckpt, mon, seen, crashes>>

(* The chunk is marked done, under the lock the monitor advances with. *)
ChunkDone(t) ==
    /\ Scanning(t) /\ worker[t].at > worker[t].ce
    /\ mon.pc # "advance"
    /\ completed' = completed \cup {worker[t].cs}
    /\ worker' = [worker EXCEPT ![t] = At("take")]
    /\ UNCHANGED <<end, start, cursor, out, ckpt, mon, seen, crashes, fails>>

-----------------------------------------------------------------------------
(* The writer receives lines into a buffer that reaches the file when it   *)
(* is full, whatever its size, and when the channel is closed.  After a    *)
(* part of a line the first one written does not parse.                    *)
Flush ==
    /\ Up
    /\ \E k \in 1 .. Len(pending) :
          /\ file' = file \o SubSeq(pending, IF torn = None THEN 1 ELSE 2, k)
          /\ pending' = SubSeq(pending, k + 1, Len(pending))
    /\ torn' = None
    /\ UNCHANGED <<end, start, cursor, worker, completed, ckpt, mon, seen, lost, crashes, fails>>

-----------------------------------------------------------------------------
WorkersDone == \A t \in Threads : worker[t].pc = "done"
WriterDone == WorkersDone /\ pending = <<>>

(* The monitor wakes, takes the lock, and moves the watermark over every   *)
(* chunk completed.                                                        *)
Wake ==
    /\ mon.pc = "sleep"
    /\ mon' = [mon EXCEPT !.pc = "advance"]
    /\ UNCHANGED <<end, start, cursor, worker, completed, out, ckpt, seen, crashes, fails>>

Advance ==
    /\ mon.pc \in {"advance", "final"} /\ mon.wm \in completed
    /\ mon' = [mon EXCEPT !.wm = @ + Chunk]
    /\ UNCHANGED <<end, start, cursor, worker, completed, out, ckpt, seen, crashes, fails>>

(* Mutant: the watermark is written as it is. *)
WatermarkPastEnd == mon.wm

(* "cap at end+1: the final chunk is clamped to `end`" *)
Watermark == Lower(mon.wm, end + 1)

(* The checkpoint is replaced by a rename. *)
Publish ==
    /\ mon.pc = "advance" /\ mon.wm \notin completed
    /\ ckpt' = Watermark
    /\ mon' = [mon EXCEPT !.pc = IF WorkersDone THEN "exit" ELSE "sleep"]
    /\ UNCHANGED <<end, start, cursor, worker, completed, out, seen, crashes, fails>>

(* Writer, monitor and workers are joined, a monitor that never slept too; *)
(* the watermark is taken again from the start and written.                *)
Join ==
    /\ mon.pc \in {"exit", "sleep"} /\ WriterDone
    /\ mon' = [pc |-> "final", wm |-> start]
    /\ UNCHANGED <<end, start, cursor, worker, completed, out, ckpt, seen, crashes, fails>>

Finish ==
    /\ mon.pc = "final" /\ mon.wm \notin completed
    /\ ckpt' = Watermark
    /\ mon' = [mon EXCEPT !.pc = "off"]
    /\ worker' = [t \in Threads |-> At("off")]
    /\ UNCHANGED <<end, start, cursor, completed, out, seen, crashes, fails>>

(* The process is killed: what is not in the file is gone, and the file    *)
(* may end with a part of the next line.                                   *)
Crash ==
    /\ Up /\ crashes < MaxCrashes
    /\ crashes' = crashes + 1
    /\ lost' = (lost \/ \E i \in DOMAIN pending : ckpt # None /\ pending[i].block < ckpt)
    /\ torn' \in {None} \cup {pending[i] : i \in DOMAIN pending \cap {1}}
    /\ pending' = <<>>
    /\ mon' = [mon EXCEPT !.pc = "off"]
    /\ worker' = [t \in Threads |-> At("off")]
    /\ UNCHANGED <<end, start, cursor, completed, file, ckpt, seen, fails>>

WorkerStep(t) == Take(t) \/ ScanBlock(t) \/ ChunkFails(t) \/ ChunkDone(t)

Next ==
    \/ Start \/ Grow \/ Crash
    \/ \E t \in Threads : WorkerStep(t)
    \/ Flush
    \/ Wake \/ Advance \/ Publish \/ Join \/ Finish

Spec == Init /\ [][Next]_vars

-----------------------------------------------------------------------------
Finished == ~Up /\ ckpt = end + 1

(* The index the decoders load from the output. *)
Index == INSTANCE AbiIndex WITH NoAbi <- None

(* The version the chain had at the end of block b, of the entries read. *)
InForce(b) ==
    LET set == {c \in FirstBlock .. b : Docs[c] # <<>> /\ c \notin skipped}
    IN  IF set = {} THEN None ELSE Docs[Highest(set)][Len(Docs[Highest(set)])]

(* The checkpoint never passes a block no run has read, whatever chunks    *)
(* fail, whenever the process is killed and however the chain grows        *)
(* between runs: "if any chunk failed, it stops at that chunk so the       *)
(* re-run picks up exactly the gap".                                       *)
CheckpointCovers == ckpt # None => FirstBlock .. ckpt - 1 \subseteq scanned

(* The workers write their documents in any order, and again after a       *)
(* restart; once a run says all is done, the index loaded from the output  *)
(* gives every block the ABI in force there, unless a kill took documents  *)
(* the checkpoint was already past.                                        *)
IndexIsHistory ==
    Finished /\ ~lost /\ skipped = {} => \A b \in FirstBlock .. end : Index!Active(file, b) = InForce(b)

(* What the comment of open_resumable_out says of a line cut short by a    *)
(* kill: it "sits at/after the checkpoint watermark and is re-emitted on   *)
(* resume, so it is never lost".                                           *)
TrimmedIsReemitted == torn # None /\ ckpt # None => torn.block >= ckpt
=============================================================================
