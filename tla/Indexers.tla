------------------------------ MODULE Indexers -------------------------------
(***************************************************************************)
(* The bulk indexers: action-proto, delta-proto (Antelope and Wire) and    *)
(* es-load.  Each worker walks its share of the log and sends documents    *)
(* over one channel to the posters of _bulk requests, or to one writer of  *)
(* NDJSON.  es-load posts the lines of a file it reads under a lock, which *)
(* is the same consumer over a channel that is full from the start.        *)
(***************************************************************************)
EXTENDS EntryDocs, SequencesExt

CONSTANTS
    Tools,          \* subset of {"action", "delta", "wire", "load"}
    NumBlocks,      \* the range is 1 .. NumBlocks after clamping
    NumThreads, Posters, Batch,
    Capacity,       \* tool |-> bound of its channel
    PartitionSize,
    Traces,         \* block |-> transactions, each a sequence of traces
    Deltas, KvRows, \* block |-> rows
    AbiLines,       \* tool |-> the ABI files it may be given
    LoadLines,      \* es-load's lines: documents, or NoDoc for one it cannot read
    NoDoc,
    MaxFaults       \* bound: workers, writes and requests that fail

VARIABLES
    tool, sink,     \* what was started; "es" or "file"
    lines,          \* its ABI file
    made,           \* block |-> what the worker makes of its entry under it
    bad,            \* blocks whose entry does not inflate or parse
    headless,       \* blocks the block log has no header for
    at, pc, out,    \* worker |-> next block, "run" or "done", documents to send
    chan,
    lock,           \* the poster that holds the receiver, or 0
    poster,         \* poster |-> [pc, batch]
    es, file,       \* what is indexed, what is written
    unread, counted, failed,  \* reported: blocks, rows, blocks of failed workers
    errors, posted,
    faults, dropped \* observer: a write failed and nobody was told

vars == <<tool, sink, lines, made, bad, headless, at, pc, out, chan, lock, poster, es, file,
          unread, counted, failed, errors, posted, faults, dropped>>
job == <<tool, sink, lines, made, bad, headless>>
report == <<unread, counted, failed>>

Workers == 0 .. NumThreads - 1

-----------------------------------------------------------------------------
(* main: the range is cut into one share per thread, rounded up. *)
CeilDiv(a, b) == (a + b - 1) \div b
Share == CeilDiv(NumBlocks, NumThreads)
From(i) == 1 + i * Share
Upto(i) == IF From(i) + Share - 1 < NumBlocks THEN From(i) + Share - 1 ELSE NumBlocks

(* The consumers each tool can have: es-load only posts, delta-proto only  *)
(* writes on an Antelope chain.                                            *)
Sinks(t) == CASE t = "load" -> {"es"} [] t = "delta" -> {"file"} [] t \in {"action", "wire"} -> {"es", "file"}

(* What the worker makes of the entry of block b. *)
Documents(t, abis, b) ==
    CASE t = "action" ->
            FlattenSeq([i \in DOMAIN Traces[b] |->
                FinalizeAndEmit(b, Procs(LoadActionIndex(abis), b, Traces[b][i]))])
      [] t = "delta" -> DeltaRows(LoadDeltaIndex(abis), b, Deltas[b])
      [] t = "wire" -> WireRows(LoadCatalog(abis), b, KvRows[b])
      [] t = "load" -> <<>>

Failures(t, abis, b) == IF t = "wire" THEN WireFailures(LoadCatalog(abis), b, KvRows[b]) ELSE {}

Init ==
    /\ tool \in Tools /\ sink \in Sinks(tool) /\ lines \in AbiLines[tool]
    /\ made = [b \in 1 .. NumBlocks |-> [docs |-> Documents(tool, lines, b), failures |-> Failures(tool, lines, b)]]
    /\ bad \in {{}} \cup {{b} : b \in 1 .. NumBlocks}
    /\ headless \in {{}} \cup (IF tool = "wire" THEN {{1}} ELSE {})
    /\ at = [i \in Workers |-> From(i)]
    /\ pc = [i \in Workers |-> IF tool = "load" \/ From(i) > NumBlocks THEN "done" ELSE "run"]
    /\ out = [i \in Workers |-> <<>>]
    /\ chan = IF tool = "load" THEN LoadLines ELSE <<>>
    /\ lock = 0
    /\ poster = [p \in Posters |-> [pc |-> "recv", batch |-> <<>>]]
    /\ es = {} /\ file = <<>>
    /\ unread = {} /\ counted = {} /\ failed = {}
    /\ errors = 0 /\ posted = 0 /\ faults = 0 /\ dropped = FALSE

-----------------------------------------------------------------------------
(* worker: an entry that does not read is counted (delta-proto on Antelope *)
(* passes over it), a block without a header too; then the next one.  The  *)
(* rows of a delta before the place it breaks off have their documents.    *)
ReadEntry(i) ==
    /\ pc[i] = "run" /\ at[i] <= Upto(i) /\ out[i] = <<>>
    /\ at' = [at EXCEPT ![i] = @ + 1]
    /\ LET b == at[i]
           skip == b \in bad \/ b \in headless
       IN  /\ \E k \in IF ~skip THEN {Len(made[b].docs)}
                       ELSE IF b \in headless \/ tool = "action" THEN {0} ELSE 0 .. Len(made[b].docs) :
                 out' = [out EXCEPT ![i] = SubSeq(made[b].docs, 1, k)]
           /\ unread' = IF skip /\ tool # "delta" THEN unread \cup {b} ELSE unread
           /\ counted' = IF skip THEN counted ELSE counted \cup made[b].failures
    /\ UNCHANGED <<job, pc, chan, lock, poster, es, file, failed, errors, posted, faults, dropped>>

(* tx.send: blocks while a bounded channel is full. *)
Send(i) ==
    /\ out[i] # <<>> /\ Len(chan) < Capacity[tool]
    /\ chan' = Append(chan, Head(out[i]))
    /\ out' = [out EXCEPT ![i] = Tail(@)]
    /\ UNCHANGED <<job, at, pc, lock, poster, es, file, report, errors, posted, faults, dropped>>

(* A worker's error is printed with its share, and the others go on. *)
WorkerFails(i) ==
    /\ pc[i] = "run" /\ at[i] <= Upto(i) /\ out[i] = <<>>
    /\ faults < MaxFaults /\ faults' = faults + 1
    /\ pc' = [pc EXCEPT ![i] = "done"]
    /\ failed' = failed \cup (at[i] .. Upto(i))
    /\ UNCHANGED <<job, at, out, chan, lock, poster, es, file, unread, counted, errors, posted, dropped>>

WorkerEnds(i) ==
    /\ pc[i] = "run" /\ at[i] > Upto(i) /\ out[i] = <<>>
    /\ pc' = [pc EXCEPT ![i] = "done"]
    /\ UNCHANGED <<job, at, out, chan, lock, poster, es, file, report, errors, posted, faults, dropped>>

(* Mutant: main keeps its own sender. *)
ClosedNever == FALSE

(* Every sender is dropped and the channel is drained. *)
Closed == chan = <<>> /\ \A i \in Workers : pc[i] = "done"

-----------------------------------------------------------------------------
(* es_poster: the first document is awaited with the receiver locked. *)
TakeFirst(p) ==
    /\ sink = "es" /\ poster[p].pc = "recv" /\ lock = 0 /\ chan # <<>>
    /\ lock' = p
    /\ poster' = [poster EXCEPT ![p] = [pc |-> "linger", batch |-> <<Head(chan)>>]]
    /\ chan' = Tail(chan)
    /\ UNCHANGED <<job, at, pc, out, es, file, report, errors, posted, faults, dropped>>

(* More are taken until the batch is full or the linger is over ... *)
TakeMore(p) ==
    /\ poster[p].pc = "linger" /\ Len(poster[p].batch) < Batch /\ chan # <<>>
    /\ poster' = [poster EXCEPT ![p].batch = Append(@, Head(chan))]
    /\ chan' = Tail(chan)
    /\ UNCHANGED <<job, at, pc, out, lock, es, file, report, errors, posted, faults, dropped>>

(* ... and the lock is released before the request.  es-load drops the     *)
(* lines it cannot read, and reads on when none is left.                   *)
Release(p) ==
    /\ poster[p].pc = "linger"
    /\ lock' = 0
    /\ LET kept == SelectSeq(poster[p].batch, LAMBDA d : d # NoDoc)
       IN  poster' = [poster EXCEPT ![p] = [pc |-> IF kept = <<>> THEN "recv" ELSE "post", batch |-> kept]]
    /\ UNCHANGED <<job, at, pc, out, chan, es, file, report, errors, posted, faults, dropped>>

(* action_index: the partition counts from 1. *)
Partition(b) == IF CeilDiv(b, PartitionSize) < 1 THEN 1 ELSE CeilDiv(b, PartitionSize)

(* Elasticsearch indexes a document under its _index and _id. *)
Index(store, d) ==
    {e \in store : e.index # Partition(d.block) \/ e.doc.id # d.id}
        \cup {[index |-> Partition(d.block), doc |-> d]}

IndexSome(store, batch, some) ==
    FoldLeft(LAMBDA st, i : IF i \in some THEN Index(st, batch[i]) ELSE st, store, [i \in DOMAIN batch |-> i])

(* Mutant: an answer with item errors is taken for success. *)
PostTrusting(p) ==
    /\ poster[p].pc = "post"
    /\ posted' = posted + Len(poster[p].batch)
    /\ poster' = [poster EXCEPT ![p] = [pc |-> "recv", batch |-> <<>>]]
    /\ \E some \in SUBSET DOMAIN poster[p].batch : es' = IndexSome(es, poster[p].batch, some)
    /\ UNCHANGED <<job, at, pc, out, chan, lock, file, report, errors, faults, dropped>>

(* The request: all is indexed, or some of it and the answer says so or    *)
(* does not come.  The documents count as posted either way.               *)
Post(p) ==
    /\ poster[p].pc = "post"
    /\ posted' = posted + Len(poster[p].batch)
    /\ poster' = [poster EXCEPT ![p] = [pc |-> "recv", batch |-> <<>>]]
    /\ \/ /\ es' = IndexSome(es, poster[p].batch, DOMAIN poster[p].batch)
          /\ UNCHANGED <<errors, faults>>
       \/ /\ faults < MaxFaults /\ faults' = faults + 1
          /\ \E some \in SUBSET DOMAIN poster[p].batch : es' = IndexSome(es, poster[p].batch, some)
          /\ errors' = errors + 1
    /\ UNCHANGED <<job, at, pc, out, chan, lock, file, report, dropped>>

PosterEnds(p) ==
    /\ poster[p].pc = "recv" /\ lock = 0 /\ Closed
    /\ poster' = [poster EXCEPT ![p].pc = "done"]
    /\ UNCHANGED <<job, at, pc, out, chan, lock, es, file, report, errors, posted, faults, dropped>>

(* The NDJSON writer: an error of writeln is ignored. *)
Write ==
    /\ sink = "file" /\ chan # <<>>
    /\ chan' = Tail(chan)
    /\ \/ file' = Append(file, Head(chan)) /\ UNCHANGED <<faults, dropped>>
       \/ faults < MaxFaults /\ faults' = faults + 1 /\ dropped' = TRUE /\ UNCHANGED file
    /\ UNCHANGED <<job, at, pc, out, lock, poster, es, report, errors, posted>>

WorkerStep(i) == ReadEntry(i) \/ Send(i) \/ WorkerEnds(i)
PosterStep(p) == TakeFirst(p) \/ Release(p) \/ Post(p) \/ PosterEnds(p)

Next ==
    \/ \E i \in Workers : WorkerStep(i) \/ WorkerFails(i)
    \/ \E p \in Posters : PosterStep(p) \/ TakeMore(p)
    \/ Write

(* Some thread that can run runs; the linger and the request end: the      *)
(* server answers or the connection breaks.                                *)
Fairness == WF_vars(Next)

Spec == Init /\ [][Next]_vars /\ Fairness

-----------------------------------------------------------------------------
Ended == Closed /\ (sink = "es" => \A p \in Posters : poster[p].pc = "done")

Sunk == IF sink = "es" THEN {e.doc : e \in es} ELSE {file[i] : i \in DOMAIN file}

(* The executed actions of a transaction. *)
Ran(tx) == {a \in {tx[i] : i \in DOMAIN tx} : ~a.except /\ a.gs # NoReceipt}
RanIn(b) == UNION {Ran(Traces[b][i]) : i \in DOMAIN Traces[b]}

(* The main thread was told why something of block b may be missing. *)
Told(b) == b \in unread \/ b \in failed \/ errors > 0

(* At the end every record of the range is in the sink or the run has      *)
(* reported why not: an unreadable entry, a failed worker, a failed        *)
(* request, and for Wire the row itself ("counted and reported, never      *)
(* silently dropped").  Left out: what the code does not report, the       *)
(* entries delta-proto cannot read and the errors of the NDJSON writer.    *)
NothingSilent ==
    Ended /\ ~dropped => \A b \in 1 .. NumBlocks :
        \/ Told(b)
        \/ /\ tool = "action" => \A a \in RanIn(b) : \E d \in Sunk : a.gs \in d.receipts
           /\ tool = "delta" /\ b \notin bad => \A i \in DOMAIN Deltas[b] :
                 Deltas[b][i].table = "contract_row" /\ Deltas[b][i].present /\ Deltas[b][i].parses
                    => \E d \in Sunk : d.id = <<b, Deltas[b][i].key>>
           /\ tool = "wire" => \A i \in DOMAIN KvRows[b] :
                 KvRows[b][i].present /\ KvRows[b][i].table # "account"
                    => \/ \E d \in Sunk : d.id = DocumentId(b, KvRows[b], i)
                       \/ <<b, KvRows[b][i].key>> \in counted
           /\ tool = "load" => \A i \in DOMAIN LoadLines : LoadLines[i] \in Sunk \cup {NoDoc}

(* What the accounts' ABI was at the end of block b, by the whole file. *)
FinalAbi(b) ==
    LET upto == {i \in DOMAIN lines : lines[i].block <= b}
        newest == {i \in upto : \A j \in upto : lines[j].block <= lines[i].block}
    IN  IF upto = {} THEN NoAbi ELSE lines[Greatest(newest)].abi

(* Whatever the order of the ABI file and of the threads, each executed    *)
(* action is in exactly one document, in one index; documents gather an    *)
(* action with its own notifications only; one of a transaction carries    *)
(* its usage; and no field of the decoded data is lost between act.data    *)
(* and the @-field.                                                        *)
ActionsToldOnce ==
    tool = "action" =>
        /\ \A d, e \in Sunk : d # e => d.receipts \cap e.receipts = {}
        /\ \A x, y \in es : x.doc = y.doc => x = y
        /\ \A i, j \in DOMAIN file : i # j => file[i] # file[j]
        /\ \A d \in Sunk : \A t \in DOMAIN Traces[d.block] :
              LET mine == {a \in Ran(Traces[d.block][t]) : a.gs \in d.receipts}
                  head == CHOOSE a \in mine : a.gs = d.id
              IN  /\ \A a \in mine : a = head \/ (a.digest = head.digest /\ a.creator \in {head.ord, head.creator} \ {0})
                  /\ mine # {} /\ d.abi # NoAbi => d.body.data \cup d.body.at = head.data
        /\ Ended /\ ~dropped => \A b \in 1 .. NumBlocks : \A t \in DOMAIN Traces[b] :
              Told(b) \/ Ran(Traces[b][t]) = {}
                 \/ Cardinality({d \in Sunk : d.usage /\ \E a \in Ran(Traces[b][t]) : a.gs = d.id}) = 1

(* A document is left undecoded only if the bytes decode neither with the  *)
(* ABI at the end of its block nor with the one at the end of the block    *)
(* before; a Wire document names the ABI at the end of its block.          *)
DecodedWhenItCan ==
    \A d \in Sunk :
        /\ tool = "action" /\ d.abi = NoAbi => \A a \in RanIn(d.block) :
              a.gs = d.id => {FinalAbi(d.block), FinalAbi(d.block - 1)} \cap a.accepts = {}
        /\ tool = "delta" /\ d.abi = NoAbi => \A i \in DOMAIN Deltas[d.block] :
              <<d.block, Deltas[d.block][i].key>> = d.id =>
                 {FinalAbi(d.block), FinalAbi(d.block - 1)} \cap Deltas[d.block][i].accepts = {}
        /\ tool = "wire" => d.abi = FinalAbi(d.block)

(* Whatever fails, the run ends: no worker waits for a channel nobody      *)
(* reads and no poster for one nobody closes.                              *)
IndexerEnds == <>Ended
=============================================================================
