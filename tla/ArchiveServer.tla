---------------------------- MODULE ArchiveServer ----------------------------
(***************************************************************************)
(* archive-server: one HTTP worker over frozen trace_history and           *)
(* chain_state_history logs and an ABI index.  Workers share nothing that  *)
(* changes; each has two rings of cached blocks.  The logs' content and    *)
(* the index are constants; a read of a block may fail at any time, and    *)
(* the files may be found missing, foreign or cut short at the start.      *)
(*                                                                         *)
(* An action of a block is [gs, counts, code, abi]: its global sequence,   *)
(* whether it has a receipt and no exception, its contract and the ABI     *)
(* version its data decodes under.  A delta row is [key, present, code,    *)
(* abi].  An entry that is empty or does not parse is NoContent.           *)
(***************************************************************************)
EXTENDS Integers, Sequences, FiniteSets, SequencesExt

CONSTANTS
    Traces,        \* block |-> sequence of actions, or NoContent
    Deltas,        \* block |-> sequence of rows, or NoContent
    LogStates,     \* how a log is found: [magic, slots]
    Lines,         \* the ABI index: a sequence of [code, block, abi]
    CacheBlocks,   \* slots of a ring (64)
    MaxBlocksPerBatch,
    MAX_BATCH_ITEMS,
    Batches,       \* the bodies clients post: [read, items], items [block, key, named]
    MaxBroken,     \* blocks whose reads fail in one request
    NoContent, None

VARIABLES
    server,        \* [up, trace, delta]: the blocks served of each log
    cache, next,   \* BlockCache: slots <<block, data>>, and the slot replaced next
    dcache, dnext, \* DeltaCache
    reply          \* the last request and its answer

vars == <<server, cache, next, dcache, dnext, reply>>

Blocks == server.trace
DeltaBlocks == server.delta
Asked == UNION {{b.items[i].block : i \in DOMAIN b.items} : b \in Batches}
Keys == UNION {{b.items[i].key : i \in DOMAIN b.items} : b \in Batches}

Init ==
    /\ server = [up |-> "no", trace |-> {}, delta |-> {}]
    /\ cache = <<>> /\ dcache = <<>>
    /\ next = 0 /\ dnext = 0
    /\ reply = None

-----------------------------------------------------------------------------
(* open_log_info: the blocks of a log, from its first header and the       *)
(* length of its index; none when it is not a log or has no slots.         *)
OpenLogInfo(file) == IF file.magic THEN 1 .. file.slots ELSE {}

(* main: without the trace log the process ends; without the delta log it  *)
(* serves the rest.                                                        *)
Main ==
    /\ server.up = "no"
    /\ \E t, d \in LogStates :
          server' = [up |-> IF OpenLogInfo(t) = {} THEN "exited" ELSE "yes",
                     trace |-> OpenLogInfo(t), delta |-> OpenLogInfo(d)]
    /\ UNCHANGED <<cache, next, dcache, dnext, reply>>

-----------------------------------------------------------------------------
(* load_abi_index and Registry::active: the lines of a contract in order   *)
(* of their block (a stable sort), and the last that took effect by then.  *)
Versions(code) ==
    LET of == SelectSeq(Lines, LAMBDA l : l.code = code /\ l.abi # "empty")
    IN  SortSeq([i \in DOMAIN of |-> <<of[i], i>>],
                LAMBDA x, y : x[1].block < y[1].block \/ (x[1].block = y[1].block /\ x[2] < y[2]))

Active(code, block) ==
    LET upto == SelectSeq(Versions(code), LAMBDA v : v[1].block <= block)
    IN  IF upto = <<>> THEN None ELSE Last(upto)[1].abi

(* append_data_value: decoded at the block of the action, or raw. *)
ActionValue(b, a) == IF Active(a.code, b) = a.abi THEN <<"json", a.abi>> ELSE <<"hex">>

(* handle_deltas_batch decodes at the block, then at the one before. *)
RowValue(b, r) ==
    IF Active(r.code, b) = r.abi \/ (b > 1 /\ Active(r.code, b - 1) = r.abi)
    THEN <<"json", r.abi>> ELSE <<"hex">>

-----------------------------------------------------------------------------
(* The rings. *)
Find(slots, n) == SelectInSeq(slots, LAMBDA s : s[1] = n)

(* Mutant: a full ring replaces the data of a slot and keeps its block. *)
InsertKeepsBlock(r, n, data) ==
    IF Find(r.slots, n) # 0 THEN [r EXCEPT !.slots[Find(r.slots, n)] = <<n, data>>]
    ELSE IF Len(r.slots) < CacheBlocks THEN [r EXCEPT !.slots = Append(@, <<n, data>>)]
    ELSE [slots |-> [r.slots EXCEPT ![r.next + 1] = <<@[1], data>>],
          next |-> (r.next + 1) % CacheBlocks]

Insert(r, n, data) ==
    IF Find(r.slots, n) # 0 THEN [r EXCEPT !.slots[Find(r.slots, n)] = <<n, data>>]
    ELSE IF Len(r.slots) < CacheBlocks THEN [r EXCEPT !.slots = Append(@, <<n, data>>)]
    ELSE [slots |-> [r.slots EXCEPT ![r.next + 1] = <<n, data>>],
          next |-> (r.next + 1) % CacheBlocks]

(* LogReader::read_block fails where the disk does, and for a slot that    *)
(* leads to no entry of that block.                                        *)
Readable(n, log, broken) == n \in DOMAIN log /\ n \notin broken

(* get_or_read: a failed read is not cached, a block without content is. *)
GetOrRead(r, n, log, broken) ==
    IF Find(r.slots, n) # 0 THEN r
    ELSE IF ~Readable(n, log, broken) THEN r
    ELSE Insert(r, n, log[n])

DataIn(r, n) == r.slots[Find(r.slots, n)][2]

(* The rows for_each_row walks that are contract rows, present, and parse. *)
RowsOf(rows) == SelectSeq(rows, LAMBDA r : r.present /\ r.table = "contract_row" /\ r.parses)

(* DeltaReader::read_block: a payload that does not walk, or holds no such *)
(* row, has no content.                                                    *)
DeltaLog == [n \in DOMAIN Deltas |->
                IF Deltas[n] = NoContent \/ RowsOf(Deltas[n]) = <<>> THEN NoContent ELSE RowsOf(Deltas[n])]

(* The first action of the block with this global sequence, of those that  *)
(* have a receipt and no exception.                                        *)
Counted(acts) == SelectSeq(acts, LAMBDA a : a.counts)
FirstWith(seq, test(_)) ==
    LET hits == SelectSeq(seq, test) IN IF hits = <<>> THEN None ELSE hits[1]
ActionIn(data, gs) == FirstWith(Counted(data), LAMBDA a : a.gs = gs)
RowIn(data, key) == FirstWith(data, LAMBDA r : r.key = key)

-----------------------------------------------------------------------------
Answer(kind, items, broken, reached, code, out) ==
    reply' = [kind |-> kind, items |-> items, broken |-> broken, reached |-> reached,
              code |-> code, out |-> out]

(* What a request of one block of the trace log comes to before its        *)
(* actions are looked at: out of range, unreadable, or read into the ring. *)
OneBlock(n, broken) ==
    LET r == GetOrRead([slots |-> cache, next |-> next], n, Traces, broken)
    IN  IF n = None THEN [code |-> 400]
        ELSE IF n \notin Blocks THEN [code |-> 416]
        ELSE IF Find(r.slots, n) = 0 THEN [code |-> 500]
        ELSE [code |-> 200, ring |-> r, data |-> DataIn(r, n)]

Remember(b) ==
    IF b.code = 200 THEN cache' = b.ring.slots /\ next' = b.ring.next
    ELSE UNCHANGED <<cache, next>>

(* GET /action; a parameter that is missing or no number is None *)
HandleAction(n, gs, broken) ==
    LET b == IF gs = None THEN [code |-> 400] ELSE OneBlock(n, broken)
        a == IF b.code # 200 \/ b.data = NoContent THEN None ELSE ActionIn(b.data, gs)
        code == IF b.code = 200 /\ a = None THEN 404 ELSE b.code
    IN  /\ Remember(b)
        /\ Answer("action", <<[block |-> n, key |-> gs]>>, broken, 1, code,
                  IF a = None THEN None ELSE ActionValue(n, a))
        /\ UNCHANGED <<dcache, dnext>>

(* GET /block/<n>: every counted action, in order. *)
HandleBlock(n, broken) ==
    LET b == OneBlock(n, broken)
        acts == IF b.code # 200 \/ b.data = NoContent THEN <<>> ELSE Counted(b.data)
    IN  /\ Remember(b)
        /\ Answer("block", <<[block |-> n, key |-> None]>>, broken, 1, b.code,
                  [i \in DOMAIN acts |-> <<acts[i].gs, ActionValue(n, acts[i])>>])
        /\ UNCHANGED <<dcache, dnext>>

(* GET /health: the ranges served. *)
HandleHealth ==
    /\ Answer("health", <<>>, {}, 0, 200, <<Blocks, DeltaBlocks>>)
    /\ UNCHANGED <<cache, next, dcache, dnext>>

-----------------------------------------------------------------------------
(* read_batch_array: the code a body is refused with, or 200. *)
ReadBatchArray(body) ==
    CASE body.read = "large" -> 413
      [] body.read \in {"fails", "malformed", "not an array"} -> 400
      [] OTHER -> IF Len(body.items) > MAX_BATCH_ITEMS THEN 413 ELSE 200

(* parse_batch_body: one bad item refuses the whole batch. *)
ParseBatchBody(body) ==
    IF ReadBatchArray(body) # 200 THEN ReadBatchArray(body)
    ELSE IF \E i \in DOMAIN body.items : None \in {body.items[i].block, body.items[i].key} THEN 400
    ELSE 200

(* parse_deltas_body: the contract and the table must be names, too. *)
ParseDeltasBody(body) ==
    IF ParseBatchBody(body) # 200 THEN ParseBatchBody(body)
    ELSE IF \E i \in DOMAIN body.items : ~body.items[i].named THEN 400
    ELSE 200

(* The in-range blocks of a batch, ascending (the BTreeMap). *)
ByBlock(items, range) ==
    SetToSortSeq({items[i].block : i \in DOMAIN items} \cap range, LAMBDA x, y : x < y)

PickAction(n, data, gs) ==
    LET a == ActionIn(data, gs) IN IF a = None THEN None ELSE ActionValue(n, a)
PickRow(n, data, key) ==
    LET r == RowIn(data, key) IN IF r = None THEN None ELSE RowValue(n, r)
Pick(kind, n, data, key) == IF kind = "actions" THEN PickAction(n, data, key) ELSE PickRow(n, data, key)

(* The loop of a batch over the first `reached` of its blocks: each block  *)
(* is read once and resolves its positions while its slot is in the ring;  *)
(* a block that cannot be read is passed over.                             *)
Resolve(kind, ring, items, range, log, broken, reached) ==
    LET blocks == SubSeq(ByBlock(items, range), 1, reached)
        step(st, n) ==
            LET r == GetOrRead(st.ring, n, log, broken)
            IN  IF Find(r.slots, n) = 0 \/ DataIn(r, n) = NoContent THEN [st EXCEPT !.ring = r]
                ELSE [ring |-> r,
                      out |-> [i \in DOMAIN items |->
                                  IF items[i].block = n THEN Pick(kind, n, DataIn(r, n), items[i].key)
                                  ELSE st.out[i]]]
    IN  FoldLeft(step, [ring |-> ring, out |-> [i \in DOMAIN items |-> None]], blocks)

(* Where the deadline, or the cap on blocks, stops a batch. *)
Reach(items, range) == 0 .. Min({MaxBlocksPerBatch, Len(ByBlock(items, range))})

(* POST /actions *)
HandleActionsBatch(body, broken, reached) ==
    LET code == ParseBatchBody(body)
        st == Resolve("actions", [slots |-> cache, next |-> next], body.items, Blocks, Traces, broken, reached)
    IN  /\ IF code = 200 THEN cache' = st.ring.slots /\ next' = st.ring.next
           ELSE UNCHANGED <<cache, next>>
        /\ Answer("actions", body.items, broken, reached, code, IF code = 200 THEN st.out ELSE <<>>)
        /\ UNCHANGED <<dcache, dnext>>

(* POST /deltas, 503 without a chain_state_history log *)
HandleDeltasBatch(body, broken, reached) ==
    LET code == IF DeltaBlocks = {} THEN 503 ELSE ParseDeltasBody(body)
        st == Resolve("deltas", [slots |-> dcache, next |-> dnext], body.items, DeltaBlocks, DeltaLog, broken, reached)
    IN  /\ IF code = 200 THEN dcache' = st.ring.slots /\ dnext' = st.ring.next
           ELSE UNCHANGED <<dcache, dnext>>
        /\ Answer("deltas", body.items, broken, reached, code, IF code = 200 THEN st.out ELSE <<>>)
        /\ UNCHANGED <<cache, next>>

(* The answer goes out and the worker waits for another request. *)
Respond == reply # None /\ reply' = None /\ UNCHANGED <<server, cache, next, dcache, dnext>>

(* worker_loop: one request after another.  In each, the reads of up to    *)
(* MaxBroken blocks fail.                                                  *)
Broken(range) == {b \in SUBSET range : Cardinality(b) <= MaxBroken}

(* The blocks a body would have a batch read. *)
Batch(body) == IF ParseBatchBody(body) = 200 THEN body.items ELSE <<>>

(* handle: the route of a request; another path or method is refused. *)
Handle ==
    /\ server.up = "yes" /\ reply = None
    /\ \/ \E n \in Asked, gs \in Keys, broken \in Broken(Blocks) : HandleAction(n, gs, broken)
       \/ \E n \in Asked, broken \in Broken(Blocks) : HandleBlock(n, broken)
       \/ HandleHealth
       \/ \E body \in Batches, broken \in Broken(Blocks) :
             \E reached \in Reach(Batch(body), Blocks) : HandleActionsBatch(body, broken, reached)
       \/ \E body \in Batches, broken \in Broken(DeltaBlocks) :
             \E reached \in Reach(Batch(body), DeltaBlocks) : HandleDeltasBatch(body, broken, reached)
       \/ \E code \in {404, 405} :
             Answer("other", <<>>, {}, 0, code, <<>>) /\ UNCHANGED <<cache, next, dcache, dnext>>
    /\ UNCHANGED server

Next == Main \/ Handle \/ Respond

Spec == Init /\ [][Next]_vars

-----------------------------------------------------------------------------
(* What the frozen logs hold for one item of a batch. *)
Held(kind, it) ==
    IF kind = "deltas"
    THEN IF it.block \notin DeltaBlocks \cap DOMAIN Deltas \/ DeltaLog[it.block] = NoContent THEN None
         ELSE PickRow(it.block, DeltaLog[it.block], it.key)
    ELSE IF it.block \notin Blocks \cap DOMAIN Traces \/ Traces[it.block] = NoContent THEN None
         ELSE PickAction(it.block, Traces[it.block], it.key)

(* A position may go without an answer only because its block could not be *)
(* read or comes after the blocks the batch got to.                        *)
Unreached(it, range) ==
    \/ it.block \in reply.broken
    \/ it.block \notin Range(SubSeq(ByBlock(reply.items, range), 1, reply.reached))

(* The code of a single request, for what the log holds. *)
CodeRight(it, found) ==
    CASE reply.code = 200 -> it.block \in Blocks \cap DOMAIN Traces /\ found
      [] reply.code = 404 -> it.block \in Blocks \cap DOMAIN Traces /\ ~found
      [] reply.code = 416 -> it.block \notin Blocks
      [] reply.code = 500 -> it.block \in Blocks /\ (it.block \in reply.broken \/ it.block \notin DOMAIN Traces)
      [] OTHER -> reply.code = 400 /\ None \in {it.block, it.key}

ActionRight(it) ==
    /\ CodeRight(it, Held("action", it) # None)
    /\ reply.code = 200 => reply.out = Held("action", it)

BlockRight(it) ==
    LET held == {<<gs, Held("action", [block |-> it.block, key |-> gs])>> : gs \in Keys}
    IN  /\ CodeRight(it, TRUE)
        /\ reply.code = 200 => Range(reply.out) = {h \in held : h[2] # None}

BatchRight(range) ==
    reply.code = 200 =>
        /\ Len(reply.out) = Len(reply.items)
        /\ \A i \in DOMAIN reply.items :
              \/ reply.out[i] = Held(reply.kind, reply.items[i])
              \/ reply.out[i] = None /\ Unreached(reply.items[i], range)

(* After any sequence of requests, whatever the rings hold and whichever   *)
(* reads fail, an answer is what the frozen log holds for that position,   *)
(* in the order asked; a batch cut short by its cap, its deadline or a     *)
(* failed read leaves out only the blocks it did not get to, the highest   *)
(* ones ("the resolved subset is deterministic across identical retries"), *)
(* and a single request fails only for a block that cannot be read.  A     *)
(* ring never holds a block of another range or a block that did not read. *)
HydratesTruly ==
    /\ \A i \in DOMAIN cache : cache[i][1] \in Blocks /\ cache[i][2] = Traces[cache[i][1]]
    /\ \A i \in DOMAIN dcache : dcache[i][1] \in DeltaBlocks /\ dcache[i][2] = DeltaLog[dcache[i][1]]
    /\ reply # None =>
        CASE reply.kind = "action" -> ActionRight(reply.items[1])
          [] reply.kind = "block" -> BlockRight(reply.items[1])
          [] reply.kind = "actions" -> BatchRight(Blocks)
          [] reply.kind = "deltas" -> BatchRight(DeltaBlocks)
          [] OTHER -> TRUE
=============================================================================
