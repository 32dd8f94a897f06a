------------------------------- MODULE MCLogs --------------------------------
(* The readers of log files.  A behaviour is about one of five: a log that *)
(* grows, forks, is damaged and is opened, walked and sliced (StateLog);   *)
(* the requests of a worker over frozen logs (ArchiveServer); a block log  *)
(* and a check of its store (BlockLog); the payload of an entry (Inflate); *)
(* a log with unreadable or corrupt records, repaired or verified          *)
(* (LogRepair).                                                            *)
EXTENDS StateLog

CONSTANTS NoContent, CacheBlocks, MaxBlocksPerBatch, MaxBroken, MAX_BATCH_ITEMS
VARIABLES server, cache, next, dcache, dnext, reply, about

mcVars == <<vars, server, cache, next, dcache, dnext, reply, about>>

(* Block 2 has an unreadable entry; contract c changes its ABI in block 3. *)
Act(gs, counts, abi) == [gs |-> gs, counts |-> counts, code |-> "c", abi |-> abi]
MCTraces == <<<<Act(1, TRUE, "v1"), Act(2, FALSE, "v1")>>, NoContent,
              <<Act(3, TRUE, "v1"), Act(4, TRUE, "v2")>>>>
Row(key, present, abi, table) ==
    [key |-> key, present |-> present, code |-> "c", abi |-> abi, table |-> table, parses |-> key # 9]
MCDeltas == <<<<Row(1, FALSE, "v1", "contract_row")>>,
              <<Row(1, TRUE, "v1", "contract_row"), Row(1, TRUE, "v2", "contract_row")>>,
              <<Row(4, TRUE, "v1", "account"), Row(9, TRUE, "v1", "contract_row"),
                Row(3, TRUE, "v1", "contract_row"), Row(4, FALSE, "v2", "contract_row")>>>>
Line(block, abi) == [code |-> "c", block |-> block, abi |-> abi]
MCLines == <<Line(3, "v2"), Line(1, "v1"), Line(2, "empty")>>

Item(block, key) == [block |-> block, key |-> key, named |-> key # 2]
Post(items) == [read |-> "ok", items |-> items]
MCBatches ==
    {Post(<<Item(3, 3), Item(1, 1), Item(2, 1)>>), Post(<<Item(1, 1), Item(0, 1)>>), Post(<<Item(2, 1)>>),
     Post(<<Item(3, 4), Item(3, 3), Item(4, 1)>>), Post(<<Item(1, 2), Item(3, 3)>>),
     Post(<<Item(1, 1), Item(None, 1)>>), Post(<<Item(1, None)>>),
     Post(<<Item(1, 1), Item(2, 1), Item(3, 3), Item(3, 4)>>)}
      \cup {[read |-> r, items |-> <<>>] : r \in {"large", "fails", "malformed", "not an array"}}

(* A whole log, one with an index slot too many, a foreign file. *)
MCLogStates == {[magic |-> TRUE, slots |-> 3], [magic |-> TRUE, slots |-> 4],
                [magic |-> TRUE, slots |-> 0], [magic |-> FALSE, slots |-> 3]}

Server == INSTANCE ArchiveServer WITH Traces <- MCTraces, Deltas <- MCDeltas, Lines <- MCLines,
                                      Batches <- MCBatches, LogStates <- MCLogStates

-----------------------------------------------------------------------------
CONSTANTS INPUT_WINDOW, INLINE_STEP_MIN, INLINE_STEP_MAX, COUNT_SCRATCH
VARIABLES input, report, entry, limit, use, z, call, from, step, short, calls, result

payloadVars == <<entry, limit, use, z, call, from, step, short, calls, result>>
serverVars == <<server, cache, next, dcache, dnext, reply>>

(* A block log of up to three blocks, whole or cut; each block has the tag *)
(* of its own id and of the one it links to.                               *)
Body(n, link, own) == [is |-> "body", prev |-> <<n - 1, link>>, id |-> <<n, own>>]
Cells(first, links, owns) ==
    FlattenSeq([i \in DOMAIN owns |->
        <<Body(first + i - 1, links[i], owns[i]), [is |-> "pos", pos |-> 2 * i - 1]>>])
File(version, first, totem, cells) ==
    [version |-> version, first |-> first, totem |-> totem, genesis |-> "g", cells |-> cells]
Same(m) == [i \in 1 .. m |-> "a"]
Tags(m) == [1 .. m -> {"a", "b"}]
NoShip == <<>>

(* Any index over a log of one chain. *)
Indexed ==
    [file : {File(v, f, t, SubSeq(Cells(f, Same(3), Same(3)), 1, m)) :
               v \in 0 .. 3, f \in {1, 2}, t \in BOOLEAN, m \in {0, 2, 5, 6}},
     idx : UNION {[1 .. m -> 0 .. 6] : m \in 1 .. 3}, ship : {NoShip}, hash : {FALSE}]

(* Any ids in three blocks, and in the two logs served beside them. *)
Ship(range, ids, bad) == [range |-> range, ids |-> [n \in range |-> <<n, ids[n]>>], bad |-> bad]
Checked ==
    [file : {File(3, 1, TRUE, Cells(1, <<"a">> \o l, o)) : l \in Tags(2), o \in Tags(3)},
     idx : {<<1, 3, 5>>, <<1, 1, 5>>},
     ship : {[traces |-> Ship(1 .. 3, t, {}), deltas |-> Ship(2 .. 4, <<"a">> \o d, bad)] :
               t \in Tags(3), d \in {<<"a", "a", "a">>, <<"b", "a", "a">>, <<"a", "b", "b">>},
               bad \in {{}, {3}}},
     hash : BOOLEAN]

Blocks == INSTANCE BlockLog WITH Inputs <- Indexed \cup Checked

MCEntries ==
    {e \in [len : 0 .. 4, zin : {1, 3}, zout : 0 .. 3, declared : {None} \cup 0 .. 4, breaks : {0, 1},
             late : BOOLEAN] : e.len - e.zin \in {-1, 0, 1}}
Payload == INSTANCE Inflate WITH Entries <- MCEntries, Limits <- {0, 2, 3}, ChunkSizes <- {1, 2}

-----------------------------------------------------------------------------
CONSTANTS RECORD, MAX_BYTES, MAX_BLOCKS, Rich, SCAN_CHUNK, MAX_REGIONS, MaxChanges
VARIABLES job, pc, opened, target, got, sources, stamp, seen, outcome

repairVars == <<job, pc, opened, target, got, sources, stamp, seen, outcome>>

Given == INSTANCE RepairJobs
Repair == INSTANCE LogRepair WITH Jobs <- Given!Names, Job <- Given!JobNamed, log <- opened

-----------------------------------------------------------------------------
(* The parts a behaviour is not about stay as they begin. *)
Idle == [zin |-> 1, len |-> 1, zout |-> 0, declared |-> None, breaks |-> 0, late |-> FALSE]
IdlePayload == Payload!Init /\ entry = Idle /\ limit = 0 /\ use = "count"
IdleBlocks == input = [file |-> File(3, 1, TRUE, <<>>), idx |-> <<>>, ship |-> NoShip, hash |-> FALSE] /\ report = None
IdleRepair ==
    /\ job = None /\ pc = "idle" /\ opened = None /\ target = <<>> /\ got = <<>> /\ sources = <<>>
    /\ stamp = <<>> /\ seen = <<>> /\ outcome = None

MCInit ==
    /\ Init /\ Server!Init
    /\ \/ about \in {"files", "requests"} /\ IdlePayload /\ IdleBlocks /\ IdleRepair
       \/ about = "blocks" /\ IdlePayload /\ Blocks!Init /\ IdleRepair
       \/ about = "payload" /\ Payload!Init /\ IdleBlocks /\ IdleRepair
       \/ about = "damage" /\ IdlePayload /\ IdleBlocks /\ Repair!Init
MCNext ==
    \/ about = "files" /\ Next /\ UNCHANGED <<serverVars, input, report, payloadVars, repairVars, about>>
    \/ about = "requests" /\ Server!Next /\ UNCHANGED <<vars, input, report, payloadVars, repairVars, about>>
    \/ about = "blocks" /\ Blocks!Next /\ UNCHANGED <<vars, serverVars, payloadVars, repairVars, about>>
    \/ about = "payload" /\ Payload!Next /\ UNCHANGED <<vars, serverVars, input, report, repairVars, about>>
    \/ about = "damage" /\ Repair!Next /\ UNCHANGED <<vars, serverVars, input, report, payloadVars, about>>
MCSpec == MCInit /\ [][MCNext]_<<mcVars, input, report, payloadVars, repairVars>>

(* A worker of archive-server answers a request with what the frozen logs  *)
(* hold at the positions asked for, or leaves the position empty, whatever *)
(* its rings held before (handle_actions_batch, handle_deltas_batch).      *)
HydratesTruly == Server!HydratesTruly

(* A block log that opens never gives another block under a number, and    *)
(* the deep check passes a store exactly when all that it compares agrees  *)
(* (core blocklog.rs; ship-archive check.rs).                              *)
BlocksChecked == Blocks!ReadsTheBlock /\ Blocks!CheckedStore

(* A payload is accepted exactly when it is whole and within its limit,    *)
(* however windows and steps cut it (InflateStream).                       *)
AcceptsIntact == Payload!AcceptsIntact

(* With a replacement that log-repair accepts the log reads again under    *)
(* the ids it had before its damage, with the old contents where a source  *)
(* is right; and a slice for a replay is a block log of the same chain     *)
(* (repair.rs rebuild, build; replay.rs write_slice).                      *)
RepairsTruly == Repair!RepairsTruly /\ Repair!SlicesTruly

(* verify reports an entry, or the one after it, when it does not read as  *)
(* a whole entry of its block on the chain of the reference, and reports   *)
(* nothing away from such an entry (verify.rs verify).                     *)
FindsCorruption == Repair!FindsCorruption
=============================================================================
