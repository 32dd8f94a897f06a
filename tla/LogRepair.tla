------------------------------ MODULE LogRepair ------------------------------
(***************************************************************************)
(* antelope-log-repair `verify` and `prepare` (log-repair main.rs): the    *)
(* damage of a log is located, sources are taken from local files, fetched *)
(* from state-history endpoints (ship.rs) or regenerated by a replay of    *)
(* nodeos from a snapshot (replay.rs), and a replacement is built, while a *)
(* node may go on appending to the log and to the block logs replayed.     *)
(***************************************************************************)
EXTENDS SpanRebuild, VerifyLog

CONSTANTS
    Jobs, Job(_),  \* names of the commands given, with the files and endpoints there are
    MaxChanges     \* bound: changes of files while the command runs

VARIABLES
    job,           \* the command
    pc,            \* what it does next
    log,           \* the target, opened
    target,        \* the regions to repair
    got,           \* what each region's endpoints returned so far, or the slice to replay
    sources,       \* the sources to build from
    stamp, seen,   \* stamps of the target and of the replay's input: now, and noted
    outcome        \* the findings of verify, the replacement, Refused, or None

vars == <<job, pc, log, target, got, sources, stamp, seen, outcome>>

NoSources == [blocks |-> <<>>, blockLogs |-> <<>>, donors |-> <<>>]

Init ==
    /\ \E j \in Jobs : job = Job(j)
    /\ pc = "start" /\ log = None /\ target = <<>> /\ got = <<>> /\ sources = NoSources
    /\ stamp = [target |-> 0, input |-> 0] /\ seen = stamp /\ outcome = None

Finish(result) == pc' = "end" /\ outcome' = result
Fail == Finish(Refused) /\ UNCHANGED <<job, log, target, got, sources, stamp, seen>>

(* A node appends to the target, or to the block logs a replay copies. *)
Change(f) ==
    /\ pc \notin {"start", "end"}
    /\ stamp.target + stamp.input < MaxChanges
    /\ stamp' = [stamp EXCEPT ![f] = @ + 1]
    /\ UNCHANGED <<job, pc, log, target, got, sources, seen, outcome>>

-----------------------------------------------------------------------------
RunVerify ==
    /\ pc = "start" /\ job.command = "verify"
    /\ Finish(Then(OpenLog(job.file), LAMBDA l : Verify(l, job.range, job.against, job.maxFindings)))
    /\ UNCHANGED <<job, log, target, got, sources, stamp, seen>>

(* Damage that must exist and be repairable. *)
FindTarget ==
    /\ pc = "start" /\ job.command = "prepare"
    /\ log' = OpenLog(job.file)
    /\ LET extents == Then(log', LAMBDA l : Locate(l, job.select, job.maxFailed))
           found == IF extents \in {Refused, <<>>} THEN Refused ELSE Target(log', extents)
       IN  /\ target' = found
           /\ IF target' = Refused THEN Finish(Refused) ELSE pc' = job.from /\ UNCHANGED outcome
    /\ sources' = IF job.from = "build" THEN job.sources ELSE NoSources
    /\ UNCHANGED <<job, got, stamp, seen>>

(* The stamps of the files are noted before they are read. *)
Note(from, to) ==
    /\ pc = from /\ pc' = to /\ seen' = stamp
    /\ UNCHANGED <<job, log, target, got, sources, stamp, outcome>>

-----------------------------------------------------------------------------
(* The preamble of a fetched entry: the one of both anchors. *)
MarkerOf(r) == ShipMarker(BodyOf(log, r.first - 1))
MarkersOk(r) ==
    LET anchors == {BodyOf(log, n) : n \in {r.first - 1, r.last + 1}}
    IN  IF Refused \in anchors THEN FALSE ELSE Cardinality({ShipMarker(a) : a \in anchors}) = 1

(* An endpoint (external) sends the results it has of the blocks asked for. *)
Answers(endpoint, first, last) ==
    SelectSeq(endpoint.results, LAMBDA r : r.num \in first .. last)

(* decode: irreversible, linked, its header as announced, its history there. *)
Decodes(r) ==
    /\ r.num <= r.lib /\ r.lib <= r.head /\ r.prev[1] + 1 = r.num
    /\ BlockHeader(r.block) = [number |-> r.num, id |-> r.id, prev |-> r.prev]
    /\ log.kind # "blocks" => r.payload # None

(* fetch_endpoint: a supported ABI, then each block of the range in turn. *)
FetchEndpoint(endpoint, first, last) ==
    LET results == Answers(endpoint, first, last)
        k == last - first + 1
        cells(r) == Len(r.block) + (IF log.kind = "blocks" THEN 0 ELSE 1)
    IN  IF /\ endpoint.abi /\ Len(results) = k
           /\ \A i \in 1 .. k : Decodes(results[i]) /\ results[i].num = first + i - 1
           /\ Total([i \in 1 .. k |-> cells(results[i])]) <= MAX_BYTES
        THEN results ELSE Refused

(* One endpoint for one region, in order; it must agree with the first. *)
Agree(result, first) ==
    \A i \in DOMAIN result : result[i].block = first[i].block /\ result[i].payload = first[i].payload
Take(result, before) ==
    IF result = Refused THEN Fail
    ELSE IF before # <<>> /\ ~Agree(result, before[1]) THEN Fail
    ELSE got' = Append(got, result) /\ UNCHANGED <<job, pc, log, target, sources, stamp, seen, outcome>>
FetchFrom(endpoint, r, before) ==
    IF log.kind # "blocks" /\ ~MarkersOk(r) THEN Fail
    ELSE Take(FetchEndpoint(endpoint, r.first - 1, r.last + 1), before)
Fetch ==
    /\ pc = "fetching" /\ Len(got) < Len(target) * Len(job.endpoints)
    /\ LET u == Len(job.endpoints)
           region == (Len(got) \div u) + 1
       IN  FetchFrom(job.endpoints[(Len(got) % u) + 1], target[region],
                     SubSeq(got, (region - 1) * u + 1, Len(got)))

(* The endpoint does not answer in time. *)
FetchTimesOut == pc = "fetching" /\ Len(got) < Len(target) * Len(job.endpoints) /\ Fail

(* What was fetched: a container for each region, and a donor log of its   *)
(* payloads as Spring encodes them.                                        *)
DonorFrom(i, laid) ==
    [path |-> <<"fetched", i>>, kind |-> log.kind, bad |-> {}, cells |-> laid.cells, idx |-> laid.idx]
Fetched(first) ==
    [blocks |-> [i \in DOMAIN target |-> [n \in SourceRange(target[i]) |-> first[i][n - target[i].first + 2].block]],
     blockLogs |-> <<>>,
     donors |-> IF log.kind = "blocks" THEN <<>>
                ELSE [i \in DOMAIN target |-> DonorFrom(i,
                        LaidOut([k \in DOMAIN first[i] |->
                            EncodeShip(first[i][k].id, first[i][k].payload, MarkerOf(target[i]))], 0))]]

(* Rebuilt from these sources, or Refused. *)
RebuiltFrom(s) == Then(LoadWith(log.kind, s), LAMBDA loaded : Rebuild(log, target, loaded))

(* Sources that were acquired are kept if they fit the target. *)
Acquired(found) ==
    IF RebuiltFrom(found) = Refused THEN Fail
    ELSE /\ sources' = found /\ pc' = "build"
         /\ UNCHANGED <<job, log, target, got, stamp, seen, outcome>>

(* The target must not have changed meanwhile. *)
FetchEnd ==
    /\ pc = "fetching" /\ Len(got) = Len(target) * Len(job.endpoints)
    /\ IF stamp.target # seen.target THEN Fail
       ELSE Acquired(Fetched([i \in DOMAIN target |-> got[(i - 1) * Len(job.endpoints) + 1]]))

-----------------------------------------------------------------------------
(* BlockSet::open: block logs of one chain, in block order. *)
ChainOf(l) == Preamble(l.cells[1]).chain
OneChain(logs) ==
    IF logs = <<>> \/ Refused \in Range(logs) THEN Refused
    ELSE IF \E l \in Range(logs) : l.kind # "blocks" \/ ChainOf(l) # ChainOf(logs[1]) THEN Refused
    ELSE SortSeq(logs, LAMBDA l, m : l.first < m.first \/ (l.first = m.first /\ l.last <= m.last))
BlockSet(files) == OneChain(Opens(files))

LogFor(set, n) == SelectSeq(set, LAMBDA l : l.first <= n /\ n <= l.last)
FirstOf(set) == Min({l.first : l \in Range(set)})
CheckCovers(set, first, last) == \A n \in first .. last : LogFor(set, n) # <<>>

IdIn(l, n) == Then(BodyOf(l, n), LAMBDA body : IdOf(l, n, body))
BlockId(set, n) == IdIn(LogFor(set, n)[1], n)

(* Mutant: every slice is written with the header of its source. *)
SliceHeaderAsIs(from, chain, first) == from

(* The header of a slice keeps the identity of its source. *)
SliceHeader(from, chain, first) ==
    IF from.version <= 2 THEN [from EXCEPT !.version = 2, !.first = first, !.totem = TRUE]
    ELSE IF first = 1 THEN from
    ELSE [from EXCEPT !.first = first, !.chain = chain, !.genesis = None]
Sliced(header, laid) ==
    [path |-> "slice", kind |-> "blocks", bad |-> {}, cells |-> <<header>> \o laid.cells, idx |-> laid.idx]

(* write_slice: the blocks first..last, their trailers and index rebased. *)
EntryBetween(l, at) ==
    IF at = Refused THEN Refused
    ELSE IF ~Readable(l, at[1], at[2]) THEN Refused
    ELSE IF IsTrail(l.cells[at[2]], at[1]) THEN ReadCells(l, at[1], at[2] - 1) ELSE Refused
EntryIn(l, n) == EntryBetween(l, Bounds(l, n))
SliceOf(header, bodies) == IF Refused \in Range(bodies) THEN Refused ELSE Sliced(header, LaidOut(bodies, 1))
WriteSlice(set, first, last) ==
    SliceOf(SliceHeader(LogFor(set, first)[1].cells[1], ChainOf(set[1]), first),
            [i \in 1 .. last - first + 1 |-> EntryIn(LogFor(set, first + i - 1)[1], first + i - 1)])

(* nodeos (external) replays the slice from the snapshot: history from the *)
(* block after it, the first delta being the whole state; it may end short *)
(* of the last block.                                                      *)
Delta(id, whole) == IF whole THEN <<id[1], id[2], "huge">> ELSE PayloadOf(id)
Written(id, raw, node) == EncodedEntry(id, Compressed(raw, Stream(raw, node.codec), node.marker))
ReplayLog(ids, node) ==
    LET laid == LaidOut([i \in DOMAIN ids |->
                    Written(ids[i], Delta(ids[i], i = 1 /\ log.kind = "chain_state"), node)], 0)
    IN  [path |-> "replayed", kind |-> log.kind, bad |-> {}, cells |-> laid.cells, idx |-> laid.idx]
NodeosReplay(blocks, snapshot, node) ==
    ReplayLog([i \in 1 .. blocks.last - snapshot - node.short |-> IdIn(blocks, snapshot + i)], node)

(* The slice of the block history that a replay reads, or Refused: it must *)
(* reach from the snapshot to the last anchor, on the target's chain.      *)
Anchors == UNION {{r.first - 1, r.last + 1} : r \in Range(target)}
SliceFrom(set, from, to) ==
    IF from > job.snapshot + 1 \/ ~CheckCovers(set, from, to) THEN Refused
    ELSE IF \E n \in Anchors : BlockId(set, n) = Refused \/ BlockId(set, n) # ShipEntryId(log, n) THEN Refused
    ELSE WriteSlice(set, from, to)
ReplaySlice ==
    IF log.kind = "blocks" \/ job.snapshot = 0 \/ job.snapshot > target[1].first - 2 THEN Refused
    ELSE Then(BlockSet(job.blockFiles), LAMBDA set :
                SliceFrom(set, Max({job.snapshot, FirstOf(set)}), Last(target).last + 1))

ReplaySources(blocks) ==
    [blocks |-> [i \in DOMAIN target |-> [n \in SourceRange(target[i]) |-> BodyOf(blocks, n)]], blockLogs |-> <<>>,
     donors |-> <<NodeosReplay(blocks, job.snapshot, job.node)>>]

ReplayBegin ==
    /\ pc = "replay"
    /\ IF ReplaySlice = Refused THEN Fail
       ELSE /\ pc' = "copying" /\ seen' = stamp
            /\ UNCHANGED <<job, log, target, got, sources, stamp, outcome>>

(* The copy is good if its input did not change meanwhile. *)
ReplayCopy ==
    /\ pc = "copying"
    /\ IF stamp.input # seen.input THEN Fail
       ELSE /\ pc' = "nodeos" /\ got' = ReplaySlice
            /\ UNCHANGED <<job, log, target, sources, stamp, seen, outcome>>

ReplayFails == pc = "nodeos" /\ Fail

Reaches(donor) == donor.first < target[1].first /\ donor.last > Last(target).last
Replayed(found) == IF Reaches(OpenLog(found.donors[1])) THEN Acquired(found) ELSE Fail
Replay == pc = "nodeos" /\ Replayed(ReplaySources(OpenLog(got)))

-----------------------------------------------------------------------------
(* build: the replacement, if no readable byte differs from it and the log *)
(* is as it was when the build began.                                      *)
Accept(replacement) ==
    IF Differs(log, replacement) \/ stamp.target # seen.target THEN Fail
    ELSE Finish(replacement) /\ UNCHANGED <<job, log, target, got, sources, stamp, seen>>
BuildFrom(spans) == IF spans = Refused THEN Fail ELSE Accept(Pieces(target, spans))
Build == pc = "building" /\ BuildFrom(RebuiltFrom(sources))

Next ==
    \/ \E f \in {"target", "input"} : Change(f)
    \/ RunVerify
    \/ FindTarget
    \/ Note("fetch", "fetching") \/ Fetch \/ FetchTimesOut \/ FetchEnd
    \/ ReplayBegin \/ ReplayCopy \/ ReplayFails \/ Replay
    \/ Note("build", "building") \/ Build

Spec == Init /\ [][Next]_vars

-----------------------------------------------------------------------------
(* The log with the replacement written; what the unreadable records held  *)
(* before is in log.cells all along.                                       *)
Repaired ==
    [log EXCEPT !.cells = [i \in DOMAIN @ |-> IF i - 1 \in DOMAIN outcome THEN outcome[i - 1] ELSE @[i]],
                !.bad = {r \in @ : r * RECORD \notin DOMAIN outcome}]
Whole == [log EXCEPT !.bad = {}]

Selected ==
    CASE job.select.is = "whole" -> log.first .. log.last
      [] job.select.is = "blocks" -> job.select.from .. job.select.to
      [] OTHER -> {}
Affected == UNION {SourceRange(r) : r \in Range(target)}

ContentOf(l, n) == LET body == BodyOf(l, n) IN IF l.kind = "blocks" THEN body ELSE ShipPayload(body)

(* Some source of block n is right: endpoints and block sources must all   *)
(* agree, so one that is right will do; of donors the first one that       *)
(* covers a region is taken alone, so all must be.                         *)
TrueBlock(body, n) == body = BodyOf(Whole, n)
SomeTrue(n) ==
    CASE job.from = "replay" -> TRUE
      [] job.from = "fetch" -> \E e \in Range(job.endpoints) : \E r \in Range(e.results) :
                                  /\ r.num = n
                                  /\ IF log.kind = "blocks" THEN TrueBlock(r.block, n)
                                     ELSE r.payload = ContentOf(Whole, n).raw
      [] OTHER ->
            IF log.kind = "blocks"
            THEN \/ \E c \in Range(sources.blocks) : n \in DOMAIN c /\ TrueBlock(c[n], n)
                 \/ \E f \in Range(sources.blockLogs) :
                       n \in OpenLog(f).first .. OpenLog(f).last /\ TrueBlock(BodyOf(OpenLog(f), n), n)
            ELSE \A f \in Range(sources.donors) :
                    n \in OpenLog(f).first .. OpenLog(f).last =>
                       ContentOf(OpenLog(f), n) = ContentOf(Whole, n)

(* A replacement that prepare accepts repairs the log: every entry         *)
(* selected, every one of the regions and their anchors reads, with the    *)
(* id it had before the damage, whatever the sources say; its content is   *)
(* the old one if a source of it is right; and verify finds nothing.       *)
(* (repair.rs rebuild, build; target.rs locate, Target::new)               *)
RepairsTruly ==
    pc = "end" /\ job.command = "prepare" /\ outcome # Refused =>
        /\ \A n \in Selected \cup Affected :
              BodyOf(Whole, n) # Refused =>
                 /\ BodyOf(Repaired, n) # Refused
                 /\ AnchorId(Repaired, n) = AnchorId(Whole, n)
                 /\ SomeTrue(n) => ContentOf(Repaired, n) = ContentOf(Whole, n)
        /\ \A r \in Range(target) : Verify(Repaired, <<r.first - 1, r.last + 1>>, <<>>, 9).found = {}

(* The slice nodeos replays is a log of the same chain that holds the      *)
(* blocks of its source, wherever its files begin and whatever their       *)
(* version. (replay.rs write_slice)                                        *)
SlicesTruly ==
    pc = "nodeos" =>
        LET set == BlockSet(job.blockFiles)
            slice == OpenLog(got)
        IN  /\ slice # Refused
            /\ Preamble(slice.cells[1]).chain = Preamble(set[1].cells[1]).chain
            /\ {job.snapshot + 1, Last(target).last + 1} \subseteq slice.first .. slice.last
            /\ \A n \in slice.first .. slice.last :
                  BodyOf(slice, n) # Refused /\ BodyOf(slice, n) = BodyOf(LogFor(set, n)[1], n)

(* verify finds what is wrong in its range, and nothing else: an entry     *)
(* reads by the index as a whole entry of its block, links to the block    *)
(* before it and is what the reference has, or it is reported, or the next *)
(* one is whose slot ends it; of one reported this does not hold, or not   *)
(* of the block before or after it. (verify.rs verify, format.rs body)     *)
FindsCorruption ==
    pc = "end" /\ job.command = "verify" /\ outcome # Refused =>
        LET l == OpenLog(job.file)
            range == Max({job.range[1], l.first}) .. Min({job.range[2], l.last})
            reads(n) == BodyOf(l, n) # Refused
            linked(n) == IF l.kind = "blocks" /\ {n - 1, n} \subseteq l.first .. l.last
                         THEN reads(n - 1) /\ reads(n) => BodyOf(l, n)[1].prev = BodyOf(l, n - 1)[1].id
                         ELSE TRUE
            agrees(n) == \A f \in Range(job.against) :
                LET ref == OpenLog(f)
                IN  n \in ref.first .. ref.last =>
                       IF l.kind = "blocks" THEN BodyOf(l, n) = BodyOf(ref, n)
                       ELSE ShipPayload(BodyOf(l, n)).id = IdOf(ref, n, BodyOf(ref, n))
            right(n) == reads(n) /\ linked(n) /\ agrees(n)
            neighbour(n) == l.kind = "blocks" /\ (~linked(n + 1) \/ (n > l.first /\ ~reads(n - 1)))
        IN  /\ \A n \in outcome.found : ~right(n) \/ neighbour(n)
            /\ outcome.end = FALSE /\ outcome.skipped = 0 =>
                  \A n \in range : right(n) \/ {n, n + 1} \cap outcome.found # {}

=============================================================================
