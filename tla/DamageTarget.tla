---------------------------- MODULE DamageTarget -----------------------------
(***************************************************************************)
(* What antelope-log-repair takes for damaged and accepts to repair        *)
(* (log-repair/src/target.rs): the scan of a log for unreadable records,   *)
(* the extents they form, and the regions of entries around them, each     *)
(* between two readable anchor entries.  An extent is <<first record, last *)
(* record>>.                                                               *)
(***************************************************************************)
EXTENDS RepairFormat

CONSTANTS
    SCAN_CHUNK,    \* records read at once by a scan
    MAX_REGIONS    \* regions of one plan

Offset(e) == e[1] * RECORD
End(e) == (e[2] + 1) * RECORD
LengthOf(e) == End(e) - Offset(e)
Total(lengths) == FoldSeq(LAMBDA x, y : x + y, 0, lengths)

(* Sorted ranges of records, those that overlap or touch joined. *)
Runs(covered) ==
    SetToSortSeq({e \in covered \X covered :
                    /\ e[1] .. e[2] \subseteq covered /\ e[1] <= e[2]
                    /\ e[1] - 1 \notin covered /\ e[2] + 1 \notin covered},
                 LAMBDA d, e : d[1] < e[1])
ExtentsFromRanges(ranges) == Runs(UNION {r[1] .. r[2] : r \in ranges})

-----------------------------------------------------------------------------
(* The unreadable records past one end of a scan that reach up to it. *)
Before(log, r) == {q \in 0 .. r - 1 : q .. r - 1 \subseteq log.bad}
From(log, r, limit) == {q \in r .. limit - 1 : r .. q \subseteq log.bad}

(* Outward from either end while records fail; a failed chunk counts with  *)
(* its records towards the reads that may fail.                            *)
WithinBounds(from, inside, left, right, maxFailed) ==
    LET chunks == {(r - from) \div SCAN_CHUNK : r \in inside}
    IN  IF \/ Cardinality(chunks) + Cardinality(inside \cup left \cup right) > maxFailed
           \/ Max({Cardinality(left), Cardinality(right)}) * RECORD > MAX_BYTES
        THEN Refused ELSE Runs(inside \cup left \cup right)
Outward(log, from, to, limit, inside, maxFailed) ==
    WithinBounds(from, inside,
                 IF from \in inside THEN Before(log, from) ELSE {},
                 IF to - 1 \in inside THEN From(log, to, limit) ELSE {}, maxFailed)

(* scan: the cells start..end in chunks, a failing one record by record,   *)
(* then outward.                                                           *)
RecordsOf(cells) == (cells + RECORD - 1) \div RECORD
ScanRecords(log, from, to, maxFailed) ==
    Outward(log, from, to, RecordsOf(log.size), log.bad \cap (from .. to - 1), maxFailed)
Scan(log, start, end, maxFailed) ==
    ScanRecords(log, start \div RECORD, RecordsOf(Min({end, log.size})), maxFailed)

(* A selection is explicit records, a range of blocks, or the whole log. *)
Locate(log, select, maxFailed) ==
    CASE select.is = "records" -> ExtentsFromRanges(select.ranges)
      [] select.is = "whole" -> Scan(log, 0, log.size, maxFailed)
      [] OTHER ->
            IF select.from > select.to \/ {select.from, select.to} \notin SUBSET (log.first .. log.last)
            THEN Refused
            ELSE Scan(log, Pos(log, select.from), Pos(log, select.to + 1), maxFailed)

-----------------------------------------------------------------------------
(* The block whose entry contains an offset, by search in the index. *)
Within(n, at, offset) ==
    IF at = Refused THEN Refused ELSE IF at[1] <= offset /\ offset < at[2] THEN n ELSE Refused
BlockAt(log, n, offset) == Within(n, Bounds(log, n), offset)
Containing(log, offset) ==
    BlockAt(log, Max({log.first} \cup {m \in log.first .. log.last : Pos(log, m) <= offset}), offset)

FirstUnreadable(log, from, to) == from < to /\ ~Readable(log, from, to)

Touches(extents, from, to) == \E e \in Range(extents) : Offset(e) < to /\ from < End(e)

SourceRange(r) == r.first - 1 .. r.last + 1

(* Everything outside the extents reads, from one anchor to the other. *)
RestReads(log, extents, from, to) ==
    LET starts == <<from>> \o [i \in DOMAIN extents |-> End(extents[i])]
        ends == [i \in DOMAIN extents |-> Offset(extents[i])] \o <<to>>
    IN  \A i \in DOMAIN starts : ~FirstUnreadable(log, starts[i], ends[i])

(* The extents leave alone the orphans after an entry whose head reads. *)
OrphansKept(log, extents, a, b) ==
    LET own == EntrySize(log.cells[a + 1])
    IN  Touches(extents, a, a + 1) \/ own >= b - a \/ ~Touches(extents, a + own, b)

(* Region::check: anchors on both sides, sizes, everything outside the     *)
(* extents readable, and no damage in orphaned fork entries.               *)
RegionOk(log, r) ==
    /\ r.first > log.first /\ r.last < log.last
    /\ r.last - r.first < MAX_BLOCKS - 2
    /\ r.spanEnd - r.spanStart <= MAX_BYTES
    /\ \A n \in SourceRange(r) : Bounds(log, n) # Refused
    /\ RestReads(log, r.extents, Pos(log, r.first - 1), Pos(log, r.last + 2))
    /\ log.kind # "blocks" =>
          \A n \in r.first .. r.last : OrphansKept(log, r.extents, Pos(log, n), Pos(log, n + 1))

(* One extent more: entries that overlap or adjoin those of the last       *)
(* region join it, as no anchor lies between them.                         *)
AddExtent(regions, e, first, last) ==
    IF regions # <<>> /\ first <= Last(regions).last + 1
    THEN Append(Front(regions), [Last(regions) EXCEPT !.last = Max({@, last}), !.extents = Append(@, e)])
    ELSE Append(regions, [first |-> first, last |-> last, extents |-> <<e>>])

(* analyze: the regions of the extents, with their spans; Refused where    *)
(* one reaches the header of the log or past its last entry.               *)
SpanOf(log, r) ==
    [first |-> r.first, last |-> r.last, extents |-> r.extents,
     spanStart |-> Pos(log, r.first), spanEnd |-> Pos(log, r.last + 1)]
Spans(log, regions) == [i \in DOMAIN regions |-> SpanOf(log, regions[i])]
Analyze(log, extents) ==
    IF \/ extents = <<>>
       \/ \E e \in Range(extents) : Offset(e) < Pos(log, log.first) \/ End(e) > log.size
       \/ \E e \in Range(extents) : Refused \in {Containing(log, Offset(e)), Containing(log, End(e) - 1)}
    THEN Refused
    ELSE Spans(log, FoldLeft(LAMBDA rs, e :
                       AddExtent(rs, e, Containing(log, Offset(e)), Containing(log, End(e) - 1)), <<>>, extents))

(* Target::new: every region can be repaired, or the damage is refused. *)
Target(log, extents) ==
    Then(Analyze(log, extents), LAMBDA regions :
        IF /\ \A i \in DOMAIN regions : RegionOk(log, regions[i])
           /\ Len(regions) <= MAX_REGIONS
           /\ Total([i \in DOMAIN extents |-> LengthOf(extents[i])]) <= MAX_BYTES
        THEN regions ELSE Refused)
=============================================================================
