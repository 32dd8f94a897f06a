---------------------------- MODULE RepairFormat -----------------------------
(***************************************************************************)
(* The logs and block containers that antelope-log-repair reads by index   *)
(* (log-repair/src/format.rs), with the encodings a payload may have       *)
(* (codec.rs) and the preamble of a block log (framing.rs).                *)
(*                                                                         *)
(* A file is a sequence of cells on a device with unreadable records of    *)
(* RECORD cells each, and an index of offsets.  A state-history entry is a *)
(* head (block id, payload size), the cells of its payload and a position  *)
(* trailer; a block is a header, its transactions and the trailer.  An id  *)
(* is <<number, tag>>, a payload <<number, tag, how it compresses>>.       *)
(* Refused stands for every error.                                         *)
(***************************************************************************)
EXTENDS Integers, Sequences, FiniteSets, SequencesExt

CONSTANTS
    RECORD,        \* cells of a record of the device
    MAX_BYTES,     \* cells of the largest entry, region or replacement
    Rich,          \* blocks whose payload two levels of deflate compress differently
    MAX_BLOCKS,    \* blocks of the largest container, and of a region with its anchors
    None, Refused

MIN_ENTRY == 3

(* What follows from a result, unless it is an error. *)
Then(result, F(_)) == IF result = Refused THEN Refused ELSE F(result)

-----------------------------------------------------------------------------
(* The device: a read that touches an unreadable record fails. *)
Readable(f, from, to) ==
    /\ to <= Len(f.cells)
    /\ \A r \in f.bad : r < from \div RECORD \/ r > (to - 1) \div RECORD
ReadCells(f, from, to) == SubSeq(f.cells, from + 1, to)

IsTrail(cell, pos) == cell.is = "trail" /\ cell.pos = pos
EntrySize(head) == 2 + head.size

(* The number of a block, the id its header hashes to and the one before. *)
BlockHeader(body) ==
    IF body = <<>> \/ body[1].is # "header" THEN Refused
    ELSE [number |-> body[1].prev[1] + 1, id |-> body[1].id, prev |-> body[1].prev]

(* Whole entries whose trailers name their own positions, as nodeos leaves *)
(* them after a fork, fill the cells from `at` on.                         *)
Orphans(cells, at) ==
    LET whole[i \in 0 .. Len(cells)] ==
            \/ i = Len(cells)
            \/ /\ cells[i + 1].is = "head" /\ i + EntrySize(cells[i + 1]) <= Len(cells)
               /\ IsTrail(cells[i + EntrySize(cells[i + 1])], at + i)
               /\ whole[i + EntrySize(cells[i + 1])]
    IN  whole[0]

-----------------------------------------------------------------------------
(* The stream a codec makes of a payload: stored blocks take two cells; of *)
(* some payloads two levels of deflate make the same stream.               *)
Candidates == <<"stored", "default", "best">>
Stream(payload, codec) == IF codec = "best" /\ payload[3] # "rich" THEN "default" ELSE codec
Compressed(payload, stream, marker) ==
    [i \in 1 .. (IF stream = "stored" THEN 2 ELSE 1) |->
        [is |-> "body", marker |-> marker, stream |-> stream, payload |-> payload, part |-> i]]

(* decode_ship: sizes, one whole stream, and a payload within the limit. *)
ShipPayload(body) ==
    IF /\ Len(body) > 1 /\ body[1].is = "head" /\ body[1].size = Len(body) - 1
       /\ body[2].is = "body"
       /\ Tail(body) = Compressed(body[2].payload, body[2].stream, body[2].marker)
       /\ body[2].payload[3] # "huge"
    THEN [id |-> body[1].id, raw |-> body[2].payload] ELSE Refused

ShipMarker(body) == body[2].marker

EncodedEntry(id, stream) == <<[is |-> "head", id |-> id, size |-> Len(stream)]>> \o stream
EncodeShipWith(id, raw, marker, codec) ==
    IF raw[3] = "huge" THEN Refused
    ELSE EncodedEntry(id, Compressed(raw, Stream(raw, codec), marker))

EncodeShip(id, raw, marker) == EncodeShipWith(id, raw, marker, "stored")

(* What a state-history log holds of a block. *)
PayloadOf(id) == <<id[1], id[2], IF id[1] \in Rich THEN "rich" ELSE "plain">>

(* The cells and the index of bodies laid out from an offset on. *)
LaidOut(bodies, at) ==
    LET pos[i \in 1 .. Len(bodies)] == IF i = 1 THEN at ELSE pos[i - 1] + Len(bodies[i - 1]) + 1
    IN  [cells |-> FlattenSeq([i \in DOMAIN bodies |-> bodies[i] \o <<[is |-> "trail", pos |-> pos[i]]>>]),
         idx |-> [i \in DOMAIN bodies |-> pos[i]]]

-----------------------------------------------------------------------------
(* The preamble of a block log: its first block and its chain id, which is *)
(* the hash of the genesis state unless a v3 log starts later.             *)
FirstNum(cell) == IF cell.version = 1 THEN 1 ELSE cell.first
Preamble(cell) ==
    IF cell.version \notin 1 .. 3 \/ FirstNum(cell) = 0 \/ (cell.version # 1 /\ ~cell.totem) THEN Refused
    ELSE [first |-> FirstNum(cell),
          chain |-> IF cell.version <= 2 \/ cell.first = 1 THEN cell.genesis ELSE cell.chain]

(* Where block n's entry begins; the block after the last, at the end. *)
Pos(log, n) ==
    IF n = log.last + 1 THEN log.size
    ELSE IF n \notin log.first .. log.last THEN Refused
    ELSE IF log.idx[n - log.first + 1] < log.size THEN log.idx[n - log.first + 1] ELSE Refused

Interval(a, b) ==
    IF Refused \in {a, b} THEN Refused
    ELSE IF b - a < MIN_ENTRY \/ b - a > MAX_BYTES THEN Refused
    ELSE <<a, b>>
Bounds(log, n) == Interval(Pos(log, n), Pos(log, n + 1))

(* Log::from_disks *)
FirstIn(f, head) ==
    CASE f.kind = "blocks" /\ head.is = "preamble" -> Then(Preamble(head), LAMBDA p : p.first)
      [] f.kind # "blocks" /\ head.is = "head" -> head.id[1]
      [] OTHER -> Refused
LogFrom(f, first) ==
    [path |-> f.path, kind |-> f.kind, cells |-> f.cells, idx |-> f.idx, bad |-> f.bad,
     first |-> first, last |-> first + Len(f.idx) - 1, size |-> Len(f.cells)]
EndsFit(log) ==
    Pos(log, log.first) = (IF log.kind = "blocks" THEN 1 ELSE 0) /\ Bounds(log, log.last) # Refused
OpenLog(f) ==
    IF f.idx = <<>> \/ ~Readable(f, 0, 1) THEN Refused
    ELSE Then(FirstIn(f, f.cells[1]), LAMBDA first :
           IF EndsFit(LogFrom(f, first)) THEN LogFrom(f, first) ELSE Refused)

(* The id an entry gives itself, which must carry its number. *)
EntryHead(log, body) == IF log.kind = "blocks" THEN BlockHeader(body) ELSE ShipPayload(body)
IdOf(log, n, body) == Then(EntryHead(log, body), LAMBDA h : IF h.id[1] = n THEN h.id ELSE Refused)

(* Log::body: entry n without its trailer; what follows a state-history    *)
(* entry up to the next index position must be orphaned entries.           *)
OwnCells(log, cells) ==
    IF log.kind = "blocks" THEN Len(cells)
    ELSE IF cells[1].is = "head" THEN EntrySize(cells[1]) ELSE Len(cells) + 1
BodyIn(log, n, pos, cells, own) ==
    IF own > Len(cells) THEN Refused
    ELSE IF /\ IsTrail(cells[own], pos) /\ Orphans(SubSeq(cells, own + 1, Len(cells)), pos + own)
            /\ IdOf(log, n, SubSeq(cells, 1, own - 1)) # Refused
         THEN SubSeq(cells, 1, own - 1) ELSE Refused
BodyAt(log, n, pos, cells) == BodyIn(log, n, pos, cells, OwnCells(log, cells))
BodyOf(log, n) ==
    Then(Bounds(log, n), LAMBDA at :
        IF Readable(log, at[1], at[2]) THEN BodyAt(log, n, at[1], ReadCells(log, at[1], at[2])) ELSE Refused)

(* Log::ship_entry_id: from the head and the trailer, the payload unread. *)
IdBetween(log, n, a, b, head, end) ==
    IF /\ end <= b /\ Readable(log, end - 1, end) /\ IsTrail(log.cells[end], a)
       /\ end = b \/ (b - end <= MAX_BYTES /\ Readable(log, end, b))
       /\ Orphans(ReadCells(log, end, b), end) /\ head.id[1] = n
    THEN head.id ELSE Refused
IdFrom(log, n, a, b) ==
    IF Refused \in {a, b} THEN Refused
    ELSE IF b - a < MIN_ENTRY \/ ~Readable(log, a, a + 1) THEN Refused
    ELSE IF log.cells[a + 1].is # "head" THEN Refused
    ELSE IdBetween(log, n, a, b, log.cells[a + 1], a + EntrySize(log.cells[a + 1]))
ShipEntryId(log, n) == IdFrom(log, n, Pos(log, n), Pos(log, n + 1))

(* container_disk: blocks in order, each of its number, one linked to the  *)
(* one before; a container is a function of its range.                     *)
Container(c) ==
    LET first == Min(DOMAIN c)
        headers == [n \in DOMAIN c |-> BlockHeader(c[n])]
    IN  IF /\ first > 0 /\ DOMAIN c = first .. Max(DOMAIN c) /\ Cardinality(DOMAIN c) <= MAX_BLOCKS
           /\ \A n \in DOMAIN c :
                 /\ headers[n] # Refused /\ headers[n].number = n
                 /\ n > first => headers[n].prev = headers[n - 1].id
        THEN c ELSE Refused
=============================================================================
