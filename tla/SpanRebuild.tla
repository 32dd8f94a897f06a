----------------------------- MODULE SpanRebuild -----------------------------
(***************************************************************************)
(* The replacement of damaged records, rebuilt from sources and checked    *)
(* against every byte of the target that still reads (log-repair           *)
(* repair.rs): block containers, block logs and donor state-history logs   *)
(* are loaded, the ids chained from one anchor of a region to the other,   *)
(* and the entries laid out at the target's offsets, as the source has     *)
(* them or re-encoded the way the anchors are.                             *)
(***************************************************************************)
EXTENDS DamageTarget

(* Containers are joined where they agree. *)
Holding(list, n) == {i \in DOMAIN list : n \in DOMAIN list[i]}
Joined(list, held) ==
    IF \E n \in held : \E i, j \in Holding(list, n) : list[i][n] # list[j][n] THEN Refused
    ELSE [n \in held |-> list[CHOOSE i \in Holding(list, n) : TRUE][n]]
Containers(list) ==
    IF \E i \in DOMAIN list : Container(list[i]) = Refused THEN Refused
    ELSE Joined(list, UNION {DOMAIN list[i] : i \in DOMAIN list})

(* load_with: all of them open, and are of the kinds the repair needs. *)
Opens(files) == [i \in DOMAIN files |-> OpenLog(files[i])]
Loaded(kind, containers, blockLogs, donors) ==
    IF /\ containers # Refused
       /\ Refused \notin Range(blockLogs \o donors)
       /\ \A l \in Range(blockLogs) : l.kind = "blocks"
       /\ IF kind = "blocks" THEN donors = <<>> ELSE donors # <<>>
       /\ \A d \in Range(donors) : d.kind = kind
    THEN [containers |-> containers, blockLogs |-> blockLogs, donors |-> donors]
    ELSE Refused
LoadWith(kind, s) ==
    IF s.blocks = <<>> /\ s.blockLogs = <<>> THEN Refused
    ELSE Loaded(kind, Containers(s.blocks), Opens(s.blockLogs), Opens(s.donors))

(* Loaded::block: every source that holds the block must agree. *)
Agreed(views) ==
    IF views = {} THEN None
    ELSE IF Refused \in views \/ Cardinality(views) > 1 THEN Refused
    ELSE CHOOSE v \in views : TRUE
BlockOf(src, n) ==
    Agreed({src.containers[m] : m \in {n} \cap DOMAIN src.containers}
             \cup {BodyOf(l, n) : l \in {l \in Range(src.blockLogs) : n \in l.first .. l.last}})

Given(body) == body \notin {None, Refused}

AnchorId(log, n) ==
    IF log.kind # "blocks" THEN ShipEntryId(log, n)
    ELSE Then(BodyOf(log, n), LAMBDA body : IdOf(log, n, body))

-----------------------------------------------------------------------------
(* The first donor that covers the region with its anchors; the blocks and *)
(* the donor must both give the anchors the target's ids.                  *)
SameId(body, id, given) == Given(body) /\ BlockHeader(body).id = id /\ given = id
Fitting(log, r, src, covering) ==
    IF covering = <<>> THEN Refused
    ELSE IF \A n \in {r.first - 1, r.last + 1} :
                SameId(BlockOf(src, n), AnchorId(log, n), ShipEntryId(covering[1], n))
         THEN covering[1] ELSE Refused
DonorFor(log, r, src) ==
    Fitting(log, r, src, SelectSeq(src.donors, LAMBDA d : SourceRange(r) \subseteq d.first .. d.last))

(* Mutant: the ids are not chained to the anchors. *)
ChainedAnyHow(packed, left, right) == \A n \in DOMAIN packed : Given(packed[n])

(* The id chain over the source blocks, from the left anchor to the right, *)
(* which a block log has itself.                                           *)
Chained(packed, left, right) ==
    /\ \A n \in DOMAIN packed : Given(packed[n])
    /\ \A n \in DOMAIN packed :
          Then(BlockHeader(packed[n]), LAMBDA h :
              /\ h.number = n
              /\ h.prev = IF n - 1 \in DOMAIN packed THEN BlockHeader(packed[n - 1]).id ELSE left) = TRUE
    /\ BlockHeader(packed[Max(DOMAIN packed)]).id = right
Packed(log, r, src) ==
    [n \in r.first .. r.last + 1 |->
        IF log.kind = "blocks" /\ n = r.last + 1 THEN BodyOf(log, n) ELSE BlockOf(src, n)]

(* The entries the source has: its blocks, or the donor's entries of them. *)
DonorEntry(donor, n, body, id) ==
    IF body = Refused THEN Refused ELSE IF IdOf(donor, n, body) = id THEN body ELSE Refused
SourceBodies(log, r, packed, donor) ==
    [i \in 1 .. r.last - r.first + 1 |->
        IF log.kind = "blocks" THEN packed[r.first + i - 1]
        ELSE DonorEntry(donor, r.first + i - 1, BodyOf(donor, r.first + i - 1),
                        BlockHeader(packed[r.first + i - 1]).id)]

-----------------------------------------------------------------------------
InExtents(r, p) == \E e \in Range(r.extents) : Offset(e) <= p /\ p < End(e)

(* An entry at its offset, with its trailer and the orphans kept after it. *)
PlacedAt(log, r, body, a, b, from) ==
    IF \/ from = b
       \/ /\ log.kind # "blocks" /\ from < b
          /\ ~Touches(r.extents, from, b)
          /\ Readable(log, from, b) /\ Orphans(ReadCells(log, from, b), from)
    THEN body \o <<[is |-> "trail", pos |-> a]>> \o ReadCells(log, from, b) ELSE Refused
Placed(log, r, n, body) ==
    PlacedAt(log, r, body, Pos(log, n), Pos(log, n + 1), Pos(log, n) + Len(body) + 1)

(* Mutant: the span is not compared with what still reads. *)
FitsBlindly(log, r, span) == IF Len(span) = r.spanEnd - r.spanStart THEN span ELSE Refused

(* The span equals the target wherever that reads. *)
Fits(log, r, span) ==
    IF /\ Len(span) = r.spanEnd - r.spanStart
       /\ \A p \in r.spanStart .. r.spanEnd - 1 :
             InExtents(r, p) \/ span[p - r.spanStart + 1] = log.cells[p + 1]
    THEN span ELSE Refused
Assembled(log, r, placed) ==
    IF Refused \in Range(placed) THEN Refused ELSE Fits(log, r, FlattenSeq(placed))
Assemble(log, r, bodies) ==
    IF Refused \in Range(bodies) THEN Refused
    ELSE Assembled(log, r, [i \in DOMAIN bodies |-> Placed(log, r, r.first + i - 1, bodies[i])])

(* calibrate: the preamble of the anchors and the encodings that reproduce *)
(* each of them; an anchor that does not read whole is left out.           *)
Encoded(body, marker, codec) == EncodeShipWith(body[1].id, body[2].payload, marker, codec)
How(markers, codecs) ==
    IF Cardinality(markers) # 1 \/ codecs = <<>> THEN Refused
    ELSE [marker |-> CHOOSE m \in markers : TRUE, codecs |-> codecs]
Calibrated(bodies) ==
    How({ShipMarker(b) : b \in bodies},
        SelectSeq(Candidates, LAMBDA c : \A b \in bodies : Encoded(b, ShipMarker(b), c) = b))
Calibrate(log, r) == Calibrated({BodyOf(log, n) : n \in {r.first - 1, r.last + 1}} \ {Refused})

(* translate: of the encodings that reproduce the anchors, the one result  *)
(* that fits; none, or several that differ, are refused.                   *)
OnlyOne(fits) == IF Cardinality(fits) = 1 THEN CHOOSE s \in fits : TRUE ELSE Refused
Translate(log, r, source) ==
    Then(Calibrate(log, r), LAMBDA how :
        OnlyOne({Assemble(log, r, [i \in DOMAIN source |-> Encoded(source[i], how.marker, c)]) :
                    c \in Range(how.codecs)} \ {Refused}))

-----------------------------------------------------------------------------
(* The source's own entries, or the same in the target's encoding. *)
AsIsOrTranslated(log, r, source, span) ==
    IF span # Refused \/ log.kind = "blocks" \/ Refused \in Range(source) THEN span
    ELSE Translate(log, r, source)
SpanFrom(log, r, source) == AsIsOrTranslated(log, r, source, Assemble(log, r, source))
Rebuilt(log, r, left, right, packed, donor) ==
    IF Refused \in {left, right, donor} THEN Refused
    ELSE IF Chained(packed, left, right) THEN SpanFrom(log, r, SourceBodies(log, r, packed, donor))
    ELSE Refused
RebuildRegion(log, r, src) ==
    Rebuilt(log, r, AnchorId(log, r.first - 1), AnchorId(log, r.last + 1), Packed(log, r, src),
            IF log.kind = "blocks" THEN None ELSE DonorFor(log, r, src))

(* rebuild: the cells of every region, none from the damaged log itself. *)
AllOf(spans) == IF Refused \in Range(spans) THEN Refused ELSE spans
Rebuild(log, regions, src) ==
    IF \E l \in Range(src.blockLogs \o src.donors) : l.path = log.path THEN Refused
    ELSE AllOf([i \in DOMAIN regions |-> RebuildRegion(log, regions[i], src)])

(* pieces: what each extent is to hold. *)
RegionAt(regions, p) == CHOOSE r \in Range(regions) : InExtents(r, p)
Pieces(regions, spans) ==
    LET damaged == UNION {UNION {Offset(e) .. End(e) - 1 : e \in Range(r.extents)} : r \in Range(regions)}
        index(p) == CHOOSE i \in DOMAIN regions : InExtents(regions[i], p)
    IN  [p \in damaged |-> spans[index(p)][p - RegionAt(regions, p).spanStart + 1]]

(* Readable data of an extent that differs is never overwritten. *)
Differs(log, replacement) ==
    \E p \in DOMAIN replacement : Readable(log, p, p + 1) /\ log.cells[p + 1] # replacement[p]
=============================================================================
