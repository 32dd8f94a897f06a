------------------------------ MODULE VerifyLog ------------------------------
(***************************************************************************)
(* antelope-log-repair verify (log-repair/src/verify.rs): the entries of a *)
(* range that read back and are wrong.  One batch of index slots and one   *)
(* read are taken to hold a whole small log, so a batch ends only where    *)
(* two slots do not frame an entry.                                        *)
(***************************************************************************)
EXTENDS RepairFormat

(* An index slot as it is, and the end of the log after the last. *)
Slot(log, n) == IF n = log.last + 1 THEN log.size ELSE log.idx[n - log.first + 1]
Framed(log, n) == Slot(log, n + 1) - Slot(log, n) >= MIN_ENTRY

(* A reference block log's block, None where it has none. *)
BlockBetween(ref, from, to) ==
    IF to <= from + 1 \/ ~Readable(ref, from, to) THEN Refused
    ELSE IF IsTrail(ref.cells[to], from) THEN ReadCells(ref, from, to - 1) ELSE Refused
ReferenceBlock(ref, n) ==
    IF n \in ref.first .. ref.last THEN BlockBetween(ref, Slot(ref, n), Slot(ref, n + 1)) ELSE None

-----------------------------------------------------------------------------
(* Where an entry's own cells end: a state-history entry says so itself,   *)
(* and a size past the next index position is a problem.                   *)
Own(log, cells) ==
    IF log.kind = "blocks" \/ cells[1].is # "head" THEN Len(cells) ELSE Min({EntrySize(cells[1]), Len(cells)})
Overruns(log, cells) ==
    log.kind # "blocks" /\ (IF cells[1].is = "head" THEN EntrySize(cells[1]) > Len(cells) ELSE TRUE)

(* The trailer names the entry's position, and orphans fill what is left. *)
Frames(log, cells, s, own) ==
    /\ ~Overruns(log, cells) /\ IsTrail(cells[own], s)
    /\ Orphans(SubSeq(cells, own + 1, Len(cells)), s + own)

(* A payload that declares more than the limit is left out. *)
Oversized(log, body) ==
    log.kind # "blocks" /\ Len(body) > 1 /\ body[2].is = "body" /\ body[2].marker = 1 /\ body[2].payload[3] = "huge"

(* Mutant: a header is not compared with the one before it. *)
NamesNumber(log, n, h, prev) == h # Refused /\ h.id[1] = n

(* The entry names its block; a header links to the one before it. *)
Names(log, n, h, prev) ==
    /\ h # Refused /\ h.id[1] = n
    /\ log.kind = "blocks" => prev = None \/ h.prev = prev

(* A reference's block, byte for byte, or its id in a state-history log. *)
SameAs(log, body, h, ref) ==
    ref # None =>
        IF log.kind = "blocks" THEN ref = body
        ELSE h = Refused \/ Then(BlockHeader(ref), LAMBDA b : b.id = h.id) # FALSE
Matches(log, body, h, refs, n) == \A i \in DOMAIN refs : SameAs(log, body, h, ReferenceBlock(refs[i], n))

(* The id that the next header must link to. *)
NextPrev(log, h) == IF log.kind # "blocks" \/ h = Refused THEN None ELSE h.id

-----------------------------------------------------------------------------
(* One entry: st is [prev, found, skipped, unread, end]; `end` is Refused  *)
(* after an error and TRUE where --max-findings stopped it.  Entries are   *)
(* read one at a time: a batch is CHUNK bytes, a quarter of MAX_BYTES, and *)
(* at the instances checked that is the size of one entry.                 *)
Found(st, n, prev) == [st EXCEPT !.found = @ \cup {n}, !.prev = prev]

Good(log, n, s, cells, own, body, h, prev, refs) ==
    Frames(log, cells, s, own) /\ Names(log, n, h, prev) /\ Matches(log, body, h, refs, n)
Judge(st, n, good, next, max) ==
    IF good THEN [st EXCEPT !.prev = next]
    ELSE [Found(st, n, next) EXCEPT !.end = Cardinality(st.found \cup {n}) >= max]
VerifyBody(log, refs, max, st, n, s, cells, own, body) ==
    IF Oversized(log, body) THEN [st EXCEPT !.skipped = @ + 1]
    ELSE Judge(st, n, Good(log, n, s, cells, own, body, EntryHead(log, body), st.prev, refs),
               NextPrev(log, EntryHead(log, body)), max)
VerifyCells(log, refs, max, st, n, s, cells, own) ==
    VerifyBody(log, refs, max, st, n, s, cells, own, SubSeq(cells, 1, own - 1))
VerifyEntry(log, refs, max, st, n, s, e) ==
    IF st.end # FALSE THEN st
    ELSE IF ~Framed(log, n) THEN Found(st, n, None)
    ELSE IF e - s > MAX_BYTES \/ e > Len(log.cells) THEN [st EXCEPT !.end = Refused]
    ELSE IF \E i \in DOMAIN refs : ReferenceBlock(refs[i], n) = Refused THEN [st EXCEPT !.end = Refused]
    ELSE IF ~Readable(log, s, e) THEN [Found(st, n, None) EXCEPT !.unread = @ + 1]
    ELSE VerifyCells(log, refs, max, st, n, s, ReadCells(log, s, e), Own(log, ReadCells(log, s, e)))

(* The header before the range begins the chain, where it reads. *)
FirstPrev(log, a) ==
    IF log.kind # "blocks" \/ a <= log.first THEN None
    ELSE NextPrev(log, Then(BodyOf(log, a - 1), BlockHeader))

(* The last header of the range is checked by the one after it. *)
LinkedBy(st, b, next) ==
    IF next = Refused \/ next = None THEN st
    ELSE IF BlockHeader(next).prev = st.prev THEN st ELSE Found(st, b, st.prev)
LastLink(log, b, st) ==
    LinkedBy(st, b, IF log.kind # "blocks" \/ b >= log.last \/ st.end # FALSE \/ st.prev = None
                    THEN None ELSE BodyOf(log, b + 1))

(* verify: the blocks with a finding, or Refused. *)
LastOf(log, b, st) == IF st.end = Refused THEN Refused ELSE LastLink(log, b, st)
VerifyRange(log, a, b, refs, max) ==
    FoldLeft(LAMBDA st, n : VerifyEntry(log, refs, max, st, n, Slot(log, n), Slot(log, n + 1)),
             [prev |-> FirstPrev(log, a), found |-> {}, skipped |-> 0, unread |-> 0, end |-> FALSE],
             [i \in 1 .. b - a + 1 |-> a + i - 1])
VerifyBetween(log, a, b, refs, max) ==
    IF a > b \/ Refused \in Range(refs) \/ Refused \in {Pos(log, a), Pos(log, b + 1)} THEN Refused
    ELSE IF \E i \in DOMAIN refs : refs[i].kind # "blocks" \/ refs[i].path = log.path THEN Refused
    ELSE LastOf(log, b, VerifyRange(log, a, b, refs, max))
Verify(log, range, refs, max) ==
    VerifyBetween(log, Max({range[1], log.first}), Min({range[2], log.last}),
                  [i \in DOMAIN refs |-> OpenLog(refs[i])], max)
=============================================================================
