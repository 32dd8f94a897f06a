------------------------------ MODULE StateLog -------------------------------
(***************************************************************************)
(* One state-history log and its index while nodeos writes them, and every *)
(* way this repository reads them: the strict reader (shiplog.rs) behind   *)
(* its page cache, the index rebuilt from the log (check.rs), the walk of  *)
(* the indexers over canonical entries (disk.rs, action-proto,             *)
(* delta-proto) and slice-log.                                             *)
(*                                                                         *)
(* A log is a sequence of cells: a head (magic, block id, payload size),   *)
(* the payload and the position trailer.  Offsets count cells from 0.  A   *)
(* fork truncates the index and appends, so superseded entries stay in the *)
(* log; nodeos may die after any cell or before the index slot.            *)
(***************************************************************************)
EXTENDS Integers, Sequences, FiniteSets, SequencesExt

CONSTANTS
    FirstBlock,   \* the first block of the log
    MaxBlock,     \* bound: the highest block
    MaxEntries,   \* bound: entries ever appended, superseded ones included
    INDEX_PAGE,   \* index slots read at once
    None, Refused

VARIABLES
    log,          \* the cells
    idx,          \* the index beside the log: the offsets of FirstBlock, ...
    chain,        \* observer: the offsets of the entries of the chain's blocks
    writing,      \* the entry being appended, or None
    damaged,      \* the index was damaged after nodeos stopped
    side,         \* the sidecar index that `index` wrote, or None
    reader        \* an opened ShipLog with its cached index page, or None

vars == <<log, idx, chain, writing, damaged, side, reader>>
files == <<log, idx, chain, writing, damaged>>

NoPos == -1       \* bytes that are no offset into this log
HEADER_LEN == 1
ENTRY_OVERHEAD == 2
PAYLOAD == 1

HeadCell(n) == [is |-> "head", num |-> n, size |-> PAYLOAD]
BodyCell == [is |-> "body"]
TrailCell(p) == [is |-> "trail", pos |-> p]

Init ==
    /\ log = <<>> /\ idx = <<>> /\ chain = <<>>
    /\ writing = None /\ damaged = FALSE /\ side = None /\ reader = None

-----------------------------------------------------------------------------
(* What the bytes at an offset say. *)
U64At(l, p) ==
    IF p \in 0 .. Len(l) - 1 /\ l[p + 1].is = "trail" THEN l[p + 1].pos ELSE NoPos

(* The entry at p lies in the log as far as its head tells (entry_at). *)
EntryAt(l, p) ==
    /\ p >= 0 /\ p + ENTRY_OVERHEAD <= Len(l)
    /\ l[p + 1].is = "head"
    /\ p + ENTRY_OVERHEAD + l[p + 1].size <= Len(l)

NumAt(l, p) == l[p + 1].num
EndOf(l, p) == p + ENTRY_OVERHEAD + l[p + 1].size

(* read_header: the entry at p is block n's, whole, and its trailer names p. *)
ReadHeader(l, n, p) ==
    /\ EntryAt(l, p)
    /\ NumAt(l, p) = n
    /\ U64At(l, EndOf(l, p) - 1) = p

(* The last entry is valid and ends at the end of the file. *)
TailOk(l) ==
    LET p == U64At(l, Len(l) - 1)
    IN  /\ EntryAt(l, p)
        /\ ReadHeader(l, NumAt(l, p), p)
        /\ EndOf(l, p) = Len(l)

(* Mutant: the last slot is not compared with the last entry. *)
OpenAnyLast(l, x) ==
    LET last == U64At(l, Len(l) - 1)
        begin == NumAt(l, 0)
        end == NumAt(l, last) + 1
    IN  IF l = <<>> THEN None
        ELSE IF /\ EntryAt(l, 0) /\ ReadHeader(l, NumAt(l, 0), 0)
                /\ TailOk(l)
                /\ begin < end
                /\ x # None /\ Len(x) = end - begin
             THEN [begin |-> begin, end |-> end, size |-> Len(l)]
             ELSE Refused

(* ShipLog::open: None for an empty log, Refused, or the range validated. *)
Open(l, x) ==
    LET last == U64At(l, Len(l) - 1)
        begin == NumAt(l, 0)
        end == NumAt(l, last) + 1
    IN  IF l = <<>> THEN None
        ELSE IF /\ EntryAt(l, 0) /\ ReadHeader(l, NumAt(l, 0), 0)
                /\ TailOk(l)
                /\ begin < end
                /\ x # None /\ Len(x) = end - begin
                /\ x[Len(x)] = last
             THEN [begin |-> begin, end |-> end, size |-> Len(l)]
             ELSE Refused

Opened(l, x) == Open(l, x) \notin {None, Refused}

-----------------------------------------------------------------------------
(* rebuild_index: the entries from the end of the log back to the first of *)
(* block `begin`, each found through the trailer before the one after it.  *)
(* NoPos ends a walk that meets a trailer or an entry it refuses.          *)
BackFrom(l) ==
    LET begin == NumAt(l, 0)
        back[e \in 0 .. Len(l)] ==
            LET p == U64At(l, e - 1)
            IN  IF ~EntryAt(l, p) \/ EndOf(l, p) # e \/ NumAt(l, p) < begin THEN <<NoPos>>
                ELSE IF NumAt(l, p) = begin THEN <<p>>
                ELSE <<p>> \o back[p]
    IN  back[Len(l)]

(* Mutant: the entry written first is taken for each block. *)
RebuildIndexFirst(l) ==
    LET walk == BackFrom(l)
        end == NumAt(l, U64At(l, Len(l) - 1)) + 1
        of(n) == {i \in DOMAIN walk : walk[i] # NoPos /\ NumAt(l, walk[i]) = n}
    IN  IF l = <<>> THEN None
        ELSE IF ~EntryAt(l, 0) \/ ~TailOk(l) \/ NoPos \in Range(walk)
                \/ \E n \in NumAt(l, 0) .. end - 1 : of(n) = {}
             THEN Refused
             ELSE [k \in 1 .. end - NumAt(l, 0) |-> walk[Max(of(NumAt(l, 0) + k - 1))]]

(* The index as Spring rebuilds it: for each block below the end of the    *)
(* last entry, the entry met first from the end.  A hole is refused.       *)
RebuildIndex(l) ==
    LET walk == BackFrom(l)
        end == NumAt(l, U64At(l, Len(l) - 1)) + 1
        of(n) == {i \in DOMAIN walk : walk[i] # NoPos /\ NumAt(l, walk[i]) = n}
    IN  IF l = <<>> THEN None
        ELSE IF ~EntryAt(l, 0) \/ ~TailOk(l) \/ NoPos \in Range(walk)
                \/ \E n \in NumAt(l, 0) .. end - 1 : of(n) = {}
             THEN Refused
             ELSE [k \in 1 .. end - NumAt(l, 0) |-> walk[Min(of(NumAt(l, 0) + k - 1))]]

(* verify_index: the strict reader opens the log with it and every header reads. *)
VerifyIndex(l, x) ==
    /\ Opened(l, x)
    /\ \A k \in 1 .. Len(x) : ReadHeader(l, Open(l, x).begin + k - 1, x[k])

-----------------------------------------------------------------------------
(* The walk of a worker of action-proto, delta-proto or its Wire reader    *)
(* over the blocks cs..ce: from the first one's entry to the entry of the  *)
(* block after the last, keeping the entries the index holds for their     *)
(* block.  It yields the offsets kept; NoPos ends a walk that failed.      *)
AfterEntry(l, p) ==
    LET e == p + HEADER_LEN + l[p + 1].size
    IN  IF U64At(l, e) = p THEN e + 1 ELSE e

CanonicalOffsets(x, first, cs, ce) == [n \in cs .. ce |-> x[n - first + 1]]

WalkStop(l, x, first, ce) ==
    IF ce - first + 1 < Len(x) THEN x[ce - first + 2] ELSE Len(l)

(* Mutant: the walk keeps every entry of a block in range. *)
KeptInRange(l, offsets, p) == NumAt(l, p) \in DOMAIN offsets

Kept(l, offsets, p) == NumAt(l, p) \in DOMAIN offsets /\ offsets[NumAt(l, p)] = p

Walk(l, x, first, cs, ce) ==
    LET offsets == CanonicalOffsets(x, first, cs, ce)
        stop == WalkStop(l, x, first, ce)
        from[p \in 0 .. Len(l)] ==
            IF p >= stop \/ p >= Len(l) THEN <<>>
            ELSE IF l[p + 1].is # "head" \/ p + HEADER_LEN + l[p + 1].size > Len(l) THEN <<NoPos>>
            ELSE (IF Kept(l, offsets, p) THEN <<p>> ELSE <<>>) \o from[AfterEntry(l, p)]
    IN  from[offsets[cs]]

(* The chunks of k blocks a tool cuts the indexed range into. *)
Chunks(x, first, k) ==
    [i \in 1 .. (Len(x) + k - 1) \div k |->
        <<first + (i - 1) * k, first + Min({i * k, Len(x)}) - 1>>]

-----------------------------------------------------------------------------
(* Mutant: the trailers keep the offsets of the source. *)
SliceOldTrailers(l, x, start, end) ==
    LET from == x[start - FirstBlock + 1]
        to == WalkStop(l, x, FirstBlock, end - 1)
    IN  [log |-> SubSeq(l, from + 1, to),
         idx |-> [k \in 1 .. end - start |-> x[start - FirstBlock + k] - from]]

(* slice-log: the bytes from one canonical entry to another, the index     *)
(* rebased, and the trailers of the indexed entries rewritten.             *)
Slice(l, x, start, end) ==
    LET from == x[start - FirstBlock + 1]
        to == WalkStop(l, x, FirstBlock, end - 1)
        offsets == [k \in 1 .. end - start |-> x[start - FirstBlock + k] - from]
        bytes == SubSeq(l, from + 1, to)
        trailer(i) == {k \in DOMAIN offsets :
                          i = offsets[k] + HEADER_LEN + bytes[offsets[k] + 1].size + 1}
    IN  [log |-> [i \in DOMAIN bytes |->
                     IF trailer(i) # {} THEN TrailCell(offsets[CHOOSE k \in trailer(i) : TRUE])
                     ELSE bytes[i]],
         idx |-> offsets]

-----------------------------------------------------------------------------
(* nodeos (external): append block n.  A fork first cuts the index; then   *)
(* the entry is written, and last its index slot.                          *)
LastBlock == FirstBlock + Len(chain) - 1

Begin(n) ==
    /\ writing = None /\ ~damaged
    /\ IF chain = <<>> THEN n = FirstBlock ELSE n \in FirstBlock + 1 .. LastBlock + 1
    /\ n <= MaxBlock
    /\ Len(log) < MaxEntries * (ENTRY_OVERHEAD + PAYLOAD)
    /\ idx' = SubSeq(idx, 1, n - FirstBlock)
    /\ writing' = [num |-> n, pos |-> Len(log)]
    /\ UNCHANGED <<log, chain, damaged, side, reader>>

WriteCell ==
    /\ writing # None /\ ~damaged
    /\ LET done == Len(log) - writing.pos
       IN  /\ done < ENTRY_OVERHEAD + PAYLOAD
           /\ log' = Append(log, CASE done = 0 -> HeadCell(writing.num)
                                   [] done = 1 -> BodyCell
                                   [] OTHER -> TrailCell(writing.pos))
           /\ chain' = IF done = 2
                       THEN Append(SubSeq(chain, 1, writing.num - FirstBlock), writing.pos)
                       ELSE chain
    /\ UNCHANGED <<idx, writing, damaged, side, reader>>

WriteSlot ==
    /\ writing # None /\ ~damaged
    /\ Len(log) - writing.pos = ENTRY_OVERHEAD + PAYLOAD
    /\ idx' = Append(idx, writing.pos)
    /\ writing' = None
    /\ UNCHANGED <<log, chain, damaged, side, reader>>

(* The index of a copied log is missing, short, or wrong in one slot. *)
DamageIndex ==
    /\ ~damaged /\ idx # <<>>
    /\ damaged' = TRUE
    /\ \/ idx' = <<>>
       \/ idx' = Front(idx)
       \/ \E k \in DOMAIN idx, p \in Range(chain) : idx' = [idx EXCEPT ![k] = p]
    /\ UNCHANGED <<log, chain, writing, side, reader>>

-----------------------------------------------------------------------------
(* Whether an index file holds exactly these slots: None without a file. *)
SameIndex(x, slots) == IF x = None THEN None ELSE x = slots

(* write_index: a temporary file, renamed once it leads to every block. *)
WriteIndex(slots) == VerifyIndex(log, slots) /\ side' = slots

(* `antelope-ship-archive index` on this log (index_one): a sidecar is     *)
(* written when the index beside the log, or the sidecar there, is wrong.  *)
IndexOne ==
    LET slots == RebuildIndex(log)
        stale == SameIndex(side, slots) = FALSE
    IN  /\ slots \notin {None, Refused}
        /\ IF SameIndex(idx, slots) # TRUE \/ stale THEN WriteIndex(slots) ELSE UNCHANGED side
        /\ UNCHANGED <<log, idx, chain, writing, damaged, reader>>

(* The index read with the log: a sidecar replaces the one beside it. *)
Effective == IF side # None THEN side ELSE idx

(* A server opens the log; the observer keeps the chain of that moment. *)
OpenLog ==
    /\ reader = None
    /\ Opened(log, Effective)
    /\ reader' = [at |-> Open(log, Effective), of |-> side # None, chain |-> chain,
                  first |-> None, slots |-> <<>>, read |-> None]
    /\ UNCHANGED <<files, side>>

(* The files must still have the lengths validated at open. *)
LogFile == Len(log) = reader.at.size
IndexFile == Len(IF reader.of THEN side ELSE idx) = reader.at.end - reader.at.begin
CheckBlock(n) == n \in reader.at.begin .. reader.at.end - 1

(* The slots of `count` blocks from `first` (positions). *)
Positions(first, count) ==
    SubSeq(IF reader.of THEN side ELSE idx, first - reader.at.begin + 1, first - reader.at.begin + count)

(* PageCache::slot on a page that is not cached: a page of slots is kept. *)
LoadPage(n) ==
    LET first == reader.at.begin + ((n - reader.at.begin) \div INDEX_PAGE) * INDEX_PAGE
    IN  /\ IndexFile
        /\ reader' = [reader EXCEPT !.first = first, !.read = None,
                        !.slots = Positions(first, Min({INDEX_PAGE, reader.at.end - first}))]

Cached(n) == reader.first # None /\ n - reader.first \in 0 .. Len(reader.slots) - 1

(* Mutant: the length of the log is not compared. *)
HeaderAtAnyLength(n) ==
    LET p == reader.slots[n - reader.first + 1]
    IN  reader' = [reader EXCEPT !.read =
                     IF ReadHeader(log, n, p) THEN [num |-> n, pos |-> p] ELSE None]

(* header_at: the log must still have the length validated at open. *)
HeaderAt(n) ==
    LET p == reader.slots[n - reader.first + 1]
    IN  reader' = [reader EXCEPT !.read =
                     IF CheckBlock(n) /\ LogFile /\ ReadHeader(log, n, p)
                     THEN [num |-> n, pos |-> p] ELSE None]

ReadBlock(n) ==
    /\ reader # None
    /\ CheckBlock(n)
    /\ IF Cached(n) THEN HeaderAt(n) ELSE LoadPage(n)
    /\ UNCHANGED <<files, side>>

Next ==
    \/ \E n \in FirstBlock .. MaxBlock : Begin(n) \/ ReadBlock(n)
    \/ WriteCell
    \/ WriteSlot
    \/ DamageIndex
    \/ IndexOne
    \/ OpenLog

Spec == Init /\ [][Next]_vars

-----------------------------------------------------------------------------
Whole == writing = None \/ Len(log) - writing.pos \in {0, ENTRY_OVERHEAD + PAYLOAD}
OverChunks(of(_, _), x, first, k) ==
    FlattenSeq([i \in DOMAIN Chunks(x, first, k) |-> of(Chunks(x, first, k)[i][1], Chunks(x, first, k)[i][2])])

(* "orphaned fork entries are never seen, and any inconsistency fails      *)
(* closed" (shiplog.rs): at any moment nodeos may die or be copied, a log  *)
(* that opens, with the index beside it or with a sidecar rebuilt earlier, *)
(* leads every block to its entry on the chain.                            *)
StrictReads ==
    \A x \in (IF damaged THEN {} ELSE {idx}) \cup {side} :
        Opened(log, x) => x = chain /\ VerifyIndex(log, x)

(* A reader that stays open while nodeos goes on (page cache, lengths      *)
(* compared on every read) reads the chain it was opened on, or nothing.   *)
ReadsOneChain ==
    reader # None /\ reader.read # None =>
        reader.read.pos = reader.chain[reader.read.num - FirstBlock + 1]

(* The backward walk of rebuild_index finds the chain through every fork   *)
(* left in the log, without its index, and refuses a torn tail.            *)
RebuiltIsChain ==
    log # <<>> => RebuildIndex(log) = IF Whole THEN chain ELSE Refused

(* Workers over any chunking process every indexed block exactly once, in  *)
(* its entry on the chain, whatever superseded or torn entries follow it:  *)
(* "A sequential walker must start at `offsets[0]`, stop at the returned   *)
(* end, and skip every entry whose position the index does not hold".      *)
WalksOnce ==
    ~damaged => \A k \in 1 .. MaxBlock :
        LET of(cs, ce) == Walk(log, idx, FirstBlock, cs, ce)
            kept == OverChunks(of, idx, FirstBlock, k)
        IN  /\ SelectSeq(kept, LAMBDA p : p # NoPos) = SubSeq(chain, 1, Len(idx))
            /\ Whole => NoPos \notin Range(kept)

(* A slice opens under the strict reader on exactly the entries it was cut *)
(* from, or is refused; cut where no fork left an entry, it opens, and     *)
(* workers walk it.                                                        *)
SlicesRead ==
    ~damaged /\ writing = None => \A start, end \in FirstBlock .. LastBlock + 1 : start < end =>
        LET s == Slice(log, idx, start, end)
            from == idx[start - FirstBlock + 1]
            clean == Len(s.log) = (end - start) * (ENTRY_OVERHEAD + PAYLOAD)
        IN  /\ Opened(s.log, s.idx) => VerifyIndex(s.log, s.idx) /\ Open(s.log, s.idx).begin = start
            /\ clean => /\ Opened(s.log, s.idx)
                        /\ \A cs \in start .. end - 1 :
                              Walk(s.log, s.idx, start, cs, end - 1) = SubSeq(s.idx, cs - start + 1, end - start)

(* Reads of an opened log (header_at) and the index rebuilt for it         *)
(* (rebuild_index) are of one chain.                                       *)
OneChain == ReadsOneChain /\ RebuiltIsChain

(* A walk (canonical_offsets) meets each canonical block once, and a slice *)
(* (slice-log) reads as the log it was cut from.                           *)
Walked == WalksOnce /\ SlicesRead
=============================================================================
