------------------------------ MODULE LiveSeg ------------------------------
(***************************************************************************)
(* The freshness overlay of the AtomicAssets store: an immutable base      *)
(* segment, and over it the changes of the blocks since the segment was    *)
(* built.  wseg-build/src/aa_live.rs, with the parts of aa_builder.rs that *)
(* compaction uses.                                                        *)
(*                                                                         *)
(* An asset is indexed by owner, template and facet.  Its collection and   *)
(* its schema are fixed when it is minted, as its template is, and their   *)
(* two dimensions behave as "tmpl" does.  A facet key stands for the value *)
(* of the one configured facet field, which the asset's immutable (imm) or *)
(* its mutable (mut) data may hold.                                        *)
(***************************************************************************)
EXTENDS Integers, FiniteSets, Sequences, SequencesExt

CONSTANTS
    MaxId,          \* the largest asset id
    Owners, Tmpls, Facets,
    None, Tomb,
    HeadK,          \* ids of a posting that page reads without decoding it
    Slack           \* candidates that a scroll fetches beyond twice a page

ASSUME LiveSegAssumption ==
    /\ MaxId \in Nat /\ HeadK \in Nat /\ Slack \in Nat
    /\ None \notin Owners \cup Tmpls \cup Facets

Ids == 1 .. MaxId
Dims == {"owner", "tmpl", "facet"}
KeysOf == [owner |-> Owners, tmpl |-> Tmpls, facet |-> Facets]
Facet == Facets \cup {None}

Stored == [owner : Owners, tmpl : Tmpls \cup {None}, imm : Facet, mut : Facet, mint : Nat]
AssetLive == [owner : Owners, tmpl : Tmpls \cup {None}, imm : Facet, mut : Facet, mint : Nat,
              facet : Facet]
Postings == [owner : [Owners -> SUBSET Ids], tmpl : [Tmpls -> SUBSET Ids],
             facet : [Facets -> SUBSET Ids]]

MintD == [op : {"Mint"}, id : Ids, owner : Owners, tmpl : Tmpls \cup {None},
          imm : Facet, mut : Facet, facet : Facet]
TransferD == [op : {"Transfer"}, id : Ids, owner : Owners]
BurnD == [op : {"Burn"}, id : Ids]
SetDataD == [op : {"SetData"}, id : Ids, mut : Facet, facet : Facet]
Delta == MintD \cup TransferD \cup BurnD \cup SetDataD

BaseSeg == [fwd : [Ids -> Stored \cup {None}], post : Postings]
Overlay == [fwd : [Ids -> AssetLive \cup {Tomb, None}], add : Postings, rem : Postings,
            tomb : SUBSET Ids, seq : [Tmpls -> Nat], ids : SUBSET Ids,
            tmpls : SUBSET (Nat \X Ids), hwm : Nat, wal : Seq([block : Nat, delta : Delta])]

NoPostings == [d \in Dims |-> [k \in KeysOf[d] |-> {}]]
EmptyOverlay ==
    [fwd |-> [id \in Ids |-> None], add |-> NoPostings, rem |-> NoPostings, tomb |-> {},
     seq |-> [t \in Tmpls |-> 0], ids |-> {}, tmpls |-> {}, hwm |-> 0, wal |-> <<>>]

---------------------------------------------------------------------------
(* What the base says of an asset.  Its facet is not stored: it is read    *)
(* from the data, the immutable data first.                                *)
FacetKeyOf(imm, mut) == IF imm # None THEN imm ELSE mut

DecodeBaseLive(base, id) ==
    LET a == base.fwd[id]
    IN  IF a = None THEN None
        ELSE [owner |-> a.owner, tmpl |-> a.tmpl, imm |-> a.imm, mut |-> a.mut,
              mint |-> a.mint, facet |-> FacetKeyOf(a.imm, a.mut)]

BaseLen(base, d, k) == Cardinality(base.post[d][k])

(* The key of a live asset in a dimension. *)
LiveKey(a, d) == IF a \in {None, Tomb} THEN None ELSE a[d]

(* The current record of an asset: the overlay's, or else the base's. *)
Current(ov, base, id) ==
    IF ov.fwd[id] # None THEN ov.fwd[id] ELSE DecodeBaseLive(base, id)

---------------------------------------------------------------------------
(* One delta.  `rem` records that a base member left its key, `add` that   *)
(* an asset joined a key whose base posting does not hold it.              *)
Leave(ov, d, k, id, wasBase) ==
    IF wasBase THEN [ov EXCEPT !.rem[d][k] = @ \cup {id}]
               ELSE [ov EXCEPT !.add[d][k] = @ \ {id}]

Join(ov, d, k, id, isBase) ==
    IF isBase THEN [ov EXCEPT !.rem[d][k] = @ \ {id}]
              ELSE [ov EXCEPT !.add[d][k] = @ \cup {id}]

(* An asset moves from one key of a dimension to another. *)
Move(ov, d, from, to, id, baseKey) ==
    LET left == IF from = None THEN ov ELSE Leave(ov, d, from, id, baseKey = from)
    IN  IF to = None THEN left ELSE Join(left, d, to, id, baseKey = to)

(* The ordinal of a mint follows those of the base segment. *)
NextMint(ov, base, t) == BaseLen(base, "tmpl", t) + ov.seq[t] + 1

DoMint(ov, base, m) ==
    LET mint == IF m.tmpl = None THEN 0 ELSE NextMint(ov, base, m.tmpl)
        a == [owner |-> m.owner, tmpl |-> m.tmpl, imm |-> m.imm, mut |-> m.mut,
              mint |-> mint, facet |-> m.facet]
    IN  [ov EXCEPT
            !.fwd[m.id] = a,
            !.seq = [t \in Tmpls |-> IF t = m.tmpl THEN @[t] + 1 ELSE @[t]],
            !.add = [d \in Dims |-> [k \in KeysOf[d] |->
                        IF LiveKey(a, d) = k THEN @[d][k] \cup {m.id} ELSE @[d][k]]],
            !.ids = @ \cup {m.id},
            !.tmpls = IF m.tmpl = None THEN @ ELSE @ \cup {<<mint, m.id>>}]

DoTransfer(ov, base, t) ==
    LET cur == Current(ov, base, t.id)
        moved == Move(ov, "owner", cur.owner, t.owner, t.id,
                      LiveKey(DecodeBaseLive(base, t.id), "owner"))
    IN  IF cur \in {None, Tomb} THEN ov
        ELSE IF cur.owner = t.owner THEN ov
        ELSE [moved EXCEPT !.fwd[t.id] = [cur EXCEPT !.owner = t.owner]]

(* A burn leaves the keys the asset has now, whatever keys it had in the   *)
(* base.                                                                   *)
DoBurn(ov, base, b) ==
    LET cur == Current(ov, base, b.id)
        was == DecodeBaseLive(base, b.id)
        held(d, k) == LiveKey(cur, d) = k
        based(d, k) == LiveKey(was, d) = k
    IN  [ov EXCEPT
            !.rem = [d \in Dims |-> [k \in KeysOf[d] |->
                        IF held(d, k) /\ based(d, k) THEN @[d][k] \cup {b.id} ELSE @[d][k]]],
            !.add = [d \in Dims |-> [k \in KeysOf[d] |->
                        IF held(d, k) /\ ~based(d, k) THEN @[d][k] \ {b.id} ELSE @[d][k]]],
            !.ids = @ \ {b.id},
            !.tmpls = IF cur \in {None, Tomb} THEN @ ELSE @ \ {<<cur.mint, b.id>>},
            !.tomb = @ \cup {b.id},
            !.fwd[b.id] = Tomb]

(* The old facet is the one of the current record. *)
DoSetData(ov, base, s) ==
    LET cur == Current(ov, base, s.id)
        moved == IF cur.facet = s.facet THEN ov
                 ELSE Move(ov, "facet", cur.facet, s.facet, s.id,
                           LiveKey(DecodeBaseLive(base, s.id), "facet"))
    IN  IF cur \in {None, Tomb} THEN ov
        ELSE [moved EXCEPT !.fwd[s.id] = [cur EXCEPT !.mut = s.mut, !.facet = s.facet]]

ApplyResolved(ov, base, block, d) ==
    LET o == [ov EXCEPT !.wal = Append(@, [block |-> block, delta |-> d])]
    IN  CASE d.op = "Mint" -> DoMint(o, base, d)
          [] d.op = "Transfer" -> DoTransfer(o, base, d)
          [] d.op = "Burn" -> DoBurn(o, base, d)
          [] d.op = "SetData" -> DoSetData(o, base, d)

Larger(x, y) == IF x > y THEN x ELSE y

(* Base facts are resolved against the segment the block is committed to.  *)
CommitInto(ov, base, block, deltas) ==
    LET applied == FoldLeft(LAMBDA o, d : ApplyResolved(o, base, block, d), ov, deltas)
    IN  [applied EXCEPT !.hwm = Larger(@, block)]

(* Entries of the log, each applied as a block of its own. *)
Replay(ov, base, entries) ==
    FoldLeft(LAMBDA o, e : CommitInto(o, base, e.block, <<e.delta>>), ov, entries)

(* The entries after a block, about max of them, never part of a block. *)
WalAfter(ov, after, max) ==
    LET rest == SelectSeq(ov.wal, LAMBDA e : e.block > after)
        whole(n) == n = Len(rest) \/ n = 0 \/ rest[n].block # rest[n + 1].block
        n == CHOOSE i \in 0 .. Len(rest) :
                /\ whole(i) /\ (i >= max \/ i = Len(rest))
                /\ \A j \in 0 .. i - 1 : ~(whole(j) /\ j >= max)
    IN  SubSeq(rest, 1, n)

RollbackTo(ov, base, block) ==
    LET kept == SelectSeq(ov.wal, LAMBDA e : e.block <= block)
        again == FoldLeft(LAMBDA o, e : ApplyResolved(o, base, e.block, e.delta),
                          EmptyOverlay, kept)
    IN  [again EXCEPT !.hwm = block]

---------------------------------------------------------------------------
(* The builder: postings of the assets pushed, each with the facet keys it *)
(* was pushed with, and the ordinals ranked afresh within a template.      *)
Finish(assets) ==
    LET rank(id) == Cardinality({i \in Ids : /\ i <= id /\ assets[i] # None
                                             /\ assets[i].tmpl = assets[id].tmpl})
    IN  [fwd |-> [id \in Ids |->
                    IF assets[id] = None THEN None
                    ELSE [owner |-> assets[id].owner, tmpl |-> assets[id].tmpl,
                          imm |-> assets[id].imm, mut |-> assets[id].mut,
                          mint |-> IF assets[id].tmpl = None THEN 0 ELSE rank(id)]],
         post |-> [d \in Dims |-> [k \in KeysOf[d] |-> {id \in Ids : LiveKey(assets[id], d) = k}]]]

(* The facet an asset is folded under: the overlay's own, or else the one  *)
(* its data has.                                                           *)
FoldEmit(a) ==
    IF a \in {None, Tomb} THEN None
    ELSE [a EXCEPT !.facet = IF @ # None THEN @ ELSE FacetKeyOf(a.imm, a.mut)]

(* Mutated CompactWith: an unchanged asset's facet for a changed one. *)
FoldBaseFacets(base, ov) ==
    Finish([id \in Ids |->
              LET a == FoldEmit(Current(ov, base, id))
                  b == DecodeBaseLive(base, id)
              IN  IF a = None \/ b = None THEN a ELSE [a EXCEPT !.facet = b.facet]])

(* Only assets are modelled of what the builder is given. *)
CompactWith(base, ov) ==
    Finish([id \in Ids |-> FoldEmit(Current(ov, base, id))])

---------------------------------------------------------------------------
(* Reads.  A page is a sequence of ids, the newest first.                  *)
NewestFirst(S) ==
    [i \in 1 .. Cardinality(S) |-> CHOOSE x \in S : Cardinality({y \in S : y > x}) = i - 1]
FirstN(s, n) == SubSeq(s, 1, IF n < Len(s) THEN n ELSE Len(s))

Count(ov, base, d, k) ==
    BaseLen(base, d, k) + Cardinality(ov.add[d][k]) - Cardinality(ov.rem[d][k])

Effective(ov, base, d, k) == ((base.post[d][k] \cup ov.add[d][k]) \ ov.rem[d][k]) \ ov.tomb
Materialize(ov, base, d, k, n) == FirstN(NewestFirst(Effective(ov, base, d, k)), n)

(* Mutated IsMember: only a burn takes an asset from a key. *)
AnyUntombed(ov, d, k, id) == ov.fwd[id] # Tomb

(* A candidate the overlay has not touched is a member of its base key. *)
IsMember(ov, d, k, id) == ov.fwd[id] = None \/ LiveKey(ov.fwd[id], d) = k

Page(ov, base, d, k, n) ==
    LET head == ToSet(FirstN(NewestFirst(base.post[d][k]), HeadK))
        cand == ov.add[d][k] \cup head
        out == FirstN(NewestFirst({id \in cand : IsMember(ov, d, k, id)}), n)
        deeper == BaseLen(base, d, k) + Cardinality(ov.add[d][k])
                    > HeadK + Cardinality(ov.rem[d][k])
    IN  IF Len(out) < n /\ deeper THEN Materialize(ov, base, d, k, n) ELSE out

CandidatesBelow(ov, base, d, k, cursor, want) ==
    LET below == FirstN(NewestFirst({id \in base.post[d][k] : id < cursor}), want)
        added == {id \in ov.add[d][k] : id < cursor}
    IN  FirstN(NewestFirst(ToSet(below) \cup added), want)

(* Chunks of candidates, each below the last one of the chunk before. *)
PageAfter(ov, base, d, k, after, n) ==
    LET pull[out \in Seq(Ids), cursor \in Nat] ==
            LET want == (n - Len(out)) * 2 + Slack
                chunk == CandidatesBelow(ov, base, d, k, cursor, want)
                live == SelectSeq(chunk, LAMBDA id : IsMember(ov, d, k, id))
                more == FirstN(out \o live, n)
            IN  IF chunk = <<>> \/ Len(more) >= n \/ Len(chunk) < want THEN more
                ELSE pull[more, Last(chunk)]
    IN  pull[<<>>, IF after = None THEN MaxId + 1 ELSE after]

Browse(ov, base, skip, n) ==
    LET minted == NewestFirst(ov.ids \ ov.tomb)
        old == NewestFirst({id \in Ids : base.fwd[id] # None} \ ov.tomb)
        all == minted \o old
    IN  FirstN(SubSeq(all, skip + 1, Len(all)), n)
=============================================================================
