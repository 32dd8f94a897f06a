----------------------------- MODULE LiveServer -----------------------------
(***************************************************************************)
(* The daemon that serves a live segment: a writer that commits blocks, a  *)
(* compactor that folds base and overlay into a new base while the writer  *)
(* goes on, and swaps it in.  wseg-build/src/bin/aa_server.rs over         *)
(* LiveSeg; also LiveSeg::rollback_to, which a reorganisation of the chain *)
(* calls for.                                                              *)
(*                                                                         *)
(* `past` is the chain the writer was given: the assets after each block.  *)
(* Readers take no step that changes state; every property speaks of what  *)
(* a reader sees that loads the store now.                                 *)
(***************************************************************************)
EXTENDS LiveSeg

CONSTANTS
    InitAssets,     \* the assets the first segment may be built from
    Mints,          \* what a mint may give an asset: owner, tmpl, imm, mut
    MaxPerBlock, MaxBlocks, MaxCompactions, MaxReorgs,
    DRAIN_BATCH, FINAL_BATCH

ASSUME LiveServerAssumption ==
    /\ {MaxPerBlock, MaxBlocks, MaxCompactions, MaxReorgs, FINAL_BATCH} \subseteq Nat
    /\ DRAIN_BATCH \in Nat /\ DRAIN_BATCH > FINAL_BATCH

VARIABLES
    live,           \* the segment the store points at: its base and overlay
    gen,            \* swaps so far: which segment that is
    writer,         \* the block at hand and the segment it was prepared for
    compactor,      \* the new segment, and the block it is caught up through
    past,           \* the chain after each block, the initial state first
    reorgs

vars == <<live, gen, writer, compactor, past, reorgs>>

---------------------------------------------------------------------------
(* The chain: what a block means, without segments or overlays.            *)
Known == [owner : Owners, tmpl : Tmpls \cup {None}, imm : Facet, facet : Facet]
Chain == [assets : [Ids -> Known \cup {None}], next : Nat]
now == Last(past)

Meaning(a, d) ==
    CASE d.op = "Mint" -> [owner |-> d.owner, tmpl |-> d.tmpl, imm |-> d.imm, facet |-> d.facet]
      [] d.op = "Burn" -> None
      [] d.op = "Transfer" -> IF a = None THEN None ELSE [a EXCEPT !.owner = d.owner]
      [] d.op = "SetData" -> IF a = None THEN None ELSE [a EXCEPT !.facet = d.facet]

After(c, d) ==
    [assets |-> [c.assets EXCEPT ![d.id] = Meaning(@, d)],
     next |-> IF d.op = "Mint" THEN c.next + 1 ELSE c.next]

(* The deltas a chain may see next: a mint takes the next id, the others   *)
(* any id already given.  A SetData has the facet that its data has.       *)
Deltas(c) ==
    LET given == 1 .. c.next - 1
        facetAfter(id, mut) ==
            IF c.assets[id] = None THEN mut ELSE FacetKeyOf(c.assets[id].imm, mut)
    IN  {[op |-> "Mint", id |-> c.next, owner |-> m.owner, tmpl |-> m.tmpl,
          imm |-> m.imm, mut |-> m.mut, facet |-> FacetKeyOf(m.imm, m.mut)] :
            m \in {x \in Mints : c.next \in Ids}}
        \cup {[op |-> "Transfer", id |-> id, owner |-> o] : id \in given, o \in Owners}
        \cup {[op |-> "Burn", id |-> id] : id \in given}
        \cup {[op |-> "SetData", id |-> id, mut |-> f, facet |-> facetAfter(id, f)] :
                id \in given, f \in Facet}

Block(c) ==
    LET pair(d) == {<<d, e>> : e \in Deltas(After(c, d))}
        ones == {<<d>> : d \in Deltas(c)}
    IN  IF MaxPerBlock = 1 THEN ones ELSE ones \cup UNION {pair(d) : d \in Deltas(c)}

---------------------------------------------------------------------------
Segment == [base : BaseSeg, ov : Overlay]
Building == [live : Segment, through : Nat, pc : {"drain", "swap"}]

TypeOK ==
    /\ live \in Segment
    /\ gen \in 0 .. MaxCompactions
    /\ writer = None \/ /\ writer.gen \in 0 .. gen
                        /\ writer.deltas \in Seq(Delta)
    /\ compactor = None \/ compactor \in Building
    /\ past \in Seq(Chain) /\ Len(past) \in 1 .. MaxBlocks + 1
    /\ reorgs \in 0 .. MaxReorgs

Init ==
    \E assets \in InitAssets :
        /\ live = [base |-> Finish(assets), ov |-> EmptyOverlay]
        /\ past = <<[assets |-> [id \in Ids |->
                        IF assets[id] = None THEN None
                        ELSE [owner |-> assets[id].owner, tmpl |-> assets[id].tmpl,
                              imm |-> assets[id].imm, facet |-> assets[id].facet]],
                     next |-> 1 + Cardinality({id \in Ids : assets[id] # None})]>>
        /\ gen = 0 /\ writer = None /\ compactor = None /\ reorgs = 0

(* The writer takes the next block, loads the store and resolves the base  *)
(* facts of the block against the segment it loaded.                       *)
Prepare ==
    /\ writer = None /\ Len(past) <= MaxBlocks
    /\ \E deltas \in Block(now) : writer' = [gen |-> gen, deltas |-> deltas]
    /\ UNCHANGED <<live, gen, compactor, past, reorgs>>

Committed == CommitInto(live.ov, live.base, Len(past), writer.deltas)
Extended == Append(past, FoldLeft(After, now, writer.deltas))

(* Mutated Commit: a block prepared for a segment no longer served goes to *)
(* that segment's overlay.                                                 *)
CommitUnchecked ==
    /\ writer # None
    /\ live' = IF writer.gen = gen THEN [live EXCEPT !.ov = Committed] ELSE live
    /\ past' = Extended /\ writer' = None
    /\ UNCHANGED <<gen, compactor, reorgs>>

(* Under the overlay's write lock, if the store still points there. *)
Commit ==
    /\ writer # None /\ writer.gen = gen
    /\ live' = [live EXCEPT !.ov = Committed]
    /\ past' = Extended /\ writer' = None
    /\ UNCHANGED <<gen, compactor, reorgs>>

(* Swapped since: once more, against the new segment. *)
Retry ==
    /\ writer # None /\ writer.gen # gen
    /\ writer' = [writer EXCEPT !.gen = gen]
    /\ UNCHANGED <<live, gen, compactor, past, reorgs>>

(* The compactor takes a snapshot of the overlay and folds it.  Only the   *)
(* snapshot reads shared state: the base never changes.                    *)
Snapshot ==
    /\ compactor = None /\ gen < MaxCompactions
    /\ compactor' = [live |-> [base |-> CompactWith(live.base, live.ov), ov |-> EmptyOverlay],
                     through |-> live.ov.hwm, pc |-> "drain"]
    /\ UNCHANGED <<live, gen, writer, past, reorgs>>

CaughtUp(entries) ==
    [compactor.live EXCEPT !.ov = Replay(@, compactor.live.base, entries)]

(* One round of catching up, on whole blocks. *)
Drain ==
    LET residual == WalAfter(live.ov, compactor.through, DRAIN_BATCH)
    IN  /\ compactor # None /\ compactor.pc = "drain"
        /\ compactor' = IF Len(residual) <= FINAL_BATCH
                        THEN [compactor EXCEPT !.pc = "swap"]
                        ELSE [compactor EXCEPT !.live = CaughtUp(residual),
                                               !.through = Last(residual).block]
        /\ UNCHANGED <<live, gen, writer, past, reorgs>>

(* Mutated Swap: the compactor forgets that it is done. *)
SwapAgain ==
    /\ compactor # None /\ compactor.pc = "swap"
    /\ live' = CaughtUp(WalAfter(live.ov, compactor.through, Len(live.ov.wal)))
    /\ gen' = gen + 1
    /\ UNCHANGED <<writer, compactor, past, reorgs>>

(* The rest of the log and the swap, under the old overlay's write lock. *)
Swap ==
    /\ compactor # None /\ compactor.pc = "swap"
    /\ live' = CaughtUp(WalAfter(live.ov, compactor.through, Len(live.ov.wal)))
    /\ gen' = gen + 1 /\ compactor' = None
    /\ UNCHANGED <<writer, past, reorgs>>

(* The blocks the overlay still has, not yet folded into the base. *)
Unfolded == {live.ov.wal[i].block : i \in DOMAIN live.ov.wal}

(* The chain drops its blocks after `block`, none of them folded: what is  *)
(* folded is taken to be irreversible.                                     *)
Rollback ==
    \E block \in 0 .. Len(past) - 2 :
        /\ block + 1 .. Len(past) - 1 \subseteq Unfolded
        /\ reorgs < MaxReorgs /\ writer = None /\ compactor = None
        /\ live' = [live EXCEPT !.ov = RollbackTo(@, live.base, block)]
        /\ past' = SubSeq(past, 1, block + 1)
        /\ reorgs' = reorgs + 1
        /\ UNCHANGED <<gen, writer, compactor>>

Next == Prepare \/ Commit \/ Retry \/ Snapshot \/ Drain \/ Swap \/ Rollback
Spec == Init /\ [][Next]_vars

---------------------------------------------------------------------------
Served(id) == Current(live.ov, live.base, id)
Members(d, k) == {id \in Ids : LiveKey(now.assets[id], d) = k}
Alive == {id \in Ids : now.assets[id] # None}

(***************************************************************************)
(* A point read answers what the chain holds after the last block          *)
(* committed: through any number of folds, catch-ups and swaps no block is *)
(* lost, and none is applied twice (aa_server.rs, apply_swap_safe and      *)
(* compact_and_swap; LiveSeg::point_owner and exists).  Ordinals sort the  *)
(* assets of a template by id, and the presorted pairs of the overlay are  *)
(* those of its live mints (LiveSeg::do_mint, do_burn).                    *)
(***************************************************************************)
ServedIsChain ==
    /\ TypeOK
    /\ \A id \in Ids :
        /\ (Served(id) \in {None, Tomb}) <=> (now.assets[id] = None)
        /\ \A d \in Dims : LiveKey(Served(id), d) = LiveKey(now.assets[id], d)
    /\ \A a, b \in Alive :
        now.assets[a].tmpl = now.assets[b].tmpl /\ now.assets[a].tmpl # None /\ a < b
            => Served(a).mint < Served(b).mint
    /\ live.ov.tmpls = {<<Served(id).mint, id>> :
                          id \in {i \in live.ov.ids : now.assets[i].tmpl # None}}

(***************************************************************************)
(* (base + add) - rem - tomb is exactly the membership of every key, and   *)
(* the count kept from the sizes of the three sets is its size             *)
(* (LiveSeg::materialize, count).                                          *)
(***************************************************************************)
Exact ==
    \A d \in Dims : \A k \in KeysOf[d] :
        /\ Effective(live.ov, live.base, d, k) = Members(d, k)
        /\ Count(live.ov, live.base, d, k) = Cardinality(Members(d, k))

(***************************************************************************)
(* Scrolling by cursor meets every live member once, the newest first,     *)
(* wherever the cursor stands, and browsing lists every live asset         *)
(* (LiveSeg::page_after, browse).  No page holds an id that is not a       *)
(* member (LiveSeg::page).                                                 *)
(***************************************************************************)
ReadsAgree ==
    /\ \A d \in Dims : \A k \in KeysOf[d], n \in 1 .. 2 :
        /\ \A after \in Ids \cup {None} :
            PageAfter(live.ov, live.base, d, k, after, n)
              = FirstN(NewestFirst({id \in Members(d, k) : after = None \/ id < after}), n)
        /\ ToSet(Page(live.ov, live.base, d, k, n)) \subseteq Members(d, k)
    /\ \A skip \in 0 .. 2, n \in 1 .. 2 :
        Browse(live.ov, live.base, skip, n)
          = FirstN(SubSeq(NewestFirst(Alive), skip + 1, Cardinality(Alive)), n)

(***************************************************************************)
(* The first page of a key is full when the key has members enough         *)
(* (LiveSeg::page).                                                        *)
(***************************************************************************)
PageIsFull ==
    \A d \in Dims : \A k \in KeysOf[d], n \in 1 .. HeadK :
        Page(live.ov, live.base, d, k, n) = FirstN(NewestFirst(Members(d, k)), n)
=============================================================================
