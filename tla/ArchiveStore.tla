---------------------------- MODULE ArchiveStore ----------------------------
(***************************************************************************)
(* The store of the archive server: the contiguous catalog the files of    *)
(* one log kind form (core/src/catalog.rs), what is served of the files    *)
(* found, the checks made before anything is served, and the result built  *)
(* for a block (ship-archive/src/store.rs).                                *)
(*                                                                         *)
(* A file holds the blocks begin .. end-1 of one of two chains, which part *)
(* at block Fork: below it their ids are the same.  A read of a block of   *)
(* `bad` fails.  The names of the files, and the indexes paired with them, *)
(* only decide which files there are and in which order.                   *)
(* Payloads matter by the id of the block they belong to.  The chain id,   *)
(* the ABI text and the sizes are left out; Fetch has what a result costs. *)
(***************************************************************************)
EXTENDS Integers, Sequences, FiniteSets, SequencesExt

CONSTANTS
    N,              \* the highest block a file may hold
    Fork,           \* the first block on which the chains differ
    None, Err,
    LogKinds,       \* state-history kinds, in the order their ids are taken
    Found,          \* what may be found: of each kind and of block logs, a
                    \* sequence of files
    Ranges          \* what --range may be: None or a window

ASSUME CatalogAssumption == N \in Nat \ {0} /\ Fork \in Nat \ {0}

VARIABLES
    ship, blocks,   \* the files found
    store,          \* None, Err when refused, or what was opened
    lower,          \* the same for a server of the blocks before
    answer          \* None, Err or the last result built

vars == <<ship, blocks, store, lower, answer>>

---------------------------------------------------------------------------
(* The catalog. *)
Chains == {"left", "right"}
Ids == {"common"} \cup Chains
File == [begin : 0 .. N, end : 0 .. N + 1, chain : Chains, bad : SUBSET (1 .. N)]
Window == {w \in (0 .. N) \X (1 .. N + 1) : w[1] < w[2]}

Empty(f) == f.begin >= f.end
IdOn(chain, n) == IF n < Fork THEN "common" ELSE chain
Id(f, n) == IF n \in f.bad THEN Err ELSE IdOn(f.chain, n)
TailIds(f) == <<Id(f, f.begin), Id(f, f.end - 1)>>

Overlaps(f, window) ==
    window = None \/ (f.begin < window[2] /\ window[1] < f.end)

(* By range; of two files with one range, the one found first comes first. *)
Sorted(files) ==
    LET before(i, j) ==
            \/ files[i].begin < files[j].begin
            \/ /\ files[i].begin = files[j].begin
               /\ \/ files[i].end < files[j].end
                  \/ files[i].end = files[j].end /\ i < j
        order == SetToSortSeq(DOMAIN files, before)
    IN  [i \in DOMAIN order |-> files[order[i]]]

(* Mutated AddFile: two files with one range are copies. *)
AddFileByRange(c, f) ==
    LET p == c.reach
        kept == [c EXCEPT !.files = Append(@, f), !.reach = f]
    IN  IF p = None THEN kept
        ELSE IF p.begin = f.begin /\ p.end = f.end THEN c
        ELSE IF f.begin < p.end THEN [c EXCEPT !.ok = FALSE]
        ELSE [kept EXCEPT !.ok = @ /\ f.begin = p.end]

(* One file more.  `reach` is the file reaching furthest so far. *)
AddFile(c, f) ==
    LET p == c.reach
        same == p.begin = f.begin /\ p.end = f.end
        copy == TailIds(p) = TailIds(f)
        unread == Err \in Range(TailIds(p) \o TailIds(f))
        kept == [c EXCEPT !.files = Append(@, f), !.reach = f]
    IN  IF p = None THEN kept
        ELSE IF same THEN [c EXCEPT !.ok = @ /\ copy /\ ~unread]
        ELSE IF f.begin < p.end
             THEN [c EXCEPT !.ok = FALSE, !.reach = IF f.end > p.end THEN f ELSE p]
        ELSE [kept EXCEPT !.ok = @ /\ f.begin = p.end]

(* The catalog of the files that hold a block of the window: Err when they *)
(* do not form one contiguous range, <<>> when there are none.             *)
Assemble(files, window) ==
    LET kept == SelectSeq(files, LAMBDA f : ~Empty(f) /\ Overlaps(f, window))
        all == FoldLeft(AddFile, [files |-> <<>>, reach |-> None, ok |-> TRUE], Sorted(kept))
    IN  IF all.ok THEN all.files ELSE Err

RangeOf(catalog) == <<Head(catalog).begin, Last(catalog).end>>

(* The last file that starts at or before n, if it reaches n. *)
Get(catalog, n) ==
    LET starts == {i \in DOMAIN catalog : catalog[i].begin <= n}
        f == catalog[Cardinality(starts)]
    IN  IF starts = {} THEN None ELSE IF n < f.end THEN f ELSE None

Seams(catalog) == {catalog[i].begin : i \in 2 .. Len(catalog)}

---------------------------------------------------------------------------
(* The store. *)
Kinds == Range(LogKinds)
Config == [range : Ranges, blocks : BOOLEAN, seams : BOOLEAN]
Nothing == <<0, 0>>

Clip(r, window) ==
    LET b == IF window = None \/ r[1] > window[1] THEN r[1] ELSE window[1]
        e == IF window = None \/ r[2] < window[2] THEN r[2] ELSE window[2]
    IN  IF b < e THEN <<b, e>> ELSE Nothing

InRange(r, n) == r[1] <= n /\ n < r[2]

(* The `previous` field of block n: the id of block n - 1. *)
Previous(f, n) == IF n \in f.bad THEN Err ELSE IdOn(f.chain, n - 1)

---------------------------------------------------------------------------
(* What the served logs know of a block.                                   *)
ShipLog(s, k, n) ==
    IF InRange(s.served[k], n) THEN Get(s.catalog[k], n) ELSE None

BlockLog(s, n) ==
    IF InRange(s.blocks, n) THEN Get(s.blockCatalog, n) ELSE None

ServingKinds(s, n) == SelectSeq(LogKinds, LAMBDA k : ShipLog(s, k, n) # None)

IdWith(s, n) ==
    LET kinds == ServingKinds(s, n)
    IN  IF n = 0 THEN None
        ELSE IF kinds # <<>> THEN Id(ShipLog(s, Head(kinds), n), n)
        ELSE IF BlockLog(s, n + 1) # None THEN Previous(BlockLog(s, n + 1), n + 1)
        ELSE None

PrevId(s, p) ==
    LET id == IdWith(s, p)
        found == {b \in s.below : b.num = p}
    IN  IF id # None THEN id
        ELSE IF found # {} THEN (CHOOSE b \in found : TRUE).id
        ELSE None

Agree(views) == Err \notin Range(views) /\ Cardinality(Range(views)) <= 1

(* The ids the served logs give block n. *)
Views(s, n) ==
    LET kinds == ServingKinds(s, n)
        shipped == [i \in DOMAIN kinds |-> Id(ShipLog(s, kinds[i], n), n)]
        block == IF BlockLog(s, n + 1) # None THEN <<Previous(BlockLog(s, n + 1), n + 1)>>
                 ELSE IF BlockLog(s, n) # None THEN <<Id(BlockLog(s, n), n)>>
                 ELSE <<>>
    IN  shipped \o block

(* Every open file's id for block p, served or not. *)
OutsideViews(s, p) ==
    LET holds(k) == s.catalog[k] # <<>> /\ Get(s.catalog[k], p) # None
        kinds == SelectSeq(LogKinds, holds)
        named(f(_, _), n) ==
            IF s.blockCatalog # <<>> /\ Get(s.blockCatalog, n) # None
            THEN <<f(Get(s.blockCatalog, n), n)>> ELSE <<>>
    IN  [i \in DOMAIN kinds |-> Id(Get(s.catalog[kinds[i]], p), p)]
          \o named(Previous, p + 1) \o named(Id, p)

---------------------------------------------------------------------------
(* Opening.                                                                *)
(* The blocks whose ids are compared: the seams, and the edges of what is  *)
(* served.                                                                 *)
Points(s) ==
    LET inside(catalog, r) == {n \in Seams(catalog) : r[1] < n /\ n < r[2]}
        both(S) == S \cup {n - 1 : n \in S}
        edges(r) == IF r = Nothing THEN {} ELSE {r[1], r[2] - 1}
    IN  UNION {edges(s.served[k]) \cup both(inside(s.catalog[k], s.served[k])) : k \in Kinds}
        \cup both(inside(s.blockCatalog, s.blocks))

VerifySeams(s) ==
    /\ \A n \in Seams(s.blockCatalog) :
        s.blocks[1] < n /\ n < s.blocks[2] =>
            Agree(<<Id(Get(s.blockCatalog, n - 1), n - 1), Previous(Get(s.blockCatalog, n), n)>>)
    /\ \A n \in Points(s) : Agree(Views(s, n))

Begins(s) == {s.served[k][1] : k \in {k \in Kinds : s.served[k] # Nothing}}
Least(S) == CHOOSE n \in S : \A m \in S : n <= m

(* The blocks just below the served ranges that no served state history    *)
(* holds.                                                                  *)
Unserved(s) == {n - 1 : n \in {b \in Begins(s) : b > 1 /\ ServingKinds(s, b - 1) = <<>>}}

(* With seams every file naming such a block must agree; without, the      *)
(* first that can be read gives the id, unless a served block log does.    *)
Below(s, seams, p) ==
    LET views == OutsideViews(s, p)
        readable == SelectSeq(views, LAMBDA id : id # Err)
        first(v) == IF v = <<>> THEN {} ELSE {[num |-> p, id |-> Head(v)]}
    IN  IF seams THEN IF IdWith(s, p) # None THEN {} ELSE first(views)
        ELSE IF BlockLog(s, p + 1) # None THEN {}
        ELSE first(readable)

(* Mutated LinkBelow: what the other files say is not compared. *)
LinkBelowFirst(s, seams) ==
    LET linked == [s EXCEPT !.below = UNION {Below(s, seams, p) : p \in Unserved(s)}]
        num == Least(Begins(s))
        prev == PrevId(linked, num - 1)
    IN  [linked EXCEPT !.first = [num |-> num, prev |-> IF prev = Err THEN None ELSE prev]]

LinkBelow(s, seams) ==
    LET linked == [s EXCEPT !.below = UNION {Below(s, seams, p) : p \in Unserved(s)}]
        num == Least(Begins(s))
        prev == PrevId(linked, num - 1)
    IN  IF seams /\ (prev = Err \/ \E p \in Unserved(s) : ~Agree(OutsideViews(s, p)))
        THEN Err
        ELSE [linked EXCEPT !.first = [num |-> num, prev |-> IF prev = Err THEN None ELSE prev]]

(* A state-history catalog reaches one block below the range, if the files *)
(* there line up.                                                          *)
Catalogue(files, range) ==
    LET below == IF range = None \/ range[1] <= 1 THEN None ELSE <<range[1] - 1, range[2]>>
        wide == Assemble(files, below)
    IN  IF below = None \/ wide = Err THEN Assemble(files, range) ELSE wide

(* Mutated Serve: whether the block logs cover it or not. *)
ServeUncovered(c, cfg, blockRange) ==
    IF c = <<>> THEN Nothing ELSE Clip(RangeOf(c), cfg.range)

(* What is served of a catalog: with --blocks required, only what the block *)
(* logs cover.                                                              *)
Serve(c, cfg, blockRange) ==
    LET r == Clip(RangeOf(c), cfg.range)
    IN  IF c = <<>> THEN Nothing ELSE IF cfg.blocks THEN Clip(r, blockRange) ELSE r

OpenFiles(cfg, shipFiles, blockFiles) ==
    LET catalog == [k \in Kinds |-> Catalogue(shipFiles[k], cfg.range)]
        blockCatalog == IF cfg.blocks THEN Assemble(blockFiles, cfg.range) ELSE <<>>
        broken == blockCatalog = Err \/ (cfg.blocks /\ blockCatalog = <<>>)
                    \/ \E k \in Kinds : catalog[k] = Err
        blockRange == IF blockCatalog = <<>> THEN Nothing
                      ELSE Clip(RangeOf(blockCatalog), cfg.range)
        served == [k \in Kinds |-> Serve(catalog[k], cfg, blockRange)]
        end == CHOOSE e \in {served[k][2] : k \in Kinds} : \A k \in Kinds : served[k][2] <= e
        s == [cfg |-> cfg, catalog |-> catalog, blockCatalog |-> blockCatalog,
              served |-> served, blocks |-> blockRange, below |-> {},
              first |-> None, last |-> [num |-> end - 1, id |-> None]]
        id == IdWith(s, end - 1)
    IN  IF broken THEN Err
        ELSE IF end <= 1 THEN Err
        ELSE IF id \in {Err, None} THEN Err
        ELSE IF cfg.seams /\ ~VerifySeams(s) THEN Err
        ELSE LinkBelow([s EXCEPT !.last.id = id], cfg.seams)

---------------------------------------------------------------------------
(* The result for a job: a block and the fields wanted.                    *)
Job == [n : 1 .. N, fields : SUBSET Kinds, block : BOOLEAN]

(* The first log serving the block gives its id; the others are read when  *)
(* wanted.                                                                 *)
Consulted(s, job) ==
    LET kinds == ServingKinds(s, job.n)
    IN  IF kinds = <<>> THEN {} ELSE {Head(kinds)} \cup (Range(kinds) \cap job.fields)

(* Mutated FollowsAndHashes: only the link to the block before. *)
Follows(f, n, this, prev) ==
    n \notin f.bad /\ (prev # None => Previous(f, n) = prev)

(* block_body: the block must follow prev_block and be this_block. *)
FollowsAndHashes(f, n, this, prev) ==
    n \notin f.bad /\ (prev # None => Previous(f, n) = prev) /\ Id(f, n) = this

Build(s, job) ==
    LET n == job.n
        headers == {Id(ShipLog(s, k, n), n) : k \in Consulted(s, job)}
        this == IdWith(s, n)
        prev == IF n = 0 THEN None ELSE PrevId(s, n - 1)
        log == IF job.block THEN BlockLog(s, n) ELSE None
        fields == job.fields \cap Range(ServingKinds(s, n))
    IN  IF Err \in headers \/ Cardinality(headers) > 1 \/ this = Err THEN Err
        ELSE IF this = None
             THEN [job |-> job, this |-> None, prev |-> None, block |-> None, fields |-> <<>>]
        ELSE IF prev = Err THEN Err
        ELSE IF log # None /\ ~FollowsAndHashes(log, n, this, prev) THEN Err
        ELSE [job |-> job, this |-> this, prev |-> prev,
              block |-> IF log = None THEN None ELSE Id(log, n),
              fields |-> [k \in fields |-> Id(ShipLog(s, k, n), n)]]

---------------------------------------------------------------------------
Init ==
    /\ \E found \in Found : ship = found.ship /\ blocks = found.blocks
    /\ store = None /\ lower = None /\ answer = None

Open ==
    /\ store = None
    /\ \E cfg \in Config : store' = OpenFiles(cfg, ship, blocks)
    /\ UNCHANGED <<ship, blocks, lower, answer>>

(* Another server, with the same options, for the blocks before. *)
OpenBelow ==
    /\ store \notin {None, Err} /\ lower = None /\ answer = None
    /\ store.cfg.seams /\ store.cfg.range # None
    /\ store.cfg.range[1] > 1
    /\ lower' = OpenFiles([store.cfg EXCEPT !.range = <<1, @[1]>>], ship, blocks)
    /\ UNCHANGED <<ship, blocks, store, answer>>

(* Building a result changes nothing, so one request shows what any gives. *)
Request ==
    /\ store \notin {None, Err} /\ lower = None /\ answer = None
    /\ \E job \in Job : answer' = Build(store, job)
    /\ UNCHANGED <<ship, blocks, store, lower>>

Next == Open \/ OpenBelow \/ Request
Spec == Init /\ [][Next]_vars

Opened == store \notin {None, Err}
Answered == answer \notin {None, Err}

---------------------------------------------------------------------------
(***************************************************************************)
(* A catalog is refused exactly when two files that are not copies of each *)
(* other share a block, or a block between two files is in none; otherwise *)
(* every block of its range is found in a file that holds it               *)
(* (catalog.rs, assemble and get).                                         *)
(***************************************************************************)
AssembledExactly ==
    store = None => \A files \in {ship[k] : k \in Kinds} \cup {blocks} : \A w \in Window \cup {None} :
        LET kept == {f \in Range(files) : ~Empty(f) /\ Overlaps(f, w)}
            held == UNION {f.begin .. f.end - 1 : f \in kept}
            copies(f, g) == f.begin = g.begin /\ f.end = g.end /\ TailIds(f) = TailIds(g)
            fits == /\ \A f, g \in kept : f # g /\ f.begin < g.end /\ g.begin < f.end => copies(f, g)
                    /\ \A n, m \in held : n .. m \subseteq held
            c == Assemble(files, w)
        IN  (\A f \in kept : f.bad = {}) =>
                /\ (c # Err) <=> fits
                /\ c # Err => \A n \in 0 .. N : LET f == Get(c, n)
                                                IN  IF n \in held THEN f \in kept /\ n \in f.begin .. f.end - 1
                                                                  ELSE c = <<>> \/ f = None

(***************************************************************************)
(* A block has one id, even when --verify-ids off let logs of two chains   *)
(* in.  What a result carries has the id it names, its block follows the   *)
(* prev_block it names, and that is what the result of the block before    *)
(* gives as this_block, at the seams of the files and wherever one log     *)
(* takes over from another (Store::id_with, prev_id, read, block_body).    *)
(***************************************************************************)
OneIdPerBlock ==
    Answered =>
        /\ answer.block \in {None, answer.this}
        /\ \A k \in DOMAIN answer.fields : answer.fields[k] = answer.this
        /\ answer.block # None /\ answer.prev # None /\ answer.job.n > 1 =>
              Previous(BlockLog(store, answer.job.n), answer.job.n) = answer.prev
        /\ answer.prev # None =>
              LET before == Build(store, [answer.job EXCEPT !.n = @ - 1])
              IN  before # Err /\ before.this # None => before.this = answer.prev

(***************************************************************************)
(* With --blocks required, a block served from state history is never      *)
(* answered without its id and, when asked for, its block; and a block     *)
(* outside the served ranges has no fields (Store::open_files, Served).    *)
(***************************************************************************)
CoverageHonest ==
    Answered =>
        LET n == answer.job.n
            held == {k \in Kinds : InRange(store.served[k], n)}
        IN  /\ held # {} => answer.this # None
            /\ held # {} /\ store.cfg.blocks /\ answer.job.block => answer.block # None
            /\ answer.this # None => DOMAIN answer.fields = held \cap answer.job.fields

(***************************************************************************)
(* Two servers with --verify-ids seams over one set of files, the second   *)
(* starting at the block after the first's last, continue one chain: the   *)
(* second names the block before its first, and names the id the first     *)
(* gave it.  Files of two chains make one of them refuse to start          *)
(* (Store::open_files, link_below).                                        *)
(***************************************************************************)
Stitched ==
    lower \notin {None, Err} =>
        \/ lower.last.num < store.cfg.range[1] - 1 \/ store.first.num > store.cfg.range[1]
        \/ store.first.prev = lower.last.id

(* One store, and two that meet at a block, name one id for each block     *)
(* (Store::open_files, link_below).                                        *)
OneChain == OneIdPerBlock /\ Stitched
=============================================================================
