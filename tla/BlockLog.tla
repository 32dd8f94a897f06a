------------------------------ MODULE BlockLog -------------------------------
(***************************************************************************)
(* A frozen block log with its index (blocklog.rs), and the check of a     *)
(* store that serves it beside state-history logs (check.rs): `check`      *)
(* reads every block and entry and compares every id it meets.             *)
(*                                                                         *)
(* After the preamble a log is a sequence of cells, two for each block:    *)
(* its body with `previous` and the id its header hashes to, and the       *)
(* position trailer.  An id is <<number, tag>>.  Offsets count cells, the  *)
(* preamble being one.                                                     *)
(***************************************************************************)
EXTENDS Integers, Sequences, FiniteSets, SequencesExt

CONSTANTS
    Inputs,     \* the stores checked: [file, idx, ship, hash]
    None, Refused

VARIABLES
    input,      \* the store
    report      \* the errors `check` reported, or None before it ran

vars == <<input, report>>

Init == input \in Inputs /\ report = None

-----------------------------------------------------------------------------
FIRST_POS == 1
BLOCK_CELLS == 2

Size(f) == FIRST_POS + Len(f.cells)
CellAt(f, p) == f.cells[p - FIRST_POS + 1]
IsBody(f, p) == p \in FIRST_POS .. Size(f) - 1 /\ CellAt(f, p).is = "body"
PosAt(f, p) == IF p \in FIRST_POS .. Size(f) - 1 /\ CellAt(f, p).is = "pos" THEN CellAt(f, p).pos ELSE -1

(* A v1 preamble has no first block and no separator. *)
FirstOf(f) == IF f.version = 1 THEN 1 ELSE f.first
PreambleOk(f) ==
    /\ f.version \in 1 .. 3
    /\ FirstOf(f) > 0
    /\ f.version # 1 => f.totem

(* The chain id is the hash of the genesis state, unless a v3 log that     *)
(* starts later stores it.                                                 *)
ChainId(f) == IF f.version < 3 \/ FirstOf(f) = 1 THEN <<"hash of", f.genesis>> ELSE f.genesis

(* BlockLog::open *)
Open(f, idx) ==
    LET lastPos == PosAt(f, Size(f) - 1)
        last == CellAt(f, lastPos).prev[1] + 1
    IN  IF ~PreambleOk(f) THEN Refused
        ELSE IF f.cells = <<>> THEN None
        ELSE IF /\ lastPos >= FIRST_POS /\ lastPos + BLOCK_CELLS <= Size(f) /\ IsBody(f, lastPos)
                /\ last >= FirstOf(f)
                /\ Len(idx) = last - FirstOf(f) + 1
                /\ idx[1] = FIRST_POS /\ idx[Len(idx)] = lastPos
             THEN [first |-> FirstOf(f), last |-> last, size |-> Size(f), chain |-> ChainId(f)]
             ELSE Refused

Opened(f, idx) == Open(f, idx) \notin {None, Refused}

EndSlot(idx, o, n) == IF n < o.last THEN idx[n - o.first + 2] ELSE o.size

(* Mutant: the position trailer is not compared. *)
EntryAnyTrailer(f, idx, o, n) ==
    LET pos == idx[n - o.first + 1]
        end == EndSlot(idx, o, n)
    IN  IF pos >= FIRST_POS /\ pos + BLOCK_CELLS <= end /\ end <= o.size
        THEN <<pos, end - 1>> ELSE Refused

(* entry: the offsets of block n's body, <<from, to>>. *)
Entry(f, idx, o, n) ==
    LET pos == idx[n - o.first + 1]
        end == EndSlot(idx, o, n)
    IN  IF /\ pos >= FIRST_POS /\ pos + BLOCK_CELLS <= end /\ end <= o.size
           /\ PosAt(f, end - 1) = pos
        THEN <<pos, end - 1>> ELSE Refused

CheckLink(n, previous) == previous[1] = n - 1

(* body, previous and header read the entry and check its link. *)
ReadBlock(f, idx, o, n) ==
    LET e == Entry(f, idx, o, n)
    IN  IF e = Refused THEN Refused
        ELSE IF ~IsBody(f, e[1]) \/ ~CheckLink(n, CellAt(f, e[1]).prev) THEN Refused
        ELSE [prev |-> CellAt(f, e[1]).prev, id |-> CellAt(f, e[1]).id,
              cells |-> e[2] - e[1]]

-----------------------------------------------------------------------------
(* check --deep.  A ship log is [range, ids, bad]: its blocks, the id each *)
(* entry's header gives, and the blocks whose entry does not read.         *)
BlockRange == LET o == Open(input.file, input.idx) IN o.first .. o.last
Served == BlockRange \cup UNION {input.ship[k].range : k \in DOMAIN input.ship}

Body(n) == ReadBlock(input.file, input.idx, Open(input.file, input.idx), n)

(* The header is hashed on request, and where no served block names its id. *)
Hashed(n) == input.hash \/ n + 1 \notin BlockRange

(* Mutant: the id of the last block is left to a block that does not come. *)
ViewsWithoutLast(n) ==
    {<<k, input.ship[k].ids[n]>> : k \in {k \in DOMAIN input.ship : n \in input.ship[k].range \ input.ship[k].bad}}
      \cup {<<"hash", Body(n).id>> : m \in {m \in {n} \cap BlockRange : Body(m) # Refused /\ input.hash}}
      \cup {<<"previous", Body(m).prev>> : m \in {m \in {n + 1} \cap BlockRange : Body(m) # Refused}}

(* What each source gives for block n's id: the state-history entries, the *)
(* hash of its header, and `previous` of the block after it.               *)
Views(n) ==
    {<<k, input.ship[k].ids[n]>> : k \in {k \in DOMAIN input.ship : n \in input.ship[k].range \ input.ship[k].bad}}
      \cup {<<"hash", Body(n).id>> : m \in {m \in {n} \cap BlockRange : Body(m) # Refused /\ Hashed(m)}}
      \cup {<<"previous", Body(m).prev>> : m \in {m \in {n + 1} \cap BlockRange : Body(m) # Refused}}

(* agree: one error for each view that differs from the first. *)
Agree(n) == IF \E v, w \in Views(n) : v[2] # w[2] THEN {<<"disagree", n>>} ELSE {}

Unreadable ==
    {<<"block", n>> : n \in {n \in BlockRange : Body(n) = Refused}} \cup
    UNION {{<<k, n>> : n \in input.ship[k].range \cap input.ship[k].bad} : k \in DOMAIN input.ship}

Check ==
    /\ report = None
    /\ report' = IF ~Opened(input.file, input.idx) THEN {<<"open">>}
                 ELSE Unreadable \cup UNION {Agree(n) : n \in Served}
    /\ UNCHANGED input

Next == Check
Spec == Init /\ [][Next]_vars

-----------------------------------------------------------------------------
(* With an index of any content, a block that reads is exactly one block   *)
(* of the log, the n-th: bounds, trailer and link checks of BlockLog leave *)
(* no slot that leads elsewhere.                                           *)
ReadsTheBlock ==
    Opened(input.file, input.idx) =>
        LET o == Open(input.file, input.idx)
        IN  \A n \in o.first .. o.last :
                ReadBlock(input.file, input.idx, o, n) # Refused =>
                    /\ ReadBlock(input.file, input.idx, o, n).cells = 1
                    /\ ReadBlock(input.file, input.idx, o, n).prev[1] = n - 1

(* A store that passes the check reads whole, every source gives a block   *)
(* the id its next block links to, the last block's id is the hash of its  *)
(* header, and with --hash every block's is; and a store of which all of   *)
(* this is true passes.                                                    *)
CheckedStore ==
    report # None /\ report # {<<"open">>} =>
        LET blk(n) == Body(n)
            same(S) == Cardinality(S) <= 1
            idsOf(n) == {input.ship[k].ids[n] : k \in {k \in DOMAIN input.ship : n \in input.ship[k].range}}
                          \cup {blk(n + 1).prev : m \in {n + 1} \cap BlockRange}
                          \cup {blk(n).id : m \in {m \in {n} \cap BlockRange : input.hash \/ m = Open(input.file, input.idx).last}}
        IN  report = {} <=>
                /\ \A n \in BlockRange : blk(n) # Refused
                /\ \A k \in DOMAIN input.ship : input.ship[k].range \cap input.ship[k].bad = {}
                /\ \A n \in Served : same(idsOf(n))
=============================================================================
