---------------------------- MODULE RecoverTail ----------------------------
(***************************************************************************)
(* Recovery of a crash-damaged log tail to a new log and index.            *)
(* log-repair/src/tail.rs.                                                 *)
(*                                                                         *)
(* A log is a sequence of entries; the offset of an entry is its place in  *)
(* the sequence, and Torn stands for bytes that are no whole entry.  An    *)
(* entry has a number, the chain it is on (the chains part at block Fork)  *)
(* and a payload.  Stamps are counted changes; hashes are the contents.    *)
(***************************************************************************)
EXTENDS Integers, Sequences, FiniteSets

CONSTANTS
    MaxBlock, Fork, Payloads,
    RecentBlocks, RecentBytes,      \* RECENT_CANONICAL_*; an entry is one byte
    MaxRestore,                     \* format::MAX_BLOCKS
    Torn, None, Err,
    Inputs,                         \* the damaged logs and what is trusted for each
    Foreign,                        \* bound: what another process writes over an entry
    MaxChanges                      \* bound: changes by another process, and crashes

ASSUME RecoverAssumption ==
    /\ MaxBlock \in Nat \ {0} /\ Fork \in Nat \ {0} /\ MaxChanges \in Nat
    /\ RecentBlocks \in Nat \ {0} /\ RecentBytes \in Nat /\ MaxRestore \in Nat

Chains == {"left", "right"}
Entry == [num : 1 .. MaxBlock, chain : Chains, pay : Payloads]
Ids == (0 .. MaxBlock) \X (Chains \cup {"common"})
Kinds == {"blocks", "ship"}
Modes == {"restore", "salvage"}

(* Bytes that are no entry are told from entries by `ReadAhead::entry`.    *)
(* An index is made of slots.  Donors are SHIP logs and are refused for a  *)
(* blocks.log (run_saving).                                                *)
ASSUME InputsAssumption ==
    /\ {Torn, None, Err} \cap (Entry \cup Ids) = {} /\ None # Err
    /\ Foreign \subseteq Entry \cup {Torn}
    /\ \A i \in Inputs :
          /\ i.log \in Seq(Entry \cup {Torn})
          /\ i.index = None \/ (i.index.slots \in Seq(Nat) /\ i.index.partial \in BOOLEAN)
          /\ i.kind \in Kinds /\ i.blocks \subseteq Entry /\ i.donors \subseteq Entry
          /\ i.kind = "blocks" => i.donors = {}

VARIABLES
    target,     \* [log, index, stamp]: the damaged files; index None when absent
    sources,    \* [kind, blocks, donors]: what is trusted
    run,        \* the recovery under way
    out,        \* what it left on disk
    changes     \* changes by another process, and crashes

vars == <<target, sources, run, out, changes>>

IdOn(chain, n) == IF n < Fork THEN <<n, "common">> ELSE <<n, chain>>
Id(e) == IdOn(e.chain, e.num)
Parent(e) == IdOn(e.chain, e.num - 1)

(* Loaded::block: every source that holds the block must agree. *)
RefBlock(src, n) ==
    LET held == {b \in src.blocks : b.num = n}
    IN  IF held = {} THEN None ELSE IF Cardinality(held) > 1 THEN Err ELSE CHOOSE b \in held : TRUE

HasRefs(src) == src.blocks # {}

(* ship_donor: None, Err on a disagreement, or the donors' entry. *)
ShipDonor(src, n, id) ==
    LET held == {d \in src.donors : d.num = n}
    IN  IF held = {} THEN None
        ELSE IF \E d \in held : Id(d) # id THEN Err
        ELSE IF \E d, e \in held : d.pay # e.pay THEN Err
        ELSE CHOOSE d \in held : TRUE

CheckPrefixDonors(src, e) ==
    LET d == ShipDonor(src, e.num, Id(e))
    IN  src.kind = "ship" => d # Err /\ (d # None => d.pay = e.pay)

---------------------------------------------------------------------------
(* RecentCanonical.  An entry of it is [entry, unmatched].                 *)
(* The oldest are forgotten, up to the first young enough.                 *)
ForgetOld(recent, n) ==
    LET young == {i \in DOMAIN recent : n - recent[i].entry.num < RecentBlocks}
        first == CHOOSE i \in young : \A j \in young : i <= j
    IN  IF young = {} THEN <<>> ELSE SubSeq(recent, first, Len(recent))

Remember(recent, entry, unmatched) ==
    LET young == ForgetOld(recent, entry.num)
        all == Append(young, [entry |-> entry, unmatched |-> unmatched])
    IN  IF RecentBytes = 0 THEN young
        ELSE SubSeq(all, IF Len(all) > RecentBytes THEN Len(all) - RecentBytes + 1 ELSE 1, Len(all))

(* Mutated Duplicate: an entry with the number of a recent one is a copy. *)
DuplicateByNumber(recent, e) ==
    LET same == {i \in DOMAIN recent : recent[i].entry.num = e.num}
    IN  IF same = {} THEN 0 ELSE CHOOSE i \in same : \A j \in same : j <= i

(* The place in `recent` of a byte-identical entry, or 0. *)
Duplicate(recent, e) ==
    LET same == {i \in DOMAIN recent : recent[i].entry.num = e.num}
        last == CHOOSE i \in same : \A j \in same : j <= i
    IN  IF same = {} THEN 0 ELSE IF recent[last].entry = e THEN last ELSE 0

---------------------------------------------------------------------------
(* Framing, size, id and trailer: bytes that fail any of these are no entry. *)
Whole(e) == e # Torn

(* walk.  `kept` are the offsets of the entries accepted.                  *)
WalkStart(first) ==
    [first |-> first, at |-> 1, next |-> first, kept |-> <<>>, orphans |-> 0, compared |-> 0,
     discrepancies |-> 0, previous |-> None, recent |-> <<>>, failed |-> FALSE, error |-> FALSE]

Slot(index, i) == IF index # None /\ i \in DOMAIN index.slots THEN index.slots[i] ELSE None

(* Mutated Accept: an entry whose slot is missing is no discrepancy. *)
AcceptUncounted(w, index, src, e, ref) ==
    LET indexed == Slot(index, e.num - w.first + 1)
        wrong == indexed # None /\ indexed # w.at
    IN  [w EXCEPT !.at = @ + 1, !.next = e.num + 1, !.kept = Append(@, w.at),
                  !.compared = IF ref = None THEN @ ELSE @ + 1,
                  !.discrepancies = IF wrong THEN @ + 1 ELSE @,
                  !.previous = Id(e),
                  !.error = ~CheckPrefixDonors(src, e),
                  !.recent = IF src.kind = "ship" /\ ref # None
                             THEN Remember(@, e, IF wrong THEN indexed ELSE None) ELSE @]

Accept(w, index, src, e, ref) ==
    LET indexed == Slot(index, e.num - w.first + 1)
        wrong == indexed # w.at
    IN  [w EXCEPT !.at = @ + 1, !.next = e.num + 1, !.kept = Append(@, w.at),
                  !.compared = IF ref = None THEN @ ELSE @ + 1,
                  !.discrepancies = IF wrong THEN @ + 1 ELSE @,
                  !.previous = Id(e),
                  !.error = ~CheckPrefixDonors(src, e),
                  !.recent = IF src.kind = "ship" /\ ref # None
                             THEN Remember(@, e, IF wrong THEN indexed ELSE None) ELSE @]

(* A repeat of a recent entry; it may be the copy the index points to. *)
Repeat(w, i) ==
    LET resolves == w.recent[i].unmatched = w.at
    IN  [w EXCEPT !.at = @ + 1, !.orphans = @ + 1,
                  !.discrepancies = IF resolves THEN @ - 1 ELSE @,
                  !.recent = IF resolves THEN [@ EXCEPT ![i].unmatched = None] ELSE @]

(* The id the entry says precedes it. *)
Link(src, e, ref) ==
    IF ref # None THEN Parent(ref) ELSE IF src.kind = "blocks" THEN Parent(e) ELSE None

Step(w, log, index, src) ==
    LET e == log[w.at]
        ref == RefBlock(src, e.num)
        ship == src.kind = "ship"
        stop == [w EXCEPT !.failed = TRUE]
        repeat == IF e.num < w.next THEN Duplicate(w.recent, e) ELSE 0
        link == Link(src, e, ref)
    IN  IF ~Whole(e) THEN stop
        ELSE IF ref = Err THEN [w EXCEPT !.error = TRUE]
        ELSE IF ship /\ ref # None /\ Id(ref) # Id(e) THEN [w EXCEPT !.at = @ + 1, !.orphans = @ + 1]
        ELSE IF ship /\ ref = None /\ HasRefs(src) THEN stop
        ELSE IF ship /\ ref # None /\ repeat # 0 THEN Repeat(w, repeat)
        ELSE IF e.num # w.next THEN stop
        ELSE IF link # None /\ w.previous # None /\ link # w.previous THEN stop
        ELSE IF ~ship /\ ref # None /\ ref # e THEN stop
        ELSE Accept(w, index, src, e, ref)

Slots(index) == IF index = None THEN 0 ELSE Len(index.slots) + (IF index.partial THEN 1 ELSE 0)

(* A walk that has stopped goes no further. *)
Further(w, log, index, src) ==
    IF w.failed \/ w.error THEN w ELSE Step(w, log, index, src)

(* The walk as it is after n rounds of its loop. *)
Rounds(log, index, first, src) ==
    LET after[n \in 0 .. Len(log)] ==
            IF n = 0 THEN WalkStart(first) ELSE Further(after[n - 1], log, index, src)
    IN  after

(* The whole walk, and what the index has beyond the entries. *)
Walk(log, index, first, src) ==
    LET w == Rounds(log, index, first, src)[Len(log)]
        beyond == Slots(index) - Len(w.kept)
    IN  [w EXCEPT !.discrepancies = IF beyond > 0 THEN @ + beyond ELSE @, !.recent = <<>>]

(* start: the preamble of blocks.log, or the first entry's header. *)
First(kind, log) ==
    IF kind = "blocks" THEN 1 ELSE IF log = <<>> THEN Err
    ELSE IF Head(log) = Torn THEN Err ELSE Head(log).num

IndexedHead(w, index) == IF Slots(index) = 0 THEN None ELSE w.first + Slots(index) - 1
LastBlock(w) == IF w.kept = <<>> THEN None ELSE w.next - 1
Kept(w, log) == [i \in DOMAIN w.kept |-> log[w.kept[i]]]
Canonical(w, src) == src.kind = "blocks" \/ (w.compared = Len(w.kept) /\ HasRefs(src))

---------------------------------------------------------------------------
(* restoration, with the checks at the left anchor: Err or the tail.       *)
Restored(w, index, src, through) ==
    LET last == LastBlock(w)
        nums == IF last = None THEN {} ELSE last + 1 .. through
        ref(n) == RefBlock(src, n)
        body(n) == IF src.kind = "blocks" THEN ref(n) ELSE ShipDonor(src, n, Id(ref(n)))
        chained == \A n \in nums : n - 1 \in nums => Parent(ref(n)) = Id(ref(n - 1))
        anchored ==
            nums # {} =>
                /\ Parent(ref(last + 1)) = w.previous
                /\ src.kind = "ship" => Id(ref(last)) = w.previous
        head == IndexedHead(w, index)
    IN  IF last = None \/ through = None THEN Err
        ELSE IF through < last THEN Err
        ELSE IF (head # None /\ through < head) \/ through - last > MaxRestore THEN Err
        ELSE IF \E n \in nums : ref(n) \in {None, Err} THEN Err
        ELSE IF \E n \in nums : body(n) \in {None, Err} THEN Err
        ELSE IF ~chained \/ ~Canonical(w, src) \/ ~anchored THEN Err
        ELSE [i \in 1 .. through - last |-> body(last + i)]

---------------------------------------------------------------------------
NoRun == [phase |-> "none", opts |-> None, pin |-> None, first |-> None, summary |-> None, tail |-> None]
NoOut == [plan |-> FALSE, log |-> None, index |-> None, complete |-> FALSE]
Options == [mode : Modes, through : (1 .. MaxBlock) \cup {None}]

Init ==
    /\ \E i \in Inputs :
         /\ target = [log |-> i.log, index |-> i.index, stamp |-> 0]
         /\ sources = [kind |-> i.kind, blocks |-> i.blocks, donors |-> i.donors]
    /\ run = NoRun /\ out = NoOut /\ changes = 0

Fail == run' = [run EXCEPT !.phase = "failed"]
InputsSame == target.stamp = run.pin

(* The target is pinned, then read once. *)
Inspect(opts) ==
    /\ run.phase = "none"
    /\ LET first == First(sources.kind, target.log)
           w == Walk(target.log, target.index, first, sources)
           last == IF LastBlock(w) = None THEN first ELSE LastBlock(w)
           tail == IF opts.mode = "restore" THEN Restored(w, target.index, sources, opts.through)
                   ELSE IF w.kept # <<>> /\ Canonical(w, sources) THEN <<>> ELSE Err
           begun == [NoRun EXCEPT !.opts = opts, !.pin = target.stamp, !.first = first]
       IN  run' = IF first = Err THEN [begun EXCEPT !.phase = "failed"]
                  ELSE IF w.error \/ (opts.through # None /\ opts.through < last)
                       THEN [begun EXCEPT !.phase = "failed"]
                  ELSE [begun EXCEPT !.phase = "inspected", !.tail = tail,
                                     !.summary = [walk |-> w, log |-> target.log, index |-> target.index]]
    /\ UNCHANGED <<target, sources, out, changes>>

(* Inputs are checked, the mode must be available, the directory new. *)
Plan ==
    /\ run.phase = "inspected"
    /\ IF InputsSame /\ run.tail # Err /\ ~out.plan
       THEN run' = [run EXCEPT !.phase = "planned"] /\ out' = [out EXCEPT !.plan = TRUE]
       ELSE Fail /\ UNCHANGED out
    /\ UNCHANGED <<target, sources, changes>>

(* Mutated Appended: the last entry gets no slot. *)
AppendedUnindexed(entries) ==
    [log |-> entries, index |-> [slots |-> [i \in 1 .. Len(entries) - 1 |-> i], partial |-> FALSE]]

(* Output: each entry written with its offset. *)
Appended(entries) == [log |-> entries, index |-> [slots |-> [i \in DOMAIN entries |-> i], partial |-> FALSE]]

(* Mutated Write: the second reading is not compared with the first. *)
WriteUncompared ==
    /\ run.phase = "planned"
    /\ LET w == Walk(target.log, target.index, run.first, sources)
           made == Appended(Kept(w, target.log) \o run.tail)
       IN  /\ run' = [run EXCEPT !.phase = "written"]
           /\ out' = [out EXCEPT !.log = made.log, !.index = made.index]
    /\ UNCHANGED <<target, sources, changes>>

(* The second reading writes the prefix; it must have read the same.  A    *)
(* log rewritten with other entries at the start is refused by start.      *)
Write ==
    /\ run.phase = "planned"
    /\ LET w == Walk(target.log, target.index, run.first, sources)
           again == [walk |-> w, log |-> target.log, index |-> target.index]
           made == Appended(Kept(w, target.log) \o run.tail)
           readable == First(sources.kind, target.log) = run.first
       IN  IF readable /\ ~w.error /\ again = run.summary
           THEN /\ run' = [run EXCEPT !.phase = "written"]
                /\ out' = [out EXCEPT !.log = made.log, !.index = made.index]
           ELSE Fail /\ UNCHANGED out
    /\ UNCHANGED <<target, sources, changes>>

Desired == IF run.opts.mode = "restore" THEN run.opts.through ELSE LastBlock(run.summary.walk)

(* The inputs are checked, the output read back through the same walk, the *)
(* inputs checked again.                                                   *)
Complete ==
    /\ run.phase = "written"
    /\ LET w == Walk(out.log, out.index, First(sources.kind, out.log), sources)
           good == ~w.error /\ ~w.failed /\ w.discrepancies = 0 /\ LastBlock(w) = Desired
       IN  IF InputsSame /\ good
           THEN run' = [run EXCEPT !.phase = "done"] /\ out' = [out EXCEPT !.complete = TRUE]
           ELSE Fail /\ UNCHANGED out
    /\ UNCHANGED <<target, sources, changes>>

(* Another process changes the log or the index.  Its stamp shows it, or,  *)
(* with a coarse clock and the same size, does not.                        *)
Change ==
    /\ changes < MaxChanges /\ run.phase \in {"inspected", "planned", "written"}
    /\ changes' = changes + 1
    /\ \E i \in DOMAIN target.log, e \in Foreign :
         \E seen \in BOOLEAN :
            /\ e # target.log[i]
            /\ target' = [target EXCEPT !.log[i] = e, !.stamp = IF seen THEN @ + 1 ELSE @]
    /\ UNCHANGED <<sources, run, out>>

(* The process or the machine stops; what was not written out is lost. *)
Crash ==
    /\ changes < MaxChanges /\ run.phase \in {"inspected", "planned", "written"}
    /\ changes' = changes + 1
    /\ run' = [NoRun EXCEPT !.phase = "crashed"]
    /\ UNCHANGED <<target, sources, out>>

(* The operator tries again, with the same directory. *)
Again ==
    /\ run.phase = "crashed" /\ ~out.complete
    /\ run' = NoRun
    /\ UNCHANGED <<target, sources, out, changes>>

Next == (\E opts \in Options : Inspect(opts)) \/ Plan \/ Write \/ Complete \/ Change \/ Crash \/ Again
Spec == Init /\ [][Next]_vars

---------------------------------------------------------------------------
(***************************************************************************)
(* complete.json stands only beside a log that begins with the prefix      *)
(* inspected and reported and is one chain: consecutive blocks through the *)
(* block promised, each following the one before it, agreeing with every   *)
(* trusted block and donor.  So it is whatever changed between the two     *)
(* readings or stopped the process (run_saving, `again == summary`).       *)
(***************************************************************************)
CompleteIsSound ==
    out.complete =>
        /\ LET kept == Kept(run.summary.walk, run.summary.log)
           IN  SubSeq(out.log, 1, Len(kept)) = kept
        /\ out.log # <<>> /\ out.log[Len(out.log)].num = Desired
        /\ \A i \in 2 .. Len(out.log) :
              out.log[i].num = out.log[i - 1].num + 1 /\ Parent(out.log[i]) = Id(out.log[i - 1])
        /\ \A i \in DOMAIN out.log :
            LET e == out.log[i]
                ref == RefBlock(sources, e.num)
            IN  /\ sources.kind = "ship" => ref # None
                /\ ref # None => Id(ref) = Id(e)
                /\ \A d \in sources.donors : d.num = e.num => d.pay = e.pay

(***************************************************************************)
(* Nothing canonical is passed over: an entry of the prefix that is not    *)
(* kept is off the trusted chain or a copy of one that is kept, and the    *)
(* walk ends early only where an entry is not whole, has no evidence, or   *)
(* cannot follow (walk).                                                   *)
(***************************************************************************)
NothingCanonicalDropped ==
    run.phase = "inspected" =>
        LET w == run.summary.walk
            log == run.summary.log
        IN  /\ \A i \in 1 .. w.at - 1 :
                \/ \E k \in DOMAIN w.kept : w.kept[k] = i
                \/ sources.kind = "ship" /\ Id(RefBlock(sources, log[i].num)) # Id(log[i])
                \/ sources.kind = "ship" /\ \E k \in DOMAIN w.kept : log[w.kept[k]] = log[i]
            /\ w.at <= Len(log) => w.failed

(***************************************************************************)
(* The discrepancies reported are the slots that do not lead to a copy of  *)
(* their block, and the slots beyond the prefix; the count never goes      *)
(* below zero when a later copy settles a mismatch (walk, duplicate).      *)
(***************************************************************************)
DiscrepanciesExact ==
    run.phase = "inspected" =>
        LET w == run.summary.walk
            log == run.summary.log
            leads(i) == LET at == Slot(run.summary.index, i)
                        IN  at # None /\ at \in 1 .. w.at - 1 /\ log[at] = log[w.kept[i]]
            wrong == {i \in DOMAIN w.kept : ~leads(i)}
            beyond == Slots(run.summary.index) - Len(w.kept)
        IN  w.discrepancies = Cardinality(wrong) + (IF beyond > 0 THEN beyond ELSE 0)

(***************************************************************************)
(* A recovery that was planned does not fail on its own output: unless the *)
(* target changed or the process stopped, the second reading and the       *)
(* read-back accept what the first reading accepted (run_saving).          *)
(***************************************************************************)
OnlyChangesFail ==
    run.phase = "failed" /\ out.plan => changes > 0

(* A recovery (run_saving) completes only with the whole chain and passes  *)
(* over nothing of it.                                                     *)
RecoversSoundly == CompleteIsSound /\ NothingCanonicalDropped

(* What a recovery reports is exact (walk), and only a target that changed *)
(* fails it (run_saving).                                                  *)
ReportsExact == DiscrepanciesExact /\ OnlyChangesFail
=============================================================================
