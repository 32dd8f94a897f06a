----------------------------- MODULE SpringState -----------------------------
(***************************************************************************)
(* The request state of one SHiP session of ship-archive (`SpringState` of *)
(* session.rs) as pure operators: what a request holds, which block the    *)
(* send rule allows, what taking it leaves, and which blocks the credit    *)
(* window covers.  The session, the prefetcher and the contract they both  *)
(* implement are written in terms of these.                                *)
(***************************************************************************)
EXTENDS Integers

CONSTANTS
    MaxU32,          \* the largest value of a u32; a credit wraps past it
    LastBlock,       \* L*, the last block the store serves
    Wants,           \* what a request may ask for: version and fetch flags
    DefaultWant,     \* the version and flags of `BlocksReq::default()`
    NoJob            \* no block result is owed

ASSUME SpringAssumption ==
    /\ MaxU32 \in Nat \ {0}
    /\ LastBlock \in 0..MaxU32
    /\ DefaultWant \in Wants

U32 == 0..MaxU32

(* `BlocksReq` once its positions are folded into its start.  The credit is *)
(* `max_in_flight` and the cursor is `start`, as Spring aliases them.       *)
Request == [start : U32, end : U32, credit : U32, want : Wants]

(* The state before the first get_blocks: `end = 0`, so nothing is owed. *)
DefaultRequest == [start |-> 0, end |-> 0, credit |-> 0, want |-> DefaultWant]

(* One block result a session owes, with the generation (the number of the *)
(* get_blocks request) and the version and flags it was taken under.       *)
Job == [gen : Nat, n : U32, want : Wants]

ASSUME NoJobAssumption == NoJob \notin Job

(* `u32::wrapping_add` of two u32 values. *)
WrappingAdd(a, b) == IF a + b <= MaxU32 THEN a + b ELSE a + b - (MaxU32 + 1)

(* `last.saturating_add(1)` *)
SaturatingSucc(a) == IF a < MaxU32 THEN a + 1 ELSE MaxU32

Lesser(a, b) == IF a <= b THEN a ELSE b

-----------------------------------------------------------------------------
(* The send rule of Spring. *)
Sendable(r) == r.credit > 0 /\ r.start <= LastBlock /\ r.start < r.end

JobOf(r, g) == [gen |-> g, n |-> r.start, want |-> r.want]

(* Mutant: the cursor stays. *)
AdvanceCreditOnly(r) == [r EXCEPT !.credit = @ - 1]

(* Mutant: the credit stays. *)
AdvanceCursorOnly(r) == [r EXCEPT !.start = @ + 1]

(* The request once its next block was taken: a credit spent, the cursor *)
(* advanced.                                                             *)
Advance(r) ==
    [start |-> r.start + 1, end |-> r.end, credit |-> r.credit - 1, want |-> r.want]

(* The request once `n` more messages were acknowledged. *)
Acked(r, n) == [r EXCEPT !.credit = WrappingAdd(@, n)]

(* How many jobs the send rule allows from the cursor if nothing changes. *)
WindowCount(r) ==
    IF Sendable(r)
    THEN Lesser(Lesser(r.end, SaturatingSucc(LastBlock)) - r.start, r.credit)
    ELSE 0
=============================================================================
