---------------------------- MODULE ResultStream -----------------------------
(***************************************************************************)
(* What one SHiP session of ship-archive promises its client about block   *)
(* results: the rules "get_blocks" of CONTRACT.md, as session.rs states    *)
(* them in its header.  A request replaces the current one; a block result *)
(* is owed when the send rule allows it; the one result owed is written    *)
(* before the next is taken.                                               *)
(*                                                                         *)
(* This is the abstract specification.  ShipSession (the reader and the    *)
(* writer over one connection) and Fetch (results built ahead by several   *)
(* sessions over shared io threads and memory) both implement it.          *)
(***************************************************************************)
EXTENDS SpringState, Sequences

VARIABLES
    alive,       \* the connection is open
    req,         \* the current request: cursor, end, credit, flags
    generation,  \* the number of get_blocks requests applied
    owed,        \* the job taken and not yet written, or NoJob
    wire,        \* observer: the results written, in order
    asked,       \* observer: the requests applied, with the credit granted
    stale        \* observer: results of an older request written since the
                 \* current one was applied

vars == <<alive, req, generation, owed, wire, asked, stale>>

(* A request as applied, and all the credit its client gave it. *)
Asked == [start : U32, end : U32, want : Wants, granted : Nat]

AskedOf(r) ==
    [start |-> r.start, end |-> r.end, want |-> r.want, granted |-> r.credit]

Fresh ==
    /\ req = DefaultRequest
    /\ generation = 0
    /\ owed = NoJob
    /\ wire = <<>>
    /\ asked = <<>>
    /\ stale = 0

Init == alive = FALSE /\ Fresh

TypeOK ==
    /\ alive \in BOOLEAN
    /\ req \in Request
    /\ generation \in Nat
    /\ owed \in Job \cup {NoJob}
    /\ wire \in Seq(Job)
    /\ asked \in Seq(Asked)
    /\ stale \in Nat

-----------------------------------------------------------------------------
(* A client connects: the session starts from the default request. *)
Connect ==
    /\ ~alive
    /\ alive' = TRUE
    /\ req' = DefaultRequest
    /\ generation' = 0
    /\ owed' = NoJob
    /\ wire' = <<>>
    /\ asked' = <<>>
    /\ stale' = 0

(* get_blocks: the request is replaced, credit and cursor included. *)
Blocks(r) ==
    /\ alive
    /\ req' = r
    /\ generation' = generation + 1
    /\ asked' = Append(asked, AskedOf(r))
    /\ stale' = 0
    /\ UNCHANGED <<alive, owed, wire>>

(* get_blocks_ack: the credit grows, wrapping as a u32 does.  Before the *)
(* first request the credit is the default request's.                    *)
Ack(n) ==
    /\ alive
    /\ req' = Acked(req, n)
    /\ asked' = IF generation > 0
                THEN [asked EXCEPT ![generation].granted = @ + n]
                ELSE asked
    /\ UNCHANGED <<alive, generation, owed, wire, stale>>

(* The send rule: the next block of the request becomes owed. *)
Take ==
    /\ alive
    /\ owed = NoJob
    /\ Sendable(req)
    /\ owed' = JobOf(req, generation)
    /\ req' = Advance(req)
    /\ UNCHANGED <<alive, generation, wire, asked, stale>>

(* The owed result is on the wire, whole. *)
Send ==
    /\ alive
    /\ owed # NoJob
    /\ wire' = Append(wire, owed)
    /\ stale' = IF owed.gen < generation THEN stale + 1 ELSE stale
    /\ owed' = NoJob
    /\ UNCHANGED <<alive, req, generation, asked>>

(* The connection ends, for any reason, at any time. *)
End ==
    /\ alive
    /\ alive' = FALSE
    /\ UNCHANGED <<req, generation, owed, wire, asked, stale>>

Next ==
    \/ Connect
    \/ \E r \in Request : Blocks(r)
    \/ \E n \in U32 : Ack(n)
    \/ Take
    \/ Send
    \/ End

Spec == Init /\ [][Next]_vars

-----------------------------------------------------------------------------
(* Every result on the wire answers a request of this connection: it has   *)
(* that request's version and flags, and its block lies in that request's  *)
(* range and not above L*.  (Job::generation and its use in fetch.rs exist *)
(* for this: a package built for an older request must never be sent.)     *)
AnswersItsRequest ==
    \A i \in 1..Len(wire) :
        /\ wire[i].gen \in 1..Len(asked)
        /\ wire[i].want = asked[wire[i].gen].want
        /\ asked[wire[i].gen].start <= wire[i].n
        /\ wire[i].n < asked[wire[i].gen].end
        /\ wire[i].n <= LastBlock

(* "Skip a block, or move the cursor back, without a request" is what the  *)
(* server must not do (CONTRACT.md): the results of one request are its    *)
(* start and then consecutive blocks, and once a result of a later request *)
(* is written no older one follows.                                        *)
NoSkipNoRepeat ==
    \A i \in 1..Len(wire) :
        \/ /\ i > 1
           /\ wire[i].gen = wire[i - 1].gen
           /\ wire[i].n = wire[i - 1].n + 1
        \/ /\ i > 1 => wire[i - 1].gen < wire[i].gen
           /\ wire[i].n = asked[wire[i].gen].start

(* "Send a result while the credit is 0" is the other: the k-th result of  *)
(* a request needs k credits, from the request itself and from the acks    *)
(* that followed it, even though the u32 credit wraps.                     *)
WithinCredit ==
    \A i \in 1..Len(wire) :
        wire[i].n - asked[wire[i].gen].start < asked[wire[i].gen].granted

(* Once a new request is applied, at most one result of an older request   *)
(* still arrives: the one the writer had already taken.                    *)
AtMostOneStale == stale <= 1

-----------------------------------------------------------------------------
(* The cursor and the credit left, against what was asked and granted. *)
CursorInv ==
    generation > 0 =>
        /\ req.end = asked[generation].end
        /\ req.want = asked[generation].want
        /\ asked[generation].start <= req.start
        /\ req.start - asked[generation].start + req.credit <= asked[generation].granted

(* The newest job taken, written or not. *)
Newest ==
    IF owed = NoJob /\ Len(wire) > 0 THEN wire[Len(wire)] ELSE owed

(* The cursor follows the newest job of its own request, and is the start  *)
(* of a request none of whose jobs was taken.                              *)
FollowInv ==
    \/ /\ Newest # NoJob
       /\ Newest.gen = generation
       /\ req.start = Newest.n + 1
    \/ /\ Newest # NoJob => Newest.gen < generation
       /\ generation > 0 => req.start = asked[generation].start

(* The owed job would extend the wire as the safety properties demand. *)
OwedInv ==
    owed # NoJob =>
        /\ owed.gen \in 1..Len(asked)
        /\ owed.want = asked[owed.gen].want
        /\ asked[owed.gen].start <= owed.n
        /\ owed.n < asked[owed.gen].end
        /\ owed.n <= LastBlock
        /\ owed.n - asked[owed.gen].start < asked[owed.gen].granted
        /\ \/ /\ Len(wire) > 0
              /\ owed.gen = wire[Len(wire)].gen
              /\ owed.n = wire[Len(wire)].n + 1
           \/ /\ Len(wire) > 0 => wire[Len(wire)].gen < owed.gen
              /\ owed.n = asked[owed.gen].start

(* A result of an older request is written after the current one was       *)
(* applied only if it was owed when that happened.                         *)
StaleInv ==
    /\ stale > 0 => (owed = NoJob \/ owed.gen = generation)
    /\ stale <= 1

(* The inductive invariant. *)
IInv ==
    /\ TypeOK
    /\ generation = Len(asked)
    /\ generation = 0 => req.end = 0
    /\ CursorInv
    /\ FollowInv
    /\ OwedInv
    /\ StaleInv
    /\ AnswersItsRequest
    /\ NoSkipNoRepeat
    /\ WithinCredit
=============================================================================
