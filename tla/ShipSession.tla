----------------------------- MODULE ShipSession -----------------------------
(***************************************************************************)
(* One SHiP session of ship-archive (session.rs): `read_loop` and          *)
(* `write_loop` over one connection, from the ABI message to the end.  The *)
(* two loops are branches of one `select!`, so they interleave only where  *)
(* one of them awaits: each action is what a loop does between two awaits. *)
(*                                                                         *)
(* How a package is built (io threads, prefetching, memory) is Fetch's; it *)
(* is one step here, as is what follows the first frame of a result.  The  *)
(* id lookups of have_positions are reduced to whether this server names   *)
(* the same id for the position.                                           *)
(***************************************************************************)
EXTENDS SpringState, Sequences, FiniteSetsExt

CONSTANTS
    Asks,             \* get_blocks messages: a request and its have_positions
    Acks,             \* num_messages of an acknowledgement
    Versions,         \* of a status request: v0, v1
    MaxQueuedStatus,  \* MAX_QUEUED_STATUS
    MaxMsgs           \* bound: client messages per connection

Position == [num : U32, same : BOOLEAN]

ASSUME SessionAssumption ==
    /\ Asks \subseteq [req : Request, have : Seq(Position)]
    /\ Acks \subseteq U32
    /\ MaxQueuedStatus \in Nat
    /\ MaxMsgs \in Nat

VARIABLES
    end,         \* End: why the session ended; "open" while it has not
    req, generation, statusQ,   \* SpringState
    wake,        \* the permit stored in Shared::wake
    reading,     \* the get_blocks message whose positions are read, or NoJob
    closing,     \* read_loop saw the client's Close
    writer,      \* where write_loop is
    statuses,    \* the status requests write_loop took and has not answered
    job,         \* the job write_loop took and has not written, or NoJob
    stop,        \* the server's shutdown signal
    out,         \* the messages written, the last one perhaps not whole
    wire,        \* the results among them, once whole
    answered,    \* the status answers among them
    msgs,        \* client messages received
    asked,       \* observer: the get_blocks requests applied
    stale,       \* observer: see ResultStream
    polled,      \* observer: the status requests, and the results written then
    stoppedAt    \* observer: the results written when the server was stopped

reader == <<reading, closing>>
state == <<req, generation, statusQ>>
observers == <<asked, polled, stoppedAt>>
sent == <<out, wire, answered>>
vars == <<end, state, wake, reader, writer, statuses, job, stop, sent, msgs, stale,
          observers>>

Msg == [kind : {"abi", "status", "result", "close"}, whole : BOOLEAN]
Message(kind) == [kind |-> kind, whole |-> TRUE]

Init ==
    /\ end = "open"
    /\ req = DefaultRequest
    /\ generation = 0
    /\ statusQ = <<>>
    /\ wake = FALSE
    /\ reading = NoJob
    /\ closing = FALSE
    /\ writer = "abi"
    /\ statuses = <<>>
    /\ job = NoJob
    /\ stop = FALSE
    /\ out = <<>> /\ wire = <<>> /\ answered = <<>>
    /\ msgs = 0
    /\ asked = <<>>
    /\ stale = 0
    /\ polled = <<>>
    /\ stoppedAt = 0

TypeOK ==
    /\ end \in {"open", "NotOpened", "ClientClosed", "Disconnected", "ReadFailed",
                "BadRequest", "StatusFlood", "SendFailed", "DataError", "Shutdown"}
    /\ req \in Request
    /\ generation \in Nat
    /\ statusQ \in Seq(Versions) /\ Len(statusQ) <= MaxQueuedStatus
    /\ wake \in BOOLEAN
    /\ reading \in Asks \cup {NoJob}
    /\ closing \in BOOLEAN
    /\ writer \in {"abi", "loop", "idle", "statuses", "build", "send", "close", "done"}
    /\ statuses \in Seq(Versions)
    /\ job \in Job \cup {NoJob}
    /\ stop \in BOOLEAN
    /\ out \in Seq(Msg)
    /\ wire \in Seq(Job)
    /\ answered \in Seq(Versions)
    /\ msgs \in 0..MaxMsgs

-----------------------------------------------------------------------------
(* `run` returns: both loops are dropped where they stand. *)
EndWith(why) ==
    /\ end' = why
    /\ UNCHANGED <<state, wake, reader, writer, statuses, job, stop, sent, msgs, stale,
                   observers>>

(* read_loop ends.  While `run` waits for the reply to its own Close the   *)
(* session has already ended as Shutdown.                                  *)
ReaderEnd(why) == IF writer = "done" THEN "Shutdown" ELSE why

(* The ABI message comes first; both loops start once it is written. *)
SendAbi ==
    /\ end = "open" /\ writer = "abi"
    /\ out' = <<Message("abi")>>
    /\ writer' = "loop"
    /\ UNCHANGED <<end, state, wake, reader, statuses, job, stop, wire, answered, msgs, stale,
                   observers>>

-----------------------------------------------------------------------------
(* read_loop                                                               *)

Reads ==
    /\ end = "open" /\ writer # "abi"
    /\ reading = NoJob /\ ~closing

(* The next message of the connection arrives at `rx.next()`. *)
Receive ==
    /\ Reads
    /\ msgs < MaxMsgs
    /\ msgs' = msgs + 1

(* Mutant: one request more than the queue holds. *)
RecvStatusOneMore(v) ==
    /\ Receive
    /\ IF Len(statusQ) > MaxQueuedStatus
       THEN /\ end' = ReaderEnd("StatusFlood")
            /\ UNCHANGED <<statusQ, wake, polled>>
       ELSE /\ statusQ' = Append(statusQ, v)
            /\ wake' = TRUE
            /\ polled' = Append(polled, [version |-> v, at |-> Len(wire)])
            /\ UNCHANGED end
    /\ UNCHANGED <<req, generation, reader, writer, statuses, job, stop, sent, stale, asked,
                   stoppedAt>>

RecvStatus(v) ==
    /\ Receive
    /\ IF Len(statusQ) >= MaxQueuedStatus
       THEN /\ end' = ReaderEnd("StatusFlood")
            /\ UNCHANGED <<statusQ, wake, polled>>
       ELSE /\ statusQ' = Append(statusQ, v)
            /\ wake' = TRUE
            /\ polled' = Append(polled, [version |-> v, at |-> Len(wire)])
            /\ UNCHANGED end
    /\ UNCHANGED <<req, generation, reader, writer, statuses, job, stop, sent, stale, asked,
                   stoppedAt>>

(* Mutant: the credit left over is kept. *)
ApplyKeepsCredit(ask, start) ==
    /\ req' = [ask.req EXCEPT !.start = start, !.credit = WrappingAdd(@, req.credit)]
    /\ generation' = generation + 1
    /\ wake' = TRUE
    /\ stale' = 0
    /\ asked' = Append(asked, [ask |-> ask, start |-> start, granted |-> ask.req.credit])

(* `SpringState::blocks`, then the wake-up. *)
Apply(ask, start) ==
    /\ req' = [ask.req EXCEPT !.start = start]
    /\ generation' = generation + 1
    /\ wake' = TRUE
    /\ stale' = 0
    /\ asked' = Append(asked, [ask |-> ask, start |-> start, granted |-> ask.req.credit])

(* A position is looked up only when it is below the start so far. *)
ReadsIds(ask) == \E i \in DOMAIN ask.have : ask.have[i].num < ask.req.start

(* Mutant: a later position moves the start up again. *)
StartsByLastUnknown(start, have) ==
    [i \in 0..Len(have) |->
        LET unknown == {j \in 1..i : have[j].num < start /\ ~have[j].same}
        IN  IF unknown = {} THEN start ELSE have[Max(unknown)].num]

(* The start after each position: one below the start so far that this     *)
(* server does not name the same way moves the start back to it.           *)
Starts(start, have) ==
    LET after[i \in 0..Len(have)] ==
            IF i = 0 THEN start
            ELSE IF have[i].num < after[i - 1] /\ ~have[i].same THEN have[i].num
            ELSE after[i - 1]
    IN  after

ApplyPositions(start, have) == Starts(start, have)[Len(have)]

RecvBlocks(ask) ==
    /\ Receive
    /\ IF ReadsIds(ask)
       THEN /\ reading' = ask
            /\ UNCHANGED <<req, generation, wake, stale, asked>>
       ELSE /\ Apply(ask, ask.req.start)
            /\ UNCHANGED reading
    /\ UNCHANGED <<end, statusQ, closing, writer, statuses, job, stop, sent, polled, stoppedAt>>

(* The ids were read on an io thread: the request is applied only now. *)
PositionsRead ==
    /\ end = "open" /\ reading # NoJob
    /\ Apply(reading, ApplyPositions(reading.req.start, reading.have))
    /\ reading' = NoJob
    /\ UNCHANGED <<end, statusQ, closing, writer, statuses, job, stop, sent, msgs, polled,
                   stoppedAt>>

PositionsFail ==
    /\ end = "open" /\ reading # NoJob
    /\ EndWith(ReaderEnd("DataError"))

(* Mutant: an acknowledgement does not wake the writer. *)
RecvAckSilently(n) ==
    /\ Receive
    /\ req' = Acked(req, n)
    /\ asked' = IF generation > 0
                THEN [asked EXCEPT ![generation].granted = @ + n]
                ELSE asked
    /\ UNCHANGED <<end, generation, statusQ, wake, reader, writer, statuses, job, stop, sent,
                   stale, polled, stoppedAt>>

RecvAck(n) ==
    /\ Receive
    /\ req' = Acked(req, n)
    /\ wake' = TRUE
    /\ asked' = IF generation > 0
                THEN [asked EXCEPT ![generation].granted = @ + n]
                ELSE asked
    /\ UNCHANGED <<end, generation, statusQ, reader, writer, statuses, job, stop, sent, stale,
                   polled, stoppedAt>>

(* The client's Close: reading on sends the reply and ends the stream. *)
RecvClose ==
    /\ Receive
    /\ closing' = TRUE
    /\ UNCHANGED <<end, state, wake, reading, writer, statuses, job, stop, sent, stale,
                   observers>>

CloseReplied ==
    /\ end = "open" /\ closing
    /\ \E why \in {"ClientClosed", "ReadFailed"} : EndWith(ReaderEnd(why))

(* A request that does not decode, a read error or the end of the stream. *)
ReadEnds ==
    /\ Reads
    /\ \E why \in {"BadRequest", "ReadFailed", "Disconnected"} : EndWith(ReaderEnd(why))

-----------------------------------------------------------------------------
(* write_loop                                                              *)

(* Mutant: status requests are looked at only when no block is sendable. *)
WriteLoopBlocksFirst ==
    /\ end = "open" /\ writer = "loop"
    /\ IF stop
       THEN /\ writer' = "close"
            /\ UNCHANGED <<req, statusQ, statuses, job>>
       ELSE IF Sendable(req)
       THEN /\ job' = JobOf(req, generation)
            /\ req' = Advance(req)
            /\ writer' = "build"
            /\ UNCHANGED <<statuses, statusQ>>
       ELSE /\ statuses' = statusQ
            /\ statusQ' = <<>>
            /\ writer' = IF statusQ # <<>> THEN "statuses" ELSE "idle"
            /\ UNCHANGED <<job, req>>
    /\ UNCHANGED <<end, generation, wake, reader, stop, sent, msgs, stale, observers>>

(* An iteration up to its first await: the shutdown signal is looked at    *)
(* first, then everything there is to do is taken under the lock.          *)
WriteLoop ==
    /\ end = "open" /\ writer = "loop"
    /\ IF stop
       THEN /\ writer' = "close"
            /\ UNCHANGED <<req, statusQ, statuses, job>>
       ELSE /\ statuses' = statusQ
            /\ statusQ' = <<>>
            /\ IF Sendable(req)
               THEN /\ job' = JobOf(req, generation)
                    /\ req' = Advance(req)
               ELSE UNCHANGED <<job, req>>
            /\ writer' = IF statusQ # <<>> THEN "statuses"
                         ELSE IF Sendable(req) THEN "build" ELSE "idle"
    /\ UNCHANGED <<end, generation, wake, reader, stop, sent, msgs, stale, observers>>

(* Mutant: the idle writer waits for the client only. *)
IdleIgnoresStop ==
    /\ end = "open" /\ writer = "idle"
    /\ wake /\ wake' = FALSE /\ writer' = "loop"
    /\ UNCHANGED <<end, state, reader, statuses, job, stop, sent, msgs, stale, observers>>

(* `select!` of the wake-up and the shutdown signal. *)
Idle ==
    /\ end = "open" /\ writer = "idle"
    /\ \/ wake /\ wake' = FALSE /\ writer' = "loop"
       \/ stop /\ writer' = "close" /\ UNCHANGED wake
    /\ UNCHANGED <<end, state, reader, statuses, job, stop, sent, msgs, stale, observers>>

(* Once the client's Close was read the WebSocket refuses data messages. *)
Writes == end = "open" /\ ~closing

WriteStatus ==
    /\ Writes /\ writer = "statuses"
    /\ out' = Append(out, Message("status"))
    /\ answered' = Append(answered, Head(statuses))
    /\ statuses' = Tail(statuses)
    /\ writer' = IF Len(statuses) > 1 THEN writer
                 ELSE IF job # NoJob THEN "build" ELSE "loop"
    /\ UNCHANGED <<end, state, wake, reader, job, stop, wire, msgs, stale, observers>>

(* Mutant: the package is waited for as the client is. *)
BuildWaitsForWake ==
    /\ end = "open" /\ writer = "build" /\ (wake \/ stop)
    /\ wake' = FALSE
    /\ writer' = "send"
    /\ UNCHANGED <<end, state, reader, statuses, job, stop, sent, msgs, stale, observers>>

(* `prefetch.take`: the package is read and checked before its first frame. *)
Build ==
    /\ end = "open" /\ writer = "build"
    /\ \/ /\ writer' = "send"
          /\ UNCHANGED end
       \/ /\ end' = "DataError"
          /\ UNCHANGED writer
    /\ UNCHANGED <<state, wake, reader, statuses, job, stop, sent, msgs, stale, observers>>

FirstFrame ==
    /\ Writes /\ writer = "send"
    /\ out[Len(out)].kind = "result" => out[Len(out)].whole
    /\ out' = Append(out, [kind |-> "result", whole |-> FALSE])
    /\ UNCHANGED <<end, state, wake, reader, writer, statuses, job, stop, wire, answered, msgs,
                   stale, observers>>

Midway == writer = "send" /\ out[Len(out)].kind = "result" /\ ~out[Len(out)].whole

LastFrame ==
    /\ Writes /\ Midway
    /\ out' = [out EXCEPT ![Len(out)].whole = TRUE]
    /\ wire' = Append(wire, job)
    /\ stale' = IF job.gen < generation THEN stale + 1 ELSE stale
    /\ job' = NoJob
    /\ writer' = "loop"
    /\ UNCHANGED <<end, state, wake, reader, statuses, stop, answered, msgs, observers>>

(* Mutant: the writer closes the connection as if it were asked to stop. *)
StreamFailsCloses ==
    /\ end = "open" /\ Midway
    /\ writer' = "close"
    /\ UNCHANGED <<end, state, wake, reader, statuses, job, stop, sent, msgs, stale, observers>>

(* Only inflating a streamed payload again can fail after the first frame. *)
StreamFails ==
    /\ end = "open" /\ Midway
    /\ EndWith("DataError")

(* A write fails: the peer is gone, or its Close was already read. *)
SendFails ==
    /\ end = "open" /\ writer \in {"abi", "statuses", "send"}
    /\ EndWith(IF writer = "abi" THEN "NotOpened" ELSE "SendFailed")

(* Close 1001; its failure is ignored. *)
CloseAway ==
    /\ end = "open" /\ writer = "close"
    /\ writer' = "done"
    /\ \/ ~closing /\ out' = Append(out, Message("close"))
       \/ UNCHANGED out
    /\ UNCHANGED <<end, state, wake, reader, statuses, job, stop, wire, answered, msgs, stale,
                   observers>>

(* CLOSE_WAIT runs out, or read_loop ends in it: the end is Shutdown. *)
CloseWaited ==
    /\ end = "open" /\ writer = "done"
    /\ EndWith("Shutdown")

-----------------------------------------------------------------------------
(* The server is asked to stop. *)
Stop ==
    /\ ~stop
    /\ stop' = TRUE
    /\ stoppedAt' = Len(wire)
    /\ UNCHANGED <<end, state, wake, reader, writer, statuses, job, sent, msgs, stale, asked,
                   polled>>

Ended == end # "open" /\ UNCHANGED vars

Reader ==
    \/ \E v \in Versions : RecvStatus(v)
    \/ \E ask \in Asks : RecvBlocks(ask)
    \/ \E n \in Acks : RecvAck(n)
    \/ RecvClose
    \/ ReadEnds

ReaderGoesOn == PositionsRead \/ PositionsFail \/ CloseReplied

Writer ==
    \/ SendAbi
    \/ WriteLoop
    \/ Idle
    \/ WriteStatus
    \/ Build
    \/ FirstFrame
    \/ LastFrame
    \/ StreamFails
    \/ SendFails
    \/ CloseAway
    \/ CloseWaited

Next == Reader \/ ReaderGoesOn \/ Writer \/ Stop \/ Ended

Spec == Init /\ [][Next]_vars

(* The task is polled, io threads finish their reads and the client keeps  *)
(* reading what is written to it, or its connection fails.                 *)
Fairness == WF_vars(ReaderGoesOn) /\ WF_vars(Writer)

FairSpec == Spec /\ Fairness

-----------------------------------------------------------------------------
(* The contract the session implements: writing a result whole is Send,    *)
(* applying a request is Blocks, everything else about the connection is   *)
(* invisible.                                                              *)
AskedAbs ==
    [i \in DOMAIN asked |->
        [start |-> asked[i].start, end |-> asked[i].ask.req.end,
         want |-> asked[i].ask.req.want, granted |-> asked[i].granted]]

Contract ==
    INSTANCE ResultStream WITH
        alive <- end = "open" /\ writer # "abi",
        owed <- job,
        asked <- AskedAbs

(* The two loops of session.rs over one connection implement the contract *)
(* of its results, whatever the interleaving.                             *)
ImplementsContract == Contract!Spec

(* A sleeping writer has nothing to do unless a wake-up is on its way: no  *)
(* status request, request or acknowledgement applied between its look at  *)
(* the state and its `notified()` is slept through.                        *)
NoLostWakeup ==
    end = "open" /\ writer = "idle" /\ ~wake =>
        statusQ = <<>> /\ ~Sendable(req)

(* Every status request is answered with its own version, in order, none   *)
(* dropped and none unasked: those answered, those taken and those queued  *)
(* are the ones received.  And it waits for one result at most, the one    *)
(* being read or written when it arrives: "The requests queued when the    *)
(* session next looks are answered, in order, before the next result."     *)
StatusesServed ==
    /\ [i \in DOMAIN polled |-> polled[i].version] =
          answered \o statuses \o statusQ
    /\ \A i \in DOMAIN polled :
          i > Len(answered) => Len(wire) - polled[i].at <= 1

(* Nothing is written into or after an unfinished result, and nothing      *)
(* after Close, which goes out between two messages and at shutdown only;  *)
(* no more than the result being written then still goes out before it.    *)
ClosesBetweenMessages ==
    /\ \A i \in 1..Len(out) - 1 :
          /\ out[i].kind # "close"
          /\ out[i].kind = "result" => out[i].whole
    /\ \A i \in DOMAIN out : out[i].kind = "close" => stop
    /\ stop => Len(wire) - stoppedAt <= 1

(* have_positions: the request restarts at the lowest position this server *)
(* does not know the same way, or where it asked to, whatever the order    *)
(* the positions come in.                                                  *)
RestartsAtLowestUnknown ==
    \A i \in DOMAIN asked :
        LET ask == asked[i].ask
            unknown == {j \in DOMAIN ask.have : ~ask.have[j].same}
        IN  asked[i].start = Min({ask.req.start} \cup {ask.have[j].num : j \in unknown})

(* Until the session ends or is closed, every status request is answered   *)
(* and the writer goes on sending while the send rule allows a block.      *)
KeepsAnswering ==
    /\ \A i \in 1..MaxMsgs :
          Len(polled) >= i ~> (Len(answered) >= i \/ end # "open" \/ stop)
    /\ (end = "open" /\ Sendable(req)) ~> (~Sendable(req) \/ end # "open" \/ stop)

(* A stopped server's session ends. *)
StopEnds == stop ~> end # "open"

(* What is on the wire and in the queues is well-formed: every status is   *)
(* answered in its place, and a session closes between messages.           *)
MessagesSound == TypeOK /\ StatusesServed /\ ClosesBetweenMessages

(* A session goes on answering until it is stopped, and then ends. *)
SessionServes == KeepsAnswering /\ StopEnds

(* The results of read_loop and write_loop are in block order, without gap *)
(* or repeat, within each request (SpringState::take).                     *)
NoSkipNoRepeat == Contract!NoSkipNoRepeat

(* No request gets more results than it was granted (SpringState::ack and  *)
(* take), though the credit wraps.                                         *)
WithinCredit == Contract!WithinCredit
=============================================================================
