------------------------------ MODULE ShipScan -------------------------------
(***************************************************************************)
(* abi-scanner --ship: run_ship_with_provider and scan_range of            *)
(* core/src/ship.rs.  The range is split over connections; each requests   *)
(* its chunk, sends the ABI documents of every block to one writer and     *)
(* acknowledges the block.  The node is external: it sends results while   *)
(* it has credit, may have no block below some number, may reorganise and  *)
(* may go away.                                                            *)
(*                                                                         *)
(* A frame is [kind, block, fork]: a block, "idle" (a result without a     *)
(* block) or "text".  A block from Fork on has two versions, "old" until   *)
(* the chain switches, and DocsOf gives the documents of each.             *)
(***************************************************************************)
EXTENDS Integers, Sequences, FiniteSets, SequencesExt

CONSTANTS
    MaxU32,
    Args,           \* [start, end, connections, inFlight, provider, irreversible, schema, avail, undecoded]
    DocsOf(_, _),   \* block, version |-> sequence of ABIs
    Fork,           \* the first block the chain switches
    ChannelSize,
    MaxFaults,      \* bound: connections, frames and writes that fail
    MaxIdle         \* bound: frames without a block, on each connection

VARIABLES
    args,           \* the command line, and what the node has: avail, undecoded
    conn,           \* connection |-> [pc, docs, block, processed]
    node,           \* connection |-> [next, credit, frames, open, idle]
    switched,       \* the chain switched at Fork
    chan, writer,   \* the channel, and the writer's state
    file,           \* the lines written
    verdict,        \* how the run ended
    took,           \* observer: connection |-> the blocks it scanned
    faults

vars == <<args, conn, node, switched, chan, writer, file, verdict, took, faults>>

U32(n) == n % (MaxU32 + 1)
Lower(a, b) == IF a < b THEN a ELSE b
Higher(a, b) == IF a < b THEN b ELSE a

-----------------------------------------------------------------------------
Conns == Higher(args.connections, 1)
Total == args.end - args.start + 1

(* Mutant: the last blocks of a range that does not divide are left out. *)
PerFloor == Higher(1, Total \div Conns)

Per == (Total + Conns - 1) \div Conns
ChunkStart(i) == U32(args.start + i * Per)
ChunkEnd(i) == Lower(U32(ChunkStart(i) + Per - 1), args.end)

(* The connections spawned: the loop breaks at the first one past the end. *)
Spawned == {i \in 0 .. Conns - 1 : \A j \in 0 .. i : ChunkStart(j) <= args.end}

Init ==
    /\ args \in Args
    /\ conn = <<>> /\ node = <<>> /\ took = <<>>
    /\ switched = FALSE /\ chan = <<>> /\ writer = "off" /\ file = <<>>
    /\ verdict = "none" /\ faults = 0

(* run_ship_with_provider: a range or a window that makes no sense is      *)
(* refused; else the writer and the connections start.                     *)
Begin ==
    /\ writer = "off" /\ verdict = "none"
    /\ IF args.start > 0 /\ args.start <= args.end /\ args.end < MaxU32 /\ args.inFlight > 0
       THEN /\ writer' = "open"
            /\ conn' = [i \in Spawned |-> [pc |-> "connect", docs |-> <<>>, block |-> 0, processed |-> 0]]
            /\ node' = [i \in Spawned |-> [next |-> 0, credit |-> 0, frames |-> <<>>, open |-> TRUE, idle |-> 0]]
            /\ took' = [i \in Spawned |-> <<>>]
            /\ UNCHANGED verdict
       ELSE verdict' = "failed" /\ UNCHANGED <<writer, conn, node, took>>
    /\ UNCHANGED <<args, switched, chan, file, faults>>

Wire == args.provider = "wire"

-----------------------------------------------------------------------------
(* The node.  It serves a connection from the first block it has. *)
VersionOf(b) == IF b >= Fork /\ switched THEN "new" ELSE "old"
Serving(i) == conn[i].pc \notin {"connect", "done", "failed"} /\ node[i].open

SendBlock(i) ==
    /\ Serving(i) /\ node[i].credit > 0 /\ node[i].next <= ChunkEnd(i)
    /\ node' = [node EXCEPT ![i].credit = @ - 1, ![i].next = @ + 1,
                   ![i].frames = Append(@, [kind |-> "block", block |-> node[i].next, fork |-> VersionOf(node[i].next)])]
    /\ UNCHANGED <<args, conn, switched, chan, writer, file, verdict, took, faults>>

(* A result without a block takes a credit.  Wire nodes send none: what    *)
(* has no block there is control and takes no credit.                      *)
SendOther(i) ==
    /\ Serving(i) /\ node[i].idle < MaxIdle
    /\ \/ /\ ~Wire /\ node[i].credit > 0
          /\ node' = [node EXCEPT ![i].idle = @ + 1, ![i].credit = @ - 1,
                         ![i].frames = Append(@, [kind |-> "idle", block |-> 0, fork |-> "old"])]
       \/ node' = [node EXCEPT ![i].idle = @ + 1,
                      ![i].frames = Append(@, [kind |-> IF Wire THEN "idle" ELSE "text", block |-> 0, fork |-> "old"])]
    /\ UNCHANGED <<args, conn, switched, chan, writer, file, verdict, took, faults>>

(* The chain switches: a node that was past Fork goes back to it.          *)
(* Irreversible blocks do not switch.                                      *)
Reorganise ==
    /\ writer # "off" /\ ~switched /\ ~args.irreversible
    /\ switched' = TRUE
    /\ node' = [i \in DOMAIN node |-> [node[i] EXCEPT !.next = Lower(@, Fork)]]
    /\ UNCHANGED <<args, conn, chan, writer, file, verdict, took, faults>>

(* The connection is closed or breaks; what was on its way may be lost. *)
GoAway(i) ==
    /\ Serving(i) /\ faults < MaxFaults
    /\ faults' = faults + 1
    /\ node' \in {[node EXCEPT ![i].open = FALSE], [node EXCEPT ![i].open = FALSE, ![i].frames = <<>>]}
    /\ UNCHANGED <<args, conn, switched, chan, writer, file, verdict, took>>

-----------------------------------------------------------------------------
(* scan_range, from one await to the next. *)
Fails(i) == conn' = [conn EXCEPT ![i].pc = "failed", ![i].docs = <<>>]

(* Connect, handshake, request.  An Antelope scan refuses a Wire schema. *)
Connect(i) ==
    /\ conn[i].pc = "connect"
    /\ \/ /\ args.schema = args.provider
          /\ conn' = [conn EXCEPT ![i].pc = "read"]
          /\ node' = [node EXCEPT ![i].credit = args.inFlight, ![i].next = Higher(ChunkStart(i), args.avail)]
          /\ UNCHANGED faults
       \/ /\ args.schema # args.provider \/ faults < MaxFaults
          /\ faults' = Lower(faults + 1, MaxFaults)
          /\ Fails(i)
          /\ UNCHANGED node
    /\ UNCHANGED <<args, switched, chan, writer, file, verdict, took>>

(* The documents of a block: the rows before one that does not decode.     *)
(* Its error is a warning.                                                 *)
Found(f) ==
    LET docs == [k \in DOMAIN DocsOf(f.block, f.fork) |->
                    [block |-> f.block, fork |-> f.fork, abi |-> DocsOf(f.block, f.fork)[k]]]
    IN  IF f.block = args.undecoded THEN Front(docs) ELSE docs

(* Mutant: a result without a block is not acknowledged. *)
SkipSilently(i) == node' = [node EXCEPT ![i].frames = Tail(@)]

(* A frame without a block: the Antelope scan acknowledges a binary one. *)
Skip(i) ==
    node' = [node EXCEPT ![i].frames = Tail(@),
                         ![i].credit = IF ~Wire /\ Head(node[i].frames).kind = "idle" THEN @ + 1 ELSE @]

(* Mutant: blocks are taken as they come. *)
InOrderAlways(i, f) == TRUE

(* A Wire scan takes the blocks of its chunk in order, and all of their    *)
(* rows must decode.                                                       *)
InOrder(i, f) == Wire => f.block = ChunkStart(i) + conn[i].processed /\ f.block # args.undecoded

(* The next frame: the docs of a block are found, then sent one by one. *)
Read(i) ==
    /\ conn[i].pc = "read" /\ node[i].frames # <<>>
    /\ LET f == Head(node[i].frames)
       IN  IF f.kind # "block" THEN Skip(i) /\ UNCHANGED <<conn, took>>
           ELSE /\ node' = [node EXCEPT ![i].frames = Tail(@)]
                /\ IF InOrder(i, f)
                   THEN /\ conn' = [conn EXCEPT ![i].pc = "send", ![i].docs = Found(f), ![i].block = f.block]
                        /\ took' = [took EXCEPT ![i] = Append(@, [block |-> f.block, fork |-> f.fork])]
                   ELSE Fails(i) /\ UNCHANGED took
    /\ UNCHANGED <<args, switched, chan, writer, file, verdict, faults>>

(* Mutant: the end of the stream ends the scan. *)
StreamEndsWell(i) ==
    /\ conn[i].pc = "read" /\ node[i].frames = <<>> /\ ~node[i].open
    /\ conn' = [conn EXCEPT ![i].pc = "done"]
    /\ UNCHANGED <<args, node, switched, chan, writer, file, verdict, took, faults>>

(* The stream ends or fails before the last block. *)
StreamEnds(i) ==
    /\ conn[i].pc = "read" /\ node[i].frames = <<>> /\ ~node[i].open
    /\ Fails(i)
    /\ UNCHANGED <<args, node, switched, chan, writer, file, verdict, took, faults>>

(* A document goes to the writer when there is room; a writer that stopped *)
(* closed the channel.                                                     *)
Send(i) ==
    /\ conn[i].pc = "send" /\ conn[i].docs # <<>>
    /\ \/ /\ writer = "open" /\ Len(chan) < ChannelSize
          /\ chan' = Append(chan, Head(conn[i].docs))
          /\ conn' = [conn EXCEPT ![i].docs = Tail(@)]
       \/ writer = "failed" /\ Fails(i) /\ UNCHANGED chan
    /\ UNCHANGED <<args, node, switched, writer, file, verdict, took, faults>>

(* The block is acknowledged; the last one of the chunk ends the scan.  On *)
(* a connection that is gone the acknowledgement may fail.                 *)
Ack(i) ==
    /\ conn[i].pc = "send" /\ conn[i].docs = <<>>
    /\ \/ /\ node' = [node EXCEPT ![i].credit = @ + 1]
          /\ conn' = [conn EXCEPT ![i].pc = IF conn[i].block >= ChunkEnd(i) THEN "done" ELSE "read",
                                  ![i].processed = @ + 1]
       \/ ~node[i].open /\ Fails(i) /\ UNCHANGED node
    /\ UNCHANGED <<args, switched, chan, writer, file, verdict, took, faults>>

-----------------------------------------------------------------------------
Ended == \A i \in DOMAIN conn : conn[i].pc \in {"done", "failed"}

(* The writer takes a line, or fails at it and drops the channel. *)
Write ==
    /\ writer = "open" /\ chan # <<>>
    /\ \/ file' = Append(file, Head(chan)) /\ chan' = Tail(chan) /\ UNCHANGED <<writer, faults>>
       \/ faults < MaxFaults /\ faults' = faults + 1 /\ writer' = "failed" /\ chan' = <<>> /\ UNCHANGED file
    /\ UNCHANGED <<args, conn, node, switched, verdict, took>>

(* All senders are gone: the writer flushes, which may fail. *)
Flush ==
    /\ writer = "open" /\ Ended /\ chan = <<>>
    /\ \/ writer' = "done" /\ UNCHANGED faults
       \/ faults < MaxFaults /\ faults' = faults + 1 /\ writer' = "failed"
    /\ UNCHANGED <<args, conn, node, switched, chan, file, verdict, took>>

(* The connections and then the writer are joined. *)
Join ==
    /\ writer \in {"done", "failed"} /\ Ended /\ verdict = "none"
    /\ verdict' = IF writer = "done" /\ \A i \in DOMAIN conn : conn[i].pc = "done" THEN "ok" ELSE "failed"
    /\ UNCHANGED <<args, conn, node, switched, chan, writer, file, took, faults>>

ScanRange(i) == Connect(i) \/ Read(i) \/ StreamEnds(i) \/ Send(i) \/ Ack(i)
Node(i) == SendBlock(i) \/ SendOther(i) \/ GoAway(i)

Next ==
    \/ Begin
    \/ \E i \in DOMAIN conn : ScanRange(i) \/ Node(i)
    \/ Reorganise
    \/ Write \/ Flush \/ Join

Spec == Init /\ [][Next]_vars /\ WF_vars(Next)

-----------------------------------------------------------------------------
Scanned == UNION {Range(took[i]) : i \in DOMAIN took}

(* A scan that ends well has written the documents of the blocks it took,  *)
(* each once, and they are all of the range that the node has, whatever    *)
(* fails and however the range is split (scan_range, its two ensure! and   *)
(* the join of writer and connections).  A Wire scan has each block of the *)
(* range once, whatever the chain does, and nothing when one is missing.   *)
ScansRange ==
    verdict = "ok" =>
        /\ Range(file) = UNION {Range(Found(f)) : f \in Scanned}
        /\ args.start .. args.end \cap args.avail .. args.end \subseteq {f.block : f \in Scanned}
        /\ args.irreversible \/ Wire =>
              /\ Len(file) = Cardinality(Range(file))
              /\ {f.block : f \in Scanned} \subseteq args.start .. args.end
              /\ \A f, g \in Scanned : f.block = g.block => f = g
        /\ Wire => args.start .. args.end = {f.block : f \in Scanned}

(* The run ends: no connection waits for a block the node has no credit to *)
(* send, and none for a writer that stopped (the acks, the channel).       *)
ScanEnds == <>(verdict # "none")
=============================================================================
