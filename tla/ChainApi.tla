------------------------------ MODULE ChainApi ------------------------------
(***************************************************************************)
(* The chain API of ship-archive (api/mod.rs, api/handlers.rs) and the end *)
(* of the server (lib.rs): connections, the bodies they read, the slots of *)
(* block requests, their jobs on the io threads, the answers written, and  *)
(* the memory budget all of these draw on together with the sessions.      *)
(*                                                                         *)
(* A job goes on when its connection is gone.  Time is not modelled: a     *)
(* timeout may fire whenever what it limits has not happened.  HTTP itself *)
(* is hyper's: what is kept of it is when it drops a request, an answer or *)
(* a connection.  Sizes are small numbers, answers without a reservation   *)
(* are not told apart, counters are left out.                              *)
(***************************************************************************)
EXTENDS Integers, Sequences, FiniteSets, FiniteSetsExt, SequencesExt

CONSTANTS
    Clients,          \* who may connect
    Slots,            \* --api-max-in-flight slots
    Ship,             \* the place in the line for io threads of a session
    None,
    MaxConnections, MaxBodyBytes, IoThreads, Capacity,
    UNRESERVED_BODY, SLACK, MAX_EXPANSION,
    HexExpansion,     \* what get_raw_block reserves per byte of its block
    Requests,         \* [size, declared, kind, len]: the body, and the block asked for
    ShipBytes,        \* what a session's build ahead reserves
    MaxVisits,        \* bound: connections and requests together
    MaxBuilds         \* bound: builds of the session

Kinds == {"raw", "header", "unknown", "other"}

ASSUME ApiAssumption ==
    /\ Requests \subseteq [size : Nat, declared : BOOLEAN, kind : Kinds, len : Nat \ {0}]
    /\ Ship \notin Slots /\ None \notin Slots \cup Clients
    /\ {MaxConnections, MaxBodyBytes, IoThreads} \subseteq Nat \ {0}
    /\ {Capacity, UNRESERVED_BODY, SLACK, MAX_EXPANSION, HexExpansion, ShipBytes} \subseteq Nat
    /\ HexExpansion <= MAX_EXPANSION

VARIABLES
    conn,       \* client :> its connection and the request on it
    slot,       \* slot :> the request holding it, or None
    slotLine,   \* the clients waiting for a slot
    ioLine,     \* the slots, or Ship, waiting for an io thread
    threads,    \* io threads free
    used,       \* MemoryBudget::used
    ship,       \* the session's build: [at, held]
    server,     \* "serving", "stopping", "drained"
    listening,  \* the API listener accepts
    visits, builds

vars == <<conn, slot, slotLine, ioLine, threads, used, ship, server, listening, visits, builds>>

(* The body read so far, its room and reservation; the answer's bytes and  *)
(* reservation; whether the connection ends with it; the stop was seen.    *)
Closed == [at |-> "out", req |-> None, read |-> 0, room |-> 0, held |-> 0, bytes |-> 0,
           close |-> FALSE, told |-> FALSE]
Idle(told) == [Closed EXCEPT !.at = "head", !.told = told]

Open == {c \in Clients : conn[c].at # "out"}

Init ==
    /\ conn = [c \in Clients |-> Closed]
    /\ slot = [s \in Slots |-> None]
    /\ slotLine = <<>> /\ ioLine = <<>>
    /\ threads = IoThreads /\ used = 0
    /\ ship = [at |-> "none", held |-> 0]
    /\ server = "serving" /\ listening = TRUE
    /\ visits = 0 /\ builds = 0

lines == <<slotLine, ioLine, threads>>
rest == <<ship, server, listening, builds>>

-----------------------------------------------------------------------------
(* The listener, and the connections it accepts. *)

(* One more than --api-max-connections is refused before it is read. *)
Accept(c) ==
    /\ listening /\ conn[c].at = "out" /\ visits < MaxVisits
    /\ visits' = visits + 1
    /\ conn' = [conn EXCEPT ![c] = IF Cardinality(Open) < MaxConnections THEN Idle(FALSE) ELSE @]
    /\ UNCHANGED <<slot, lines, used, rest>>

(* The head of a request: a body declared too large is not read. *)
ReadHead(c, r) ==
    /\ conn[c].at = "head" /\ visits < MaxVisits
    /\ visits' = visits + 1
    /\ conn' = [conn EXCEPT ![c] =
                  IF r.declared /\ r.size > MaxBodyBytes
                  THEN [@ EXCEPT !.at = "write", !.close = TRUE]
                  ELSE [@ EXCEPT !.at = "body", !.req = r]]
    /\ UNCHANGED <<slot, lines, used, rest>>

(* Body::make_room: what is to be reserved beyond what is held. *)
NextPowerOfTwo(n) == Min({p \in {2 ^ i : i \in 0 .. n} : p >= n})
Limit(r) == IF r.declared THEN Min({r.size, MaxBodyBytes}) ELSE MaxBodyBytes
Room(b, len) ==
    IF len <= b.room THEN b.room ELSE Max({len, Min({NextPowerOfTwo(len), Limit(b.req)})})
Past(room) == IF room > UNRESERVED_BODY THEN room - UNRESERVED_BODY ELSE 0

(* MemoryBudget::try_reserve. *)
Fits(n) == used + n <= Capacity

(* Mutated Frame: each frame's room is reserved anew. *)
FrameReservesAnew(c, n) ==
    LET b == conn[c]
        len == b.read + n
        room == Room(b, len)
        more == Past(room)
    IN  /\ b.at = "body" /\ len <= b.req.size
        /\ IF len > MaxBodyBytes \/ ~Fits(more)
           THEN /\ conn' = [conn EXCEPT ![c] = [Idle(b.told) EXCEPT !.at = "write", !.close = TRUE]]
                /\ used' = used - b.held
           ELSE /\ conn' = [conn EXCEPT ![c].read = len, ![c].room = room, ![c].held = more]
                /\ used' = used + more
        /\ UNCHANGED <<slot, lines, rest, visits>>

(* More of the body.  One too large, or that the budget cannot hold, is    *)
(* answered at once; the connection cannot carry another request.          *)
Frame(c, n) ==
    LET b == conn[c]
        len == b.read + n
        room == Room(b, len)
        more == Past(room) - b.held
    IN  /\ b.at = "body" /\ len <= b.req.size
        /\ IF len > MaxBodyBytes \/ ~Fits(more)
           THEN /\ conn' = [conn EXCEPT ![c] = [Idle(b.told) EXCEPT !.at = "write", !.close = TRUE]]
                /\ used' = used - b.held
           ELSE /\ conn' = [conn EXCEPT ![c].read = len, ![c].room = room, ![c].held = @ + more]
                /\ used' = used + more
        /\ UNCHANGED <<slot, lines, rest, visits>>

-----------------------------------------------------------------------------
(* Slots and io threads: both lines are first come, first served.          *)

Free == {s \in Slots : slot[s] = None}
NewJob(c) == [owner |-> c, at |-> "line", kind |-> conn[c].req.kind, len |-> conn[c].req.len,
              held |-> 0, block |-> 0, out |-> 0]

(* A slot was taken: Io::run with the job. *)
EnterLine(c, s) ==
    /\ IF threads > 0 /\ ioLine = <<>>
       THEN /\ slot' = [slot EXCEPT ![s] = [NewJob(c) EXCEPT !.at = "start"]]
            /\ threads' = threads - 1
            /\ UNCHANGED ioLine
       ELSE /\ slot' = [slot EXCEPT ![s] = NewJob(c)]
            /\ ioLine' = Append(ioLine, s)
            /\ UNCHANGED threads

(* The whole body is there.  Its budget goes back before anything else; a  *)
(* request that does not parse, names no block served, or is for no block  *)
(* is answered; a block request takes a slot, or waits for one (`admit`).  *)
Answer(c) ==
    LET b == conn[c]
        asked == [Idle(b.told) EXCEPT !.req = b.req, !.close = b.close]
    IN  /\ b.at = "body" /\ b.read = b.req.size
        /\ used' = used - b.held
        /\ IF b.req.kind \in {"unknown", "other"}
           THEN /\ conn' = [conn EXCEPT ![c] = [asked EXCEPT !.at = "write"]]
                /\ UNCHANGED <<slot, lines>>
           ELSE IF Free # {} /\ slotLine = <<>>
           THEN /\ conn' = [conn EXCEPT ![c] = [asked EXCEPT !.at = "job"]]
                /\ EnterLine(c, CHOOSE s \in Free : TRUE)
                /\ UNCHANGED slotLine
           ELSE /\ conn' = [conn EXCEPT ![c] = [asked EXCEPT !.at = "queue"]]
                /\ slotLine' = Append(slotLine, c)
                /\ UNCHANGED <<slot, ioLine, threads>>
        /\ UNCHANGED <<rest, visits>>

(* A slot was given to the first in the line. *)
Admit(c) ==
    /\ slotLine # <<>> /\ c = Head(slotLine) /\ Free # {}
    /\ slotLine' = Tail(slotLine)
    /\ conn' = [conn EXCEPT ![c].at = "job"]
    /\ EnterLine(c, CHOOSE s \in Free : TRUE)
    /\ UNCHANGED <<used, rest, visits>>

(* --api-queue-ms are over, and no slot was given: 503 Busy. *)
QueueTimeout(c) ==
    /\ conn[c].at = "queue"
    /\ \A i \in 1 .. Len(slotLine) : slotLine[i] = c => i > Cardinality(Free)
    /\ slotLine' = Remove(slotLine, c)
    /\ conn' = [conn EXCEPT ![c].at = "write"]
    /\ UNCHANGED <<slot, ioLine, threads, used, rest, visits>>

(* A thread was given to the first in the line: the closure runs. *)
RunJob ==
    /\ ioLine # <<>> /\ threads > 0
    /\ ioLine' = Tail(ioLine)
    /\ threads' = threads - 1
    /\ IF Head(ioLine) = Ship
       THEN ship' = [ship EXCEPT !.at = "now"] /\ UNCHANGED slot
       ELSE slot' = [slot EXCEPT ![Head(ioLine)].at = "start"] /\ UNCHANGED ship
    /\ UNCHANGED <<conn, slotLine, used, server, listening, visits, builds>>

-----------------------------------------------------------------------------
(* Job::run.  Its memory is the block and the room for the answer.         *)

FirstReservation(j) == j.len + (IF j.kind = "raw" THEN HexExpansion * j.len ELSE 0) + SLACK
FullReservation(j) == j.len * (MAX_EXPANSION + 1) + SLACK

(* The job ends: its thread and its slot are free; the answer and what is  *)
(* kept of the reservations go to the connection, or nowhere.              *)
EndJob(s, bytes, kept) ==
    LET j == slot[s]
        here == j.owner # None
    IN  /\ slot' = [slot EXCEPT ![s] = None]
        /\ threads' = threads + 1
        /\ used' = used - j.held + (IF here THEN kept ELSE 0)
        /\ conn' = IF here
                   THEN [conn EXCEPT ![j.owner].at = "write", ![j.owner].bytes = bytes,
                                     ![j.owner].held = kept]
                   ELSE conn
        /\ UNCHANGED <<slotLine, ioLine, rest, visits>>

Working(s, at) == slot[s] # None /\ slot[s].at = at

(* The block cannot be read, is not the one asked for or does not decode,  *)
(* or the job panics.                                                      *)
JobFails(s) ==
    /\ slot[s] # None /\ slot[s].at # "line"
    /\ EndJob(s, 0, 0)

JobReserve(s) ==
    /\ Working(s, "start")
    /\ LET first == FirstReservation(slot[s])
       IN  IF Fits(first)
           THEN /\ slot' = [slot EXCEPT ![s].at = "read", ![s].held = first]
                /\ used' = used + first
                /\ UNCHANGED <<conn, threads>>
                /\ UNCHANGED <<slotLine, ioLine, rest, visits>>
           ELSE EndJob(s, 0, 0)

(* The block is read and the room for its answer taken. *)
JobRead(s) ==
    /\ Working(s, "read")
    /\ slot' = [slot EXCEPT ![s].at = "render", ![s].block = slot[s].len,
                            ![s].out = FirstReservation(slot[s]) - slot[s].len]
    /\ UNCHANGED <<conn, lines, used, rest, visits>>

(* Mutated JobMore: the second room is taken on the first reservation. *)
JobMoreUnreserved(s) ==
    LET j == slot[s]
    IN  /\ Working(s, "render")
        /\ slot' = [slot EXCEPT ![s].at = "full", ![s].out = FullReservation(j) - j.len]
        /\ UNCHANGED <<conn, lines, used, rest, visits>>

(* The answer does not fit: once more with room for any block. *)
JobMore(s) ==
    LET j == slot[s]
        more == FullReservation(j) - FirstReservation(j)
    IN  /\ Working(s, "render")
        /\ IF Fits(more)
           THEN /\ slot' = [slot EXCEPT ![s].at = "full", ![s].held = @ + more,
                                        ![s].out = FullReservation(j) - j.len]
                /\ used' = used + more
                /\ UNCHANGED <<conn, lines, rest, visits>>
           ELSE EndJob(s, 0, 0)

(* The answer is rendered; only its bytes stay reserved. *)
JobRendered(s) ==
    /\ slot[s] # None /\ slot[s].at \in {"render", "full"}
    /\ \E n \in 1 .. slot[s].out : EndJob(s, n, Min({n, slot[s].held}))

-----------------------------------------------------------------------------
(* The end of an answer and of a connection.                               *)

(* hyper wrote the last byte and drops the body. *)
Written(c) ==
    /\ conn[c].at = "write"
    /\ used' = used - conn[c].held
    /\ conn' = [conn EXCEPT ![c] = IF @.close \/ @.told THEN Closed ELSE Idle(FALSE)]
    /\ UNCHANGED <<slot, lines, rest, visits>>

(* Connections are dropped where they stand: reservations of a body or an  *)
(* answer go back, a place in a line is given up, and with a place in the  *)
(* line for io threads the slot; a job that runs goes on without an owner. *)
Dropped(gone) ==
    LET leaves(s) == slot[s] # None /\ slot[s].owner \in gone
    IN  /\ conn' = [c \in Clients |-> IF c \in gone THEN Closed ELSE conn[c]]
        /\ used' = used - SumFunction([c \in gone |-> conn[c].held])
        /\ slotLine' = SelectSeq(slotLine, LAMBDA c : c \notin gone)
        /\ ioLine' = SelectSeq(ioLine, LAMBDA s : s = Ship \/ ~leaves(s))
        /\ slot' = [s \in Slots |-> IF ~leaves(s) THEN slot[s]
                                    ELSE IF slot[s].at = "line" THEN None
                                    ELSE [slot[s] EXCEPT !.owner = None]]
        /\ UNCHANGED <<threads, visits, builds, ship>>

(* The client goes, or its connection fails. *)
Leave(c) ==
    /\ c \in Open
    /\ Dropped({c})
    /\ UNCHANGED <<server, listening>>

(* Request_timeout: the head, then the body, did not arrive. *)
Late(c) ==
    /\ conn[c].at \in {"head", "body"}
    /\ Dropped({c})
    /\ UNCHANGED <<server, listening>>

(* Mutated Stall: only an answer with a reservation is timed. *)
StallReserved(c) ==
    /\ conn[c].at = "write" /\ conn[c].held > 0
    /\ Dropped({c})
    /\ UNCHANGED <<server, listening>>

(* Socket::progress: the client took none of its answer in time. *)
Stall(c) ==
    /\ conn[c].at = "write"
    /\ Dropped({c})
    /\ UNCHANGED <<server, listening>>

-----------------------------------------------------------------------------
(* The end of the server.                                                  *)

Stop ==
    /\ server = "serving"
    /\ server' = "stopping"
    /\ UNCHANGED <<conn, slot, lines, used, ship, listening, visits, builds>>

StopListening ==
    /\ server = "stopping" /\ listening
    /\ listening' = FALSE
    /\ UNCHANGED <<conn, slot, lines, used, ship, server, visits, builds>>

(* graceful_shutdown: the request under way is the last; without one hyper *)
(* closes the connection, unless it waits for the first.                   *)
SeeStop(c) ==
    /\ server = "stopping" /\ c \in Open /\ ~conn[c].told
    /\ \/ conn' = [conn EXCEPT ![c].told = TRUE]
       \/ conn[c].at = "head" /\ conn' = [conn EXCEPT ![c] = Closed]
    /\ UNCHANGED <<slot, lines, used, rest, visits>>

(* All connections are closed, or SHUTDOWN_GRACE is over and the rest are  *)
(* dropped; the sessions ended before.                                     *)
Drain ==
    /\ server = "stopping" /\ (Open = {} => ~listening)
    /\ ship.at \notin {"line", "built"}
    /\ Dropped(Open)
    /\ server' = "drained" /\ listening' = FALSE

-----------------------------------------------------------------------------
(* A session of the same server: a package built ahead, on a thread free   *)
(* at once and within the budget or not at all (Prefetcher::schedule,      *)
(* prefetch), or built when its turn is there (Prefetcher::take).          *)
ShipAhead ==
    /\ server # "drained" /\ ship.at = "none" /\ builds < MaxBuilds
    /\ threads > 0 /\ ioLine = <<>>
    /\ builds' = builds + 1
    /\ threads' = threads - 1
    /\ ship' = [ship EXCEPT !.at = "start"]
    /\ UNCHANGED <<conn, slot, slotLine, ioLine, used, server, listening, visits>>

ShipReserve ==
    /\ ship.at = "start"
    /\ IF Fits(ShipBytes)
       THEN ship' = [at |-> "read", held |-> ShipBytes] /\ used' = used + ShipBytes /\ UNCHANGED threads
       ELSE ship' = [ship EXCEPT !.at = "none"] /\ threads' = threads + 1 /\ UNCHANGED used
    /\ UNCHANGED <<conn, slot, slotLine, ioLine, server, listening, visits, builds>>

ShipNow ==
    /\ server # "drained" /\ ship.at = "none" /\ builds < MaxBuilds
    /\ builds' = builds + 1
    /\ IF threads > 0 /\ ioLine = <<>>
       THEN ship' = [ship EXCEPT !.at = "now"] /\ threads' = threads - 1 /\ UNCHANGED ioLine
       ELSE ship' = [ship EXCEPT !.at = "line"] /\ ioLine' = Append(ioLine, Ship) /\ UNCHANGED threads
    /\ UNCHANGED <<conn, slot, slotLine, used, server, listening, visits>>

(* The read ends; the reservation of a build ahead shrinks to the package, *)
(* and goes back when the package is taken or dropped.                     *)
ShipBuilt ==
    /\ ship.at \in {"read", "now"}
    /\ threads' = threads + 1
    /\ \E kept \in 0 .. ship.held :
          /\ ship' = [at |-> IF ship.at = "read" THEN "built" ELSE "none", held |-> kept]
          /\ used' = used - ship.held + kept
    /\ UNCHANGED <<conn, slot, slotLine, ioLine, server, listening, visits, builds>>

ShipSent ==
    /\ ship.at = "built"
    /\ used' = used - ship.held
    /\ ship' = [at |-> "none", held |-> 0]
    /\ UNCHANGED <<conn, slot, lines, server, listening, visits, builds>>

(* The session ends while it waits in the line. *)
ShipLeaves ==
    /\ ship.at = "line"
    /\ ioLine' = Remove(ioLine, Ship)
    /\ ship' = [ship EXCEPT !.at = "none"]
    /\ UNCHANGED <<conn, slot, slotLine, threads, used, server, listening, visits, builds>>

-----------------------------------------------------------------------------
ClientStep(c) ==
    \/ Accept(c)
    \/ \E r \in Requests : ReadHead(c, r)
    \/ \E n \in 1 .. MaxBodyBytes + 1 : Frame(c, n)
    \/ Written(c)
    \/ Leave(c)

(* What happens to a connection whatever its client does. *)
ConnStep(c) == Answer(c) \/ Admit(c) \/ QueueTimeout(c) \/ Late(c) \/ Stall(c) \/ SeeStop(c)

JobStep(s) == JobFails(s) \/ JobReserve(s) \/ JobRead(s) \/ JobMore(s) \/ JobRendered(s)

Next ==
    \/ \E c \in Clients : ClientStep(c) \/ ConnStep(c)
    \/ \E s \in Slots : JobStep(s)
    \/ RunJob
    \/ Stop \/ StopListening \/ Drain
    \/ ShipAhead \/ ShipReserve \/ ShipNow \/ ShipBuilt \/ ShipSent \/ ShipLeaves

Spec == Init /\ [][Next]_vars

(* Tasks that can run do, timers fire, reads on the io threads come back.  *)
Fairness ==
    /\ \A c \in Clients : WF_vars(ConnStep(c))
    /\ \A s \in Slots : WF_vars(JobStep(s))
    /\ WF_vars(RunJob) /\ WF_vars(ShipReserve) /\ WF_vars(ShipBuilt) /\ WF_vars(ShipSent)
    /\ WF_vars(StopListening) /\ WF_vars(Drain)

FairSpec == Spec /\ Fairness

-----------------------------------------------------------------------------
Jobs == {s \in Slots : slot[s] # None}
Running == {s \in Jobs : slot[s].at # "line"}
Places(line, x) == Cardinality({i \in DOMAIN line : line[i] = x})

(* Whoever leaves, and wherever (reading a body, in a line, with a job     *)
(* running, with an answer half written), nothing is lost or given back    *)
(* twice: the budget's counter is the sum of the reservations held by      *)
(* bodies, jobs, answers and the session, within the capacity; every io    *)
(* thread is free or has one task; every slot is held by one request, in   *)
(* the line or running; and who waits for a slot is in that line once      *)
(* (Reservation::drop, Slot, Io::run, `let _slot = slot` in block).        *)
NothingLeaks ==
    /\ used = SumFunction([c \in Clients |-> conn[c].held])
                + SumFunction([s \in Jobs |-> slot[s].held]) + ship.held
    /\ used <= Capacity
    /\ threads + Cardinality(Running) + (IF ship.at \in {"start", "read", "now"} THEN 1 ELSE 0) = IoThreads
    /\ \A s \in Slots : Places(ioLine, s) = IF s \in Jobs \ Running THEN 1 ELSE 0
    /\ Places(ioLine, Ship) = IF ship.at = "line" THEN 1 ELSE 0
    /\ \A c \in Clients :
          /\ Cardinality({s \in Jobs : slot[s].owner = c}) = IF conn[c].at = "job" THEN 1 ELSE 0
          /\ Places(slotLine, c) = IF conn[c].at = "queue" THEN 1 ELSE 0

(* What a request has allocated is reserved first: a body's room past      *)
(* UNRESERVED_BODY, the block and the room for its answer, the second room *)
(* when the first was too small, the answer until it is written            *)
(* (Body::make_room, Job::run, into_bytes).                                *)
MemoryReserved ==
    /\ \A c \in Clients : conn[c].room <= UNRESERVED_BODY + conn[c].held /\ conn[c].bytes <= conn[c].held
    /\ \A s \in Jobs : slot[s].block + slot[s].out <= slot[s].held

(* Whatever its client does, a request is answered or its connection       *)
(* closed; and a server asked to stop does, and the jobs it left end       *)
(* (request_timeout, queue, Socket::progress, SHUTDOWN_GRACE).             *)
RequestsEnd ==
    /\ \A c \in Clients :
          conn[c].at \in {"body", "queue", "job", "write"} ~> conn[c].at \in {"head", "out"}
    /\ server = "stopping" ~> server = "drained" /\ Free = Slots

(* Slots, threads and memory are accounted for, and memory is reserved     *)
(* before it is used (Reservation, Slot, Job::run).                        *)
Accounted == NothingLeaks /\ MemoryReserved
=============================================================================
