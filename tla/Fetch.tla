-------------------------------- MODULE Fetch --------------------------------
(***************************************************************************)
(* How the sessions of a server get their packages (fetch.rs, with         *)
(* write_loop of session.rs and stream of frames.rs): each session's       *)
(* Prefetcher builds the next jobs of its window ahead, the io threads are *)
(* shared through a fair semaphore, and what is built ahead is reserved    *)
(* from one memory budget.                                                 *)
(*                                                                         *)
(* A build is a task of the blocking pool: dropping its handle does not    *)
(* stop it, so it outlives the request, and the session, it was for.       *)
(* Statuses and the client's side of the connection are ShipSession's.     *)
(***************************************************************************)
EXTENDS SpringState, Sequences, FiniteSets, BagsExt, SequencesExt, FiniteSetsExt

CONSTANTS
    Sessions,      \* the slots of --max-sessions
    Requests,      \* s :> the get_blocks requests its client sends
    NeedsIds,      \* those of them whose have_positions are looked up
    Acks,          \* num_messages of an acknowledgement
    IoThreads,     \* --io-threads
    Depth,         \* --prefetch
    Capacity,      \* --memory-budget
    Bound,         \* n :> what the plan of block n may need
    Held,          \* n :> what the package of block n holds once read
    Streamed,      \* the blocks with a payload above the stream threshold
    MaxRequests,   \* s :> bound: requests per connection
    MaxCredit,     \* bound: acknowledgements that leave no more credit
    NoBuild        \* no build is awaited

ASSUME FetchAssumption ==
    /\ Requests \in [Sessions -> SUBSET Request] /\ NeedsIds \subseteq Request
    /\ Acks \subseteq U32
    /\ IoThreads \in Nat \ {0} /\ Depth \in Nat /\ Capacity \in Nat
    /\ Bound \in [U32 -> Nat] /\ Held \in [U32 -> Nat]
    /\ \A n \in U32 : Held[n] <= Bound[n]
    /\ MaxRequests \in [Sessions -> Nat] /\ MaxCredit \in Nat

VARIABLES
    req, generation,   \* SpringState of each session
    reader,            \* read_loop: "off", "read", or its place in `io.run`
    pending,           \* the request whose positions are looked up
    writer,            \* where write_loop is; "off" when the slot is free
    owed,              \* the job write_loop took
    window,            \* the window it took with it: first job and count
    cur,               \* the io task write_loop awaits, and its job
    ahead,             \* Prefetcher::ahead
    pkg,               \* the job whose package write_loop holds
    orphans,           \* builds running with no handle left
    used,              \* MemoryBudget::used
    free,              \* permits of Io nobody holds
    line               \* the waiters of Io, first come first

sessionVars == <<req, generation, reader, pending, writer, owed, window, cur, ahead, pkg>>
vars == <<sessionVars, orphans, used, free, line>>

(* The io task for block `n`: a package built ahead or on demand, a chunk  *)
(* of a streamed payload, the lookup of positions.  `res` is the bytes it  *)
(* has reserved.                                                           *)
Build ==
    [kind : {"ahead", "demand", "chunk", "lookup"}, n : U32,
     st : {"waiting", "started", "reading", "built", "refused", "failed"}, res : Nat]

NewBuild(k, n, st) == [kind |-> k, n |-> n, st |-> st, res |-> 0]

Ahead == [job : Job, build : Build]

Window == [first : Job \cup {NoJob}, count : Nat]

Running(b) == b.st \in {"started", "reading"}

Init ==
    /\ req = [s \in Sessions |-> DefaultRequest]
    /\ generation = [s \in Sessions |-> 0]
    /\ reader = [s \in Sessions |-> "off"]
    /\ pending = [s \in Sessions |-> DefaultRequest]
    /\ writer = [s \in Sessions |-> "off"]
    /\ owed = [s \in Sessions |-> NoJob]
    /\ window = [s \in Sessions |-> [first |-> NoJob, count |-> 0]]
    /\ cur = [s \in Sessions |-> NoBuild]
    /\ ahead = [s \in Sessions |-> <<>>]
    /\ pkg = [s \in Sessions |-> NoJob]
    /\ orphans = EmptyBag
    /\ used = 0
    /\ free = IoThreads
    /\ line = <<>>

TypeOK ==
    /\ req \in [Sessions -> Request]
    /\ generation \in [Sessions -> Nat]
    /\ reader \in [Sessions -> {"off", "read", "waiting", "running"}]
    /\ pending \in [Sessions -> Request]
    /\ writer \in [Sessions -> {"off", "loop", "idle", "take", "await", "schedule", "send",
                                "stream"}]
    /\ owed \in [Sessions -> Job \cup {NoJob}]
    /\ window \in [Sessions -> Window]
    /\ cur \in [Sessions -> Ahead \cup {NoBuild}]
    /\ ahead \in [Sessions -> Seq(Ahead)]
    /\ \A s \in Sessions : Len(ahead[s]) <= Depth
    /\ pkg \in [Sessions -> Job \cup {NoJob}]
    /\ IsABag(orphans) /\ BagToSet(orphans) \subseteq Build
    /\ used \in Nat
    /\ free \in Nat
    /\ line \in Seq(Sessions \X {"reader", "writer"})

-----------------------------------------------------------------------------
(* Io: a permit given back goes to the first waiter, if there is one.      *)

Waiter(s, who) == <<s, who>>

(* A reader or a writer asks for a thread: `io.run`, `io.start`. *)
Joins(s, who) == line' = Append(line, Waiter(s, who))

Granted == IF line = <<>> THEN NoBuild ELSE Head(line)

(* Mutant: the waiters are not told. *)
GivePermitSilently(c, r) ==
    /\ free' = free + 1
    /\ cur' = c
    /\ reader' = r
    /\ UNCHANGED line

(* The permit is free again, or the first waiter's task starts with it.    *)
(* `c` and `r` are cur and reader as the rest of the step leaves them.     *)
GivePermit(c, r) ==
    /\ free' = IF line = <<>> THEN free + 1 ELSE free
    /\ line' = IF line = <<>> THEN line ELSE Tail(line)
    /\ cur' = IF line # <<>> /\ Granted[2] = "writer"
              THEN [c EXCEPT ![Granted[1]].build.st = "started"] ELSE c
    /\ reader' = IF line # <<>> /\ Granted[2] = "reader"
                 THEN [r EXCEPT ![Granted[1]] = "running"] ELSE r

(* Mutant: work on demand does not wait for a thread. *)
RunAtOnce(s, k) ==
    /\ cur' = [cur EXCEPT ![s] = [job |-> owed[s], build |-> NewBuild(k, owed[s].n, "started")]]
    /\ UNCHANGED <<free, line>>

(* write_loop of `s` awaits work on an io thread: at once if one is free. *)
RunOrWait(s, k) ==
    IF free > 0
    THEN /\ free' = free - 1
         /\ cur' = [cur EXCEPT ![s] =
                [job |-> owed[s], build |-> NewBuild(k, owed[s].n, "started")]]
         /\ UNCHANGED line
    ELSE /\ cur' = [cur EXCEPT ![s] =
                [job |-> owed[s], build |-> NewBuild(k, owed[s].n, "waiting")]]
         /\ Joins(s, "writer")
         /\ UNCHANGED free

-----------------------------------------------------------------------------
(* Handles are dropped: what is built is freed and its reservation given   *)
(* back, what still runs goes on without a handle.                         *)

BuildsOf(as) == [i \in DOMAIN as |-> as[i].build]

Bytes(bs) == FoldLeft(LAMBDA sum, b : sum + b.res, 0, bs)

(* Mutant: a running build gives its reservation back when its handle goes. *)
DropGivesBackAll(bs) ==
    /\ orphans' = FoldLeft(BagAdd, orphans, SelectSeq(bs, Running))
    /\ used' = used - Bytes(bs)

Drop(bs) ==
    /\ orphans' = FoldLeft(BagAdd, orphans, SelectSeq(bs, Running))
    /\ used' = used - Bytes(SelectSeq(bs, LAMBDA b : ~Running(b)))

-----------------------------------------------------------------------------
(* A client takes a free slot. *)
Connect(s) ==
    /\ writer[s] = "off"
    /\ writer' = [writer EXCEPT ![s] = "loop"]
    /\ reader' = [reader EXCEPT ![s] = "read"]
    /\ req' = [req EXCEPT ![s] = DefaultRequest]
    /\ generation' = [generation EXCEPT ![s] = 0]
    /\ UNCHANGED <<pending, owed, window, cur, ahead, pkg, orphans, used, free, line>>

(* The builds of a session's writer, and all it has on the io threads. *)
Builds(s) == (IF cur[s] = NoBuild THEN <<>> ELSE <<cur[s].build>>) \o BuildsOf(ahead[s])

Tasks(s) ==
    Builds(s) \o
    (IF reader[s] = "running" THEN <<NewBuild("lookup", 0, "started")>> ELSE <<>>)

(* The session ends: both loops and the Prefetcher are dropped.  A waiter  *)
(* leaves the line; work that runs goes on.                                *)
Leave(s) ==
    /\ reader' = [reader EXCEPT ![s] = "off"]
    /\ pending' = [pending EXCEPT ![s] = DefaultRequest]
    /\ writer' = [writer EXCEPT ![s] = "off"]
    /\ owed' = [owed EXCEPT ![s] = NoJob]
    /\ window' = [window EXCEPT ![s] = [first |-> NoJob, count |-> 0]]
    /\ cur' = [cur EXCEPT ![s] = NoBuild]
    /\ ahead' = [ahead EXCEPT ![s] = <<>>]
    /\ pkg' = [pkg EXCEPT ![s] = NoJob]
    /\ line' = SelectSeq(line, LAMBDA w : w[1] # s)
    /\ Drop(Tasks(s))
    /\ UNCHANGED <<req, generation, free>>

(* The connection ends, at any time. *)
Disconnect(s) ==
    /\ writer[s] # "off"
    /\ Leave(s)

-----------------------------------------------------------------------------
(* read_loop *)

Apply(s, r) ==
    /\ req' = [req EXCEPT ![s] = r]
    /\ generation' = [generation EXCEPT ![s] = @ + 1]

RecvBlocks(s, r) ==
    /\ reader[s] = "read"
    /\ generation[s] < MaxRequests[s]
    /\ IF r \notin NeedsIds
       THEN /\ Apply(s, r)
            /\ UNCHANGED <<reader, pending, free, line>>
       ELSE /\ pending' = [pending EXCEPT ![s] = r]
            /\ UNCHANGED <<req, generation>>
            /\ IF free > 0
               THEN /\ free' = free - 1
                    /\ reader' = [reader EXCEPT ![s] = "running"]
                    /\ UNCHANGED line
               ELSE /\ reader' = [reader EXCEPT ![s] = "waiting"]
                    /\ Joins(s, "reader")
                    /\ UNCHANGED free
    /\ UNCHANGED <<writer, owed, window, cur, ahead, pkg, orphans, used>>

(* The ids are read: the request is applied and the thread given back. *)
Lookup(s) ==
    /\ reader[s] = "running"
    /\ Apply(s, pending[s])
    /\ pending' = [pending EXCEPT ![s] = DefaultRequest]
    /\ GivePermit(cur, [reader EXCEPT ![s] = "read"])
    /\ UNCHANGED <<writer, owed, window, ahead, pkg, orphans, used>>

RecvAck(s, n) ==
    /\ reader[s] = "read"
    /\ generation[s] > 0
    /\ req[s].credit + n <= MaxCredit
    /\ req' = [req EXCEPT ![s] = Acked(@, n)]
    /\ UNCHANGED <<generation, reader, pending, writer, owed, window, cur, ahead, pkg, orphans,
                   used, free, line>>

-----------------------------------------------------------------------------
(* write_loop and its Prefetcher *)

WindowOf(r, g) ==
    [first |-> IF Sendable(r) THEN JobOf(r, g) ELSE NoJob, count |-> WindowCount(r)]

(* `Window::job`: only called below the count. *)
JobAt(w, i) == [w.first EXCEPT !.n = @ + i]

(* An iteration: the next job is taken with the window behind it, or the   *)
(* writer goes idle and drops all it built ahead.                          *)
WriteLoop(s) ==
    /\ writer[s] = "loop"
    /\ IF Sendable(req[s])
       THEN /\ owed' = [owed EXCEPT ![s] = JobOf(req[s], generation[s])]
            /\ req' = [req EXCEPT ![s] = Advance(@)]
            /\ window' = [window EXCEPT ![s] = WindowOf(Advance(req[s]), generation[s])]
            /\ writer' = [writer EXCEPT ![s] = "take"]
            /\ UNCHANGED <<ahead, orphans, used>>
       ELSE /\ Drop(BuildsOf(ahead[s]))
            /\ ahead' = [ahead EXCEPT ![s] = <<>>]
            /\ writer' = [writer EXCEPT ![s] = "idle"]
            /\ UNCHANGED <<owed, req, window>>
    /\ UNCHANGED <<generation, reader, pending, cur, pkg, free, line>>

(* The reader's notification. *)
Wake(s) ==
    /\ writer[s] = "idle" /\ Sendable(req[s])
    /\ writer' = [writer EXCEPT ![s] = "loop"]
    /\ UNCHANGED <<req, generation, reader, pending, owed, window, cur, ahead, pkg, orphans,
                   used, free, line>>

(* Mutant: any build ahead of the same block is taken. *)
TakeSameBlock(s) ==
    /\ writer[s] = "take"
    /\ writer' = [writer EXCEPT ![s] = "await"]
    /\ IF ahead[s] # <<>> /\ Head(ahead[s]).job.n = owed[s].n
       THEN /\ cur' = [cur EXCEPT ![s] = Head(ahead[s])]
            /\ ahead' = [ahead EXCEPT ![s] = Tail(@)]
            /\ UNCHANGED <<orphans, used, free, line>>
       ELSE /\ Drop(BuildsOf(ahead[s]))
            /\ ahead' = [ahead EXCEPT ![s] = <<>>]
            /\ RunOrWait(s, "demand")
    /\ UNCHANGED <<req, generation, reader, pending, owed, window, pkg>>

(* `Prefetcher::take` up to its await: the first build ahead if it is for  *)
(* this very job, otherwise everything ahead is dropped and the package is *)
(* built on demand.                                                        *)
Take(s) ==
    /\ writer[s] = "take"
    /\ writer' = [writer EXCEPT ![s] = "await"]
    /\ IF ahead[s] # <<>> /\ Head(ahead[s]).job = owed[s]
       THEN /\ cur' = [cur EXCEPT ![s] = Head(ahead[s])]
            /\ ahead' = [ahead EXCEPT ![s] = Tail(@)]
            /\ UNCHANGED <<orphans, used, free, line>>
       ELSE /\ Drop(BuildsOf(ahead[s]))
            /\ ahead' = [ahead EXCEPT ![s] = <<>>]
            /\ RunOrWait(s, "demand")
    /\ UNCHANGED <<req, generation, reader, pending, owed, window, pkg>>

(* The awaited package is there; what it had reserved is given back, as it *)
(* is the session's own from here on.                                      *)
Built(s) ==
    /\ writer[s] = "await" /\ cur[s].build.st = "built"
    /\ pkg' = [pkg EXCEPT ![s] = cur[s].job]
    /\ used' = used - cur[s].build.res
    /\ cur' = [cur EXCEPT ![s] = NoBuild]
    /\ writer' = [writer EXCEPT ![s] = "schedule"]
    /\ UNCHANGED <<req, generation, reader, pending, owed, window, ahead, orphans, free, line>>

(* The budget could not hold the build ahead: it is built on demand. *)
Refused(s) ==
    /\ writer[s] = "await" /\ cur[s].build.st = "refused"
    /\ RunOrWait(s, "demand")
    /\ UNCHANGED <<req, generation, reader, pending, writer, owed, window, ahead, pkg, orphans,
                   used>>

(* A read or check failed: the connection is dropped. *)
DataError(s) ==
    /\ writer[s] \in {"await", "stream"} /\ cur[s].build.st = "failed"
    /\ Leave(s)

(* How many of the builds ahead are still for the first jobs of window `w`. *)
Keep(as, w) ==
    Max({k \in 0..Min({Len(as), w.count, Depth}) :
            \A i \in 1..k : as[i].job = JobAt(w, i - 1)})

(* Mutant: one build more than --prefetch. *)
RoomForOneMore(kept, w) == w.count > 0 /\ Len(kept) <= Min({w.count, Depth}) /\ free > 0

(* Another build may start. *)
Room(kept, w) == Len(kept) < Min({w.count, Depth}) /\ free > 0

(* `Prefetcher::schedule`, one `try_spawn` at a time: builds that are not  *)
(* for the window are dropped, missing ones started while a thread is free *)
(* at once.  The window is the one taken with the job, however old.        *)
Schedule(s) ==
    LET w == window[s]
        kept == SubSeq(ahead[s], 1, Keep(ahead[s], w))
    IN  /\ writer[s] = "schedule"
        /\ Drop(BuildsOf(SubSeq(ahead[s], Len(kept) + 1, Len(ahead[s]))))
        /\ IF Room(kept, w)
           THEN /\ free' = free - 1
                /\ LET j == JobAt(w, Len(kept))
                   IN  ahead' = [ahead EXCEPT ![s] = Append(kept,
                           [job |-> j, build |-> NewBuild("ahead", j.n, "started")])]
                /\ UNCHANGED writer
           ELSE /\ ahead' = [ahead EXCEPT ![s] = kept]
                /\ writer' = [writer EXCEPT ![s] = "send"]
                /\ UNCHANGED free
        /\ UNCHANGED <<req, generation, reader, pending, owed, window, cur, pkg, line>>

(* The result is written; a streamed payload needs an io thread for each   *)
(* chunk, while the package is held.                                       *)
Send(s) ==
    /\ writer[s] = "send"
    /\ IF owed[s].n \in Streamed
       THEN /\ writer' = [writer EXCEPT ![s] = "stream"]
            /\ RunOrWait(s, "chunk")
            /\ UNCHANGED <<owed, window, pkg>>
       ELSE /\ writer' = [writer EXCEPT ![s] = "loop"]
            /\ owed' = [owed EXCEPT ![s] = NoJob]
            /\ window' = [window EXCEPT ![s] = [first |-> NoJob, count |-> 0]]
            /\ pkg' = [pkg EXCEPT ![s] = NoJob]
            /\ UNCHANGED <<cur, free, line>>
    /\ UNCHANGED <<req, generation, reader, pending, ahead, orphans, used>>

Stream(s) ==
    /\ writer[s] = "stream" /\ cur[s].build.st = "built"
    /\ cur' = [cur EXCEPT ![s] = NoBuild]
    /\ writer' = [writer EXCEPT ![s] = "loop"]
    /\ owed' = [owed EXCEPT ![s] = NoJob]
    /\ window' = [window EXCEPT ![s] = [first |-> NoJob, count |-> 0]]
    /\ pkg' = [pkg EXCEPT ![s] = NoJob]
    /\ UNCHANGED <<req, generation, reader, pending, ahead, orphans, used, free, line>>

-----------------------------------------------------------------------------
(* The io tasks                                                            *)

Fails(b) == [next |-> [b EXCEPT !.st = "failed", !.res = 0], bytes |-> -b.res, done |-> TRUE]

(* `try_reserve`: at once or not at all. *)
Reserve(b) ==
    IF used + Bound[b.n] <= Capacity
    THEN [next |-> [b EXCEPT !.st = "reading", !.res = Bound[b.n]],
          bytes |-> Bound[b.n], done |-> FALSE]
    ELSE [next |-> [b EXCEPT !.st = "refused"], bytes |-> 0, done |-> TRUE]

(* The package is read; the reservation shrinks to what it holds. *)
ReadAhead(b) ==
    [next |-> [b EXCEPT !.st = "built", !.res = Held[b.n]],
     bytes |-> Held[b.n] - Bound[b.n], done |-> TRUE]

(* What may become of running task `b` in its next step, the bytes of the  *)
(* budget it takes (or gives back), and whether its thread is then free.   *)
Outcomes(b) ==
    IF b.kind # "ahead"
    THEN {[next |-> [b EXCEPT !.st = "built"], bytes |-> 0, done |-> TRUE], Fails(b)}
    ELSE IF b.st = "started" THEN {Reserve(b), Fails(b)}
    ELSE {ReadAhead(b), Fails(b)}

Frees(done, c) ==
    IF done THEN GivePermit(c, reader) ELSE cur' = c /\ UNCHANGED <<free, line, reader>>

WriterTask(s) ==
    /\ cur[s] # NoBuild /\ Running(cur[s].build)
    /\ \E o \in Outcomes(cur[s].build) :
          /\ used' = used + o.bytes
          /\ Frees(o.done, [cur EXCEPT ![s].build = o.next])
    /\ UNCHANGED <<req, generation, pending, writer, owed, window, ahead, pkg, orphans>>

AheadTask(s, i) ==
    /\ Running(ahead[s][i].build)
    /\ \E o \in Outcomes(ahead[s][i].build) :
          /\ used' = used + o.bytes
          /\ ahead' = [ahead EXCEPT ![s][i].build = o.next]
          /\ Frees(o.done, cur)
    /\ UNCHANGED <<req, generation, pending, writer, owed, window, pkg, orphans>>

(* The result of a task without a handle is dropped as it returns. *)
OrphanTask(b) ==
    /\ \E o \in Outcomes(b) :
          /\ used' = used + o.bytes - (IF o.done THEN o.next.res ELSE 0)
          /\ orphans' = IF o.done THEN BagRemove(orphans, b)
                        ELSE BagAdd(BagRemove(orphans, b), o.next)
          /\ Frees(o.done, cur)
    /\ UNCHANGED <<req, generation, pending, writer, owed, window, ahead, pkg>>

-----------------------------------------------------------------------------
Client(s) ==
    \/ Connect(s)
    \/ Disconnect(s)
    \/ \E r \in Requests[s] : RecvBlocks(s, r)
    \/ \E n \in Acks : RecvAck(s, n)

Writer(s) ==
    \/ WriteLoop(s)
    \/ Wake(s)
    \/ Take(s)
    \/ Built(s)
    \/ Refused(s)
    \/ DataError(s)
    \/ Schedule(s)
    \/ Send(s)
    \/ Stream(s)

(* The io threads at work for session `s`. *)
IoFor(s) ==
    \/ Lookup(s)
    \/ WriterTask(s)
    \/ \E i \in DOMAIN ahead[s] : AheadTask(s, i)

Orphans == \E b \in BagToSet(orphans) : OrphanTask(b)

Next ==
    \/ \E s \in Sessions : Client(s) \/ Writer(s) \/ IoFor(s)
    \/ Orphans

Spec == Init /\ [][Next]_vars

(* Every task of the runtime is polled when it can go on, and the io       *)
(* threads finish what they run, for each session some task at a time.     *)
Fairness ==
    /\ \A s \in Sessions : WF_vars(Writer(s)) /\ WF_vars(IoFor(s))
    /\ WF_vars(Orphans)

FairSpec == Spec /\ Fairness

-----------------------------------------------------------------------------
SumOver(op(_)) == MapThenSumSet(op, Sessions)

(* The budget counts exactly what is reserved: each reservation is given   *)
(* back once, whoever drops it (the writer, a new request, the end of the  *)
(* session, a task whose handle is gone), and never passes its capacity.   *)
BudgetExact ==
    /\ used = SumOver(LAMBDA s : Bytes(Builds(s))) +
              MapThenSumSet(LAMBDA b : b.res * CopiesIn(b, orphans), BagToSet(orphans))
    /\ used <= Capacity

(* The package written is the one for the job owed: same block, same       *)
(* version and flags, same request, however many requests came while it    *)
(* was built.                                                              *)
RightPackage == \A s \in Sessions : pkg[s] # NoJob => pkg[s] = owed[s]

(* Packages in memory outside the budget. *)
OnDemand(b) == b.kind = "demand" /\ b.st # "waiting"

Unreserved ==
    Cardinality({s \in Sessions : pkg[s] # NoJob}) +
    Cardinality({s \in Sessions : cur[s] # NoBuild /\ OnDemand(cur[s].build)}) +
    BagCardinality([b \in {c \in BagToSet(orphans) : OnDemand(c)} |-> orphans[b]])

(* Outside the budget the server holds one package per session slot, and   *)
(* one per io thread still building for a session that has ended.          *)
MemoryBounded == Unreserved <= Cardinality(Sessions) + IoThreads

(* The package a writer needs arrives: it waits in line for a thread but   *)
(* never for memory, and no other session's builds ahead overtake it.      *)
HeadOfLine ==
    \A s \in Sessions : writer[s] \in {"await", "stream"} ~> writer[s] \notin {"await", "stream"}

(* Memory is accounted for: the budget is exact (Reservation) and what is  *)
(* outside it is bounded (Io::spawn, Prefetcher::take).                    *)
Accounted == TypeOK /\ BudgetExact /\ MemoryBounded
=============================================================================
