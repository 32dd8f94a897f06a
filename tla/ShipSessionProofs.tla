-------------------------- MODULE ShipSessionProofs --------------------------
(***************************************************************************)
(* The two loops of a session, for any requests, any number of messages    *)
(* and any interleaving: they implement the contract of ResultStream, so   *)
(* that what is proved of the contract is proved of them; no wake-up is    *)
(* lost; statuses are answered in order and in time; nothing follows an    *)
(* unfinished result or Close; a request restarts at the lowest position   *)
(* this server does not know.                                              *)
(***************************************************************************)
EXTENDS ShipSession, WellFoundedInduction, TLAPS

-----------------------------------------------------------------------------
(* Induction over the naturals, for sets: the library's theorem takes an   *)
(* operator, a least element of the complement does not.                   *)
LEMMA LeastElement ==
    ASSUME NEW T \in SUBSET Nat, T # {}
    PROVE  \E x \in T : \A y \in T : x <= y
<1>1. PICK x \in T : \A y \in T : ~(<<y, x>> \in OpToRel(<, Nat))
  BY NatLessThanWellFounded, WFMin
<1>2. \A a, b \in Nat : a < b => <<a, b>> \in OpToRel(<, Nat)
  BY DEF OpToRel
<1>3. \A y \in T : ~(y < x) /\ y \in Nat /\ x \in Nat
  BY <1>1, <1>2
<1>4. \A y \in T : x <= y
  BY <1>3
<1> QED
  BY <1>4

LEMMA SetInduction ==
    ASSUME NEW T, 0 \in T, \A n \in Nat : n \in T => n + 1 \in T
    PROVE  Nat \subseteq T
<1> SUFFICES ASSUME NEW m \in Nat, m \notin T PROVE FALSE
  OBVIOUS
<1>1. PICK x \in Nat \ T : \A y \in Nat \ T : x <= y
  BY LeastElement, Zenon
<1>2. x # 0 /\ x - 1 \in Nat
  BY <1>1
<1>3. x - 1 \in T
  BY <1>1, <1>2
<1> QED
  BY <1>1, <1>2, <1>3

-----------------------------------------------------------------------------
(* f is the start after each of the first n positions, as the loop of      *)
(* apply_positions computes it.                                            *)
IsStarts(f, n, start, have) ==
    f = [i \in 0..n |->
            IF i = 0 THEN start
            ELSE IF have[i].num < f[i - 1] /\ ~have[i].same THEN have[i].num
            ELSE f[i - 1]]

LEMMA StartsExist ==
    ASSUME NEW have, NEW start
    PROVE  \A n \in Nat : \E f : IsStarts(f, n, start, have)
<1> DEFINE T == {n \in Nat : \E f : IsStarts(f, n, start, have)}
<1>1. 0 \in T
  <2> DEFINE f == [i \in 0..0 |-> start]
  <2>1. IsStarts(f, 0, start, have)
    BY DEF IsStarts
  <2> QED
    BY <2>1
<1>2. ASSUME NEW n \in Nat, n \in T PROVE n + 1 \in T
  <2>1. PICK f : IsStarts(f, n, start, have)
    BY <1>2
  <2> DEFINE g == [i \in 0..n + 1 |->
                      IF i <= n THEN f[i]
                      ELSE IF have[i].num < f[i - 1] /\ ~have[i].same THEN have[i].num
                      ELSE f[i - 1]]
  <2>2. IsStarts(g, n + 1, start, have)
    BY <2>1 DEF IsStarts
  <2> QED
    BY <2>2
<1> HIDE DEF T
<1>3. Nat \subseteq T
  BY <1>1, <1>2, SetInduction
<1> QED
  BY <1>3 DEF T

LEMMA StartsAre ==
    ASSUME NEW have \in Seq(Position), NEW start
    PROVE  IsStarts(Starts(start, have), Len(have), start, have)
<1>1. Len(have) \in Nat
  OBVIOUS
<1>2. Starts(start, have) = CHOOSE f : IsStarts(f, Len(have), start, have)
  BY DEF Starts, IsStarts
<1> QED
  BY <1>1, <1>2, StartsExist

(* What apply_positions leaves is the start asked for or an unknown        *)
(* position, and no unknown position is below it.                          *)
LEMMA PositionsApplied ==
    ASSUME NEW have \in Seq(Position), NEW start \in U32
    PROVE  LET s == ApplyPositions(start, have)
           IN  /\ s \in U32 /\ s <= start
               /\ s = start \/ \E j \in 1..Len(have) : s = have[j].num /\ ~have[j].same
               /\ \A j \in 1..Len(have) : ~have[j].same => s <= have[j].num
<1> DEFINE f == Starts(start, have)
           N == Len(have)
           Good(n) == /\ f[n] \in U32 /\ f[n] <= start
                      /\ f[n] = start \/ \E j \in 1..n : f[n] = have[j].num /\ ~have[j].same
                      /\ \A j \in 1..n : ~have[j].same => f[n] <= have[j].num
           T == {n \in Nat : n <= N => Good(n)}
<1>0. U32 \subseteq Nat
  BY SpringAssumption DEF U32
<1>1. N \in Nat /\ IsStarts(f, N, start, have)
  BY StartsAre
<1>2. f[0] = start
  BY <1>1 DEF IsStarts
<1>3. \A i \in 1..N : f[i] = IF have[i].num < f[i - 1] /\ ~have[i].same THEN have[i].num ELSE f[i - 1]
  BY <1>1 DEF IsStarts
<1>4. \A i \in 1..N : have[i].num \in U32 /\ have[i].same \in BOOLEAN
  <2>1. \A i \in 1..N : have[i] \in Position
    OBVIOUS
  <2> QED
    BY <2>1 DEF Position
<1> HIDE DEF f, N
<1>5. 0 \in T
  BY <1>0, <1>2
<1>6. ASSUME NEW n \in Nat, n \in T PROVE n + 1 \in T
  <2> SUFFICES ASSUME n + 1 <= N PROVE Good(n + 1)
    OBVIOUS
  <2>1. Good(n) /\ n + 1 \in 1..N
    BY <1>1, <1>6
  <2>2. f[n + 1] = IF have[n + 1].num < f[n] /\ ~have[n + 1].same THEN have[n + 1].num ELSE f[n]
    BY <1>3, <2>1
  <2>3. \A j \in 1..n + 1 : j \in 1..n \/ j = n + 1
    OBVIOUS
  <2>4. f[n + 1] \in U32 /\ f[n + 1] <= start /\ f[n + 1] <= f[n]
    <3>1. f[n] \in Nat /\ start \in Nat /\ have[n + 1].num \in Nat /\ f[n] \in U32 /\ have[n + 1].num \in U32
      BY <1>0, <1>4, <2>1, Zenon
    <3>2. f[n] <= start
      BY <2>1
    <3>3. CASE have[n + 1].num < f[n] /\ ~have[n + 1].same
      <4>1. f[n + 1] = have[n + 1].num
        BY <2>2, <3>3
      <4> QED
        BY <3>1, <3>2, <3>3, <4>1
    <3>4. CASE ~(have[n + 1].num < f[n] /\ ~have[n + 1].same)
      <4>1. f[n + 1] = f[n]
        BY <2>2, <3>4
      <4> QED
        BY <3>1, <3>2, <4>1
    <3> QED
      BY <3>3, <3>4
  <2>5. f[n + 1] = start \/ \E j \in 1..n + 1 : f[n + 1] = have[j].num /\ ~have[j].same
    BY <1>1, <2>1, <2>2
  <2>6. \A j \in 1..n + 1 : ~have[j].same => f[n + 1] <= have[j].num
    <3> SUFFICES ASSUME NEW j \in 1..n + 1, ~have[j].same PROVE f[n + 1] <= have[j].num
      OBVIOUS
    <3>1. have[j].num \in Nat /\ f[n + 1] \in Nat /\ f[n] \in Nat
      <4>1. j \in 1..N
        BY <1>1, <2>1
      <4> QED
        BY <1>0, <1>4, <2>1, <2>4, <4>1
    <3>2. CASE j = n + 1
      BY <3>1, <3>2, <2>2
    <3>3. CASE j \in 1..n
      BY <3>1, <3>3, <2>1, <2>4
    <3> QED
      BY <2>3, <3>2, <3>3
  <2> QED
    BY <2>4, <2>5, <2>6
<1> HIDE DEF T
<1>7. N \in T
  BY <1>1, <1>5, <1>6, SetInduction
<1> QED
  BY <1>1, <1>7 DEF T, N, f, ApplyPositions
-----------------------------------------------------------------------------
(* The inductive invariant.  First what the observers hold. *)
AskRecord == [ask : Asks, start : U32, granted : Nat]
PollRecord == [version : Versions, at : Nat]

ObserversOK ==
    /\ asked \in Seq(AskRecord) /\ generation = Len(asked)
    /\ polled \in Seq(PollRecord)
    /\ stoppedAt \in Nat /\ stale \in Nat

(* Nothing of a session has begun before its ABI message is out. *)
Opening ==
    writer = "abi" =>
        /\ out = <<>> /\ wire = <<>> /\ asked = <<>> /\ stale = 0
        /\ req = DefaultRequest /\ generation = 0 /\ reading = NoJob

(* Where write_loop is tells what it holds, and what the last message is. *)
WriterHolds ==
    /\ writer = "statuses" <=> statuses # <<>>
    /\ writer \in {"abi", "loop", "idle", "close", "done"} => job = NoJob
    /\ writer \in {"build", "send"} => job # NoJob
    /\ writer \in {"close", "done"} => stop
    /\ writer # "abi" => out # <<>>
    /\ out # <<>> =>
          /\ out[Len(out)].kind = "close" => writer = "done"
          /\ out[Len(out)].kind = "result" /\ ~out[Len(out)].whole => writer = "send"

(* The statuses received are those answered, those taken and those queued. *)
StatusOrder ==
    /\ Len(polled) = Len(answered) + Len(statuses) + Len(statusQ)
    /\ \A i \in 1..Len(answered) : polled[i].version = answered[i]
    /\ \A i \in 1..Len(statuses) : polled[Len(answered) + i].version = statuses[i]
    /\ \A i \in 1..Len(statusQ) : polled[Len(answered) + Len(statuses) + i].version = statusQ[i]

(* With a job in hand no result was written since the statuses queued were *)
(* received, nor since the server was stopped.                             *)
Prompt ==
    /\ \A i \in 1..Len(polled) :
          /\ i > Len(answered) => Len(wire) <= polled[i].at + 1
          /\ i > Len(answered) + Len(statuses) /\ writer \in {"statuses", "build", "send"} =>
                Len(wire) <= polled[i].at
    /\ stop => Len(wire) <= stoppedAt + 1
    /\ stop /\ writer \in {"statuses", "build", "send"} => Len(wire) <= stoppedAt

(* Only the last message may be unfinished, or Close. *)
OutSound ==
    /\ \A i \in 1..Len(out) - 1 : out[i].kind # "close" /\ (out[i].kind = "result" => out[i].whole)
    /\ \A i \in 1..Len(out) : out[i].kind = "close" => stop

IInv ==
    /\ TypeOK /\ ObserversOK /\ Opening /\ WriterHolds
    /\ StatusOrder /\ Prompt /\ OutSound
    /\ NoLostWakeup /\ RestartsAtLowestUnknown
-----------------------------------------------------------------------------
LEMMA AskTypes ==
    ASSUME NEW ask \in Asks
    PROVE  ask.req \in Request /\ ask.have \in Seq(Position) /\ ask.req.start \in U32 /\ ask.req.start \in Nat /\ ask.req.credit \in Nat
<1>1. ask \in [req : Request, have : Seq(Position)]
  BY SessionAssumption
<1>2. ask.req \in Request /\ ask.have \in Seq(Position)
  BY <1>1
<1> QED
  BY <1>2, SpringAssumption DEF Request, U32

LEMMA DefaultType == DefaultRequest \in Request
  BY SpringAssumption DEF DefaultRequest, Request, U32

LEMMA AdvancedType ==
    ASSUME NEW r \in Request, NEW g \in Nat, Sendable(r)
    PROVE  Advance(r) \in Request /\ JobOf(r, g) \in Job /\ JobOf(r, g) # NoJob
<1>1. r.start \in U32 /\ r.end \in U32 /\ r.credit \in U32 /\ r.want \in Wants
  BY DEF Request
<1>2. r.start + 1 \in U32 /\ r.credit - 1 \in U32
  BY <1>1, SpringAssumption DEF Sendable, U32
<1>3. JobOf(r, g) \in Job
  BY <1>1 DEF JobOf, Job
<1> QED
  BY <1>1, <1>2, <1>3, NoJobAssumption DEF Advance, Request

LEMMA AckedTypes ==
    ASSUME NEW r \in Request, NEW n \in U32
    PROVE  Acked(r, n) \in Request
  BY SpringAssumption DEF Acked, WrappingAdd, Request, U32

(* What restarts a request is the lowest of its start and the positions    *)
(* unknown, whether read or not: none unread is below the start.           *)
Lowest(ask) ==
    Min({ask.req.start} \cup {ask.have[j].num : j \in {k \in DOMAIN ask.have : ~ask.have[k].same}})

LEMMA LowestIs ==
    ASSUME NEW ask \in Asks, NEW s \in U32, s <= ask.req.start,
           s = ask.req.start \/ \E j \in 1..Len(ask.have) : s = ask.have[j].num /\ ~ask.have[j].same,
           \A j \in 1..Len(ask.have) : ~ask.have[j].same => s <= ask.have[j].num
    PROVE  s = Lowest(ask)
<1> DEFINE S == {ask.req.start} \cup {ask.have[j].num : j \in {k \in DOMAIN ask.have : ~ask.have[k].same}}
<1>0. U32 \subseteq Nat
  BY SpringAssumption DEF U32
<1>1. ask.req.start \in Nat /\ DOMAIN ask.have = 1..Len(ask.have)
  BY AskTypes
<1>2. \A j \in 1..Len(ask.have) : ask.have[j].num \in Nat
  <2>1. \A j \in 1..Len(ask.have) : ask.have[j] \in Position
    BY AskTypes
  <2> QED
    BY <1>0, <2>1, Zenon DEF Position
<1>3. s \in S /\ \A y \in S : s <= y
  BY <1>1
<1>4. S \subseteq Nat /\ s \in Nat
  BY <1>0, <1>1, <1>2
<1> HIDE DEF S
<1>5. \A x \in S : (\A y \in S : x <= y) => x = s
  <2> SUFFICES ASSUME NEW x \in S, \A y \in S : x <= y PROVE x = s
    OBVIOUS
  <2>1. x <= s /\ s <= x /\ x \in Nat
    BY <1>3, <1>4
  <2> QED
    BY <1>4, <2>1
<1>6. s = CHOOSE x \in S : \A y \in S : x <= y
  BY <1>3, <1>5
<1> QED
  BY <1>6 DEF S, Lowest, Min

LEMMA NotRead ==
    ASSUME NEW ask \in Asks, ~ReadsIds(ask)
    PROVE  ask.req.start = Lowest(ask)
<1>1. U32 \subseteq Nat
  BY SpringAssumption DEF U32
<1>2. ask.req.start \in U32 /\ DOMAIN ask.have = 1..Len(ask.have) /\ \A j \in 1..Len(ask.have) : ask.have[j] \in Position
  BY AskTypes
<1>3. \A j \in 1..Len(ask.have) : ask.have[j].num \in Nat /\ ~(ask.have[j].num < ask.req.start)
  BY <1>1, <1>2, Zenon DEF ReadsIds, Position
<1>4. ask.req.start \in Nat /\ ask.req.start <= ask.req.start
  BY AskTypes
<1>5. \A j \in 1..Len(ask.have) : ask.req.start <= ask.have[j].num
  BY <1>3, <1>4
<1> QED
  BY <1>2, <1>4, <1>5, LowestIs

LEMMA WereRead ==
    ASSUME NEW ask \in Asks
    PROVE  ApplyPositions(ask.req.start, ask.have) \in U32 /\ ApplyPositions(ask.req.start, ask.have) = Lowest(ask)
  BY AskTypes, PositionsApplied, LowestIs
-----------------------------------------------------------------------------
LEMMA InitInv == Init => IInv
<1> SUFFICES ASSUME Init PROVE IInv
  OBVIOUS
<1>1. TypeOK
  <2>1. req \in Request /\ generation \in Nat /\ msgs \in 0..MaxMsgs
    BY DefaultType, SessionAssumption DEF Init
  <2>2. statusQ \in Seq(Versions) /\ Len(statusQ) <= MaxQueuedStatus /\ statuses \in Seq(Versions)
    BY SessionAssumption DEF Init
  <2>3. out \in Seq(Msg) /\ wire \in Seq(Job) /\ answered \in Seq(Versions)
    BY DEF Init
  <2> QED
    BY <2>1, <2>2, <2>3, Zenon DEF Init, TypeOK
<1>o. ObserversOK
  BY DEF Init, ObserversOK
<1>2. Opening /\ WriterHolds /\ OutSound /\ StatusOrder /\ Prompt
  BY DEF Init, Opening, WriterHolds, OutSound, StatusOrder, Prompt
<1>3. NoLostWakeup /\ RestartsAtLowestUnknown
  BY DEF Init, NoLostWakeup, RestartsAtLowestUnknown
<1> QED
  BY <1>1, <1>o, <1>2, <1>3 DEF IInv

Ends == {"NotOpened", "ClientClosed", "Disconnected", "ReadFailed", "BadRequest", "StatusFlood",
         "SendFailed", "DataError", "Shutdown"}

(* However the session ends, it leaves all else where it stands. *)
LEMMA EndsInv ==
    ASSUME IInv, end' \in Ends, msgs' \in 0..MaxMsgs,
           UNCHANGED <<state, wake, reader, writer, statuses, job, stop, sent, stale, observers>>
    PROVE  IInv'
<1> USE DEF IInv, state, reader, sent, observers
<1>1. TypeOK' /\ ObserversOK'
  BY DEF TypeOK, ObserversOK, Ends
<1>2. Opening' /\ WriterHolds' /\ OutSound' /\ StatusOrder' /\ Prompt'
  BY DEF Opening, WriterHolds, OutSound, StatusOrder, Prompt
<1>3. NoLostWakeup' /\ RestartsAtLowestUnknown'
  BY DEF Ends, NoLostWakeup, RestartsAtLowestUnknown
<1> QED
  BY <1>1, <1>2, <1>3

LEMMA EndWithInv ==
    ASSUME IInv, NEW why \in Ends, EndWith(why)
    PROVE  IInv'
<1>1. msgs' \in 0..MaxMsgs
  BY DEF EndWith, IInv, TypeOK
<1> QED
  BY <1>1, EndsInv DEF EndWith

LEMMA SendAbiInv == IInv /\ SendAbi => IInv'
<1> SUFFICES ASSUME IInv, SendAbi PROVE IInv'
  OBVIOUS
<1> USE DEF IInv, SendAbi, state, reader, sent, observers
<1>0. out' = <<Message("abi")>> /\ Message("abi") \in Msg /\ Message("abi").kind = "abi"
  BY DEF Message, Msg
<1>1. TypeOK' /\ ObserversOK'
  BY <1>0 DEF TypeOK, ObserversOK
<1>2. Opening' /\ WriterHolds' /\ OutSound'
  BY <1>0 DEF Opening, WriterHolds, OutSound
<1>3. StatusOrder' /\ Prompt'
  BY DEF StatusOrder, Prompt
<1>4. NoLostWakeup' /\ RestartsAtLowestUnknown'
  BY DEF NoLostWakeup, RestartsAtLowestUnknown
<1> QED
  BY <1>1, <1>2, <1>3, <1>4

LEMMA RecvStatusInv ==
    ASSUME IInv, NEW v \in Versions, RecvStatus(v)
    PROVE  IInv'
<1> USE DEF IInv, RecvStatus, Receive, Reads, state, reader, sent, observers
<1>0. msgs' \in 0..MaxMsgs
  BY SessionAssumption DEF TypeOK
<1>1. CASE Len(statusQ) >= MaxQueuedStatus
  <2>1. end' \in Ends
    BY <1>1 DEF ReaderEnd, Ends
  <2> QED
    BY <1>0, <1>1, <2>1, EndsInv
<1>2. CASE ~(Len(statusQ) >= MaxQueuedStatus)
  <2> DEFINE p == [version |-> v, at |-> Len(wire)]
  <2>1. /\ statusQ' = Append(statusQ, v) /\ wake' = TRUE /\ polled' = Append(polled, p) /\ end' = end
        /\ UNCHANGED <<req, generation, reader, writer, statuses, job, stop, sent, stale, asked, stoppedAt>>
    BY <1>2
  <2>2. p \in PollRecord /\ p.version = v /\ p.at = Len(wire)
    BY DEF TypeOK, PollRecord
  <2> HIDE DEF p
  <2>3. /\ Len(statusQ') = Len(statusQ) + 1 /\ statusQ'[Len(statusQ) + 1] = v
        /\ \A i \in 1..Len(statusQ) : statusQ'[i] = statusQ[i]
        /\ statusQ' \in Seq(Versions)
    BY <2>1 DEF TypeOK
  <2>4. /\ Len(polled') = Len(polled) + 1 /\ polled'[Len(polled) + 1] = p
        /\ \A i \in 1..Len(polled) : polled'[i] = polled[i]
        /\ polled' \in Seq(PollRecord)
    BY <2>1, <2>2 DEF ObserversOK
  <2>5. TypeOK' /\ ObserversOK'
    BY <1>0, <1>2, <2>1, <2>3, <2>4, SessionAssumption DEF TypeOK, ObserversOK
  <2>6. Opening' /\ WriterHolds' /\ OutSound'
    BY <2>1 DEF Opening, WriterHolds, OutSound
  <2>7. Len(polled) \in Nat /\ Len(answered) \in Nat /\ Len(statuses) \in Nat /\ Len(statusQ) \in Nat /\ Len(wire) \in Nat
    BY DEF TypeOK, ObserversOK
  <2>8. StatusOrder'
    <3>1. answered' = answered /\ statuses' = statuses
      BY <2>1
    <3>2. Len(polled') = Len(answered) + Len(statuses) + Len(statusQ')
      BY <2>3, <2>4, <2>7 DEF StatusOrder
    <3>3. \A i \in 1..Len(answered) : polled'[i].version = answered[i]
      BY <2>4, <2>7 DEF StatusOrder
    <3>4. ASSUME NEW i \in 1..Len(statuses) PROVE polled'[Len(answered) + i].version = statuses[i]
      <4>1. Len(answered) + i \in 1..Len(polled)
        BY <2>7 DEF StatusOrder
      <4>2. polled[Len(answered) + i].version = statuses[i]
        BY DEF StatusOrder
      <4> QED
        BY <2>4, <4>1, <4>2
    <3>5. ASSUME NEW i \in 1..Len(statusQ') PROVE polled'[Len(answered) + Len(statuses) + i].version = statusQ'[i]
      <4>1. CASE i \in 1..Len(statusQ)
        <5>1. Len(answered) + Len(statuses) + i \in 1..Len(polled)
          BY <4>1, <2>7 DEF StatusOrder
        <5>2. polled[Len(answered) + Len(statuses) + i].version = statusQ[i]
          BY <4>1 DEF StatusOrder
        <5> QED
          BY <4>1, <5>1, <5>2, <2>3, <2>4
      <4>2. CASE i = Len(statusQ) + 1
        BY <4>2, <2>2, <2>3, <2>4, <2>7 DEF StatusOrder
      <4> QED
        BY <4>1, <4>2, <2>3, <2>7
    <3> QED
      BY <3>1, <3>2, <3>3, <3>4, <3>5 DEF StatusOrder
  <2>9. Prompt'
    BY <2>1, <2>2, <2>3, <2>4, <2>7 DEF Prompt
  <2>10. NoLostWakeup' /\ RestartsAtLowestUnknown'
    BY <2>1 DEF NoLostWakeup, RestartsAtLowestUnknown
  <2> QED
    BY <2>5, <2>6, <2>8, <2>9, <2>10
<1> QED
  BY <1>1, <1>2

(* A request applied: the record of it is as RestartsAtLowestUnknown says. *)
LEMMA ApplyInv ==
    ASSUME IInv, writer # "abi", NEW ask \in Asks, NEW s \in U32, s = Lowest(ask), Apply(ask, s),
           reading' \in {reading, NoJob}, msgs' \in 0..MaxMsgs,
           UNCHANGED <<end, statusQ, closing, writer, statuses, job, stop, sent, polled, stoppedAt>>
    PROVE  IInv'
<1> USE DEF IInv, sent
<1> DEFINE a == [ask |-> ask, start |-> s, granted |-> ask.req.credit]
<1>1. a \in AskRecord /\ a.ask = ask /\ a.start = s
  BY AskTypes DEF AskRecord
<1>2. asked' = Append(asked, a)
  BY DEF Apply
<1> HIDE DEF a
<1>3. /\ Len(asked') = Len(asked) + 1 /\ asked'[Len(asked) + 1] = a
      /\ \A i \in 1..Len(asked) : asked'[i] = asked[i]
      /\ asked' \in Seq(AskRecord)
  BY <1>1, <1>2 DEF ObserversOK
<1>4. req' \in Request
  BY AskTypes DEF Apply, Request
<1>5. TypeOK' /\ ObserversOK'
  BY <1>3, <1>4 DEF TypeOK, ObserversOK, Apply
<1>6. Opening' /\ WriterHolds' /\ OutSound' /\ StatusOrder' /\ Prompt'
  BY Zenon DEF Opening, WriterHolds, OutSound, StatusOrder, Prompt
<1>7. NoLostWakeup'
  BY DEF NoLostWakeup, Apply
<1>8. RestartsAtLowestUnknown'
  <2> SUFFICES ASSUME NEW i \in DOMAIN asked' PROVE asked'[i].start = Lowest(asked'[i].ask)
    BY DEF RestartsAtLowestUnknown, Lowest
  <2>1. i \in 1..Len(asked) \/ i = Len(asked) + 1
    BY <1>3 DEF ObserversOK
  <2>2. \A j \in 1..Len(asked) : asked[j].start = Lowest(asked[j].ask)
    BY SMTT(30) DEF RestartsAtLowestUnknown, Lowest, ObserversOK
  <2> QED
    BY <1>1, <1>3, <2>1, <2>2
<1> QED
  BY <1>5, <1>6, <1>7, <1>8

LEMMA RecvBlocksInv ==
    ASSUME IInv, NEW ask \in Asks, RecvBlocks(ask)
    PROVE  IInv'
<1> USE DEF RecvBlocks, Receive, Reads
<1>0. msgs' \in 0..MaxMsgs
  BY SessionAssumption DEF IInv, TypeOK
<1>1. CASE ReadsIds(ask)
  <2> USE DEF IInv, sent
  <2>1. TypeOK' /\ ObserversOK'
    BY <1>0, <1>1 DEF TypeOK, ObserversOK
  <2>2. Opening' /\ WriterHolds' /\ OutSound' /\ StatusOrder' /\ Prompt'
    BY <1>1 DEF Opening, WriterHolds, OutSound, StatusOrder, Prompt
  <2>3. NoLostWakeup' /\ RestartsAtLowestUnknown'
    BY <1>1 DEF NoLostWakeup, RestartsAtLowestUnknown
  <2> QED
    BY <2>1, <2>2, <2>3
<1>2. CASE ~ReadsIds(ask)
  BY <1>0, <1>2, AskTypes, NotRead, ApplyInv
<1> QED
  BY <1>1, <1>2

LEMMA PositionsReadInv == IInv /\ PositionsRead => IInv'
<1> SUFFICES ASSUME IInv, PositionsRead PROVE IInv'
  OBVIOUS
<1>1. reading \in Asks /\ msgs' \in 0..MaxMsgs /\ writer # "abi"
  BY DEF PositionsRead, IInv, TypeOK, Opening
<1> QED
  BY <1>1, WereRead, ApplyInv DEF PositionsRead
(* An acknowledgement adds to what the current request was granted. *)
LEMMA Granted ==
    ASSUME ObserversOK, NEW n \in U32,
           asked' = IF generation > 0 THEN [asked EXCEPT ![generation].granted = @ + n] ELSE asked
    PROVE  /\ asked' \in Seq(AskRecord) /\ Len(asked') = Len(asked)
           /\ \A i \in 1..Len(asked) : /\ asked'[i].ask = asked[i].ask /\ asked'[i].start = asked[i].start
                                       /\ asked'[i].granted = IF i = generation THEN asked[i].granted + n ELSE asked[i].granted
<1>1. CASE generation = 0
  <2>1. asked' = asked /\ \A i \in 1..Len(asked) : i # generation
    BY <1>1 DEF ObserversOK
  <2> QED
    BY <2>1 DEF ObserversOK
<1>2. CASE generation > 0
  <2> DEFINE a == asked[generation]
             b == [ask |-> a.ask, start |-> a.start, granted |-> a.granted + n]
  <2>1. generation \in 1..Len(asked) /\ a \in AskRecord /\ n \in Nat
    BY <1>2, SpringAssumption DEF ObserversOK, U32
  <2>2. b = [a EXCEPT !.granted = @ + n] /\ b \in AskRecord
    BY <2>1 DEF AskRecord
  <2>3. asked' = [asked EXCEPT ![generation] = b]
    BY <1>2, <2>2, Zenon
  <2>4. b.ask = a.ask /\ b.start = a.start /\ b.granted = a.granted + n
    OBVIOUS
  <2> HIDE DEF b
  <2>5. asked' \in Seq(AskRecord) /\ Len(asked') = Len(asked)
    BY <2>1, <2>2, <2>3 DEF ObserversOK
  <2>6. \A i \in 1..Len(asked) : asked'[i] = IF i = generation THEN b ELSE asked[i]
    BY <2>1, <2>3 DEF ObserversOK
  <2> QED
    BY <2>4, <2>5, <2>6
<1> QED
  BY <1>1, <1>2 DEF ObserversOK

LEMMA RecvAckInv ==
    ASSUME IInv, NEW n \in Acks, RecvAck(n)
    PROVE  IInv'
<1> USE DEF IInv, RecvAck, Receive, Reads, state, reader, sent, observers
<1>0. n \in U32 /\ msgs' \in 0..MaxMsgs
  BY SessionAssumption DEF TypeOK
<1>1. /\ asked' \in Seq(AskRecord) /\ Len(asked') = Len(asked)
      /\ \A i \in 1..Len(asked) : asked'[i].ask = asked[i].ask /\ asked'[i].start = asked[i].start
  BY <1>0, Granted
<1>2. req' \in Request
  BY <1>0, AckedTypes DEF TypeOK
<1>3. TypeOK' /\ ObserversOK'
  BY <1>0, <1>1, <1>2 DEF TypeOK, ObserversOK
<1>4. Opening' /\ WriterHolds' /\ OutSound' /\ StatusOrder' /\ Prompt'
  BY DEF Opening, WriterHolds, OutSound, StatusOrder, Prompt
<1>5. NoLostWakeup'
  BY DEF NoLostWakeup
<1>6. RestartsAtLowestUnknown'
  <2>1. DOMAIN asked' = 1..Len(asked) /\ DOMAIN asked = 1..Len(asked)
    BY <1>1 DEF ObserversOK
  <2> QED
    BY <1>1, <2>1 DEF RestartsAtLowestUnknown
<1> QED
  BY <1>3, <1>4, <1>5, <1>6

LEMMA RecvCloseInv == IInv /\ RecvClose => IInv'
<1> SUFFICES ASSUME IInv, RecvClose PROVE IInv'
  OBVIOUS
<1> USE DEF IInv, RecvClose, Receive, Reads, state, reader, sent, observers
<1>1. TypeOK' /\ ObserversOK'
  BY SessionAssumption DEF TypeOK, ObserversOK
<1>2. Opening' /\ WriterHolds' /\ OutSound' /\ StatusOrder' /\ Prompt'
  BY DEF Opening, WriterHolds, OutSound, StatusOrder, Prompt
<1>3. NoLostWakeup' /\ RestartsAtLowestUnknown'
  BY DEF NoLostWakeup, RestartsAtLowestUnknown
<1> QED
  BY <1>1, <1>2, <1>3

(* write_loop takes the statuses and the job: those queued are now taken, *)
(* and it goes to sleep only when there is nothing to take.               *)
LEMMA WriteLoopInv == IInv /\ WriteLoop => IInv'
<1> SUFFICES ASSUME IInv, WriteLoop PROVE IInv'
  OBVIOUS
<1> USE DEF IInv, state, reader, sent, observers
<1>0. /\ writer = "loop" /\ end = "open" /\ job = NoJob /\ statuses = <<>>
      /\ UNCHANGED <<end, generation, wake, reader, stop, sent, msgs, stale, observers>>
  BY DEF WriteLoop, WriterHolds
<1>1. CASE stop
  <2>1. writer' = "close" /\ UNCHANGED <<req, statusQ, statuses, job>>
    BY <1>1 DEF WriteLoop
  <2>2. TypeOK' /\ ObserversOK'
    BY <1>0, <2>1 DEF TypeOK, ObserversOK
  <2>3. Opening' /\ WriterHolds' /\ OutSound' /\ StatusOrder' /\ Prompt'
    BY <1>0, <1>1, <2>1 DEF Opening, WriterHolds, OutSound, StatusOrder, Prompt
  <2>4. NoLostWakeup' /\ RestartsAtLowestUnknown'
    BY <1>0, <2>1 DEF NoLostWakeup, RestartsAtLowestUnknown
  <2> QED
    BY <2>2, <2>3, <2>4
<1>2. CASE ~stop
  <2>1. /\ statuses' = statusQ /\ statusQ' = <<>>
        /\ writer' = IF statusQ # <<>> THEN "statuses" ELSE IF Sendable(req) THEN "build" ELSE "idle"
    BY <1>2 DEF WriteLoop
  <2>2. IF Sendable(req) THEN job' = JobOf(req, generation) /\ req' = Advance(req) ELSE UNCHANGED <<job, req>>
    BY <1>2 DEF WriteLoop
  <2>3. req' \in Request /\ job' \in Job \cup {NoJob} /\ (Sendable(req) => job' # NoJob) /\ (~Sendable(req) => job' = NoJob)
    BY <1>0, <2>2, AdvancedType DEF TypeOK
  <2>4. TypeOK' /\ ObserversOK'
    BY <1>0, <2>1, <2>3, SessionAssumption DEF TypeOK, ObserversOK
  <2>5. Opening' /\ WriterHolds' /\ OutSound'
    BY <1>0, <1>2, <2>1, <2>3 DEF Opening, WriterHolds, OutSound
  <2>6. Len(statuses) = 0 /\ Len(statusQ') = 0 /\ Len(answered) \in Nat /\ Len(statusQ) \in Nat
    BY <1>0, <2>1 DEF TypeOK
  <2>7. StatusOrder'
    <3>1. Len(polled) = Len(answered) + Len(statuses') + Len(statusQ')
      BY <2>1, <2>6 DEF StatusOrder
    <3>2. ASSUME NEW i \in 1..Len(statuses') PROVE polled[Len(answered) + i].version = statuses'[i]
      <4>1. polled[Len(answered) + Len(statuses) + i].version = statusQ[i]
        BY <2>1 DEF StatusOrder
      <4>2. Len(answered) + Len(statuses) + i = Len(answered) + i
        BY <2>6
      <4> QED
        BY <2>1, <4>1, <4>2
    <3>3. \A i \in 1..Len(answered) : polled[i].version = answered[i]
      BY DEF StatusOrder
    <3>4. answered' = answered /\ polled' = polled
      BY <1>0
    <3>5. 1..Len(statusQ') = {}
      BY <2>6
    <3> HIDE <1>0, <2>1, <2>2
    <3> QED
      BY <3>1, <3>2, <3>3, <3>4, <3>5, Zenon DEF StatusOrder
  <2>8. Prompt'
    <3>1. \A i \in 1..Len(polled) : ~(i > Len(answered) + Len(statuses'))
      BY <2>1, <2>6 DEF StatusOrder
    <3> QED
      BY <1>0, <1>2, <3>1 DEF Prompt
  <2>9. NoLostWakeup' /\ RestartsAtLowestUnknown'
    BY <1>0, <2>1, <2>2 DEF NoLostWakeup, RestartsAtLowestUnknown
  <2> QED
    BY <2>4, <2>5, <2>7, <2>8, <2>9
<1> QED
  BY <1>1, <1>2

LEMMA IdleInv == IInv /\ Idle => IInv'
<1> SUFFICES ASSUME IInv, Idle PROVE IInv'
  OBVIOUS
<1> USE DEF IInv, Idle, state, reader, sent, observers
<1>1. TypeOK' /\ ObserversOK'
  BY Zenon DEF TypeOK, ObserversOK
<1>2. Opening' /\ WriterHolds' /\ OutSound'
  BY DEF Opening, WriterHolds, OutSound
<1>3. StatusOrder' /\ Prompt'
  BY DEF StatusOrder, Prompt
<1>4. NoLostWakeup' /\ RestartsAtLowestUnknown'
  BY DEF NoLostWakeup, RestartsAtLowestUnknown
<1> QED
  BY <1>1, <1>2, <1>3, <1>4
(* A message is written after one that is whole and not Close. *)
LEMMA Appended ==
    ASSUME out \in Seq(Msg), OutSound, stop' = stop, NEW m \in Msg, out' = Append(out, m), m.kind = "close" => stop,
           out # <<>> => /\ out[Len(out)].kind # "close"
                         /\ out[Len(out)].kind = "result" => out[Len(out)].whole
    PROVE  /\ out' \in Seq(Msg) /\ out' # <<>> /\ out'[Len(out')] = m
           /\ OutSound'
<1>1. /\ out' \in Seq(Msg) /\ Len(out') = Len(out) + 1 /\ out'[Len(out) + 1] = m /\ Len(out) \in Nat
      /\ \A i \in 1..Len(out) : out'[i] = out[i]
  OBVIOUS
<1>2. \A i \in 1..Len(out) : out[i].kind # "close" /\ (out[i].kind = "result" => out[i].whole)
  <2> TAKE i \in 1..Len(out)
  <2>1. CASE i = Len(out)
    BY <1>1, <2>1
  <2>2. CASE i \in 1..Len(out) - 1
    BY <2>2 DEF OutSound
  <2> QED
    BY <1>1, <2>1, <2>2
<1>3. \A i \in 1..Len(out') - 1 : i \in 1..Len(out)
  BY <1>1
<1>4. \A i \in 1..Len(out') : out'[i].kind = "close" => stop
  <2> TAKE i \in 1..Len(out')
  <2>1. i \in 1..Len(out) \/ i = Len(out) + 1
    BY <1>1
  <2> QED
    BY <1>1, <1>2, <2>1
<1>5. OutSound'
  BY <1>1, <1>2, <1>3, <1>4 DEF OutSound
<1>6. out' # <<>>
  <2>1. Len(out') # 0
    BY <1>1
  <2> QED
    BY <2>1
<1> QED
  BY <1>1, <1>5, <1>6

(* A status answered leaves those taken for those answered. *)
LEMMA WriteStatusInv == IInv /\ WriteStatus => IInv'
<1> SUFFICES ASSUME IInv, WriteStatus PROVE IInv'
  OBVIOUS
<1> USE DEF IInv, state, reader, sent, observers
<1>0. /\ end = "open" /\ writer = "statuses" /\ statuses # <<>>
      /\ out' = Append(out, Message("status"))
      /\ answered' = Append(answered, Head(statuses)) /\ statuses' = Tail(statuses)
      /\ writer' = IF Len(statuses) > 1 THEN writer ELSE IF job # NoJob THEN "build" ELSE "loop"
      /\ UNCHANGED <<end, state, wake, reader, job, stop, wire, msgs, stale, observers>>
  BY DEF WriteStatus, Writes, WriterHolds
<1>1. /\ statuses \in Seq(Versions) /\ Len(statuses) \in Nat \ {0} /\ answered \in Seq(Versions)
      /\ out \in Seq(Msg) /\ Message("status") \in Msg /\ Head(statuses) = statuses[1]
  BY <1>0 DEF TypeOK, Message, Msg
<1>2. /\ statuses' \in Seq(Versions) /\ Len(statuses') = Len(statuses) - 1
      /\ \A i \in 1..Len(statuses') : statuses'[i] = statuses[i + 1]
  BY <1>0, <1>1
<1>3. /\ answered' \in Seq(Versions) /\ Len(answered') = Len(answered) + 1
      /\ answered'[Len(answered) + 1] = statuses[1]
      /\ \A i \in 1..Len(answered) : answered'[i] = answered[i]
  BY <1>0, <1>1
<1>4. /\ out' \in Seq(Msg) /\ Len(out') = Len(out) + 1 /\ out'[Len(out) + 1] = Message("status")
      /\ \A i \in 1..Len(out) : out'[i] = out[i]
  BY <1>0, <1>1
<1>5. TypeOK' /\ ObserversOK'
  BY <1>0, <1>2, <1>3, <1>4 DEF TypeOK, ObserversOK
<1>6. statuses' = <<>> <=> Len(statuses) = 1
  <2>1. statuses' = <<>> <=> Len(statuses') = 0
    BY <1>2
  <2> QED
    BY <1>1, <1>2, <2>1
<1>7. Opening' /\ WriterHolds'
  <2>1. out' # <<>> /\ out'[Len(out')].kind = "status"
    BY <1>1, <1>4 DEF Message
  <2>2. writer' \in {"statuses", "build", "loop"} /\ (writer' = "statuses" <=> statuses' # <<>>)
    BY <1>0, <1>1, <1>6
  <2> QED
    BY <1>0, <2>1, <2>2 DEF Opening, WriterHolds
<1>8. OutSound'
  BY <1>0, <1>1, Appended DEF WriterHolds, Message
<1>9. StatusOrder'
  <2>0. Len(answered) \in Nat /\ Len(statusQ) \in Nat /\ statusQ' = statusQ /\ polled' = polled
    BY <1>0, <1>1 DEF TypeOK
  <2>1. Len(polled') = Len(answered') + Len(statuses') + Len(statusQ')
    <3>1. Len(polled) = Len(answered) + Len(statuses) + Len(statusQ)
      BY DEF StatusOrder
    <3>2. Len(polled') = Len(polled) /\ Len(statusQ') = Len(statusQ)
      BY <2>0
    <3> QED
      BY <1>1, <1>2, <1>3, <2>0, <3>1, <3>2
  <2>2. ASSUME NEW i \in 1..Len(answered') PROVE polled'[i].version = answered'[i]
    <3>1. CASE i = Len(answered) + 1
      <4>1. polled[Len(answered) + 1].version = statuses[1]
        BY <1>1 DEF StatusOrder
      <4> QED
        BY <1>3, <2>0, <3>1, <4>1
    <3>2. CASE i \in 1..Len(answered)
      BY <1>3, <2>0, <3>2 DEF StatusOrder
    <3> QED
      BY <1>3, <2>0, <3>1, <3>2
  <2>3. ASSUME NEW i \in 1..Len(statuses') PROVE polled'[Len(answered') + i].version = statuses'[i]
    <3>1. i + 1 \in 1..Len(statuses) /\ Len(answered') + i = Len(answered) + (i + 1)
      BY <1>1, <1>2, <1>3, <2>0
    <3>2. polled[Len(answered) + (i + 1)].version = statuses[i + 1]
      BY <3>1 DEF StatusOrder
    <3> QED
      BY <1>2, <2>0, <3>1, <3>2
  <2>4. ASSUME NEW i \in 1..Len(statusQ') PROVE polled'[Len(answered') + Len(statuses') + i].version = statusQ'[i]
    <3>1. Len(answered') + Len(statuses') + i = Len(answered) + Len(statuses) + i
      BY <1>1, <1>2, <1>3, <2>0
    <3>2. polled[Len(answered) + Len(statuses) + i].version = statusQ[i]
      BY <2>0 DEF StatusOrder
    <3> QED
      BY <2>0, <3>1, <3>2
  <2> QED
    BY <2>1, <2>2, <2>3, <2>4 DEF StatusOrder
<1>10. Prompt'
  <2>1. Len(answered) \in Nat /\ Len(answered') + Len(statuses') = Len(answered) + Len(statuses)
    BY <1>1, <1>2, <1>3
  <2>2. Len(answered') = Len(answered) + 1 /\ UNCHANGED <<wire, polled, stop, stoppedAt>> /\ writer = "statuses"
    BY <1>0, <1>3
  <2> QED
    BY <2>1, <2>2 DEF Prompt
<1>11. NoLostWakeup' /\ RestartsAtLowestUnknown'
  <2>1. writer' # "idle" /\ asked' = asked
    BY <1>0
  <2> QED
    BY <2>1 DEF NoLostWakeup, RestartsAtLowestUnknown
<1> QED
  BY <1>5, <1>7, <1>8, <1>9, <1>10, <1>11

LEMMA BuildInv == IInv /\ Build => IInv'
<1> SUFFICES ASSUME IInv, Build PROVE IInv'
  OBVIOUS
<1>1. CASE end' = "DataError" /\ writer' = writer
  <2>1. /\ end' \in Ends /\ msgs' \in 0..MaxMsgs
        /\ UNCHANGED <<state, wake, reader, writer, statuses, job, stop, sent, stale, observers>>
    BY <1>1 DEF Build, IInv, TypeOK, Ends
  <2> QED
    BY <2>1, EndsInv
<1>2. CASE writer' = "send" /\ end' = end
  <2> USE <1>2 DEF IInv, Build, state, reader, sent, observers
  <2>1. TypeOK' /\ ObserversOK'
    BY DEF TypeOK, ObserversOK
  <2>2. Opening' /\ WriterHolds' /\ OutSound'
    BY DEF Opening, WriterHolds, OutSound
  <2>3. StatusOrder' /\ Prompt'
    BY DEF StatusOrder, Prompt
  <2>4. NoLostWakeup' /\ RestartsAtLowestUnknown'
    BY DEF NoLostWakeup, RestartsAtLowestUnknown
  <2> QED
    BY <2>1, <2>2, <2>3, <2>4
<1> QED
  BY <1>1, <1>2 DEF Build
LEMMA FirstFrameInv == IInv /\ FirstFrame => IInv'
<1> SUFFICES ASSUME IInv, FirstFrame PROVE IInv'
  OBVIOUS
<1> USE DEF IInv, state, reader, sent, observers
<1> DEFINE m == [kind |-> "result", whole |-> FALSE]
<1>0. /\ end = "open" /\ writer = "send" /\ out' = Append(out, m)
      /\ UNCHANGED <<end, state, wake, reader, writer, statuses, job, stop, wire, answered, msgs, stale, observers>>
      /\ out[Len(out)].kind = "result" => out[Len(out)].whole
  BY DEF FirstFrame, Writes
<1>1. m \in Msg /\ m.kind = "result" /\ ~m.whole
  BY DEF Msg
<1> HIDE DEF m
<1>2. out' \in Seq(Msg) /\ out' # <<>> /\ out'[Len(out')] = m /\ OutSound'
  BY <1>0, <1>1, Appended DEF TypeOK, WriterHolds
<1>3. TypeOK' /\ ObserversOK'
  BY <1>0, <1>2 DEF TypeOK, ObserversOK
<1>4. Opening' /\ WriterHolds'
  BY <1>0, <1>1, <1>2 DEF Opening, WriterHolds
<1>5. StatusOrder' /\ Prompt'
  BY <1>0 DEF StatusOrder, Prompt
<1>6. NoLostWakeup' /\ RestartsAtLowestUnknown'
  BY <1>0 DEF NoLostWakeup, RestartsAtLowestUnknown
<1> QED
  BY <1>2, <1>3, <1>4, <1>5, <1>6

(* A result written whole: no status waited for another one meanwhile. *)
LEMMA LastFrameInv == IInv /\ LastFrame => IInv'
<1> SUFFICES ASSUME IInv, LastFrame PROVE IInv'
  OBVIOUS
<1> USE DEF IInv, state, reader, sent, observers
<1>0. /\ end = "open" /\ writer = "send" /\ out[Len(out)].kind = "result"
      /\ out' = [out EXCEPT ![Len(out)].whole = TRUE] /\ wire' = Append(wire, job)
      /\ stale' = IF job.gen < generation THEN stale + 1 ELSE stale
      /\ job' = NoJob /\ writer' = "loop"
      /\ UNCHANGED <<end, state, wake, reader, statuses, stop, answered, msgs, observers>>
  BY DEF LastFrame, Writes, Midway
<1>1. job \in Job /\ out # <<>> /\ statuses = <<>> /\ out \in Seq(Msg)
  BY <1>0 DEF TypeOK, WriterHolds
<1>2. Len(out) \in 1..Len(out) /\ Len(out) \in Nat
  <2>1. Len(out) # 0 /\ Len(out) \in Nat
    BY <1>1
  <2> QED
    BY <2>1
<1>3. [out[Len(out)] EXCEPT !.whole = TRUE] \in Msg /\ [out[Len(out)] EXCEPT !.whole = TRUE].kind = "result"
      /\ [out[Len(out)] EXCEPT !.whole = TRUE].whole
  <2>1. out[Len(out)] \in Msg
    BY <1>1, <1>2
  <2> QED
    BY <1>0, <2>1, Zenon DEF Msg
<1>4. out' = [out EXCEPT ![Len(out)] = [out[Len(out)] EXCEPT !.whole = TRUE]]
  BY <1>0
<1>5. /\ out' \in Seq(Msg) /\ Len(out') = Len(out) /\ out'[Len(out)].kind = "result" /\ out'[Len(out)].whole
      /\ \A i \in 1..Len(out) : i # Len(out) => out'[i] = out[i]
  BY <1>1, <1>2, <1>3, <1>4
<1>6. out' # <<>>
  BY <1>2, <1>5
<1>7. wire' \in Seq(Job) /\ Len(wire') = Len(wire) + 1 /\ Len(wire) \in Nat
  BY <1>0, <1>1 DEF TypeOK
<1>8. stale' \in Nat
  BY <1>0 DEF ObserversOK
<1>9. TypeOK' /\ ObserversOK'
  BY <1>0, <1>5, <1>7, <1>8 DEF TypeOK, ObserversOK
<1>10. Opening' /\ WriterHolds'
  BY <1>0, <1>1, <1>5, <1>6 DEF Opening, WriterHolds
<1>11. OutSound'
  <2>1. \A i \in 1..Len(out) : i # Len(out) => i \in 1..Len(out) - 1
    BY <1>2
  <2>2. \A i \in 1..Len(out) : out'[i].kind = "close" => stop
    BY <1>5 DEF OutSound
  <2>3. \A i \in 1..Len(out) - 1 : i \in 1..Len(out) /\ i # Len(out)
    BY <1>2
  <2>4. \A i \in 1..Len(out) - 1 : out'[i].kind # "close" /\ (out'[i].kind = "result" => out'[i].whole)
    BY <1>5, <2>3, Zenon DEF OutSound
  <2> QED
    BY <1>0, <1>5, <2>2, <2>4 DEF OutSound
<1>12. StatusOrder'
  BY <1>0 DEF StatusOrder
<1>13. Prompt'
  <2>1. Len(statuses) = 0 /\ Len(answered) \in Nat
    BY <1>1 DEF TypeOK
  <2>2. \A i \in 1..Len(polled) : i > Len(answered) => Len(wire) <= polled[i].at
    BY <1>0, <2>1 DEF Prompt
  <2>3. \A i \in 1..Len(polled) : polled[i] \in PollRecord
    BY DEF ObserversOK
  <2>4. \A i \in 1..Len(polled) : i > Len(answered) => Len(wire') <= polled[i].at + 1
    BY <1>7, <2>2, <2>3 DEF PollRecord
  <2>5. stop => Len(wire') <= stoppedAt + 1
    BY <1>0, <1>7 DEF Prompt, ObserversOK
  <2> QED
    BY <1>0, <2>4, <2>5 DEF Prompt
<1>14. NoLostWakeup' /\ RestartsAtLowestUnknown'
  BY <1>0 DEF NoLostWakeup, RestartsAtLowestUnknown
<1> QED
  BY <1>9, <1>10, <1>11, <1>12, <1>13, <1>14

LEMMA CloseAwayInv == IInv /\ CloseAway => IInv'
<1> SUFFICES ASSUME IInv, CloseAway PROVE IInv'
  OBVIOUS
<1> USE DEF IInv, state, reader, sent, observers
<1>0. /\ end = "open" /\ writer = "close" /\ writer' = "done" /\ out # <<>> /\ stop
      /\ UNCHANGED <<end, state, wake, reader, statuses, job, stop, wire, answered, msgs, stale, observers>>
      /\ out' = Append(out, Message("close")) \/ out' = out
  BY DEF CloseAway, WriterHolds
<1>1. out' \in Seq(Msg) /\ out' # <<>> /\ OutSound' /\ (out'[Len(out')].kind = "result" => out'[Len(out')].whole)
  <2>1. CASE out' = Append(out, Message("close"))
    <3>1. Message("close") \in Msg /\ Message("close").kind = "close"
      BY DEF Message, Msg
    <3> QED
      BY <1>0, <2>1, <3>1, Appended DEF TypeOK, WriterHolds
  <2>2. CASE out' = out
    BY <1>0, <2>2 DEF TypeOK, WriterHolds, OutSound
  <2> QED
    BY <1>0, <2>1, <2>2
<1>2. TypeOK' /\ ObserversOK'
  BY <1>0, <1>1 DEF TypeOK, ObserversOK
<1>3. Opening' /\ WriterHolds'
  BY <1>0, <1>1 DEF Opening, WriterHolds
<1>4. StatusOrder' /\ Prompt'
  BY <1>0 DEF StatusOrder, Prompt
<1>5. NoLostWakeup' /\ RestartsAtLowestUnknown'
  BY <1>0 DEF NoLostWakeup, RestartsAtLowestUnknown
<1> QED
  BY <1>1, <1>2, <1>3, <1>4, <1>5

LEMMA StopInv == IInv /\ Stop => IInv'
<1> SUFFICES ASSUME IInv, Stop PROVE IInv'
  OBVIOUS
<1> USE DEF IInv, Stop, state, reader, sent, observers
<1>0. Len(wire) \in Nat
  BY DEF TypeOK
<1>1. TypeOK' /\ ObserversOK'
  BY <1>0 DEF TypeOK, ObserversOK
<1>2. Opening' /\ WriterHolds' /\ OutSound'
  BY DEF Opening, WriterHolds, OutSound
<1>3. StatusOrder' /\ Prompt'
  BY <1>0 DEF StatusOrder, Prompt
<1>4. NoLostWakeup' /\ RestartsAtLowestUnknown'
  BY DEF NoLostWakeup, RestartsAtLowestUnknown
<1> QED
  BY <1>1, <1>2, <1>3, <1>4
-----------------------------------------------------------------------------
LEMMA ReaderEnds ==
    ASSUME NEW why \in Ends
    PROVE  ReaderEnd(why) \in Ends
  BY DEF ReaderEnd, Ends

LEMMA ReaderInv == IInv /\ (Reader \/ ReaderGoesOn) => IInv'
<1> SUFFICES ASSUME IInv, Reader \/ ReaderGoesOn PROVE IInv'
  OBVIOUS
<1>1. ASSUME NEW v \in Versions, RecvStatus(v) PROVE IInv'
  BY <1>1, RecvStatusInv
<1>2. ASSUME NEW ask \in Asks, RecvBlocks(ask) PROVE IInv'
  BY <1>2, RecvBlocksInv
<1>3. ASSUME NEW n \in Acks, RecvAck(n) PROVE IInv'
  BY <1>3, RecvAckInv
<1>4. CASE RecvClose
  BY <1>4, RecvCloseInv
<1>5. CASE ReadEnds
  <2>1. PICK why \in {"BadRequest", "ReadFailed", "Disconnected"} : EndWith(ReaderEnd(why))
    BY <1>5 DEF ReadEnds
  <2>2. why \in Ends
    BY DEF Ends
  <2> QED
    BY <2>1, <2>2, ReaderEnds, EndWithInv, Zenon
<1>6. CASE PositionsRead
  BY <1>6, PositionsReadInv
<1>7. CASE PositionsFail
  <2>1. "DataError" \in Ends
    BY DEF Ends
  <2> QED
    BY <1>7, <2>1, ReaderEnds, EndWithInv DEF PositionsFail
<1>8. CASE CloseReplied
  <2>1. PICK why \in {"ClientClosed", "ReadFailed"} : EndWith(ReaderEnd(why))
    BY <1>8 DEF CloseReplied
  <2>2. why \in Ends
    BY DEF Ends
  <2> QED
    BY <2>1, <2>2, ReaderEnds, EndWithInv, Zenon
<1> QED
  BY <1>1, <1>2, <1>3, <1>4, <1>5, <1>6, <1>7, <1>8 DEF Reader, ReaderGoesOn

LEMMA WriterInv == IInv /\ Writer => IInv'
<1> SUFFICES ASSUME IInv, Writer PROVE IInv'
  OBVIOUS
<1>1. CASE StreamFails
  <2>1. EndWith("DataError") /\ "DataError" \in Ends
    BY <1>1 DEF StreamFails, Ends
  <2> QED
    BY <2>1, EndWithInv
<1>2. CASE SendFails
  <2>1. EndWith(IF writer = "abi" THEN "NotOpened" ELSE "SendFailed")
        /\ (IF writer = "abi" THEN "NotOpened" ELSE "SendFailed") \in Ends
    BY <1>2 DEF SendFails, Ends
  <2> QED
    BY <2>1, EndWithInv
<1>3. CASE CloseWaited
  <2>1. EndWith("Shutdown") /\ "Shutdown" \in Ends
    BY <1>3 DEF CloseWaited, Ends
  <2> QED
    BY <2>1, EndWithInv
<1> QED
  BY <1>1, <1>2, <1>3, SendAbiInv, WriteLoopInv, IdleInv, WriteStatusInv, BuildInv, FirstFrameInv, LastFrameInv,
     CloseAwayInv DEF Writer

LEMMA StepInv == IInv /\ [Next]_vars => IInv'
<1> SUFFICES ASSUME IInv, [Next]_vars PROVE IInv'
  OBVIOUS
<1>1. CASE UNCHANGED vars
  <2> USE <1>1 DEF vars, IInv, state, reader, sent, observers
  <2>1. TypeOK' /\ ObserversOK'
    BY DEF TypeOK, ObserversOK
  <2>2. Opening' /\ WriterHolds' /\ OutSound'
    BY DEF Opening, WriterHolds, OutSound
  <2>3. StatusOrder' /\ Prompt'
    BY DEF StatusOrder, Prompt
  <2>4. NoLostWakeup' /\ RestartsAtLowestUnknown'
    BY DEF NoLostWakeup, RestartsAtLowestUnknown
  <2> QED
    BY <2>1, <2>2, <2>3, <2>4
<1>2. CASE Next
  BY <1>1, <1>2, ReaderInv, WriterInv, StopInv DEF Next, Ended
<1> QED
  BY <1>1, <1>2

(* What read_loop and write_loop keep, step by step, of one connection. *)
THEOREM Invariance == Spec => []IInv
  BY InitInv, StepInv, PTL DEF Spec

(* No wake-up is lost: whatever read_loop applies between write_loop's look *)
(* at the state and its `notified()`, the writer does not sleep through it. *)
THEOREM Wakeup == Spec => []NoLostWakeup
<1>1. IInv => NoLostWakeup
  BY DEF IInv
<1> QED
  BY <1>1, Invariance, PTL

(* have_positions: `blocks` restarts a request at the lowest position this *)
(* server does not know the same way, for any positions in any order.      *)
THEOREM Restarts == Spec => []RestartsAtLowestUnknown
<1>1. IInv => RestartsAtLowestUnknown
  BY DEF IInv
<1> QED
  BY <1>1, Invariance, PTL

LEMMA StatusesAre == IInv => StatusesServed
<1> SUFFICES ASSUME IInv PROVE StatusesServed
  OBVIOUS
<1> USE DEF IInv
<1> DEFINE f == [i \in DOMAIN polled |-> polled[i].version]
           g == answered \o statuses \o statusQ
<1>1. /\ answered \in Seq(Versions) /\ statuses \in Seq(Versions) /\ statusQ \in Seq(Versions)
      /\ Len(answered) \in Nat /\ Len(statuses) \in Nat /\ Len(statusQ) \in Nat
  BY DEF TypeOK
<1>2. DOMAIN polled = 1..Len(polled) /\ Len(polled) = Len(answered) + Len(statuses) + Len(statusQ)
  BY DEF ObserversOK, StatusOrder
<1>3. /\ g \in Seq(Versions) /\ Len(g) = Len(polled)
      /\ \A i \in 1..Len(g) : g[i] = IF i <= Len(answered) THEN answered[i]
                                     ELSE IF i <= Len(answered) + Len(statuses) THEN statuses[i - Len(answered)]
                                     ELSE statusQ[i - Len(answered) - Len(statuses)]
  BY <1>1, <1>2
<1>4. ASSUME NEW i \in 1..Len(polled) PROVE polled[i].version = g[i]
  <2> HIDE DEF g
  <2>1. CASE i \in 1..Len(answered)
    <3>1. polled[i].version = answered[i]
      BY <2>1 DEF StatusOrder
    <3>2. g[i] = answered[i]
      BY <1>1, <1>3, <2>1
    <3> QED
      BY <3>1, <3>2
  <2>2. CASE i - Len(answered) \in 1..Len(statuses)
    <3>1. polled[Len(answered) + (i - Len(answered))].version = statuses[i - Len(answered)]
      BY <2>2 DEF StatusOrder
    <3>2. Len(answered) + (i - Len(answered)) = i
      BY <1>1
    <3>3. g[i] = statuses[i - Len(answered)]
      BY <1>1, <1>3, <2>2
    <3> QED
      BY <3>1, <3>2, <3>3
  <2>3. CASE i - Len(answered) - Len(statuses) \in 1..Len(statusQ)
    <3> DEFINE k == i - Len(answered) - Len(statuses)
    <3>1. polled[Len(answered) + Len(statuses) + k].version = statusQ[k]
      BY <2>3 DEF StatusOrder
    <3>2. Len(answered) + Len(statuses) + k = i
      BY <1>1
    <3>3. g[i] = statusQ[k]
      BY <1>1, <1>3, <2>3
    <3> QED
      BY <3>1, <3>2, <3>3
  <2> QED
    BY <1>1, <1>2, <2>1, <2>2, <2>3
<1>5. f = g
  <2> HIDE DEF g
  <2>1. g \in Seq(Versions) /\ Len(g) = Len(polled)
    BY <1>3
  <2>2. DOMAIN g = 1..Len(polled) /\ g = [i \in DOMAIN g |-> g[i]]
    BY <2>1
  <2> QED
    BY <1>2, <1>4, <2>2
<1>6. \A i \in DOMAIN polled : i > Len(answered) => Len(wire) - polled[i].at <= 1
  <2>1. Len(wire) \in Nat /\ \A i \in 1..Len(polled) : polled[i] \in PollRecord
    BY DEF TypeOK, ObserversOK
  <2> QED
    BY <1>2, <2>1 DEF Prompt, PollRecord
<1> QED
  BY <1>5, <1>6 DEF StatusesServed

(* Every status request is answered with its own version and in order, the *)
(* queue holds no more than MAX_QUEUED_STATUS, a request waits for one     *)
(* result at most, and Close goes out between two messages, at shutdown    *)
(* only and after one result at most.                                      *)
THEOREM Messages == Spec => []MessagesSound
<1>1. IInv => MessagesSound
  <2> SUFFICES ASSUME IInv PROVE MessagesSound
    OBVIOUS
  <2>1. DOMAIN out = 1..Len(out) /\ Len(wire) \in Nat /\ stoppedAt \in Nat
    BY DEF IInv, TypeOK, ObserversOK
  <2>2. ClosesBetweenMessages
    BY <2>1 DEF ClosesBetweenMessages, IInv, OutSound, Prompt
  <2> QED
    BY <2>2, StatusesAre DEF MessagesSound, IInv
<1> QED
  BY <1>1, Invariance, PTL
-----------------------------------------------------------------------------
(* The refinement: the session implements the contract of its results.  A  *)
(* session is alive from its ABI message to its end.                       *)
Alive == end = "open" /\ writer # "abi"

LEMMA AbsIs ==
    ASSUME ObserversOK
    PROVE  /\ DOMAIN asked = 1..Len(asked) /\ DOMAIN AskedAbs = 1..Len(asked)
           /\ \A i \in 1..Len(asked) :
                 AskedAbs[i] = [start |-> asked[i].start, end |-> asked[i].ask.req.end,
                                want |-> asked[i].ask.req.want, granted |-> asked[i].granted]
<1>1. DOMAIN asked = 1..Len(asked)
  BY DEF ObserversOK
<1> QED
  BY <1>1 DEF AskedAbs

LEMMA AbsSeq ==
    ASSUME ObserversOK
    PROVE  AskedAbs \in Seq(Contract!Asked) /\ Len(AskedAbs) = Len(asked)
<1>1. \A i \in 1..Len(asked) : AskedAbs[i] \in Contract!Asked
  <2> TAKE i \in 1..Len(asked)
  <2>1. asked[i] \in AskRecord
    BY DEF ObserversOK
  <2>2. asked[i].ask \in Asks /\ asked[i].start \in U32 /\ asked[i].granted \in Nat
    BY <2>1 DEF AskRecord
  <2>3. asked[i].ask.req \in Request
    BY <2>2, AskTypes
  <2>4. asked[i].ask.req.end \in U32 /\ asked[i].ask.req.want \in Wants
    BY <2>3 DEF Request
  <2> QED
    BY <2>2, <2>4, AbsIs DEF Contract!Asked, Contract!U32, U32
<1>2. Len(asked) \in Nat
  BY DEF ObserversOK
<1>3. AskedAbs = [i \in 1..Len(asked) |-> AskedAbs[i]]
  BY AbsIs DEF AskedAbs
<1> QED
  BY <1>1, <1>2, <1>3

LEMMA AppendIs ==
    ASSUME NEW S, NEW q \in Seq(S), NEW e \in S
    PROVE  Append(q, e) = [i \in 1..Len(q) + 1 |-> IF i = Len(q) + 1 THEN e ELSE q[i]]
<1> DEFINE p == Append(q, e)
<1>1. p \in Seq(S) /\ Len(p) = Len(q) + 1 /\ Len(q) \in Nat
  OBVIOUS
<1>2. \A i \in 1..Len(q) + 1 : p[i] = IF i = Len(q) + 1 THEN e ELSE q[i]
  OBVIOUS
<1> HIDE DEF p
<1>3. DOMAIN p = 1..Len(q) + 1 /\ p = [i \in DOMAIN p |-> p[i]]
  BY <1>1
<1>4. p = [i \in 1..Len(q) + 1 |-> IF i = Len(q) + 1 THEN e ELSE q[i]]
  BY <1>2, <1>3
<1> QED
  BY <1>4 DEF p

(* A step that leaves what the contract sees. *)
LEMMA Unseen ==
    ASSUME UNCHANGED <<req, generation, job, wire, asked, stale>>, Alive' = Alive
    PROVE  UNCHANGED Contract!vars
<1>1. AskedAbs' = AskedAbs
  BY DEF AskedAbs
<1> QED
  BY <1>1 DEF Alive, Contract!vars

LEMMA Initially == Init => Contract!Init
<1> SUFFICES ASSUME Init PROVE Contract!Init
  OBVIOUS
<1>1. AskedAbs = <<>>
  BY DEF Init, AskedAbs
<1> QED
  BY <1>1 DEF Init, Contract!Init, Contract!Fresh, Contract!DefaultRequest, DefaultRequest

LEMMA EndsStep ==
    ASSUME end = "open", end' \in Ends, UNCHANGED <<writer, req, generation, job, wire, asked, stale>>
    PROVE  [Contract!Next]_Contract!vars
<1>1. AskedAbs' = AskedAbs
  BY DEF AskedAbs
<1>2. end' # "open"
  BY DEF Ends
<1>3. CASE writer = "abi"
  BY <1>3, Unseen DEF Alive
<1>4. CASE writer # "abi"
  <2>1. Contract!End
    BY <1>1, <1>2, <1>4 DEF Contract!End
  <2> QED
    BY <2>1 DEF Contract!Next
<1> QED
  BY <1>3, <1>4

LEMMA EndWithStep ==
    ASSUME end = "open", NEW why \in Ends, EndWith(why)
    PROVE  [Contract!Next]_Contract!vars
  BY EndsStep DEF EndWith, state, sent, observers

LEMMA ApplyStep ==
    ASSUME IInv, Alive, NEW ask \in Asks, NEW s \in U32, Apply(ask, s),
           UNCHANGED <<end, writer, job, wire>>
    PROVE  Contract!Next
<1> DEFINE r == [ask.req EXCEPT !.start = s]
           a == [ask |-> ask, start |-> s, granted |-> ask.req.credit]
<1>1. ask.req \in Request
  BY AskTypes
<1>2. r \in Request /\ r.start = s /\ r.end = ask.req.end /\ r.want = ask.req.want /\ r.credit = ask.req.credit
  BY <1>1 DEF Request
<1>3. req' = r /\ generation' = generation + 1 /\ stale' = 0 /\ asked' = Append(asked, a)
  BY DEF Apply
<1>4. a.start = r.start /\ a.ask.req.end = r.end /\ a.ask.req.want = r.want /\ a.granted = r.credit
  BY <1>2
<1> HIDE DEF r, a
<1>5. asked \in Seq(AskRecord)
  BY DEF IInv, ObserversOK
<1>6. /\ DOMAIN asked' = 1..Len(asked) + 1 /\ asked'[Len(asked) + 1] = a /\ Len(asked) \in Nat
      /\ \A i \in 1..Len(asked) : asked'[i] = asked[i]
  BY <1>3, <1>5
<1>7. AskedAbs' = Append(AskedAbs, Contract!AskedOf(r))
  <2> DEFINE b == Contract!AskedOf(r)
             A == AskedAbs
  <2>1. A \in Seq(Contract!Asked) /\ Len(A) = Len(asked) /\ \A i \in 1..Len(asked) :
                 A[i] = [start |-> asked[i].start, end |-> asked[i].ask.req.end,
                         want |-> asked[i].ask.req.want, granted |-> asked[i].granted]
    BY AbsSeq, AbsIs DEF IInv
  <2>2. AskedAbs' = [i \in 1..Len(asked) + 1 |->
                        [start |-> asked'[i].start, end |-> asked'[i].ask.req.end,
                         want |-> asked'[i].ask.req.want, granted |-> asked'[i].granted]]
    BY <1>6 DEF AskedAbs
  <2>3. b = [start |-> a.start, end |-> a.ask.req.end, want |-> a.ask.req.want, granted |-> a.granted]
    BY <1>4 DEF Contract!AskedOf
  <2>b. b \in Contract!Asked
    BY <1>2, AskTypes, SpringAssumption
       DEF Contract!AskedOf, Contract!Asked, Contract!U32, U32, Request
  <2> HIDE DEF b, A
  <2>4. Append(A, b) = [i \in 1..Len(asked) + 1 |-> IF i = Len(asked) + 1 THEN b ELSE A[i]]
    BY <2>1, <2>b, AppendIs
  <2>5. \A i \in 1..Len(asked) + 1 : i \in 1..Len(asked) \/ i = Len(asked) + 1
    BY <1>6
  <2>6. ASSUME NEW i \in 1..Len(asked) + 1
        PROVE  (IF i = Len(asked) + 1 THEN b ELSE A[i]) =
                 [start |-> asked'[i].start, end |-> asked'[i].ask.req.end,
                  want |-> asked'[i].ask.req.want, granted |-> asked'[i].granted]
    <3>1. CASE i = Len(asked) + 1
      BY <1>6, <2>3, <3>1
    <3>2. CASE i \in 1..Len(asked)
      BY <1>6, <2>1, <3>2
    <3> QED
      BY <2>5, <3>1, <3>2
  <2>7. AskedAbs' = Append(A, b)
    BY <2>2, <2>4, <2>6
  <2> QED
    BY <2>7 DEF A, b
<1>8. Contract!Blocks(r)
  BY <1>3, <1>7 DEF Contract!Blocks, Alive
<1> QED
  BY <1>2, <1>8 DEF Contract!Next, Contract!Request, Request, Contract!U32, U32
LEMMA AckStep ==
    ASSUME IInv, Alive, NEW n \in U32, req' = Acked(req, n),
           asked' = IF generation > 0 THEN [asked EXCEPT ![generation].granted = @ + n] ELSE asked,
           UNCHANGED <<end, writer, generation, job, wire, stale>>
    PROVE  Contract!Next
<1> DEFINE Rec(a) == [start |-> a.start, end |-> a.ask.req.end, want |-> a.ask.req.want, granted |-> a.granted]
           A == AskedAbs
           B == [A EXCEPT ![generation].granted = @ + n]
<1>o. ObserversOK
  BY DEF IInv
<1>1. /\ DOMAIN A = 1..Len(asked) /\ \A i \in 1..Len(asked) : A[i] = Rec(asked[i])
  BY <1>o, AbsIs
<1>2. /\ Len(asked') = Len(asked) /\ DOMAIN asked' = 1..Len(asked)
      /\ \A i \in 1..Len(asked) : /\ asked'[i].ask = asked[i].ask /\ asked'[i].start = asked[i].start
                                  /\ asked'[i].granted = IF i = generation THEN asked[i].granted + n ELSE asked[i].granted
  BY <1>o, Granted
<1>3. AskedAbs' = [i \in 1..Len(asked) |-> Rec(asked'[i])]
  BY <1>2 DEF AskedAbs
<1>4. AskedAbs' = IF generation > 0 THEN B ELSE A
  <2>1. CASE generation = 0
    <3>1. asked' = asked
      BY <2>1
    <3> QED
      BY <2>1, <3>1 DEF AskedAbs
  <2>2. CASE generation > 0
    <3>1. generation \in 1..Len(asked)
      BY <1>o, <2>2 DEF ObserversOK
    <3>2. B = [i \in 1..Len(asked) |-> IF i = generation THEN [A[i] EXCEPT !.granted = @ + n] ELSE A[i]]
      BY <1>1, <3>1, Zenon
    <3>3. ASSUME NEW i \in 1..Len(asked)
          PROVE  Rec(asked'[i]) = IF i = generation THEN [A[i] EXCEPT !.granted = @ + n] ELSE A[i]
      <4>1. CASE i = generation
        BY <1>1, <1>2, <4>1
      <4>2. CASE i # generation
        BY <1>1, <1>2, <4>2
      <4> QED
        BY <4>1, <4>2
    <3> HIDE DEF A, B, Rec
    <3> QED
      BY <1>3, <2>2, <3>2, <3>3, Zenon
  <2> QED
    BY <1>o, <2>1, <2>2 DEF ObserversOK
<1>5. Contract!Ack(n)
  BY <1>4 DEF Contract!Ack, Alive, Contract!Acked, Acked, Contract!WrappingAdd, WrappingAdd
<1> QED
  BY <1>5 DEF Contract!Next, Contract!U32, U32

LEMMA ReaderStep == IInv /\ (Reader \/ ReaderGoesOn) => [Contract!Next]_Contract!vars
<1> SUFFICES ASSUME IInv, Reader \/ ReaderGoesOn PROVE [Contract!Next]_Contract!vars
  OBVIOUS
<1> USE DEF state, reader, sent, observers
<1>1. ASSUME NEW v \in Versions, RecvStatus(v) PROVE [Contract!Next]_Contract!vars
  <2>1. end = "open" /\ UNCHANGED <<writer, req, generation, job, wire, asked, stale>>
    BY <1>1 DEF RecvStatus, Receive, Reads
  <2>2. CASE Len(statusQ) >= MaxQueuedStatus
    <3>1. "StatusFlood" \in Ends /\ end' = ReaderEnd("StatusFlood")
      BY <1>1, <2>2 DEF RecvStatus, Ends
    <3> QED
      BY <2>1, <3>1, ReaderEnds, EndsStep
  <2>3. CASE ~(Len(statusQ) >= MaxQueuedStatus)
    BY <1>1, <2>1, <2>3, Unseen DEF RecvStatus, Alive
  <2> QED
    BY <2>2, <2>3
<1>2. ASSUME NEW ask \in Asks, RecvBlocks(ask) PROVE [Contract!Next]_Contract!vars
  <2>1. Alive /\ UNCHANGED <<end, writer, job, wire>>
    BY <1>2 DEF RecvBlocks, Receive, Reads, Alive
  <2>2. CASE ReadsIds(ask)
    BY <1>2, <2>1, <2>2, Unseen DEF RecvBlocks, Alive
  <2>3. CASE ~ReadsIds(ask)
    BY <1>2, <2>1, <2>3, AskTypes, ApplyStep DEF RecvBlocks
  <2> QED
    BY <2>2, <2>3
<1>3. ASSUME NEW n \in Acks, RecvAck(n) PROVE [Contract!Next]_Contract!vars
  <2>1. n \in U32 /\ Alive
    BY <1>3, SessionAssumption DEF RecvAck, Receive, Reads, Alive
  <2> QED
    BY <1>3, <2>1, AckStep DEF RecvAck
<1>4. CASE RecvClose
  BY <1>4, Unseen DEF RecvClose, Alive
<1>5. CASE ReadEnds
  <2>1. PICK why \in {"BadRequest", "ReadFailed", "Disconnected"} : EndWith(ReaderEnd(why))
    BY <1>5 DEF ReadEnds
  <2>2. why \in Ends
    BY DEF Ends
  <2> QED
    BY <1>5, <2>1, <2>2, ReaderEnds, EndWithStep, Zenon DEF ReadEnds, Reads
<1>6. CASE PositionsRead
  <2>1. Alive /\ UNCHANGED <<end, writer, job, wire>> /\ reading \in Asks
    BY <1>6 DEF PositionsRead, IInv, Opening, TypeOK, Alive
  <2> QED
    BY <1>6, <2>1, WereRead, ApplyStep DEF PositionsRead
<1>7. CASE PositionsFail
  <2>1. "DataError" \in Ends
    BY DEF Ends
  <2> QED
    BY <1>7, <2>1, ReaderEnds, EndWithStep DEF PositionsFail
<1>8. CASE CloseReplied
  <2>1. PICK why \in {"ClientClosed", "ReadFailed"} : EndWith(ReaderEnd(why))
    BY <1>8 DEF CloseReplied
  <2>2. why \in Ends
    BY DEF Ends
  <2> QED
    BY <1>8, <2>1, <2>2, ReaderEnds, EndWithStep, Zenon DEF CloseReplied
<1> QED
  BY <1>1, <1>2, <1>3, <1>4, <1>5, <1>6, <1>7, <1>8 DEF Reader, ReaderGoesOn

LEMMA SendAbiStep == IInv /\ SendAbi => Contract!Next
<1> SUFFICES ASSUME IInv, SendAbi PROVE Contract!Next
  OBVIOUS
<1>1. /\ req' = DefaultRequest /\ generation' = 0 /\ job' = NoJob /\ wire' = <<>> /\ asked' = <<>> /\ stale' = 0
      /\ writer = "abi" /\ writer' = "loop" /\ end' = "open"
  BY DEF SendAbi, IInv, Opening, WriterHolds, state, observers
<1>2. AskedAbs' = <<>>
  BY <1>1 DEF AskedAbs
<1>3. Contract!Connect
  BY <1>1, <1>2 DEF Contract!Connect, Contract!DefaultRequest, DefaultRequest
<1> QED
  BY <1>3 DEF Contract!Next

LEMMA WriteLoopStep == IInv /\ WriteLoop => [Contract!Next]_Contract!vars
<1> SUFFICES ASSUME IInv, WriteLoop PROVE [Contract!Next]_Contract!vars
  OBVIOUS
<1>0. /\ writer = "loop" /\ end = "open" /\ job = NoJob /\ writer' # "abi"
      /\ UNCHANGED <<end, generation, wire, asked, stale>>
  BY DEF WriteLoop, IInv, WriterHolds, sent, observers
<1>1. CASE stop \/ ~Sendable(req)
  <2>1. UNCHANGED <<req, job>>
    BY <1>1 DEF WriteLoop
  <2> QED
    BY <1>0, <2>1, Unseen DEF Alive
<1>2. CASE ~stop /\ Sendable(req)
  <2>1. job' = JobOf(req, generation) /\ req' = Advance(req)
    BY <1>2 DEF WriteLoop
  <2>2. AskedAbs' = AskedAbs
    BY <1>0 DEF AskedAbs
  <2>3. Contract!Take
    BY <1>0, <1>2, <2>1, <2>2
       DEF Contract!Take, Contract!Sendable, Sendable, Contract!JobOf, JobOf, Contract!Advance, Advance
  <2> QED
    BY <2>3 DEF Contract!Next
<1> QED
  BY <1>1, <1>2

LEMMA LastFrameStep == IInv /\ LastFrame => Contract!Next
<1> SUFFICES ASSUME IInv, LastFrame PROVE Contract!Next
  OBVIOUS
<1>1. AskedAbs' = AskedAbs
  BY DEF LastFrame, observers, AskedAbs
<1>2. Contract!Send
  BY <1>1 DEF LastFrame, Writes, Midway, IInv, WriterHolds, state, Contract!Send
<1> QED
  BY <1>2 DEF Contract!Next

LEMMA WriterStep == IInv /\ Writer => [Contract!Next]_Contract!vars
<1> SUFFICES ASSUME IInv, Writer PROVE [Contract!Next]_Contract!vars
  OBVIOUS
<1> USE DEF state, reader, sent, observers
<1>1. CASE Idle
  BY <1>1, Unseen DEF Idle, Alive
<1>2. CASE WriteStatus
  BY <1>2, Unseen DEF WriteStatus, Writes, Alive
<1>3. CASE Build
  <2>1. CASE writer' = "send" /\ end' = end
    BY <1>3, <2>1, Unseen DEF Build, Alive
  <2>2. CASE end' = "DataError" /\ writer' = writer
    BY <1>3, <2>2, EndsStep DEF Build, Ends
  <2> QED
    BY <1>3, <2>1, <2>2 DEF Build
<1>4. CASE FirstFrame
  BY <1>4, Unseen DEF FirstFrame, Alive
<1>5. CASE StreamFails
  <2>1. "DataError" \in Ends
    BY DEF Ends
  <2> QED
    BY <1>5, <2>1, EndWithStep DEF StreamFails
<1>6. CASE SendFails
  <2>1. (IF writer = "abi" THEN "NotOpened" ELSE "SendFailed") \in Ends
    BY DEF Ends
  <2> QED
    BY <1>6, <2>1, EndWithStep DEF SendFails
<1>7. CASE CloseAway
  BY <1>7, Unseen DEF CloseAway, Alive
<1>8. CASE CloseWaited
  <2>1. "Shutdown" \in Ends
    BY DEF Ends
  <2> QED
    BY <1>8, <2>1, EndWithStep DEF CloseWaited
<1> QED
  BY <1>1, <1>2, <1>3, <1>4, <1>5, <1>6, <1>7, <1>8, SendAbiStep, WriteLoopStep, LastFrameStep DEF Writer

LEMMA StepSimulation == IInv /\ [Next]_vars => [Contract!Next]_Contract!vars
<1> SUFFICES ASSUME IInv, [Next]_vars PROVE [Contract!Next]_Contract!vars
  OBVIOUS
<1>1. CASE UNCHANGED vars
  BY <1>1, Unseen DEF vars, state, sent, observers, Alive
<1>2. CASE Stop
  BY <1>2, Unseen DEF Stop, state, sent, Alive
<1> QED
  BY <1>1, <1>2, ReaderStep, WriterStep DEF Next, Ended

(* The two loops over one connection implement the contract of its results *)
(* (ResultStream), for any requests, acknowledgements and interleaving.    *)
THEOREM Refines == Spec => ImplementsContract
<1>1. ImplementsContract <=> Contract!Init /\ [][Contract!Next]_Contract!vars
  BY DEF ImplementsContract, Contract!Spec
<1> QED
  BY <1>1, Initially, Invariance, StepSimulation, PTL DEF Spec
-----------------------------------------------------------------------------
(* What the contract proves of its results it proves of the session's. *)
Stream ==
    INSTANCE ResultStreamProofs WITH
        alive <- end = "open" /\ writer # "abi",
        owed <- job,
        asked <- AskedAbs

LEMMA StreamAssumptions == Stream!SpringAssumption /\ Stream!NoJobAssumption
  BY SpringAssumption, NoJobAssumption
     DEF Stream!SpringAssumption, Stream!NoJobAssumption, Stream!Job, Job, Stream!U32, U32

LEMMA SameInit == Contract!Init <=> Stream!Init
  BY DEF Contract!Init, Stream!Init, Contract!Fresh, Stream!Fresh, Contract!DefaultRequest, Stream!DefaultRequest

LEMMA SameStep == [Contract!Next]_Contract!vars <=> [Stream!Next]_Stream!vars
<1>1. Contract!vars = Stream!vars /\ Contract!vars' = Stream!vars'
  BY DEF Contract!vars, Stream!vars
<1>2. Contract!Request = Stream!Request /\ Contract!U32 = Stream!U32
  BY DEF Contract!Request, Stream!Request, Contract!U32, Stream!U32
<1>3. Contract!Connect <=> Stream!Connect
  BY DEF Contract!Connect, Stream!Connect, Contract!DefaultRequest, Stream!DefaultRequest
<1>4. ASSUME NEW r PROVE Contract!Blocks(r) <=> Stream!Blocks(r)
  BY DEF Contract!Blocks, Stream!Blocks, Contract!AskedOf, Stream!AskedOf
<1>5. ASSUME NEW n PROVE Contract!Ack(n) <=> Stream!Ack(n)
  BY DEF Contract!Ack, Stream!Ack, Contract!Acked, Stream!Acked, Contract!WrappingAdd, Stream!WrappingAdd
<1>6. Contract!Take <=> Stream!Take
  BY DEF Contract!Take, Stream!Take, Contract!Sendable, Stream!Sendable, Contract!JobOf, Stream!JobOf,
         Contract!Advance, Stream!Advance
<1>7. Contract!Send <=> Stream!Send
  BY DEF Contract!Send, Stream!Send
<1>8. Contract!End <=> Stream!End
  BY DEF Contract!End, Stream!End
<1>9. Contract!Next <=> Stream!Next
  BY <1>2, <1>3, <1>4, <1>5, <1>6, <1>7, <1>8 DEF Contract!Next, Stream!Next
<1> QED
  BY <1>1, <1>9

THEOREM Streams == Spec => Stream!Spec
<1>1. ImplementsContract <=> Contract!Init /\ [][Contract!Next]_Contract!vars
  BY DEF ImplementsContract, Contract!Spec
<1>2. Stream!Spec <=> Stream!Init /\ [][Stream!Next]_Stream!vars
  BY DEF Stream!Spec
<1> QED
  BY <1>1, <1>2, Refines, SameInit, SameStep, PTL

(* The results a session writes are each request's start and then          *)
(* consecutive blocks, never one of an older request after a newer one's.  *)
THEOREM Order == Spec => []NoSkipNoRepeat
<1>1. Stream!Spec => []Stream!NoSkipNoRepeat
  BY Stream!Order, StreamAssumptions
<1>2. Stream!NoSkipNoRepeat => NoSkipNoRepeat
  BY DEF Stream!NoSkipNoRepeat, NoSkipNoRepeat, Contract!NoSkipNoRepeat
<1> QED
  BY <1>1, <1>2, Streams, PTL

(* No request of a session gets more results than it was granted, though   *)
(* SpringState::ack wraps the credit.                                      *)
THEOREM Credit == Spec => []WithinCredit
<1>1. Stream!Spec => []Stream!WithinCredit
  BY Stream!Credit, StreamAssumptions
<1>2. Stream!WithinCredit => WithinCredit
  BY DEF Stream!WithinCredit, WithinCredit, Contract!WithinCredit
<1> QED
  BY <1>1, <1>2, Streams, PTL
=============================================================================
