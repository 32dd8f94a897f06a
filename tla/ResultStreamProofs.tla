------------------------- MODULE ResultStreamProofs --------------------------
(***************************************************************************)
(* The contract of one session holds for every u32 width, every L*, every  *)
(* set of versions and flags and any number of requests.                   *)
(***************************************************************************)
EXTENDS ResultStream, TLAPS

(* `self.req.start += 1` and `max_in_flight -= 1` of `take` never overflow: *)
(* under the send rule both stay within a u32.                              *)
LEMMA AdvanceType ==
    ASSUME NEW r \in Request, Sendable(r)
    PROVE  /\ Advance(r) \in Request
           /\ Advance(r).start = r.start + 1
           /\ Advance(r).credit = r.credit - 1
           /\ Advance(r).end = r.end
           /\ Advance(r).want = r.want
<1>0. r.start \in U32 /\ r.end \in U32 /\ r.credit \in U32 /\ r.want \in Wants
  BY DEF Request
<1>1. r.start + 1 \in U32 /\ r.credit - 1 \in U32
  BY <1>0, SpringAssumption DEF Sendable, U32
<1> QED
  BY <1>0, <1>1 DEF Advance, Request

(* An acknowledgement leaves cursor, end and flags alone, and never grants *)
(* more than it says, even when the u32 addition wraps.                    *)
LEMMA AckedType ==
    ASSUME NEW r \in Request, NEW n \in U32
    PROVE  /\ Acked(r, n) \in Request
           /\ Acked(r, n).start = r.start
           /\ Acked(r, n).end = r.end
           /\ Acked(r, n).want = r.want
           /\ Acked(r, n).credit <= r.credit + n
BY SpringAssumption DEF Acked, WrappingAdd, Request, U32

LEMMA JobOfType ==
    ASSUME NEW r \in Request, NEW g \in Nat
    PROVE  /\ JobOf(r, g) \in Job
           /\ JobOf(r, g) # NoJob
           /\ JobOf(r, g).gen = g
           /\ JobOf(r, g).n = r.start
           /\ JobOf(r, g).want = r.want
BY NoJobAssumption DEF JobOf, Request, Job, U32

LEMMA DefaultRequestType ==
    DefaultRequest \in Request /\ DefaultRequest.end = 0
BY SpringAssumption DEF DefaultRequest, Request, U32

LEMMA AskedOfType ==
    ASSUME NEW r \in Request
    PROVE  /\ AskedOf(r) \in Asked
           /\ AskedOf(r).start = r.start
           /\ AskedOf(r).end = r.end
           /\ AskedOf(r).want = r.want
           /\ AskedOf(r).granted = r.credit
BY SpringAssumption DEF AskedOf, Asked, Request, U32

(* The numbers the invariants compare. *)
LEMMA Numbers ==
    ASSUME TypeOK
    PROVE  /\ req.start \in Nat /\ req.end \in Nat /\ req.credit \in Nat
           /\ owed # NoJob => owed.n \in Nat /\ owed.gen \in Nat
           /\ \A g \in 1..Len(asked) :
                 asked[g].start \in Nat /\ asked[g].end \in Nat /\ asked[g].granted \in Nat
           /\ \A i \in 1..Len(wire) : wire[i].n \in Nat /\ wire[i].gen \in Nat
<1>1. U32 \subseteq Nat
  BY SpringAssumption DEF U32
<1>2. req.start \in Nat /\ req.end \in Nat /\ req.credit \in Nat
  BY <1>1, Zenon DEF TypeOK, Request
<1>3. owed # NoJob => owed.n \in Nat /\ owed.gen \in Nat
  BY <1>1, Zenon DEF TypeOK, Job
<1>4. \A g \in 1..Len(asked) :
         asked[g].start \in Nat /\ asked[g].end \in Nat /\ asked[g].granted \in Nat
  <2>1. \A g \in 1..Len(asked) : asked[g] \in Asked
    BY DEF TypeOK
  <2>2. \A a \in Asked : a.start \in Nat /\ a.end \in Nat /\ a.granted \in Nat
    BY <1>1, Zenon DEF Asked
  <2> QED
    BY <2>1, <2>2
<1>5. \A i \in 1..Len(wire) : wire[i].n \in Nat /\ wire[i].gen \in Nat
  <2>1. \A i \in 1..Len(wire) : wire[i] \in Job
    BY DEF TypeOK
  <2>2. \A j \in Job : j.n \in Nat /\ j.gen \in Nat
    BY <1>1, Zenon DEF Job
  <2> QED
    BY <2>1, <2>2
<1> QED
  BY <1>2, <1>3, <1>4, <1>5

(* A connection that has just started satisfies the invariant. *)
LEMMA FreshInv ==
    ASSUME alive \in BOOLEAN, Fresh
    PROVE  IInv
<1>1. TypeOK
  BY DefaultRequestType DEF Fresh, TypeOK
<1>2. CursorInv /\ OwedInv /\ StaleInv
  BY DEF Fresh, CursorInv, OwedInv, StaleInv
<1>3. FollowInv
  BY DEF Fresh, FollowInv, Newest
<1>4. AnswersItsRequest /\ NoSkipNoRepeat /\ WithinCredit
  BY DEF Fresh, AnswersItsRequest, NoSkipNoRepeat, WithinCredit
<1> QED
  BY <1>1, <1>2, <1>3, <1>4, DefaultRequestType DEF Fresh, IInv

LEMMA InitInv == Init => IInv
BY FreshInv, Zenon DEF Init

LEMMA ConnectInv == Connect => IInv'
<1> SUFFICES ASSUME Connect PROVE IInv'
  OBVIOUS
<1>1. alive' \in BOOLEAN /\ Fresh'
  BY DEF Connect, Fresh
<1>2. TypeOK'
  BY <1>1, DefaultRequestType DEF Fresh, TypeOK
<1>3. CursorInv' /\ OwedInv' /\ StaleInv'
  BY <1>1 DEF Fresh, CursorInv, OwedInv, StaleInv
<1>4. FollowInv'
  BY <1>1 DEF Fresh, FollowInv, Newest
<1>5. AnswersItsRequest' /\ NoSkipNoRepeat' /\ WithinCredit'
  BY <1>1 DEF Fresh, AnswersItsRequest, NoSkipNoRepeat, WithinCredit
<1> QED
  BY <1>1, <1>2, <1>3, <1>4, <1>5, DefaultRequestType DEF Fresh, IInv

(* A new request: what was asked before keeps its place, so every result   *)
(* on the wire and the one owed still answer it; nothing stale was written *)
(* since, and no job was taken under the new generation.                   *)
LEMMA BlocksInv ==
    ASSUME IInv, NEW r \in Request, Blocks(r)
    PROVE  IInv'
<1> USE DEF IInv
<1>1. /\ asked' \in Seq(Asked)
      /\ Len(asked') = Len(asked) + 1
      /\ \A g \in 1..Len(asked) : asked'[g] = asked[g]
      /\ asked'[Len(asked) + 1] = AskedOf(r)
  BY AskedOfType DEF TypeOK, Blocks
<1>2. TypeOK'
  BY <1>1 DEF TypeOK, Blocks
<1>3. generation' = Len(asked') /\ generation' = generation + 1 /\ generation' > 0
  BY <1>1 DEF TypeOK, Blocks
<1>4. CursorInv'
  BY <1>1, <1>3, AskedOfType DEF CursorInv, Blocks, Request, TypeOK, U32
<1>5. FollowInv'
  <2>1. Newest' = Newest
    BY DEF Blocks, Newest
  <2>2. Newest # NoJob => Newest.gen \in Nat /\ Newest.gen <= generation
    <3>1. Newest \in Job \cup {NoJob}
      BY DEF TypeOK, Newest
    <3> QED
      BY <3>1 DEF FollowInv, TypeOK, Job
  <2> QED
    BY <2>1, <2>2, <1>1, <1>3, AskedOfType DEF FollowInv, Blocks, TypeOK
<1>6. OwedInv'
  BY <1>1 DEF OwedInv, Blocks
<1>7. StaleInv'
  BY DEF StaleInv, Blocks
<1>8. AnswersItsRequest' /\ NoSkipNoRepeat' /\ WithinCredit'
  BY <1>1 DEF AnswersItsRequest, NoSkipNoRepeat, WithinCredit, Blocks, TypeOK
<1> QED
  BY <1>2, <1>3, <1>4, <1>5, <1>6, <1>7, <1>8

(* An acknowledgement only raises what the current request was granted. *)
LEMMA AckInv ==
    ASSUME IInv, NEW n \in U32, Ack(n)
    PROVE  IInv'
<1> USE DEF IInv
<1>0. /\ req' \in Request
      /\ req'.start = req.start
      /\ req'.end = req.end
      /\ req'.want = req.want
      /\ req'.credit <= req.credit + n
  BY AckedType DEF Ack, TypeOK
<1>1. /\ asked' \in Seq(Asked)
      /\ Len(asked') = Len(asked)
      /\ \A g \in 1..Len(asked) :
            /\ asked'[g].start = asked[g].start
            /\ asked'[g].end = asked[g].end
            /\ asked'[g].want = asked[g].want
            /\ asked'[g].granted =
                 IF g = generation THEN asked[g].granted + n ELSE asked[g].granted
  <2>1. CASE generation = 0
    <3>1. asked' = asked /\ Len(asked) = 0
      BY <2>1 DEF Ack
    <3> QED
      BY <3>1 DEF TypeOK
  <2>2. CASE generation > 0
    <3> DEFINE a == asked[generation]
               b == [a EXCEPT !.granted = @ + n]
    <3>1. generation \in 1..Len(asked) /\ a \in Asked /\ n \in Nat
      BY <2>2, SpringAssumption DEF TypeOK, U32
    <3>2. b = [start |-> a.start, end |-> a.end, want |-> a.want, granted |-> a.granted + n]
      BY <3>1 DEF Asked
    <3>3. b \in Asked
      BY <3>1, <3>2 DEF Asked
    <3>4. asked' = [asked EXCEPT ![generation] = b]
      BY <2>2 DEF Ack
    <3> HIDE DEF b
    <3>5. asked' \in Seq(Asked) /\ Len(asked') = Len(asked)
      BY <3>1, <3>3, <3>4 DEF TypeOK
    <3>6. \A g \in 1..Len(asked) : asked'[g] = IF g = generation THEN b ELSE asked[g]
      BY <3>1, <3>4 DEF TypeOK
    <3> QED
      BY <3>1, <3>2, <3>5, <3>6
  <2> QED
    BY <2>1, <2>2 DEF TypeOK
<1>n. n \in Nat
  BY SpringAssumption DEF U32
<1>2. TypeOK'
  BY <1>0, <1>1 DEF TypeOK, Ack
<1>3. generation' = generation /\ (generation > 0 => generation \in 1..Len(asked))
  BY DEF Ack, TypeOK
<1>4. CursorInv'
  <2>1. n \in Nat /\ req'.credit \in Nat
    BY <1>0, SpringAssumption DEF Request, U32
  <2> QED
    BY <1>0, <1>1, <1>3, <2>1, Numbers, SMTT(90) DEF CursorInv
<1>5. FollowInv'
  BY <1>0, <1>1, <1>3 DEF FollowInv, Newest, Ack
<1>6. OwedInv'
  <2> SUFFICES ASSUME owed # NoJob PROVE OwedInv'
    BY DEF OwedInv, Ack
  <2>1. owed.gen \in 1..Len(asked)
    BY DEF OwedInv
  <2>2. owed.n - asked[owed.gen].start < asked'[owed.gen].granted
    <3>1. owed.n \in Nat /\ asked[owed.gen].start \in Nat /\ asked[owed.gen].granted \in Nat
      BY <2>1, Numbers
    <3>2. asked'[owed.gen].granted \in {asked[owed.gen].granted, asked[owed.gen].granted + n}
      BY <1>1, <2>1
    <3>3. owed.n - asked[owed.gen].start < asked[owed.gen].granted
      BY DEF OwedInv
    <3> QED
      BY <1>n, <3>1, <3>2, <3>3, SMTT(90)
  <2> QED
    BY <1>1, <2>1, <2>2 DEF OwedInv, Ack
<1>7. StaleInv'
  BY DEF StaleInv, Ack
<1>8. AnswersItsRequest' /\ NoSkipNoRepeat'
  <2>0. wire' = wire
    BY DEF Ack
  <2>1. AnswersItsRequest'
    BY <1>1, <2>0 DEF AnswersItsRequest
  <2>2. \A i \in 1..Len(wire) : asked'[wire[i].gen].start = asked[wire[i].gen].start
    BY <1>1 DEF AnswersItsRequest
  <2>3. NoSkipNoRepeat'
    BY ONLY NoSkipNoRepeat, <2>0, <2>2 DEF NoSkipNoRepeat
  <2> QED
    BY <2>1, <2>3
<1>9. WithinCredit'
  BY <1>1, <1>n, Numbers, SMTT(90) DEF WithinCredit, AnswersItsRequest, Ack
<1> QED
  BY <1>0, <1>1, <1>2, <1>3, <1>4, <1>5, <1>6, <1>7, <1>8, <1>9

(* The job taken is the cursor's: consecutive to the newest one of its     *)
(* request, or that request's start.                                       *)
LEMMA TakeInv ==
    ASSUME IInv, Take
    PROVE  IInv'
<1> USE DEF IInv
<1>1. /\ req' \in Request
      /\ req'.start = req.start + 1
      /\ req'.credit = req.credit - 1
      /\ req'.end = req.end
      /\ req'.want = req.want
  BY AdvanceType DEF Take, TypeOK
<1>2. /\ owed' \in Job
      /\ owed' # NoJob
      /\ owed'.gen = generation
      /\ owed'.n = req.start
      /\ owed'.want = req.want
  BY JobOfType DEF Take, TypeOK
<1>3. /\ req.credit > 0
      /\ req.start <= LastBlock
      /\ req.start < req.end
  BY DEF Take, Sendable
<1>4. generation > 0 /\ generation = Len(asked)
  BY <1>3 DEF TypeOK, Request, U32
<1>5. TypeOK'
  BY <1>1, <1>2 DEF TypeOK, Take
<1>6. CursorInv'
  <2>1. generation' = generation /\ asked' = asked
    BY DEF Take
  <2>2. /\ asked[generation].start \in Nat /\ asked[generation].granted \in Nat
        /\ req.start \in Nat /\ req.credit \in Nat
    BY <1>4, Numbers DEF TypeOK
  <2> QED
    BY <1>1, <1>3, <1>4, <2>1, <2>2, SMTT(90) DEF CursorInv
<1>7. FollowInv'
  BY <1>1, <1>2 DEF FollowInv, Newest, Take
<1>8. OwedInv'
  <2>1. /\ asked[generation].start <= req.start
        /\ req.end = asked[generation].end
        /\ req.want = asked[generation].want
        /\ req.start - asked[generation].start < asked[generation].granted
    BY <1>3, <1>4, Numbers DEF CursorInv, TypeOK
  <2>2. \/ /\ Len(wire) > 0
           /\ generation = wire[Len(wire)].gen
           /\ req.start = wire[Len(wire)].n + 1
        \/ /\ Len(wire) > 0 => wire[Len(wire)].gen < generation
           /\ req.start = asked[generation].start
    BY <1>4, NoJobAssumption DEF FollowInv, Newest, Take, TypeOK
  <2> QED
    BY <1>2, <1>3, <1>4, <2>1, <2>2 DEF OwedInv, Take, TypeOK
<1>9. StaleInv'
  BY <1>2 DEF StaleInv, Take
<1>10. AnswersItsRequest' /\ NoSkipNoRepeat' /\ WithinCredit'
  BY DEF AnswersItsRequest, NoSkipNoRepeat, WithinCredit, Take
<1> QED
  BY <1>1, <1>4, <1>5, <1>6, <1>7, <1>8, <1>9, <1>10 DEF Take

(* The wire grows by the owed job, of which OwedInv says what is needed. *)
LEMMA SendInv ==
    ASSUME IInv, Send
    PROVE  IInv'
<1> USE DEF IInv
<1>0. owed \in Job /\ owed # NoJob
  BY DEF TypeOK, Send
<1>1. /\ wire' \in Seq(Job)
      /\ Len(wire') = Len(wire) + 1
      /\ \A i \in 1..Len(wire) : wire'[i] = wire[i]
      /\ wire'[Len(wire')] = owed
  BY <1>0 DEF TypeOK, Send
<1>2. TypeOK'
  BY <1>1 DEF TypeOK, Send
<1>3. CursorInv'
  BY DEF CursorInv, Send
<1>4. FollowInv'
  <2>1. Newest' = Newest
    BY <1>0, <1>1 DEF Newest, Send, TypeOK
  <2> QED
    BY <2>1 DEF FollowInv, Send
<1>5. OwedInv'
  BY DEF OwedInv, Send
<1>6. StaleInv'
  BY <1>0 DEF StaleInv, Send, TypeOK, Job
<1>7. AnswersItsRequest'
  BY <1>0, <1>1 DEF AnswersItsRequest, OwedInv, Send, TypeOK
<1>8. NoSkipNoRepeat'
  <2> SUFFICES ASSUME NEW i \in 1..Len(wire')
               PROVE  \/ /\ i > 1
                         /\ wire'[i].gen = wire'[i - 1].gen
                         /\ wire'[i].n = wire'[i - 1].n + 1
                      \/ /\ i > 1 => wire'[i - 1].gen < wire'[i].gen
                         /\ wire'[i].n = asked[wire'[i].gen].start
    BY DEF NoSkipNoRepeat, Send
  <2>1. CASE i <= Len(wire)
    BY <2>1, <1>1, SMTT(90) DEF NoSkipNoRepeat, TypeOK
  <2>2. CASE i = Len(wire) + 1
    BY <2>2, <1>0, <1>1 DEF OwedInv, TypeOK
  <2> QED
    BY <2>1, <2>2, <1>1 DEF TypeOK
<1>9. WithinCredit'
  BY <1>0, <1>1, SMTT(90) DEF WithinCredit, OwedInv, Send, TypeOK
<1> QED
  BY <1>2, <1>3, <1>4, <1>5, <1>6, <1>7, <1>8, <1>9 DEF Send

LEMMA EndInv ==
    ASSUME IInv, End
    PROVE  IInv'
<1> USE DEF IInv, End
<1>1. TypeOK' /\ generation' = Len(asked') /\ (generation' = 0 => req'.end = 0)
  BY Zenon DEF TypeOK
<1>2. CursorInv'
  BY DEF CursorInv
<1>3. FollowInv'
  BY DEF FollowInv, Newest
<1>4. OwedInv' /\ StaleInv'
  BY DEF OwedInv, StaleInv
<1>5. AnswersItsRequest' /\ NoSkipNoRepeat' /\ WithinCredit'
  BY DEF AnswersItsRequest, NoSkipNoRepeat, WithinCredit
<1> QED
  BY <1>1, <1>2, <1>3, <1>4, <1>5

(* Every step of a session keeps the inductive invariant. *)
THEOREM StepInv == IInv /\ [Next]_vars => IInv'
<1> SUFFICES ASSUME IInv, [Next]_vars PROVE IInv'
  OBVIOUS
<1>1. CASE UNCHANGED vars
  <2> USE <1>1 DEF vars, IInv
  <2>1. TypeOK' /\ generation' = Len(asked') /\ (generation' = 0 => req'.end = 0)
    BY DEF TypeOK
  <2>2. CursorInv'
    BY DEF CursorInv
  <2>3. FollowInv'
    BY DEF FollowInv, Newest
  <2>4. OwedInv' /\ StaleInv'
    BY DEF OwedInv, StaleInv
  <2>5. AnswersItsRequest' /\ NoSkipNoRepeat' /\ WithinCredit'
    BY DEF AnswersItsRequest, NoSkipNoRepeat, WithinCredit
  <2> QED
    BY <2>1, <2>2, <2>3, <2>4, <2>5
<1>2. CASE Next
  BY <1>2, ConnectInv, BlocksInv, AckInv, TakeInv, SendInv, EndInv DEF Next
<1> QED
  BY <1>1, <1>2

(* The inductive invariant holds of every behaviour. *)
THEOREM Invariance == Spec => []IInv
BY InitInv, StepInv, PTL DEF Spec

(* TypeOK: cursor and credit stay within their u32 whatever is requested. *)
THEOREM Types == Spec => []TypeOK
<1>1. IInv => TypeOK
  BY DEF IInv
<1> QED
  BY <1>1, Invariance, PTL

(* Every result answers a request of its connection, with that request's   *)
(* version and flags and within its range.                                 *)
THEOREM Answers == Spec => []AnswersItsRequest
<1>1. IInv => AnswersItsRequest
  BY DEF IInv
<1> QED
  BY <1>1, Invariance, PTL

(* No block of a request is skipped, repeated or overtaken. *)
THEOREM Order == Spec => []NoSkipNoRepeat
<1>1. IInv => NoSkipNoRepeat
  BY DEF IInv
<1> QED
  BY <1>1, Invariance, PTL

(* No result is sent that the client did not grant a credit for. *)
THEOREM Credit == Spec => []WithinCredit
<1>1. IInv => WithinCredit
  BY DEF IInv
<1> QED
  BY <1>1, Invariance, PTL

(* After a new request at most one result of an older one arrives. *)
THEOREM Stale == Spec => []AtMostOneStale
<1>1. IInv => AtMostOneStale
  BY DEF IInv, StaleInv, AtMostOneStale
<1> QED
  BY <1>1, Invariance, PTL
=============================================================================
