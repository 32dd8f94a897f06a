-------------------------- MODULE RecoverTailProofs --------------------------
(***************************************************************************)
(* Recovery of a damaged tail, for any log, index, trusted blocks and      *)
(* donors, and any changes and crashes: what the walk over a log keeps is  *)
(* one chain that agrees with all that is trusted, it passes over nothing  *)
(* else of that chain, and complete.json stands only beside such a log.    *)
(***************************************************************************)
EXTENDS RecoverTail, WellFoundedInduction, SequenceTheorems, TLAPS

-----------------------------------------------------------------------------
(* Induction over the naturals, for sets: the library's theorem takes an   *)
(* operator, a least element of the complement does not.                   *)
LEMMA LeastElement ==
    ASSUME NEW T \in SUBSET Nat, T # {}
    PROVE  \E x \in T : \A y \in T : x <= y
<1>1. PICK x \in T : \A y \in T : ~(<<y, x>> \in OpToRel(<, Nat))
  BY NatLessThanWellFounded, WFMin
<1>2. \A a, b \in Nat : a < b => <<a, b>> \in OpToRel(<, Nat)
  BY DEF OpToRel
<1>3. \A y \in T : ~(y < x) /\ y \in Nat /\ x \in Nat
  BY <1>1, <1>2
<1>4. \A y \in T : x <= y
  BY <1>3
<1> QED
  BY <1>4

LEMMA SetInduction ==
    ASSUME NEW T, 0 \in T, \A n \in Nat : n \in T => n + 1 \in T
    PROVE  Nat \subseteq T
<1> SUFFICES ASSUME NEW m \in Nat, m \notin T PROVE FALSE
  OBVIOUS
<1>1. PICK x \in Nat \ T : \A y \in Nat \ T : x <= y
  BY LeastElement, Zenon
<1>2. x # 0 /\ x - 1 \in Nat
  BY <1>1
<1>3. x - 1 \in T
  BY <1>1, <1>2
<1> QED
  BY <1>1, <1>2, <1>3

-----------------------------------------------------------------------------
(* What is trusted, and what a walk is. *)
Source(src) ==
    /\ src.kind \in Kinds /\ src.blocks \subseteq Entry /\ src.donors \subseteq Entry
    /\ src.kind = "blocks" => src.donors = {}

Indexed(index) == index = None \/ (index.slots \in Seq(Nat) /\ index.partial \in BOOLEAN)

Remembered == [entry : Entry, unmatched : Nat \cup {None}]

WalkState(log) ==
    [first : 1 .. MaxBlock, at : Nat \ {0}, next : Nat, kept : Seq(DOMAIN log), orphans : Nat,
     compared : Nat, discrepancies : Int, previous : Ids \cup {None}, recent : Seq(Remembered),
     failed : BOOLEAN, error : BOOLEAN]

LEMMA IdTypes ==
    ASSUME NEW e \in Entry
    PROVE  Id(e) \in Ids /\ Parent(e) \in Ids /\ e.num \in 1 .. MaxBlock /\ e.chain \in Chains
  BY RecoverAssumption DEF Id, Parent, IdOn, Ids, Entry, Chains

(* An id tells the number and the block before. *)
LEMMA SameId ==
    ASSUME NEW a \in Entry, NEW b \in Entry, Id(a) = Id(b)
    PROVE  a.num = b.num /\ Parent(a) = Parent(b)
<1>1. a.num \in Nat /\ b.num \in Nat /\ Fork \in Nat
  BY RecoverAssumption DEF Entry
<1>2. a.num = b.num /\ (a.num < Fork \/ a.chain = b.chain)
  BY <1>1 DEF Id, IdOn, Entry, Chains
<1> QED
  BY <1>1, <1>2 DEF Parent, IdOn

(* A trusted block is of its number; one there is. *)
LEMMA RefBlockIs ==
    ASSUME NEW src, Source(src), NEW n
    PROVE  \/ RefBlock(src, n) = None
           \/ RefBlock(src, n) = Err
           \/ RefBlock(src, n) \in src.blocks /\ RefBlock(src, n) \in Entry /\ RefBlock(src, n).num = n
<1> DEFINE held == {b \in src.blocks : b.num = n}
<1>1. CASE held = {}
  BY <1>1 DEF RefBlock
<1>2. CASE held # {}
  <2>1. (CHOOSE b \in held : TRUE) \in held
    BY <1>2
  <2> QED
    BY <1>2, <2>1 DEF RefBlock, Source
<1> QED
  BY <1>1, <1>2

(* A donors' entry has the id asked for, and all donors of the block its   *)
(* payload.                                                                *)
LEMMA ShipDonorIs ==
    ASSUME NEW src, Source(src), NEW n, NEW id, ShipDonor(src, n, id) # Err
    PROVE  LET d == ShipDonor(src, n, id)
           IN  /\ d # None => d \in Entry /\ d.num = n /\ Id(d) = id
               /\ \A e \in src.donors : e.num = n => d # None /\ e.pay = d.pay
<1> DEFINE held == {d \in src.donors : d.num = n}
<1>1. CASE held = {}
  BY <1>1 DEF ShipDonor
<1>2. CASE held # {}
  <2>1. (CHOOSE d \in held : TRUE) \in held
    BY <1>2
  <2>2. ~ \E d \in held : Id(d) # id
    BY <1>2 DEF ShipDonor
  <2>3. ~ \E d, e \in held : d.pay # e.pay
    BY <1>2, <2>2 DEF ShipDonor
  <2>4. ShipDonor(src, n, id) = CHOOSE d \in held : TRUE
    BY <1>2, <2>2, <2>3 DEF ShipDonor
  <2>5. None \notin Entry
    BY InputsAssumption
  <2> HIDE DEF held
  <2>6. held \subseteq src.donors /\ held \subseteq Entry /\ \A d \in src.donors : d.num = n <=> d \in held
    BY DEF held, Source
  <2> QED
    BY <2>1, <2>2, <2>3, <2>4, <2>5, <2>6
<1> QED
  BY <1>1, <1>2

-----------------------------------------------------------------------------
(* What is remembered are entries of before, and the new one. *)
LEMMA ForgetOldIs ==
    ASSUME NEW recent \in Seq(Remembered), NEW n
    PROVE  /\ ForgetOld(recent, n) \in Seq(Remembered)
           /\ \A i \in DOMAIN ForgetOld(recent, n) :
                 \E j \in DOMAIN recent : ForgetOld(recent, n)[i] = recent[j]
<1> DEFINE young == {i \in DOMAIN recent : n - recent[i].entry.num < RecentBlocks}
           first == CHOOSE i \in young : \A j \in young : i <= j
<1>1. CASE young = {}
  BY <1>1 DEF ForgetOld
<1>2. CASE young # {}
  <2>1. \E i \in young : \A j \in young : i <= j
    <3>1. young \in SUBSET Nat
      OBVIOUS
    <3> QED
      BY <3>1, <1>2, LeastElement, Zenon
  <2>2. first \in young
    BY <2>1
  <2>3. ForgetOld(recent, n) = SubSeq(recent, first, Len(recent))
    BY <1>2, Zenon DEF ForgetOld
  <2>4. first \in 1 .. Len(recent)
    BY <2>2
  <2> HIDE DEF first, young
  <2>5. /\ SubSeq(recent, first, Len(recent)) \in Seq(Remembered)
        /\ Len(SubSeq(recent, first, Len(recent))) = Len(recent) - first + 1
        /\ \A i \in 1 .. Len(recent) - first + 1 :
              SubSeq(recent, first, Len(recent))[i] = recent[first + i - 1]
    BY <2>4
  <2>6. \A i \in 1 .. Len(recent) - first + 1 : first + i - 1 \in DOMAIN recent
    BY <2>4
  <2> QED
    BY <2>3, <2>5, <2>6
<1> QED
  BY <1>1, <1>2

LEMMA RememberIs ==
    ASSUME NEW recent \in Seq(Remembered), NEW e \in Entry, NEW u \in Nat \cup {None}
    PROVE  /\ Remember(recent, e, u) \in Seq(Remembered)
           /\ \A i \in DOMAIN Remember(recent, e, u) :
                 \/ Remember(recent, e, u)[i].entry = e
                 \/ \E j \in DOMAIN recent : Remember(recent, e, u)[i] = recent[j]
<1> DEFINE young == ForgetOld(recent, e.num)
           new == [entry |-> e, unmatched |-> u]
           all == Append(young, new)
           from == IF Len(all) > RecentBytes THEN Len(all) - RecentBytes + 1 ELSE 1
<1>1. young \in Seq(Remembered) /\ \A i \in DOMAIN young : \E j \in DOMAIN recent : young[i] = recent[j]
  BY ForgetOldIs
<1>2. new \in Remembered /\ new.entry = e
  BY DEF Remembered
<1> HIDE DEF young, new
<1>3. /\ all \in Seq(Remembered) /\ Len(all) = Len(young) + 1
      /\ all[Len(young) + 1] = new /\ \A i \in 1 .. Len(young) : all[i] = young[i]
  BY <1>1, <1>2
<1>4. \A i \in DOMAIN all : all[i].entry = e \/ \E j \in DOMAIN recent : all[i] = recent[j]
  <2> SUFFICES ASSUME NEW i \in 1 .. Len(young) + 1
               PROVE  all[i].entry = e \/ \E j \in DOMAIN recent : all[i] = recent[j]
    BY <1>3
  <2>1. CASE i = Len(young) + 1
    BY <2>1, <1>2, <1>3
  <2>2. CASE i \in 1 .. Len(young)
    BY <2>2, <1>1, <1>3
  <2> QED
    BY <2>1, <2>2, <1>1
<1>5. Remember(recent, e, u) = IF RecentBytes = 0 THEN young ELSE SubSeq(all, from, Len(all))
  BY DEF Remember, young, new
<1>6. CASE RecentBytes = 0
  BY <1>6, <1>5, <1>1
<1>7. CASE RecentBytes # 0
  <2> HIDE DEF all
  <2>1. from \in 1 .. Len(all)
    BY <1>3, <1>7, RecoverAssumption
  <2> HIDE DEF from
  <2>2. /\ SubSeq(all, from, Len(all)) \in Seq(Remembered)
        /\ Len(SubSeq(all, from, Len(all))) = Len(all) - from + 1
        /\ \A i \in 1 .. Len(all) - from + 1 : SubSeq(all, from, Len(all))[i] = all[from + i - 1]
    BY <2>1, <1>3
  <2>3. \A i \in 1 .. Len(all) - from + 1 : from + i - 1 \in DOMAIN all
    BY <2>1, <1>3
  <2> QED
    BY <2>2, <2>3, <1>4, <1>5, <1>7
<1> QED
  BY <1>6, <1>7

LEMMA DuplicateIs ==
    ASSUME NEW recent \in Seq(Remembered), NEW e \in Entry, Duplicate(recent, e) # 0
    PROVE  Duplicate(recent, e) \in DOMAIN recent /\ recent[Duplicate(recent, e)].entry = e
<1> DEFINE same == {i \in DOMAIN recent : recent[i].entry.num = e.num}
           last == CHOOSE i \in same : \A j \in same : j <= i
<1>1. same # {} /\ Duplicate(recent, e) = last /\ recent[last].entry = e
  BY DEF Duplicate
<1>2. \E i \in same : \A j \in same : j <= i
  <2> DEFINE Above == {n \in Nat : \A j \in same : j <= n}
  <2>1. Len(recent) \in Above
    OBVIOUS
  <2>2. PICK m \in Above : \A n \in Above : m <= n
    <3>1. Above \in SUBSET Nat
      OBVIOUS
    <3> QED
      BY <2>1, <3>1, LeastElement, Zenon
  <2>3. CASE m \in same
    BY <2>2, <2>3
  <2>4. CASE m \notin same
    <3>1. \A j \in same : j < m /\ j \in Nat /\ j > 0
      BY <2>2, <2>4
    <3>2. m - 1 \in Nat /\ \A j \in same : j <= m - 1
      BY <3>1, <1>1, <2>2
    <3>3. m - 1 \in Above
      BY <3>2
    <3> QED
      BY <3>3, <2>2
  <2> QED
    BY <2>3, <2>4
<1>3. last \in same
  BY <1>2
<1> QED
  BY <1>1, <1>3

-----------------------------------------------------------------------------
(* The rounds of a walk are what the recursion says they are. *)
AreRounds(f, n, log, index, first, src) ==
    f = [i \in 0 .. n |-> IF i = 0 THEN WalkStart(first) ELSE Further(f[i - 1], log, index, src)]

LEMMA RoundsExist ==
    ASSUME NEW log, NEW index, NEW first, NEW src
    PROVE  \A n \in Nat : \E f : AreRounds(f, n, log, index, first, src)
<1> DEFINE T == {n \in Nat : \E f : AreRounds(f, n, log, index, first, src)}
<1>1. 0 \in T
  <2> DEFINE f == [i \in 0 .. 0 |-> WalkStart(first)]
  <2>1. AreRounds(f, 0, log, index, first, src)
    BY DEF AreRounds
  <2> QED
    BY <2>1
<1>2. ASSUME NEW n \in Nat, n \in T PROVE n + 1 \in T
  <2>1. PICK f : AreRounds(f, n, log, index, first, src)
    BY <1>2
  <2> DEFINE g == [i \in 0 .. n + 1 |->
                      IF i <= n THEN f[i] ELSE Further(f[i - 1], log, index, src)]
  <2>2. AreRounds(g, n + 1, log, index, first, src)
    BY <2>1 DEF AreRounds
  <2> QED
    BY <2>2
<1> HIDE DEF T
<1>3. Nat \subseteq T
  BY <1>1, <1>2, SetInduction
<1> QED
  BY <1>3 DEF T

LEMMA RoundsAre ==
    ASSUME NEW log \in Seq(Entry \cup {Torn}), NEW index, NEW first, NEW src
    PROVE  AreRounds(Rounds(log, index, first, src), Len(log), log, index, first, src)
<1>1. Len(log) \in Nat
  OBVIOUS
<1>2. Rounds(log, index, first, src) = CHOOSE f : AreRounds(f, Len(log), log, index, first, src)
  BY DEF Rounds, AreRounds
<1> QED
  BY <1>1, <1>2, RoundsExist, Zenon

-----------------------------------------------------------------------------
(* What a walk knows after n rounds.                                       *)

(* The trusted blocks say nothing against the entry. *)
Evidence(src, e) ==
    /\ RefBlock(src, e.num) # Err
    /\ RefBlock(src, e.num) # None => Id(RefBlock(src, e.num)) = Id(e)

(* The link of the entry to the one before could be checked. *)
Linked(src, e) == src.kind = "blocks" \/ RefBlock(src, e.num) # None

(* The entries kept are consecutive, agree with what is trusted, and each  *)
(* follows the one before if its link could be checked.                    *)
KeptInv(w, log, src) ==
    /\ \A i \in DOMAIN w.kept :
          /\ log[w.kept[i]] \in Entry
          /\ log[w.kept[i]].num = w.first + i - 1
          /\ Evidence(src, log[w.kept[i]])
          /\ ~w.error => CheckPrefixDonors(src, log[w.kept[i]])
          /\ i > 1 /\ Linked(src, log[w.kept[i]])
                => Parent(log[w.kept[i]]) = Id(log[w.kept[i - 1]])
    /\ w.next = w.first + Len(w.kept)
    /\ w.previous = IF w.kept = <<>> THEN None ELSE Id(log[w.kept[Len(w.kept)]])

(* As many compared as kept: all of them. *)
ComparedInv(w, log, src) ==
    /\ w.compared <= Len(w.kept)
    /\ w.compared = Len(w.kept) =>
          \A i \in DOMAIN w.kept : RefBlock(src, log[w.kept[i]].num) # None

RecentInv(w, log) ==
    \A r \in DOMAIN w.recent : \E i \in DOMAIN w.kept : w.recent[r].entry = log[w.kept[i]]

(* Kept, off the trusted chain, or a copy of an entry kept. *)
Settled(w, log, src, i) ==
    \/ \E k \in DOMAIN w.kept : w.kept[k] = i
    \/ src.kind = "ship" /\ Id(RefBlock(src, log[i].num)) # Id(log[i])
    \/ src.kind = "ship" /\ \E k \in DOMAIN w.kept : log[w.kept[k]] = log[i]

AtInv(w, n, log, src) ==
    /\ w.at <= n + 1 /\ (~w.failed /\ ~w.error => w.at = n + 1)
    /\ \A i \in 1 .. w.at - 1 : Settled(w, log, src, i)

WalkInv(w, n, log, src) ==
    /\ w \in WalkState(log)
    /\ KeptInv(w, log, src)
    /\ ComparedInv(w, log, src)
    /\ RecentInv(w, log)
    /\ AtInv(w, n, log, src)

LEMMA WalkStartInv ==
    ASSUME NEW log \in Seq(Entry \cup {Torn}), NEW src, NEW first \in 1 .. MaxBlock
    PROVE  WalkInv(WalkStart(first), 0, log, src)
<1> DEFINE w == WalkStart(first)
<1>1. /\ w.first = first /\ w.at = 1 /\ w.next = first /\ w.kept = <<>> /\ w.compared = 0
      /\ w.previous = None /\ w.recent = <<>> /\ w.error = FALSE
      /\ w \in WalkState(log)
  BY DEF WalkStart, WalkState
<1> HIDE DEF w
<1>2. KeptInv(w, log, src) /\ ComparedInv(w, log, src)
  BY <1>1 DEF KeptInv, ComparedInv
<1>3. RecentInv(w, log) /\ AtInv(w, 0, log, src)
  BY <1>1 DEF RecentInv, AtInv
<1> QED
  BY <1>1, <1>2, <1>3 DEF WalkInv, w

(* A round that keeps no entry. *)
LEMMA NotKeptInv ==
    ASSUME NEW log \in Seq(Entry \cup {Torn}), NEW src, NEW n \in Nat, NEW w, NEW v,
           WalkInv(w, n, log, src), v \in WalkState(log),
           v.first = w.first, v.next = w.next, v.kept = w.kept, v.compared = w.compared,
           v.previous = w.previous, w.error => v.error,
           DOMAIN v.recent = DOMAIN w.recent,
           \A r \in DOMAIN w.recent : v.recent[r].entry = w.recent[r].entry,
           \/ v.at = w.at /\ (v.failed \/ v.error)
           \/ v.at = w.at + 1 /\ ~w.failed /\ ~w.error /\ Settled(w, log, src, w.at)
    PROVE  WalkInv(v, n + 1, log, src)
<1>1. KeptInv(v, log, src)
  BY DEF WalkInv, KeptInv
<1>2. ComparedInv(v, log, src) /\ RecentInv(v, log)
  BY DEF WalkInv, ComparedInv, RecentInv
<1>3. AtInv(v, n + 1, log, src)
  <2>1. w.at \in Nat /\ w.at <= n + 1 /\ (~w.failed /\ ~w.error => w.at = n + 1)
    BY DEF WalkInv, AtInv, WalkState
  <2>2. \A i \in 1 .. w.at - 1 : Settled(v, log, src, i)
    BY DEF WalkInv, AtInv, Settled
  <2>3. v.at = w.at + 1 => \A i \in 1 .. w.at : Settled(v, log, src, i)
    <3> SUFFICES ASSUME v.at = w.at + 1, NEW i \in 1 .. w.at PROVE Settled(v, log, src, i)
      OBVIOUS
    <3>1. CASE i = w.at
      <4>1. Settled(w, log, src, w.at)
        BY <2>1
      <4> QED
        BY <3>1, <4>1 DEF Settled
    <3>2. CASE i # w.at
      BY <3>2, <2>1, <2>2
    <3> QED
      BY <3>1, <3>2
  <2> QED
    BY <2>1, <2>2, <2>3 DEF AtInv
<1> QED
  BY <1>1, <1>2, <1>3 DEF WalkInv

(* What one more of a sequence is. *)
LEMMA OneMore ==
    ASSUME NEW S, NEW s \in Seq(S), NEW x \in S
    PROVE  /\ Append(s, x) \in Seq(S) /\ Len(Append(s, x)) = Len(s) + 1
           /\ Append(s, x)[Len(s) + 1] = x /\ \A i \in 1 .. Len(s) : Append(s, x)[i] = s[i]
           /\ DOMAIN Append(s, x) = 1 .. Len(s) + 1 /\ Append(s, x) # <<>>
OBVIOUS

(* A round that keeps one. *)
LEMMA AcceptInv ==
    ASSUME NEW log \in Seq(Entry \cup {Torn}), NEW index, Indexed(index),
           NEW src, Source(src), NEW n \in Nat, n < Len(log), NEW w, WalkInv(w, n, log, src),
           ~w.failed, ~w.error, log[w.at] \in Entry,
           RefBlock(src, log[w.at].num) # Err,
           RefBlock(src, log[w.at].num) # None => Id(RefBlock(src, log[w.at].num)) = Id(log[w.at]),
           log[w.at].num = w.next,
           LET link == Link(src, log[w.at], RefBlock(src, log[w.at].num))
           IN  link = None \/ w.previous = None \/ link = w.previous
    PROVE  WalkInv(Accept(w, index, src, log[w.at], RefBlock(src, log[w.at].num)), n + 1, log, src)
<1> DEFINE e == log[w.at]
           ref == RefBlock(src, e.num)
           link == Link(src, e, ref)
           indexed == Slot(index, e.num - w.first + 1)
           v == Accept(w, index, src, e, ref)
           L == Len(w.kept)
<1>1. /\ w \in WalkState(log) /\ w.at = n + 1 /\ w.at \in DOMAIN log /\ L \in Nat
      /\ w.kept \in Seq(DOMAIN log) /\ w.first \in Nat /\ w.next \in Nat
      /\ DOMAIN w.kept = 1 .. L /\ (w.kept = <<>> <=> L = 0)
  BY DEF WalkInv, WalkState, AtInv
<1>2. indexed \in Nat \cup {None}
  BY DEF Slot, Indexed
<1>3. e \in Entry /\ Id(e) \in Ids /\ e.num \in Nat
  BY IdTypes, RecoverAssumption
<1> HIDE DEF e, ref, indexed, link
<1> DEFINE unmatched == IF indexed # w.at THEN indexed ELSE None
           recent == IF src.kind = "ship" /\ ref # None
                     THEN Remember(w.recent, e, unmatched) ELSE w.recent
           compared == IF ref = None THEN w.compared ELSE w.compared + 1
           discrepancies == IF indexed # w.at THEN w.discrepancies + 1 ELSE w.discrepancies
           kept == Append(w.kept, w.at)
           at == w.at + 1
           next == e.num + 1
           previous == Id(e)
           error == ~CheckPrefixDonors(src, e)
<1>b. v = [w EXCEPT !.at = at, !.next = next, !.kept = kept,
                    !.compared = compared, !.discrepancies = discrepancies, !.previous = previous,
                    !.error = error, !.recent = recent]
  BY Zenon DEF Accept, indexed
<1>c. error \in BOOLEAN
  BY DEF CheckPrefixDonors
<1> HIDE DEF unmatched, recent, compared, discrepancies, kept, at, next, previous, error, v
<1>4. /\ v.first = w.first /\ v.at = at /\ v.next = next /\ v.kept = kept
      /\ v.compared = compared /\ v.discrepancies = discrepancies /\ v.previous = previous
      /\ v.error = error /\ v.failed = w.failed /\ v.orphans = w.orphans /\ v.recent = recent
  BY <1>1, <1>b DEF WalkState
<1>5. /\ recent \in Seq(Remembered)
      /\ \A i \in DOMAIN recent : \/ recent[i].entry = e
                                  \/ \E j \in DOMAIN w.recent : recent[i] = w.recent[j]
  <2>1. w.recent \in Seq(Remembered)
    BY <1>1 DEF WalkState
  <2>2. unmatched \in Nat \cup {None}
    BY <1>2 DEF unmatched
  <2>3. CASE recent = w.recent
    BY <2>1, <2>3
  <2>4. CASE recent = Remember(w.recent, e, unmatched)
    BY <2>1, <2>2, <2>4, <1>3, RememberIs, Zenon
  <2> QED
    BY <2>3, <2>4 DEF recent
<1>6. /\ v.kept \in Seq(DOMAIN log) /\ Len(v.kept) = L + 1
      /\ v.kept[L + 1] = w.at /\ \A i \in 1 .. L : v.kept[i] = w.kept[i]
      /\ DOMAIN v.kept = 1 .. L + 1 /\ v.kept # <<>>
  <2>1. v.kept = Append(w.kept, w.at)
    BY <1>4 DEF kept
  <2> QED
    <3>1. w.kept \in Seq(DOMAIN log) /\ w.at \in DOMAIN log
      BY <1>1
    <3> DEFINE a == Append(w.kept, w.at)
    <3>2. /\ a \in Seq(DOMAIN log) /\ Len(a) = L + 1
          /\ a[L + 1] = w.at /\ \A i \in 1 .. L : a[i] = w.kept[i]
          /\ DOMAIN a = 1 .. L + 1 /\ a # <<>>
      BY <3>1, OneMore
    <3> HIDE DEF a
    <3>3. v.kept = a
      BY <2>1 DEF a
    <3> QED
      BY <3>2, <3>3, Zenon
<1> HIDE DEF L
<1>7. v \in WalkState(log)
  <2>1. w.compared \in Nat /\ w.discrepancies \in Int /\ w.at \in Nat
    BY <1>1 DEF WalkState
  <2>2. /\ compared \in Nat /\ discrepancies \in Int /\ at \in Nat \ {0} /\ next \in Nat
        /\ previous \in Ids
    BY <2>1, <1>3, SMTT(30) DEF compared, discrepancies, at, next, previous
  <2>3. kept \in Seq(DOMAIN log)
    BY <1>4, <1>6
  <2> QED
    BY <1>1, <1>b, <1>c, <1>5, <2>2, <2>3, Zenon DEF WalkState
<1>8. KeptInv(v, log, src)
  <2>1. \A i \in 1 .. L : /\ log[w.kept[i]] \in Entry
                          /\ log[w.kept[i]].num = w.first + i - 1
                          /\ Evidence(src, log[w.kept[i]])
                          /\ CheckPrefixDonors(src, log[w.kept[i]])
                          /\ i > 1 /\ Linked(src, log[w.kept[i]])
                                => Parent(log[w.kept[i]]) = Id(log[w.kept[i - 1]])
    BY <1>1, Zenon DEF WalkInv, KeptInv
  <2>2. /\ w.next = w.first + L
        /\ w.previous = IF w.kept = <<>> THEN None ELSE Id(log[w.kept[L]])
    BY DEF WalkInv, KeptInv, L
  <2>3. L > 0 /\ Linked(src, e) => Parent(e) = Id(log[w.kept[L]])
    <3> SUFFICES ASSUME L > 0, Linked(src, e) PROVE Parent(e) = Id(log[w.kept[L]])
      OBVIOUS
    <3>1. link = Parent(e)
      <4>1. CASE ref = None
        BY <4>1 DEF Link, link, Linked, ref
      <4>2. CASE ref # None
        <5>1. ref \in Entry /\ Id(ref) = Id(e)
          BY <4>2, RefBlockIs DEF ref, e
        <5> QED
          BY <4>2, <5>1, <1>3, SameId DEF Link, link
      <4> QED
        BY <4>1, <4>2
    <3>2. w.kept # <<>> /\ log[w.kept[L]] \in Entry
      BY <2>1, <1>1
    <3>3. w.previous \in Ids /\ link \in Ids /\ w.previous = Id(log[w.kept[L]])
      BY <3>1, <3>2, <2>2, <1>3, IdTypes
    <3>4. None \notin Ids
      BY InputsAssumption
    <3> QED
      BY <3>1, <3>3, <3>4 DEF link, ref, e
  <2>4. Evidence(src, e) /\ (~v.error => CheckPrefixDonors(src, e)) /\ e.num = w.first + L
    <3>1. Evidence(src, e) /\ e.num = w.first + L
      BY <2>2 DEF Evidence, e
    <3>2. v.error = error
      BY <1>4
    <3> QED
      BY <3>1, <3>2, Zenon DEF error
  <2>5. v.kept # <<>> /\ v.next = v.first + Len(v.kept) /\ v.previous = Id(log[v.kept[Len(v.kept)]])
    <3>1. v.next = w.first + L + 1 /\ w.first \in Nat /\ L \in Nat
      BY <1>1, <1>4, <2>4 DEF next
    <3>2. v.first = w.first /\ v.previous = Id(log[w.at])
      BY <1>4 DEF e, previous
    <3>3. v.kept # <<>> /\ Len(v.kept) = L + 1 /\ v.kept[L + 1] = w.at
      BY <1>6
    <3> QED
      BY <3>1, <3>2, <3>3
  <2>6. ASSUME NEW i \in DOMAIN v.kept
        PROVE  /\ log[v.kept[i]] \in Entry
               /\ log[v.kept[i]].num = v.first + i - 1
               /\ Evidence(src, log[v.kept[i]])
               /\ ~v.error => CheckPrefixDonors(src, log[v.kept[i]])
               /\ i > 1 /\ Linked(src, log[v.kept[i]])
                     => Parent(log[v.kept[i]]) = Id(log[v.kept[i - 1]])
    <3>0. i \in 1 .. L + 1
      BY <1>6
    <3>1. CASE i = L + 1
      <4>1. log[v.kept[i]] = e
        BY <3>1, <1>6 DEF e
      <4>2. i > 1 => L > 0 /\ v.kept[i - 1] = w.kept[L]
        BY <3>1, <1>1, <1>6
      <4>3. v.first + i - 1 = w.first + L
        BY <3>1, <1>1, <1>4
      <4> QED
        BY <4>1, <4>2, <4>3, <2>3, <2>4, <1>3
    <3>2. CASE i \in 1 .. L
      <4>0. L \in Nat /\ v.first = w.first
        BY <1>1, <1>4
      <4>1. v.kept[i] = w.kept[i] /\ (i > 1 => v.kept[i - 1] = w.kept[i - 1])
        <5>1. i > 1 => i - 1 \in 1 .. L
          BY <3>2, <4>0
        <5> QED
          BY <3>2, <5>1, <1>6
      <4> QED
        BY <4>0, <4>1, <3>2, <2>1, Zenon
    <3> QED
      BY <3>0, <3>1, <3>2, <1>1
  <2> QED
    BY <2>5, <2>6 DEF KeptInv
<1>9. ComparedInv(v, log, src)
  <2>1. /\ w.compared \in Nat /\ w.compared <= L
        /\ w.compared = L => \A i \in 1 .. L : RefBlock(src, log[w.kept[i]].num) # None
    BY <1>1, SMTT(30) DEF WalkInv, ComparedInv, WalkState
  <2>2. v.compared <= L + 1 /\ (v.compared = L + 1 => w.compared = L /\ ref # None)
    BY <2>1, <1>1, <1>4 DEF compared
  <2>3. ASSUME v.compared = L + 1, NEW i \in 1 .. L + 1
        PROVE  RefBlock(src, log[v.kept[i]].num) # None
    <3>1. CASE i = L + 1
      BY <3>1, <2>2, <2>3, <1>6 DEF ref, e
    <3>2. CASE i \in 1 .. L
      BY <3>2, <2>1, <2>2, <2>3, <1>6, Zenon
    <3> QED
      BY <3>1, <3>2, <1>1
  <2> QED
    BY <2>2, <2>3, <1>6 DEF ComparedInv
<1>10. RecentInv(v, log)
  <2> SUFFICES ASSUME NEW r \in DOMAIN v.recent
               PROVE  \E i \in DOMAIN v.kept : v.recent[r].entry = log[v.kept[i]]
    BY DEF RecentInv
  <2>1. CASE v.recent[r].entry = e
    <3>1. L + 1 \in DOMAIN v.kept /\ log[v.kept[L + 1]] = e
      BY <1>1, <1>6 DEF e
    <3> QED
      BY <2>1, <3>1
  <2>2. CASE \E j \in DOMAIN w.recent : v.recent[r] = w.recent[j]
    <3>1. PICK i \in DOMAIN w.kept : v.recent[r].entry = log[w.kept[i]]
      BY <2>2 DEF WalkInv, RecentInv
    <3>2. i \in DOMAIN v.kept /\ v.kept[i] = w.kept[i]
      BY <1>1, <1>6, SMTT(30)
    <3> QED
      BY <3>1, <3>2
  <2> QED
    BY <2>1, <2>2, <1>4, <1>5
<1>11. AtInv(v, n + 1, log, src)
  <2>1. \A i \in DOMAIN w.kept : i \in DOMAIN v.kept /\ v.kept[i] = w.kept[i]
    BY <1>1, <1>6
  <2>2. \A i \in 1 .. w.at - 1 : Settled(v, log, src, i)
    BY <2>1 DEF WalkInv, AtInv, Settled
  <2>3. Settled(v, log, src, w.at)
    <3>1. L + 1 \in DOMAIN v.kept /\ v.kept[L + 1] = w.at
      BY <1>1, <1>6
    <3> QED
      BY <3>1 DEF Settled
  <2>4. \A i \in 1 .. v.at - 1 : Settled(v, log, src, i)
    <3> SUFFICES ASSUME NEW i \in 1 .. w.at PROVE Settled(v, log, src, i)
      BY <1>1, <1>4 DEF at
    <3>1. i = w.at \/ i \in 1 .. w.at - 1
      BY <1>1
    <3> QED
      BY <3>1, <2>2, <2>3
  <2> QED
    BY <2>4, <1>1, <1>4 DEF AtInv, at
<1> QED
  BY <1>7, <1>8, <1>9, <1>10, <1>11 DEF WalkInv, v, e, ref
-----------------------------------------------------------------------------
(* The walk to its end. *)

(* A round that passes over a copy of an entry kept. *)
LEMMA RepeatInv ==
    ASSUME NEW log \in Seq(Entry \cup {Torn}), NEW src, NEW n \in Nat, n < Len(log),
           NEW w, WalkInv(w, n, log, src), ~w.failed, ~w.error, src.kind = "ship",
           NEW i \in DOMAIN w.recent, w.recent[i].entry = log[w.at]
    PROVE  WalkInv(Repeat(w, i), n + 1, log, src)
<1> DEFINE resolves == w.recent[i].unmatched = w.at
           recent == IF resolves THEN [w.recent EXCEPT ![i].unmatched = None] ELSE w.recent
           at == w.at + 1
           orphans == w.orphans + 1
           discrepancies == IF resolves THEN w.discrepancies - 1 ELSE w.discrepancies
           v == Repeat(w, i)
<1>1. /\ w \in WalkState(log) /\ w.recent \in Seq(Remembered) /\ w.at \in Nat /\ w.orphans \in Nat
      /\ w.discrepancies \in Int
  BY DEF WalkInv, WalkState
<1>2. v = [w EXCEPT !.at = at, !.orphans = orphans, !.discrepancies = discrepancies, !.recent = recent]
  BY Zenon DEF Repeat
<1>3. /\ DOMAIN recent = DOMAIN w.recent /\ recent \in Seq(Remembered)
      /\ \A r \in DOMAIN w.recent : recent[r].entry = w.recent[r].entry
  <2>1. CASE resolves
    <3> DEFINE new == [w.recent[i] EXCEPT !.unmatched = None]
    <3>1. w.recent[i] \in Remembered
      BY <1>1
    <3>2. new \in Remembered /\ new.entry = w.recent[i].entry
      BY <3>1 DEF Remembered
    <3> HIDE DEF new
    <3>3. recent = [w.recent EXCEPT ![i] = new]
      BY <2>1 DEF new
    <3> HIDE DEF recent
    <3>4. DOMAIN recent = DOMAIN w.recent
      BY <1>1, <3>3
    <3>5. recent \in Seq(Remembered)
      BY <1>1, <3>2, <3>3
    <3>6. ASSUME NEW r \in DOMAIN w.recent PROVE recent[r].entry = w.recent[r].entry
      BY <1>1, <3>2, <3>3
    <3> QED
      BY <3>4, <3>5, <3>6
  <2> QED
    BY <1>1, <2>1
<1>4. at \in Nat \ {0} /\ orphans \in Nat /\ discrepancies \in Int
  BY <1>1
<1> HIDE DEF recent, at, orphans, discrepancies, v
<1>5. /\ v \in WalkState(log)
      /\ v.first = w.first /\ v.next = w.next /\ v.kept = w.kept /\ v.compared = w.compared
      /\ v.previous = w.previous /\ v.error = w.error /\ v.at = at /\ v.recent = recent
  BY <1>1, <1>2, <1>3, <1>4, Zenon DEF WalkState
<1>6. Settled(w, log, src, w.at)
  BY DEF WalkInv, RecentInv, Settled
<1>7. v.at = w.at + 1
  BY <1>5 DEF at
<1>8. WalkInv(v, n + 1, log, src)
  BY <1>3, <1>5, <1>6, <1>7, NotKeptInv, Zenon
<1> QED
  BY <1>8 DEF v

LEMMA FurtherInv ==
    ASSUME NEW log \in Seq(Entry \cup {Torn}), NEW index, Indexed(index),
           NEW src, Source(src), NEW n \in Nat, n < Len(log), NEW w, WalkInv(w, n, log, src)
    PROVE  WalkInv(Further(w, log, index, src), n + 1, log, src)
<1> DEFINE e == log[w.at]
           ref == RefBlock(src, e.num)
           repeat == IF e.num < w.next THEN Duplicate(w.recent, e) ELSE 0
           link == Link(src, e, ref)
           v == Further(w, log, index, src)
<1>1. /\ w \in WalkState(log) /\ w.recent \in Seq(Remembered) /\ w.at \in Nat /\ w.orphans \in Nat
  BY DEF WalkInv, WalkState
<1>2. CASE w.failed \/ w.error
  <2>1. v = w
    BY <1>2 DEF Further
  <2> HIDE DEF v
  <2>2. WalkInv(v, n + 1, log, src)
    BY <1>1, <1>2, <2>1, NotKeptInv
  <2> QED
    BY <2>2 DEF v
<1>3. CASE ~w.failed /\ ~w.error
  <2>0. v = Step(w, log, index, src) /\ w.at = n + 1 /\ w.at \in DOMAIN log
    BY <1>3 DEF Further, WalkInv, AtInv
  <2>1. CASE v = [w EXCEPT !.failed = TRUE] \/ v = [w EXCEPT !.error = TRUE]
    <3> HIDE DEF v
    <3>1. /\ v \in WalkState(log) /\ v.first = w.first /\ v.next = w.next /\ v.kept = w.kept
          /\ v.compared = w.compared /\ v.previous = w.previous /\ v.recent = w.recent
          /\ v.at = w.at /\ (v.failed \/ v.error)
      BY <2>1, <1>1, Zenon DEF WalkState
    <3>2. WalkInv(v, n + 1, log, src)
      BY <1>3, <3>1, NotKeptInv
    <3> QED
      BY <3>2 DEF v
  <2>2. CASE /\ v = [w EXCEPT !.at = w.at + 1, !.orphans = w.orphans + 1]
             /\ src.kind = "ship" /\ Id(ref) # Id(e)
    <3>1. Settled(w, log, src, w.at)
      BY <2>2 DEF Settled
    <3> HIDE DEF v
    <3>2. /\ v \in WalkState(log) /\ v.first = w.first /\ v.next = w.next /\ v.kept = w.kept
          /\ v.compared = w.compared /\ v.previous = w.previous /\ v.recent = w.recent
          /\ v.at = w.at + 1
      <4> DEFINE at == w.at + 1
                 orphans == w.orphans + 1
      <4>1. v = [w EXCEPT !.at = at, !.orphans = orphans] /\ at \in Nat \ {0} /\ orphans \in Nat
        BY <2>2, <1>1
      <4> HIDE DEF at, orphans
      <4>2. /\ v \in WalkState(log) /\ v.first = w.first /\ v.next = w.next /\ v.kept = w.kept
            /\ v.compared = w.compared /\ v.previous = w.previous /\ v.recent = w.recent
            /\ v.at = at
        BY <4>1, <1>1, Zenon DEF WalkState
      <4> QED
        BY <4>2 DEF at
    <3>3. WalkInv(v, n + 1, log, src)
      BY <1>3, <3>1, <3>2, NotKeptInv
    <3> QED
      BY <3>3 DEF v
  <2>3. CASE v = Repeat(w, repeat) /\ src.kind = "ship" /\ repeat # 0 /\ e \in Entry
    <3>1. repeat \in DOMAIN w.recent /\ w.recent[repeat].entry = e
      BY <2>3, <1>1, DuplicateIs
    <3> HIDE DEF repeat
    <3> QED
      BY <2>3, <3>1, <1>3, RepeatInv, Zenon
  <2>4. CASE /\ v = Accept(w, index, src, e, ref) /\ e \in Entry /\ ref # Err
             /\ ref # None => Id(ref) = Id(e)
             /\ e.num = w.next
             /\ link = None \/ w.previous = None \/ link = w.previous
    BY <2>4, <1>3, AcceptInv
  <2>5. e \in Entry \/ e = Torn
    BY <2>0
  <2>6. src.kind \in Kinds
    BY DEF Source
  <2> HIDE DEF v
  <2>7. \/ v = [w EXCEPT !.failed = TRUE] \/ v = [w EXCEPT !.error = TRUE]
        \/ /\ v = [w EXCEPT !.at = w.at + 1, !.orphans = w.orphans + 1]
           /\ src.kind = "ship" /\ Id(ref) # Id(e)
        \/ v = Repeat(w, repeat) /\ src.kind = "ship" /\ repeat # 0 /\ e \in Entry
        \/ /\ v = Accept(w, index, src, e, ref) /\ e \in Entry /\ ref # Err
           /\ ref # None => Id(ref) = Id(e)
           /\ e.num = w.next
           /\ link = None \/ w.previous = None \/ link = w.previous
    BY <2>0, <2>5, Zenon DEF Step, Whole
  <2> QED
    BY <2>1, <2>2, <2>3, <2>4, <2>7 DEF v
<1> QED
  BY <1>2, <1>3, <1>1 DEF WalkState

(* What the whole walk returns, for any log. *)
LEMMA WalkIs ==
    ASSUME NEW log \in Seq(Entry \cup {Torn}), NEW index, Indexed(index),
           NEW src, Source(src), NEW first \in 1 .. MaxBlock
    PROVE  WalkInv(Walk(log, index, first, src), Len(log), log, src)
<1> DEFINE f == Rounds(log, index, first, src)
           T == {n \in Nat : n <= Len(log) => WalkInv(f[n], n, log, src)}
<1>1. AreRounds(f, Len(log), log, index, first, src)
  BY RoundsAre
<1>2. /\ Len(log) \in Nat /\ f[0] = WalkStart(first)
      /\ \A n \in Nat : n < Len(log) => f[n + 1] = Further(f[n], log, index, src)
  <2>1. Len(log) \in Nat
    OBVIOUS
  <2> HIDE DEF f
  <2> QED
    BY <1>1, <2>1 DEF AreRounds
<1> HIDE DEF f
<1>3. 0 \in T
  BY <1>2, WalkStartInv, Zenon
<1>4. ASSUME NEW n \in Nat, n \in T PROVE n + 1 \in T
  <2> SUFFICES ASSUME n + 1 <= Len(log) PROVE WalkInv(f[n + 1], n + 1, log, src)
    OBVIOUS
  <2>1. n < Len(log) /\ WalkInv(f[n], n, log, src)
    BY <1>2, <1>4
  <2>2. WalkInv(Further(f[n], log, index, src), n + 1, log, src)
    BY <2>1, FurtherInv
  <2> QED
    BY <1>2, <2>1, <2>2
<1> DEFINE w == f[Len(log)]
           beyond == Slots(index) - Len(w.kept)
           discrepancies == IF beyond > 0 THEN w.discrepancies + beyond ELSE w.discrepancies
           v == Walk(log, index, first, src)
<1>5. WalkInv(w, Len(log), log, src)
  <2> HIDE DEF T
  <2>1. Nat \subseteq T
    BY <1>3, <1>4, SetInduction
  <2> QED
    BY <1>2, <2>1 DEF T
<1>6. v = [w EXCEPT !.discrepancies = discrepancies, !.recent = <<>>]
  BY Zenon DEF Walk, f
<1>7. w \in WalkState(log) /\ w.kept \in Seq(DOMAIN log) /\ w.discrepancies \in Int
  BY <1>5 DEF WalkInv, WalkState
<1>8. discrepancies \in Int
  <2>1. Slots(index) \in Int
    BY DEF Slots, Indexed
  <2>2. Len(w.kept) \in Nat
    BY <1>7
  <2> QED
    BY <1>7, <2>1, <2>2
<1>9. <<>> \in Seq(Remembered)
  OBVIOUS
<1> HIDE DEF w, beyond, discrepancies, v
<1>10. /\ v \in WalkState(log) /\ v.first = w.first /\ v.next = w.next /\ v.kept = w.kept
       /\ v.compared = w.compared /\ v.previous = w.previous /\ v.at = w.at
       /\ v.failed = w.failed /\ v.error = w.error /\ v.recent = <<>>
  BY <1>6, <1>7, <1>8, <1>9, Zenon DEF WalkState
<1>11. KeptInv(v, log, src)
  BY <1>5, <1>10 DEF WalkInv, KeptInv
<1>12. ComparedInv(v, log, src) /\ RecentInv(v, log)
  BY <1>5, <1>10 DEF WalkInv, ComparedInv, RecentInv
<1>13. AtInv(v, Len(log), log, src)
  BY <1>5, <1>10 DEF WalkInv, AtInv, Settled
<1>14. WalkInv(v, Len(log), log, src)
  BY <1>10, <1>11, <1>12, <1>13 DEF WalkInv
<1> QED
  BY <1>14 DEF v

-----------------------------------------------------------------------------
(* What the recovery writes. *)

(* A sequence of entries that is one chain, from the block `first`, and    *)
(* that agrees with every trusted block and every donor.                   *)
Agrees(src, e) ==
    /\ src.kind = "ship" => RefBlock(src, e.num) # None
    /\ RefBlock(src, e.num) # None => Id(RefBlock(src, e.num)) = Id(e)
    /\ \A d \in src.donors : d.num = e.num => d.pay = e.pay

OneChain(s, first, src) ==
    /\ s \in Seq(Entry)
    /\ \A i \in DOMAIN s : s[i].num = first + i - 1 /\ Agrees(src, s[i])
    /\ \A i \in 2 .. Len(s) : Parent(s[i]) = Id(s[i - 1])

(* The entries kept, when every one of them was compared. *)
LEMMA KeptIsChain ==
    ASSUME NEW log \in Seq(Entry \cup {Torn}), NEW src, Source(src), NEW w,
           WalkInv(w, Len(log), log, src), ~w.error, Canonical(w, src)
    PROVE  /\ OneChain(Kept(w, log), w.first, src)
           /\ Len(Kept(w, log)) = Len(w.kept)
           /\ w.first \in Nat /\ w.next = w.first + Len(w.kept)
           /\ w.kept # <<>> => w.previous = Id(Kept(w, log)[Len(w.kept)])
<1> DEFINE s == Kept(w, log)
           L == Len(w.kept)
<1>1. w.kept \in Seq(DOMAIN log) /\ L \in Nat /\ DOMAIN w.kept = 1 .. L /\ w.first \in Nat
      /\ (w.kept = <<>> <=> L = 0)
  BY DEF WalkInv, WalkState
<1>2. \A i \in 1 .. L : /\ log[w.kept[i]] \in Entry
                        /\ log[w.kept[i]].num = w.first + i - 1
                        /\ Evidence(src, log[w.kept[i]])
                        /\ CheckPrefixDonors(src, log[w.kept[i]])
                        /\ i > 1 /\ Linked(src, log[w.kept[i]])
                              => Parent(log[w.kept[i]]) = Id(log[w.kept[i - 1]])
  BY <1>1, Zenon DEF WalkInv, KeptInv
<1>3. w.next = w.first + L /\ w.previous = IF w.kept = <<>> THEN None ELSE Id(log[w.kept[L]])
  BY DEF WalkInv, KeptInv
<1>4. \A i \in 1 .. L : src.kind = "ship" => RefBlock(src, log[w.kept[i]].num) # None
  BY <1>1 DEF WalkInv, ComparedInv, Canonical
<1> HIDE DEF L
<1>5. DOMAIN s = 1 .. L /\ \A i \in 1 .. L : s[i] = log[w.kept[i]]
  BY <1>1 DEF Kept
<1>6. s \in Seq(Entry) /\ Len(s) = L
  <2>1. s = [i \in 1 .. L |-> s[i]]
    BY <1>1 DEF Kept
  <2> HIDE DEF s
  <2>2. \A i \in 1 .. L : s[i] \in Entry
    BY <1>2, <1>5
  <2>3. s \in [1 .. L -> Entry]
    BY <2>1, <2>2
  <2>4. s \in Seq(Entry)
    BY <1>1, <2>3, SeqDef
  <2> QED
    BY <1>1, <1>5, <2>4, LenProperties
<1> HIDE DEF s
<1>7. ASSUME NEW i \in 1 .. L PROVE Agrees(src, s[i])
  <2> DEFINE e == s[i]
  <2>1. e \in Entry /\ Evidence(src, e) /\ CheckPrefixDonors(src, e)
        /\ (src.kind = "ship" => RefBlock(src, e.num) # None)
    BY <1>2, <1>4, <1>5
  <2> HIDE DEF e
  <2>2. ASSUME NEW d \in src.donors, d.num = e.num PROVE d.pay = e.pay
    <3>1. src.kind = "ship"
      BY DEF Source, Kinds
    <3>2. ShipDonor(src, e.num, Id(e)) # Err
      BY <2>1, <3>1 DEF CheckPrefixDonors
    <3>3. ShipDonor(src, e.num, Id(e)) # None /\ d.pay = ShipDonor(src, e.num, Id(e)).pay
      BY <2>2, <3>2, ShipDonorIs
    <3> QED
      BY <2>1, <3>1, <3>3 DEF CheckPrefixDonors
  <2> QED
    BY <2>1, <2>2 DEF Agrees, Evidence, e
<1>8. ASSUME NEW i \in 2 .. L PROVE Parent(s[i]) = Id(s[i - 1])
  <2>1. i \in 1 .. L /\ i - 1 \in 1 .. L /\ i > 1
    BY <1>1
  <2>2. Linked(src, log[w.kept[i]])
    BY <2>1, <1>4 DEF Linked, Source, Kinds
  <2> QED
    BY <2>1, <2>2, <1>2, <1>5
<1>9. OneChain(s, w.first, src)
  BY <1>2, <1>5, <1>6, <1>7, <1>8 DEF OneChain
<1>10. w.kept # <<>> => w.previous = Id(s[L])
  BY <1>1, <1>3, <1>5
<1> QED
  BY <1>1, <1>3, <1>6, <1>9, <1>10 DEF s, L

(* The blocks restored after them. *)
LEMMA RestoredIsChain ==
    ASSUME NEW log \in Seq(Entry \cup {Torn}), NEW src, Source(src), NEW w,
           WalkInv(w, Len(log), log, src), NEW index,
           NEW through \in (1 .. MaxBlock) \cup {None},
           NEW tail, tail = Restored(w, index, src, through), tail # Err
    PROVE  /\ Canonical(w, src) /\ w.kept # <<>> /\ w.next \in Nat
           /\ through \in Nat /\ through >= w.next - 1
           /\ OneChain(tail, w.next, src) /\ Len(tail) = through - (w.next - 1)
           /\ tail # <<>> => Parent(tail[1]) = w.previous
<1> DEFINE last == LastBlock(w)
           nums == last + 1 .. through
           ref(n) == RefBlock(src, n)
           body(n) == IF src.kind = "blocks" THEN ref(n) ELSE ShipDonor(src, n, Id(ref(n)))
           L == through - last
<1>1. last # None /\ through # None
  BY Zenon DEF Restored
<1>2. w.kept # <<>> /\ last = w.next - 1 /\ w.next \in Nat /\ through \in Nat
  <2>1. w.kept # <<>> /\ last = w.next - 1
    BY <1>1 DEF LastBlock
  <2>2. w.next \in Nat
    BY DEF WalkInv, WalkState
  <2> QED
    BY <1>1, <2>1, <2>2, RecoverAssumption
<1> HIDE DEF last
<1>3. /\ ~(through < last)
      /\ ~\E n \in nums : ref(n) \in {None, Err}
      /\ ~\E n \in nums : body(n) \in {None, Err}
      /\ \A n \in nums : n - 1 \in nums => Parent(ref(n)) = Id(ref(n - 1))
      /\ Canonical(w, src)
      /\ nums # {} => Parent(ref(last + 1)) = w.previous
      /\ tail = [i \in 1 .. L |-> body(last + i)]
  BY <1>1, Zenon DEF Restored, last
<1>4. last \in Int /\ L \in Nat
  BY <1>2, <1>3
<1>5. ASSUME NEW n \in nums
      PROVE  /\ ref(n) \in Entry /\ body(n) \in Entry /\ body(n).num = n
             /\ Id(body(n)) = Id(ref(n)) /\ Agrees(src, body(n))
  <2>1. ref(n) \in Entry /\ ref(n).num = n /\ ref(n) # None /\ ref(n) # Err
    BY <1>3, RefBlockIs
  <2>2. CASE src.kind = "blocks"
    <3>1. src.donors = {} /\ body(n) = ref(n)
      BY <2>2 DEF Source
    <3> HIDE DEF body
    <3> QED
      BY <2>1, <2>2, <3>1 DEF Agrees
  <2>3. CASE src.kind # "blocks"
    <3>1. body(n) = ShipDonor(src, n, Id(ref(n))) /\ body(n) # Err /\ body(n) # None
      BY <2>3, <1>3
    <3>2. /\ body(n) \in Entry /\ body(n).num = n /\ Id(body(n)) = Id(ref(n))
          /\ \A e \in src.donors : e.num = n => e.pay = body(n).pay
      BY <3>1, ShipDonorIs, SMTT(30)
    <3> HIDE DEF body
    <3> QED
      BY <2>1, <3>2 DEF Agrees
  <2> QED
    BY <2>2, <2>3
<1> HIDE DEF body, L
<1>6. DOMAIN tail = 1 .. L /\ \A i \in 1 .. L : tail[i] = body(last + i)
  BY <1>3
<1>7. \A i \in 1 .. L : last + i \in nums /\ last + i = w.next + i - 1
  BY <1>2, <1>4 DEF L
<1>8. tail \in Seq(Entry) /\ Len(tail) = L
  <2>1. \A i \in 1 .. L : body(last + i) \in Entry
    BY <1>5, <1>7
  <2>2. tail \in [1 .. L -> Entry]
    BY <1>3, <2>1
  <2>3. tail \in Seq(Entry)
    BY <1>4, <2>2, SeqDef
  <2> QED
    BY <1>4, <1>6, <2>3, LenProperties
<1>9. ASSUME NEW i \in DOMAIN tail PROVE tail[i].num = w.next + i - 1 /\ Agrees(src, tail[i])
  BY <1>5, <1>6, <1>7
<1>10. ASSUME NEW i \in 2 .. L PROVE Parent(tail[i]) = Id(tail[i - 1])
  <2> DEFINE n == last + i
  <2>1. i \in 1 .. L /\ i - 1 \in 1 .. L /\ last + (i - 1) = n - 1
    BY <1>4
  <2>2. n \in nums /\ n - 1 \in nums /\ tail[i] = body(n) /\ tail[i - 1] = body(n - 1)
    BY <2>1, <1>6, <1>7
  <2> HIDE DEF n, nums
  <2>3. Parent(body(n)) = Parent(ref(n))
    BY <2>2, <1>5, SameId
  <2> QED
    BY <2>2, <2>3, <1>3, <1>5
<1>11. tail # <<>> => Parent(tail[1]) = w.previous
  <2> SUFFICES ASSUME tail # <<>> PROVE Parent(tail[1]) = w.previous
    OBVIOUS
  <2>1. 1 \in 1 .. L
    BY <1>4, <1>8
  <2>2. last + 1 \in nums /\ tail[1] = body(last + 1)
    BY <2>1, <1>6, <1>7
  <2>3. Parent(body(last + 1)) = Parent(ref(last + 1))
    BY <2>2, <1>5, SameId
  <2> QED
    BY <2>2, <2>3, <1>3
<1>12. OneChain(tail, w.next, src)
  BY <1>8, <1>9, <1>10 DEF OneChain
<1>13. Len(tail) = through - (w.next - 1) /\ through >= w.next - 1
  BY <1>2, <1>3, <1>8 DEF L
<1> QED
  BY <1>2, <1>3, <1>11, <1>12, <1>13, Zenon

(* Two chains, the second after the first. *)
LEMMA Joined ==
    ASSUME NEW src, NEW first \in Nat, NEW s, NEW t, OneChain(s, first, src),
           OneChain(t, first + Len(s), src), s # <<>>,
           t # <<>> => Parent(t[1]) = Id(s[Len(s)])
    PROVE  OneChain(s \o t, first, src)
<1> DEFINE u == s \o t
           L == Len(s)
           M == Len(t)
<1>1. /\ s \in Seq(Entry) /\ t \in Seq(Entry) /\ L \in Nat /\ M \in Nat
      /\ DOMAIN s = 1 .. L /\ DOMAIN t = 1 .. M
  BY DEF OneChain
<1>2. /\ u \in Seq(Entry) /\ DOMAIN u = 1 .. L + M /\ Len(u) = L + M
      /\ \A i \in 1 .. L : u[i] = s[i]
      /\ \A i \in 1 .. M : u[L + i] = t[i]
  BY <1>1
<1>3. /\ \A i \in 1 .. L : s[i].num = first + i - 1 /\ Agrees(src, s[i])
      /\ \A i \in 2 .. L : Parent(s[i]) = Id(s[i - 1])
      /\ \A i \in 1 .. M : t[i].num = first + L + i - 1 /\ Agrees(src, t[i])
      /\ \A i \in 2 .. M : Parent(t[i]) = Id(t[i - 1])
  BY <1>1, Zenon DEF OneChain
<1>4. L > 0 /\ (M > 0 => Parent(t[1]) = Id(s[L]))
  BY <1>1
<1> HIDE DEF u, L, M
<1>5. ASSUME NEW i \in 1 .. L + M PROVE u[i].num = first + i - 1 /\ Agrees(src, u[i])
  <2>1. CASE i \in 1 .. L
    BY <2>1, <1>2, <1>3
  <2>2. CASE i \notin 1 .. L
    <3> DEFINE j == i - L
    <3>1. j \in 1 .. M /\ i = L + j /\ first + L + j - 1 = first + i - 1
      BY <2>2, <1>1
    <3> HIDE DEF j
    <3>2. u[i] = t[j]
      BY <3>1, <1>2
    <3> QED
      BY <3>1, <3>2, <1>3
  <2> QED
    BY <2>1, <2>2
<1>6. ASSUME NEW i \in 2 .. L + M PROVE Parent(u[i]) = Id(u[i - 1])
  <2>1. CASE i \in 1 .. L
    <3>1. i \in 2 .. L /\ i - 1 \in 1 .. L
      BY <2>1, <1>1
    <3> QED
      BY <2>1, <3>1, <1>2, <1>3
  <2>2. CASE i = L + 1
    <3>1. M > 0 /\ 1 \in 1 .. M /\ i - 1 = L /\ L \in 1 .. L
      BY <2>2, <1>1, <1>4
    <3>2. u[i] = t[1] /\ u[i - 1] = s[L]
      BY <2>2, <3>1, <1>2
    <3> QED
      BY <3>1, <3>2, <1>4
  <2>3. CASE i \notin 1 .. L + 1
    <3> DEFINE j == i - L
    <3>1. j \in 2 .. M /\ j - 1 \in 1 .. M /\ j \in 1 .. M /\ i = L + j /\ i - 1 = L + (j - 1)
      BY <2>3, <1>1
    <3> HIDE DEF j
    <3>2. u[i] = t[j] /\ u[i - 1] = t[j - 1]
      BY <3>1, <1>2
    <3> QED
      BY <3>1, <3>2, <1>3
  <2> QED
    BY <2>1, <2>2, <2>3, <1>1
<1>7. OneChain(u, first, src)
  BY <1>2, <1>5, <1>6 DEF OneChain
<1> QED
  BY <1>7 DEF u

-----------------------------------------------------------------------------
(* The recovery. *)

(* What is appended to the prefix; Err when the mode is not available. *)
TailOf(opts, w, index, src) ==
    IF opts.mode = "restore" THEN Restored(w, index, src, opts.through)
    ELSE IF w.kept # <<>> /\ Canonical(w, src) THEN <<>> ELSE Err

(* The log promised is one chain through the block promised. *)
Promises(s, t, w, opts, src) ==
    /\ s \in Seq(Entry) /\ t \in Seq(Entry)
    /\ OneChain(s \o t, w.first, src) /\ s \o t # <<>>
    /\ (s \o t)[Len(s \o t)].num = IF opts.mode = "restore" THEN opts.through ELSE LastBlock(w)

LEMMA Promised ==
    ASSUME NEW log \in Seq(Entry \cup {Torn}), NEW src, Source(src), NEW w,
           WalkInv(w, Len(log), log, src), ~w.error, NEW index, NEW opts \in Options,
           NEW t, t = TailOf(opts, w, index, src), t # Err,
           NEW s, s = Kept(w, log)
    PROVE  Promises(s, t, w, opts, src)
<1> DEFINE u == s \o t
<1> DEFINE through == IF opts.mode = "restore" THEN opts.through ELSE LastBlock(w)
<1>1. /\ Canonical(w, src) /\ w.kept # <<>> /\ OneChain(t, w.next, src)
      /\ t # <<>> => Parent(t[1]) = w.previous
      /\ Len(t) = through - (w.next - 1) /\ through \in Int /\ w.next \in Nat
  <2>1. CASE opts.mode = "restore"
    <3>1. /\ t = Restored(w, index, src, opts.through) /\ through = opts.through
          /\ opts.through \in (1 .. MaxBlock) \cup {None}
      BY <2>1 DEF TailOf, Options
    <3> DEFINE block == opts.through
    <3>a. /\ t = Restored(w, index, src, block)
          /\ block \in (1 .. MaxBlock) \cup {None}
      BY <3>1
    <3>c. through = block
      BY <3>1
    <3> HIDE DEF block, through
    <3>b. /\ Canonical(w, src) /\ w.kept # <<>> /\ w.next \in Nat
          /\ block \in Nat /\ block >= w.next - 1
          /\ OneChain(t, w.next, src) /\ Len(t) = block - (w.next - 1)
          /\ t # <<>> => Parent(t[1]) = w.previous
      BY <3>a, RestoredIsChain
    <3>2. Len(t) = through - (w.next - 1)
      BY <3>b, <3>c
    <3>3. through \in Int
      BY <3>b, <3>c
    <3> QED
      BY <3>b, <3>2, <3>3, Zenon
  <2>2. CASE opts.mode # "restore"
    <3>1. t = <<>> /\ w.kept # <<>> /\ Canonical(w, src) /\ through = w.next - 1
      BY <2>2 DEF TailOf, LastBlock
    <3>2. w.next \in Nat
      BY DEF WalkInv, WalkState
    <3> HIDE DEF through
    <3>3. OneChain(t, w.next, src)
      BY <3>1 DEF OneChain
    <3> QED
      BY <3>1, <3>2, <3>3
  <2> QED
    BY <2>1, <2>2
<1>2. /\ OneChain(s, w.first, src) /\ Len(s) = Len(w.kept) /\ w.first \in Nat
      /\ w.next = w.first + Len(w.kept) /\ w.previous = Id(s[Len(w.kept)])
  BY <1>1, KeptIsChain
<1>3. s \in Seq(Entry) /\ t \in Seq(Entry)
  BY <1>1, <1>2 DEF OneChain
<1> HIDE DEF through
<1>4. s # <<>> /\ w.next = w.first + Len(s) /\ w.previous = Id(s[Len(s)])
  <2>1. w.kept \in Seq(DOMAIN log)
    BY DEF WalkInv, WalkState
  <2>2. Len(w.kept) # 0
    BY <1>1, <2>1
  <2> QED
    BY <1>2, <1>3, <2>2
<1>5. OneChain(u, w.first, src)
  BY <1>1, <1>2, <1>4, Joined, Zenon
<1>6. u \in Seq(Entry) /\ u # <<>> /\ Len(u) = Len(s) + Len(t) /\ Len(u) \in DOMAIN u
  BY <1>3, <1>4
<1> HIDE DEF u
<1>7. u[Len(u)].num = w.first + Len(u) - 1
  BY <1>5, <1>6 DEF OneChain
<1>8. w.first + Len(u) - 1 = through
  <2>1. Len(s) \in Nat /\ Len(t) \in Nat
    BY <1>3
  <2>2. Len(t) = through - (w.next - 1) /\ through \in Int
    BY <1>1
  <2>3. w.next = w.first + Len(s) /\ w.first \in Nat /\ Len(u) = Len(s) + Len(t)
    BY <1>2, <1>4, <1>6
  <2> DEFINE a == w.first
             b == Len(s)
             c == Len(t)
  <2>4. a \in Nat /\ b \in Nat /\ c \in Nat /\ through \in Int /\ c = through - (a + b - 1)
    BY <2>1, <2>2, <2>3
  <2>5. Len(u) = b + c
    BY <2>3
  <2> HIDE DEF a, b, c
  <2>6. a + (b + c) - 1 = through
    BY <2>4
  <2> QED
    BY <2>5, <2>6 DEF a
<1> QED
  BY <1>3, <1>5, <1>6, <1>7, <1>8 DEF Promises, through, u

InputsInv ==
    /\ target = [log |-> target.log, index |-> target.index, stamp |-> target.stamp]
    /\ target.log \in Seq(Entry \cup {Torn}) /\ Indexed(target.index)
    /\ Source(sources)

(* What was inspected, and what is promised of it. *)
Inspected(r, src) ==
    LET w == r.summary.walk
        log == r.summary.log
    IN  /\ r.opts \in Options
        /\ log \in Seq(Entry \cup {Torn}) /\ WalkInv(w, Len(log), log, src) /\ ~w.error
        /\ r.tail = TailOf(r.opts, w, r.summary.index, src)

RunInv ==
    /\ run = [phase |-> run.phase, opts |-> run.opts, pin |-> run.pin, first |-> run.first,
              summary |-> run.summary, tail |-> run.tail]
    /\ run.phase \in {"inspected", "planned", "written", "done"} => Inspected(run, sources)
    /\ run.phase \in {"planned", "written", "done"} => run.tail # Err

OutInv ==
    /\ out = [plan |-> out.plan, log |-> out.log, index |-> out.index, complete |-> out.complete]
    /\ run.phase \in {"written", "done"} =>
          out.log = Kept(run.summary.walk, run.summary.log) \o run.tail
    /\ out.complete => run.phase = "done"

(* Once written, the log is what was promised of what was inspected, and   *)
(* it is complete only then.                                               *)
RecoverInv == InputsInv /\ RunInv /\ OutInv

LEMMA RecoverInit == Init => RecoverInv
<1> SUFFICES ASSUME Init PROVE RecoverInv
  OBVIOUS
<1>1. PICK i \in Inputs : /\ target = [log |-> i.log, index |-> i.index, stamp |-> 0]
                          /\ sources = [kind |-> i.kind, blocks |-> i.blocks, donors |-> i.donors]
  BY DEF Init
<1>2. InputsInv
  BY <1>1, InputsAssumption DEF InputsInv, Indexed, Source
<1>3. RunInv /\ OutInv
  BY DEF Init, NoRun, NoOut, RunInv, OutInv
<1> QED
  BY <1>2, <1>3 DEF RecoverInv

(* Steps that leave the run or the output alone, or end the run. *)
LEMMA RecoverFail ==
    ASSUME RecoverInv, Fail, UNCHANGED out, UNCHANGED target, UNCHANGED sources,
           run.phase # "done"
    PROVE  RecoverInv'
<1>1. run' = [run EXCEPT !.phase = "failed"] /\ run'.phase = "failed"
  BY DEF Fail, RecoverInv, RunInv
<1>2. run' = [phase |-> run'.phase, opts |-> run'.opts, pin |-> run'.pin, first |-> run'.first,
              summary |-> run'.summary, tail |-> run'.tail]
  BY <1>1 DEF RecoverInv, RunInv
<1>3. RunInv' /\ OutInv'
  BY <1>1, <1>2 DEF RecoverInv, RunInv, OutInv
<1>4. InputsInv'
  BY DEF RecoverInv, InputsInv, Indexed, Source
<1> QED
  BY <1>3, <1>4 DEF RecoverInv

LEMMA RecoverInspect ==
    ASSUME RecoverInv, NEW opts \in Options, Inspect(opts)
    PROVE  RecoverInv'
<1> DEFINE first == First(sources.kind, target.log)
           w == Walk(target.log, target.index, first, sources)
           tail == TailOf(opts, w, target.index, sources)
           summary == [walk |-> w, log |-> target.log, index |-> target.index]
           last == IF LastBlock(w) = None THEN first ELSE LastBlock(w)
           failed == first = Err \/ w.error \/ (opts.through # None /\ opts.through < last)
<1>1. /\ run.phase = "none" /\ UNCHANGED <<target, sources, out, changes>>
      /\ run' = IF failed
                THEN [phase |-> "failed", opts |-> opts, pin |-> target.stamp, first |-> first,
                      summary |-> None, tail |-> None]
                ELSE [phase |-> "inspected", opts |-> opts, pin |-> target.stamp, first |-> first,
                      summary |-> summary, tail |-> tail]
  <2> DEFINE begun == [NoRun EXCEPT !.opts = opts, !.pin = target.stamp, !.first = first]
  <2>1. /\ run.phase = "none" /\ UNCHANGED <<target, sources, out, changes>>
        /\ run' = IF first = Err THEN [begun EXCEPT !.phase = "failed"]
                  ELSE IF w.error \/ (opts.through # None /\ opts.through < last)
                       THEN [begun EXCEPT !.phase = "failed"]
                  ELSE [begun EXCEPT !.phase = "inspected", !.tail = tail, !.summary = summary]
    BY Zenon DEF Inspect, TailOf
  <2> HIDE DEF first, w, tail, summary, last
  <2>a. begun = [NoRun EXCEPT !.opts = opts, !.pin = target.stamp, !.first = first]
    OBVIOUS
  <2>b. NoRun = [phase |-> "none", opts |-> None, pin |-> None, first |-> None,
                 summary |-> None, tail |-> None]
    BY DEF NoRun
  <2> DEFINE fails == [begun EXCEPT !.phase = "failed"]
             inspected == [begun EXCEPT !.phase = "inspected", !.tail = tail, !.summary = summary]
  <2>c. fails = [begun EXCEPT !.phase = "failed"]
    OBVIOUS
  <2>d. inspected = [begun EXCEPT !.phase = "inspected", !.tail = tail, !.summary = summary]
    OBVIOUS
  <2> HIDE DEF begun, fails, inspected
  <2>2. begun = [phase |-> "none", opts |-> opts, pin |-> target.stamp, first |-> first,
                 summary |-> None, tail |-> None]
    BY <2>a, <2>b, Zenon
  <2>3. fails = [phase |-> "failed", opts |-> opts, pin |-> target.stamp, first |-> first,
                 summary |-> None, tail |-> None]
    BY <2>c, <2>2
  <2>4. inspected = [phase |-> "inspected", opts |-> opts, pin |-> target.stamp, first |-> first,
                     summary |-> summary, tail |-> tail]
    BY <2>d, <2>2, Zenon
  <2> QED
    BY <2>1, <2>3, <2>4, <2>c, <2>d, Zenon
<1>2. InputsInv'
  BY <1>1 DEF RecoverInv, InputsInv, Indexed, Source
<1>3. CASE failed
  <2>1. RunInv' /\ OutInv'
    BY <1>1, <1>3 DEF RecoverInv, RunInv, OutInv
  <2> QED
    BY <1>2, <2>1 DEF RecoverInv
<1>4. CASE ~failed
  <2>1. /\ target.log \in Seq(Entry \cup {Torn}) /\ Indexed(target.index) /\ Source(sources)
    BY DEF RecoverInv, InputsInv
  <2>2. first \in 1 .. MaxBlock
    <3>1. first # Err
      BY <1>4
    <3>2. CASE sources.kind = "blocks"
      BY <3>2, RecoverAssumption DEF First
    <3>3. CASE sources.kind # "blocks"
      <4>1. target.log # <<>> /\ Head(target.log) # Torn /\ first = Head(target.log).num
        BY <3>1, <3>3 DEF First
      <4>2. Head(target.log) \in Entry
        BY <2>1, <4>1
      <4> QED
        BY <4>1, <4>2 DEF Entry
    <3> QED
      BY <3>2, <3>3
  <2> HIDE DEF first
  <2>3. WalkInv(w, Len(target.log), target.log, sources)
    BY <2>1, <2>2, WalkIs
  <2>4. ~w.error
    BY <1>4
  <2> HIDE DEF w, tail
  <2>5. /\ run' = [phase |-> "inspected", opts |-> opts, pin |-> target.stamp, first |-> first,
                   summary |-> summary, tail |-> tail]
        /\ sources' = sources /\ out' = out
    BY <1>1, <1>4
  <2>6. /\ run'.phase = "inspected" /\ run'.opts = opts /\ run'.tail = tail
        /\ run'.summary.walk = w /\ run'.summary.log = target.log
        /\ run'.summary.index = target.index
        /\ run' = [phase |-> run'.phase, opts |-> run'.opts, pin |-> run'.pin, first |-> run'.first,
                   summary |-> run'.summary, tail |-> run'.tail]
    BY <2>5
  <2>7. Inspected(run', sources')
    BY <2>1, <2>3, <2>4, <2>5, <2>6 DEF Inspected, tail
  <2>8. RunInv'
    BY <2>6, <2>7 DEF RunInv
  <2>9. OutInv'
    BY <1>1, <2>5, <2>6 DEF RecoverInv, OutInv
  <2> QED
    BY <1>2, <2>8, <2>9 DEF RecoverInv
<1> QED
  BY <1>3, <1>4

(* A run that goes on, with what it knows. *)
LEMMA RecoverPhase ==
    ASSUME RecoverInv, NEW phase, run' = [run EXCEPT !.phase = phase], UNCHANGED sources
    PROVE  /\ run'.phase = phase /\ run'.tail = run.tail /\ run'.summary = run.summary
           /\ run' = [phase |-> run'.phase, opts |-> run'.opts, pin |-> run'.pin, first |-> run'.first,
                      summary |-> run'.summary, tail |-> run'.tail]
           /\ Inspected(run, sources) => Inspected(run', sources')
<1>1. /\ run'.phase = phase /\ run'.tail = run.tail /\ run'.summary = run.summary
      /\ run'.opts = run.opts
      /\ run' = [phase |-> run'.phase, opts |-> run'.opts, pin |-> run'.pin, first |-> run'.first,
                 summary |-> run'.summary, tail |-> run'.tail]
  BY DEF RecoverInv, RunInv
<1>2. Inspected(run, sources) => Inspected(run', sources')
  BY <1>1 DEF Inspected
<1> QED
  BY <1>1, <1>2

LEMMA RecoverPlan ==
    ASSUME RecoverInv, Plan
    PROVE  RecoverInv'
<1>1. CASE Fail /\ UNCHANGED out
  BY <1>1, RecoverFail DEF Plan
<1>2. CASE /\ run.tail # Err /\ run' = [run EXCEPT !.phase = "planned"]
           /\ out' = [out EXCEPT !.plan = TRUE]
  <2>1. run.phase = "inspected" /\ UNCHANGED <<target, sources>>
    BY DEF Plan
  <2>2. InputsInv'
    BY <2>1 DEF RecoverInv, InputsInv, Indexed, Source
  <2>3. RunInv'
    BY <1>2, <2>1, RecoverPhase DEF RecoverInv, RunInv
  <2>4. /\ out' = [plan |-> out'.plan, log |-> out'.log, index |-> out'.index,
                   complete |-> out'.complete]
        /\ out'.complete = out.complete
    BY <1>2, Zenon DEF RecoverInv, OutInv
  <2>5. run'.phase = "planned"
    BY <1>2, <2>1, RecoverPhase
  <2>6. OutInv'
    BY <2>1, <2>4, <2>5 DEF RecoverInv, OutInv
  <2> QED
    BY <2>2, <2>3, <2>6 DEF RecoverInv
<1> QED
  BY <1>1, <1>2 DEF Plan

LEMMA RecoverWrite ==
    ASSUME RecoverInv, Write
    PROVE  RecoverInv'
<1> DEFINE w == Walk(target.log, target.index, run.first, sources)
           again == [walk |-> w, log |-> target.log, index |-> target.index]
           made == Appended(Kept(w, target.log) \o run.tail)
<1>0. /\ run.phase = "planned" /\ UNCHANGED <<target, sources>>
      /\ \/ Fail /\ UNCHANGED out
         \/ /\ again = run.summary /\ run' = [run EXCEPT !.phase = "written"]
            /\ out' = [out EXCEPT !.log = made.log, !.index = made.index]
  BY Zenon DEF Write
<1>1. CASE Fail /\ UNCHANGED out
  BY <1>0, <1>1, RecoverFail
<1>2. CASE /\ again = run.summary /\ run' = [run EXCEPT !.phase = "written"]
           /\ out' = [out EXCEPT !.log = made.log, !.index = made.index]
  <2>1. InputsInv'
    BY <1>0 DEF RecoverInv, InputsInv, Indexed, Source
  <2>2. RunInv'
    BY <1>0, <1>2, RecoverPhase DEF RecoverInv, RunInv
  <2>3. run'.phase = "written" /\ run'.tail = run.tail /\ run'.summary = run.summary
    BY <1>0, <1>2, RecoverPhase
  <2> HIDE DEF w
  <2>4. run.summary.walk = w /\ run.summary.log = target.log
    BY <1>2
  <2>5. made.log = Kept(run.summary.walk, run.summary.log) \o run.tail
    BY <2>4, Zenon DEF Appended
  <2> HIDE DEF made
  <2>6. /\ out' = [plan |-> out'.plan, log |-> out'.log, index |-> out'.index,
                   complete |-> out'.complete]
        /\ out'.complete = out.complete /\ out'.log = made.log
    BY <1>2, Zenon DEF RecoverInv, OutInv
  <2>7. OutInv'
    BY <1>0, <2>3, <2>5, <2>6, Zenon DEF RecoverInv, OutInv
  <2> QED
    BY <2>1, <2>2, <2>7 DEF RecoverInv
<1> QED
  BY <1>0, <1>1, <1>2

LEMMA RecoverComplete ==
    ASSUME RecoverInv, Complete
    PROVE  RecoverInv'
<1>0. /\ run.phase = "written" /\ UNCHANGED <<target, sources>>
      /\ \/ Fail /\ UNCHANGED out
         \/ run' = [run EXCEPT !.phase = "done"] /\ out' = [out EXCEPT !.complete = TRUE]
  BY Zenon DEF Complete
<1>1. CASE Fail /\ UNCHANGED out
  BY <1>0, <1>1, RecoverFail
<1>2. CASE run' = [run EXCEPT !.phase = "done"] /\ out' = [out EXCEPT !.complete = TRUE]
  <2>1. InputsInv'
    BY <1>0 DEF RecoverInv, InputsInv, Indexed, Source
  <2>2. RunInv'
    BY <1>0, <1>2, RecoverPhase DEF RecoverInv, RunInv
  <2>3. run'.phase = "done" /\ run'.tail = run.tail /\ run'.summary = run.summary
    BY <1>0, <1>2, RecoverPhase
  <2>4. /\ out' = [plan |-> out'.plan, log |-> out'.log, index |-> out'.index,
                   complete |-> out'.complete]
        /\ out'.log = out.log
    BY <1>2, Zenon DEF RecoverInv, OutInv
  <2>5. out.log = Kept(run.summary.walk, run.summary.log) \o run.tail
    BY <1>0, Zenon DEF RecoverInv, OutInv
  <2>6. out'.log = Kept(run'.summary.walk, run'.summary.log) \o run'.tail
    BY <2>3, <2>4, <2>5
  <2>7. OutInv'
    BY <2>3, <2>4, <2>6 DEF OutInv
  <2> QED
    BY <2>1, <2>2, <2>7 DEF RecoverInv
<1> QED
  BY <1>0, <1>1, <1>2

LEMMA RecoverChange ==
    ASSUME RecoverInv, Change
    PROVE  RecoverInv'
<1>1. PICK i \in DOMAIN target.log, e \in Foreign, seen \in BOOLEAN :
         target' = [target EXCEPT !.log[i] = e, !.stamp = IF seen THEN @ + 1 ELSE @]
  BY DEF Change
<1>2. UNCHANGED <<sources, run, out>>
  BY DEF Change
<1>3. target = [log |-> target.log, index |-> target.index, stamp |-> target.stamp]
      /\ target.log \in Seq(Entry \cup {Torn}) /\ Indexed(target.index) /\ Source(sources)
  BY DEF RecoverInv, InputsInv
<1> DEFINE log == [target.log EXCEPT ![i] = e]
           stamp == IF seen THEN target.stamp + 1 ELSE target.stamp
<1>4. target' = [target EXCEPT !.log = log, !.stamp = stamp]
  BY <1>1, <1>3
<1>5. log \in Seq(Entry \cup {Torn})
  BY <1>3, InputsAssumption
<1> HIDE DEF log, stamp
<1>6. /\ target' = [log |-> target'.log, index |-> target'.index, stamp |-> target'.stamp]
      /\ target'.log = log /\ target'.index = target.index
  BY <1>3, <1>4
<1>7. InputsInv'
  BY <1>2, <1>3, <1>5, <1>6 DEF InputsInv, Indexed, Source
<1>8. RunInv' /\ OutInv'
  BY <1>2 DEF RecoverInv, RunInv, OutInv, Inspected
<1> QED
  BY <1>7, <1>8 DEF RecoverInv

LEMMA RecoverStops ==
    ASSUME RecoverInv, Crash \/ Again \/ UNCHANGED vars
    PROVE  RecoverInv'
<1>1. UNCHANGED <<target, sources, out>>
  BY DEF Crash, Again, vars
<1>2. InputsInv'
  BY <1>1 DEF RecoverInv, InputsInv, Indexed, Source
<1>3. CASE UNCHANGED run
  BY <1>1, <1>2, <1>3 DEF RecoverInv, RunInv, OutInv, Inspected
<1>4. CASE /\ ~out.complete
           /\ run' = NoRun \/ run' = [NoRun EXCEPT !.phase = "crashed"]
  <2>1. /\ run' = [phase |-> run'.phase, opts |-> run'.opts, pin |-> run'.pin, first |-> run'.first,
                   summary |-> run'.summary, tail |-> run'.tail]
        /\ run'.phase \in {"none", "crashed"}
    BY <1>4 DEF NoRun
  <2>2. RunInv' /\ OutInv'
    BY <1>1, <1>4, <2>1 DEF RecoverInv, RunInv, OutInv
  <2> QED
    BY <1>2, <2>2 DEF RecoverInv
<1>5. ~(UNCHANGED run) => ~out.complete
  BY DEF Crash, Again, vars, RecoverInv, OutInv
<1> QED
  BY <1>3, <1>4, <1>5 DEF Crash, Again, vars

LEMMA RecoverStep == RecoverInv /\ [Next]_vars => RecoverInv'
<1> SUFFICES ASSUME RecoverInv, [Next]_vars PROVE RecoverInv'
  OBVIOUS
<1>1. CASE \E opts \in Options : Inspect(opts)
  BY <1>1, RecoverInspect
<1>2. CASE Plan
  BY <1>2, RecoverPlan
<1>3. CASE Write
  BY <1>3, RecoverWrite
<1>4. CASE Complete
  BY <1>4, RecoverComplete
<1>5. CASE Change
  BY <1>5, RecoverChange
<1>6. CASE Crash \/ Again \/ UNCHANGED vars
  BY <1>6, RecoverStops
<1> QED
  BY <1>1, <1>2, <1>3, <1>4, <1>5, <1>6 DEF Next

LEMMA CompleteSound ==
    ASSUME RecoverInv
    PROVE  CompleteIsSound
<1> SUFFICES ASSUME out.complete PROVE CompleteIsSound
  BY DEF CompleteIsSound
<1> DEFINE w == run.summary.walk
           log == run.summary.log
           kept == Kept(w, log)
           s == out.log
<1>1. /\ run.phase = "done" /\ run.tail # Err /\ s = kept \o run.tail /\ Inspected(run, sources)
  BY DEF RecoverInv, RunInv, OutInv
<1>2. /\ log \in Seq(Entry \cup {Torn}) /\ Source(sources) /\ WalkInv(w, Len(log), log, sources)
      /\ ~w.error /\ run.opts \in Options
      /\ run.tail = TailOf(run.opts, w, run.summary.index, sources)
  BY <1>1 DEF Inspected, RecoverInv, InputsInv
<1> HIDE DEF w, log
<1>a. kept = Kept(w, log) /\ s = kept \o run.tail
  BY <1>1
<1> HIDE DEF kept, s
<1>4. /\ OneChain(s, w.first, sources) /\ kept \in Seq(Entry) /\ run.tail \in Seq(Entry)
      /\ s # <<>>
      /\ s[Len(s)].num = IF run.opts.mode = "restore" THEN run.opts.through ELSE LastBlock(w)
  <2> DEFINE opts == run.opts
             tail == run.tail
             index == run.summary.index
             src == sources
  <2>1. /\ opts \in Options /\ tail = TailOf(opts, w, index, src) /\ tail # Err
        /\ s = kept \o tail
    BY <1>1, <1>2, <1>a
  <2>2. log \in Seq(Entry \cup {Torn}) /\ Source(src) /\ WalkInv(w, Len(log), log, src) /\ ~w.error
    BY <1>2
  <2> HIDE DEF opts, tail, index, src
  <2>3. kept = Kept(w, log)
    BY <1>a
  <2>4. Promises(kept, tail, w, opts, src)
    BY <2>1, <2>2, <2>3, Promised
  <2> QED
    BY <2>1, <2>4 DEF Promises, opts, tail, src
<1>5. SubSeq(s, 1, Len(kept)) = kept
  <2>1. Len(kept) <= Len(s) /\ \A i \in 1 .. Len(kept) : s[i] = kept[i]
    BY <1>a, <1>4
  <2>2. s \in Seq(Entry) /\ Len(kept) \in Nat /\ Len(s) \in Nat
    BY <1>4 DEF OneChain
  <2> QED
    BY <1>4, <2>1, <2>2
<1>6. s[Len(s)].num = Desired
  BY <1>4 DEF Desired, w
<1>7. ASSUME NEW i \in 2 .. Len(s)
      PROVE  s[i].num = s[i - 1].num + 1 /\ Parent(s[i]) = Id(s[i - 1])
  <2>0. s \in Seq(Entry)
    BY <1>4 DEF OneChain
  <2>1. i \in DOMAIN s /\ i - 1 \in DOMAIN s
    BY <2>0
  <2>5. w.first \in Nat
    BY <1>2 DEF WalkInv, WalkState
  <2>2. s[i].num = w.first + i - 1 /\ s[i - 1].num = w.first + (i - 1) - 1
    BY <2>1, <1>4 DEF OneChain
  <2>3. Parent(s[i]) = Id(s[i - 1])
    BY <1>4 DEF OneChain
  <2>4. s[i].num = s[i - 1].num + 1
    BY <2>2, <2>5
  <2> QED
    BY <2>3, <2>4
<1>8. \A i \in DOMAIN s : Agrees(sources, s[i])
  BY <1>4 DEF OneChain
<1> QED
  BY <1>4, <1>5, <1>6, <1>7, <1>8 DEF CompleteIsSound, Agrees, s, kept, w, log

LEMMA NothingDropped ==
    ASSUME RecoverInv
    PROVE  NothingCanonicalDropped
<1> SUFFICES ASSUME run.phase = "inspected" PROVE NothingCanonicalDropped
  BY DEF NothingCanonicalDropped
<1> DEFINE w == run.summary.walk
           log == run.summary.log
<1>1. WalkInv(w, Len(log), log, sources) /\ ~w.error /\ log \in Seq(Entry \cup {Torn})
  BY DEF RecoverInv, RunInv, Inspected
<1> HIDE DEF w, log
<1>2. \A i \in 1 .. w.at - 1 : Settled(w, log, sources, i)
  BY <1>1 DEF WalkInv, AtInv
<1>3. w.at <= Len(log) => w.failed
  <2>1. w.at \in Nat /\ Len(log) \in Nat
    BY <1>1 DEF WalkInv, WalkState
  <2> QED
    BY <1>1, <2>1 DEF WalkInv, AtInv
<1> QED
  BY <1>2, <1>3 DEF NothingCanonicalDropped, Settled, w, log

(***************************************************************************)
(* For any damaged log and index, any trusted blocks and donors, and any   *)
(* changes and crashes: complete.json stands only beside one chain through *)
(* the block promised that agrees with all that is trusted and begins with *)
(* what was inspected, and the walk passes over nothing of the chain       *)
(* (run_saving, walk, restoration).                                        *)
(***************************************************************************)
THEOREM Recovers == Spec => []RecoversSoundly
<1>1. RecoverInv => RecoversSoundly
  BY CompleteSound, NothingDropped DEF RecoversSoundly
<1> QED
  BY <1>1, RecoverInit, RecoverStep, PTL DEF Spec
=============================================================================
