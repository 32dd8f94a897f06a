-------------------------- MODULE RepairApplyProofs -------------------------
(***************************************************************************)
(* What antelope-log-repair promises of apply, for any number of extents,  *)
(* records and bundles and any number of failed writes, decays, foreign    *)
(* writes and power losses.                                                *)
(***************************************************************************)
EXTENDS RepairApply, WellFoundedInduction, TLAPS

(* The stamps of a plan, made or being made, were given before; a build at *)
(* work has a directory of its own, and only those have plans.             *)
PlansInv ==
    /\ \A b \in Bundles : plan[b] # None =>
          b \in used /\ plan[b].log <= clock /\ plan[b].index <= clock
    /\ builder # None =>
          builder.bundle \notin used /\ builder.plan.log <= clock /\ builder.plan.index <= clock

(* What the apply process has found and done when it is at `pc`. *)
ProcessInv ==
    /\ pc # "none" => bundle \in Bundles /\ plan[bundle] # None
    /\ pc # "sync" => dirty = {}
    /\ pc \in {"rebuild", "intent", "look"} /\ Pending # {} => before = plan[bundle].log
    /\ pc \in {"intent", "look"} => Pending # {}
    /\ pc \in {"write", "sync"} => todo # {}
    /\ pc \in {"look", "write", "sync", "verify"} => bundle \in intent \ receipt
    /\ pc = "sync" => dirty \subseteq CellsOf(First(todo))

(* Where it is about to write, only what came late is readable and differs. *)
LateInv ==
    pc \in {"write", "sync"} =>
        \A e \in todo : \A c \in CellsOf(e) : View(c) = "other" => c \in late

(* Writes of the bundle at hand: none before the intent, one for each      *)
(* extent done with, which is then on the device.                          *)
AttemptsInv ==
    /\ \A b \in Bundles \ intent : \A e \in Extents : attempts[b][e] = 0
    /\ pc = "look" => \A e \in Extents : attempts[bundle][e] = 0
    /\ pc = "write" => \A e \in todo : attempts[bundle][e] = 0
    /\ pc = "sync" => \A e \in todo \ {First(todo)} : attempts[bundle][e] = 0
    /\ pc \in {"write", "verify"} =>
          \A e \in Extents : attempts[bundle][e] > 0 => CellsOf(e) \subseteq landed[bundle]
    /\ pc = "sync" =>
          \A e \in Extents \ {First(todo)} : attempts[bundle][e] > 0 => CellsOf(e) \subseteq landed[bundle]

Wrote(b) == \E e \in Extents : attempts[b][e] > 0

(* While no power was lost, a log written to for a plan is newer than it,  *)
(* and the plan at work is the only one of its log with a write.           *)
StampsInv ==
    losses = 0 =>
        /\ \A b \in Bundles : Wrote(b) => plan[b] # None /\ plan[b].log < mtime
        /\ pc \in {"write", "sync"} =>
              \A b \in Bundles : b # bundle /\ plan[b] # None /\ plan[b].log = plan[bundle].log => ~Wrote(b)

IInv ==
    /\ TypeOK /\ PlansInv /\ ProcessInv /\ LateInv /\ AttemptsInv /\ StampsInv
    /\ WrittenOnce /\ ReceiptLanded /\ OneOfTwoPlans
-----------------------------------------------------------------------------
LEMMA FirstIn ==
    ASSUME NEW S, S \subseteq Extents, S # {}
    PROVE  First(S) \in S
<1>1. S \subseteq Nat
  BY RepairAssumption DEF Extents
<1>2. PICK x \in S : \A y \in S : ~(<<y, x>> \in OpToRel(<, Nat))
  BY <1>1, WFMin, NatLessThanWellFounded
<1>3. \A a, b \in Nat : a < b => <<a, b>> \in OpToRel(<, Nat)
  BY DEF OpToRel
<1>4. \A y \in S : ~(y < x) /\ y \in Nat /\ x \in Nat
  BY <1>1, <1>2, <1>3
<1>5. \A y \in S : x <= y
  BY <1>4
<1> QED
  BY <1>5 DEF First

LEMMA InitInv == Init => IInv
<1> SUFFICES ASSUME Init PROVE IInv
  OBVIOUS
<1> USE DEF Init
<1>1. TypeOK
  <2>1. /\ states \in [Extents -> State] /\ attempts \in [Bundles -> [Extents -> Nat]]
        /\ landed \in [Bundles -> SUBSET Cells] /\ plan \in [Bundles -> Plan \cup {None}]
    BY DEF State
  <2>2. failures \in 0 .. MaxFailures /\ decays \in 0 .. MaxDecays /\ foreign \in 0 .. MaxForeign /\ losses \in 0 .. MaxLosses
    BY RepairAssumption
  <2> QED
    BY <2>1, <2>2 DEF TypeOK
<1>2. PlansInv /\ ProcessInv /\ LateInv
  BY DEF PlansInv, ProcessInv, LateInv
<1>3. AttemptsInv /\ StampsInv
  BY DEF AttemptsInv, StampsInv, Wrote
<1>4. WrittenOnce /\ ReceiptLanded /\ OneOfTwoPlans
  BY DEF WrittenOnce, ReceiptLanded, OneOfTwoPlans
<1> QED
  BY <1>1, <1>2, <1>3, <1>4 DEF IInv

(* The process ends, whatever has arrived: what it wrote stays written. *)
LEMMA ExitInv ==
    ASSUME IInv, Exit, UNCHANGED <<used, plan, intent, attempts, index, clock>>,
           disk' \in [Cells -> Content], cached' \subseteq Cells,
           builder' \in {builder, None}, {mtime', synced'} \subseteq 0 .. clock,
           losses' \in 0 .. MaxLosses, losses' = 0 => losses = 0 /\ mtime' = mtime,
           failures' \in 0 .. MaxFailures, decays' = decays, foreign' = foreign,
           receipt' \subseteq intent, landed' \in [Bundles -> SUBSET Cells], ReceiptLanded'
    PROVE  IInv'
<1> USE DEF IInv, Exit
<1>1. TypeOK'
  <2>1. states' \in [Extents -> State] /\ attempts' \in [Bundles -> [Extents -> Nat]] /\ plan' \in [Bundles -> Plan \cup {None}]
    BY DEF TypeOK, State
  <2>2. bundle' \in Bundles \cup {None} /\ before' \in Nat /\ dirty' \subseteq Cells /\ todo' \subseteq Extents /\ late' \subseteq Cells
    OBVIOUS
  <2>3. used' \subseteq Bundles /\ intent' \subseteq used' /\ receipt' \subseteq intent'
    BY DEF TypeOK
  <2>4. builder' = None \/ builder' \in [bundle : Bundles, plan : Plan]
    BY DEF TypeOK
  <2>5. {mtime', synced', index'} \subseteq 0 .. clock' /\ clock' \in Nat
    BY DEF TypeOK
  <2>6. decays' \in 0 .. MaxDecays /\ foreign' \in 0 .. MaxForeign
    BY DEF TypeOK
  <2> QED
    BY <2>1, <2>2, <2>3, <2>4, <2>5, <2>6 DEF TypeOK
<1>2. PlansInv'
  BY DEF PlansInv
<1>3. ProcessInv' /\ LateInv' /\ AttemptsInv'
  BY DEF ProcessInv, LateInv, AttemptsInv
<1>4. StampsInv' /\ WrittenOnce' /\ OneOfTwoPlans'
  BY DEF StampsInv, Wrote, WrittenOnce, OneOfTwoPlans
<1> QED
  BY <1>1, <1>2, <1>3, <1>4

(* A step of nobody but the builder or the world leaves the process what   *)
(* it knows of its bundle.                                                 *)
LEMMA SameProcess ==
    ASSUME IInv, UNCHANGED <<pc, bundle, states, before, todo, intent, receipt, attempts, landed>>,
           dirty' \subseteq dirty, \A b \in Bundles : plan[b] # None => plan'[b] = plan[b]
    PROVE  ProcessInv' /\ AttemptsInv' /\ WrittenOnce' /\ ReceiptLanded'
<1> USE DEF IInv
<1>1. CASE pc = "none"
  BY <1>1 DEF ProcessInv, AttemptsInv, WrittenOnce, ReceiptLanded
<1>2. CASE pc # "none"
  <2>1. bundle \in Bundles /\ plan[bundle] # None /\ plan'[bundle] = plan[bundle]
    BY <1>2 DEF ProcessInv
  <2>2. Pending' = Pending
    BY <2>1 DEF Pending, Target
  <2>3. First(todo)' = First(todo)
    BY DEF First
  <2>4. ProcessInv'
    BY <2>1, <2>2, <2>3 DEF ProcessInv, CellsOf
  <2>5. AttemptsInv'
    BY <2>3 DEF AttemptsInv, CellsOf
  <2>6. WrittenOnce' /\ ReceiptLanded'
    BY DEF WrittenOnce, ReceiptLanded, CellsOf
  <2> QED
    BY <2>4, <2>5, <2>6
<1> QED
  BY <1>1, <1>2
-----------------------------------------------------------------------------
LEMMA BuildInv == IInv /\ Build => IInv'
<1> SUFFICES ASSUME IInv, Build PROVE IInv'
  OBVIOUS
<1> USE DEF IInv, device, files, process, history, world
<1>1. ASSUME NEW b \in Bundles, NEW t \in SUBSET Extents \ {{}}, BuildBegin(b, t) PROVE IInv'
  <2> USE <1>1 DEF BuildBegin
  <2>1. builder'.bundle = b /\ builder'.plan = [target |-> t, log |-> mtime, index |-> index]
    OBVIOUS
  <2>2. mtime \in Nat /\ index \in Nat /\ mtime <= clock /\ index <= clock
    BY DEF TypeOK
  <2>3. builder' \in [bundle : Bundles, plan : Plan]
    BY <2>2 DEF Plan
  <2>4. TypeOK'
    BY <2>3 DEF TypeOK
  <2>5. PlansInv'
    BY <2>1, <2>2 DEF PlansInv
  <2>6. ProcessInv' /\ AttemptsInv' /\ WrittenOnce' /\ ReceiptLanded'
    BY SameProcess
  <2>7. LateInv' /\ StampsInv' /\ OneOfTwoPlans'
    BY DEF LateInv, CellsOf, View, StampsInv, Wrote, OneOfTwoPlans
  <2> QED
    BY <2>4, <2>5, <2>6, <2>7
<1>2. CASE BuildEnd
  <2> USE <1>2 DEF BuildEnd
  <2> DEFINE b0 == builder.bundle
             p0 == builder.plan
  <2>1. b0 \in Bundles /\ p0 \in Plan /\ b0 \notin used /\ p0.log <= clock /\ p0.index <= clock /\ p0.log = mtime
    BY DEF TypeOK, PlansInv
  <2>2. plan' = [plan EXCEPT ![b0] = p0] /\ used' = used \cup {b0} /\ builder' = None
    OBVIOUS
  <2> HIDE DEF b0, p0
  <2>3. plan' \in [Bundles -> Plan \cup {None}] /\ plan'[b0] = p0 /\ plan[b0] = None
        /\ \A b \in Bundles : b # b0 => plan'[b] = plan[b]
    BY <2>1, <2>2 DEF TypeOK, PlansInv
  <2>4. b0 \notin intent /\ ~Wrote(b0) /\ \A e \in Extents : attempts[b0][e] = 0
    BY <2>1 DEF TypeOK, AttemptsInv, Wrote
  <2>5. TypeOK'
    BY <2>1, <2>2, <2>3 DEF TypeOK
  <2>6. PlansInv'
    BY <2>1, <2>2, <2>3 DEF PlansInv
  <2>7. ProcessInv' /\ AttemptsInv' /\ WrittenOnce' /\ ReceiptLanded'
    BY <2>3, SameProcess
  <2>8. LateInv'
    BY DEF LateInv, CellsOf, View
  <2>9. StampsInv'
    <3>1. \A b \in Bundles : Wrote(b)' <=> Wrote(b)
      BY DEF Wrote
    <3>2. pc # "none" => bundle \in Bundles /\ bundle # b0
      BY <2>3 DEF ProcessInv
    <3> QED
      BY <2>3, <2>4, <3>1, <3>2 DEF StampsInv
  <2>10. OneOfTwoPlans'
    BY <2>3, <2>4 DEF OneOfTwoPlans
  <2> QED
    BY <2>5, <2>6, <2>7, <2>8, <2>9, <2>10
<1>3. CASE BuildStop
  <2> USE <1>3 DEF BuildStop
  <2>1. builder.bundle \in Bundles
    BY DEF TypeOK
  <2>2. TypeOK' /\ PlansInv'
    BY <2>1 DEF TypeOK, PlansInv
  <2>3. ProcessInv' /\ AttemptsInv' /\ WrittenOnce' /\ ReceiptLanded'
    BY SameProcess
  <2>4. LateInv' /\ StampsInv' /\ OneOfTwoPlans'
    BY DEF LateInv, CellsOf, View, StampsInv, Wrote, OneOfTwoPlans
  <2> QED
    BY <2>2, <2>3, <2>4
<1> QED
  BY <1>1, <1>2, <1>3 DEF Build

LEMMA BeginInv ==
    ASSUME IInv, NEW b \in Bundles, Begin(b)
    PROVE  IInv'
<1> USE DEF IInv, Begin, device, files, process, history, world
<1>1. states' \in [Extents -> State]
  BY DEF ExtentState, State
<1>2. TypeOK' /\ PlansInv'
  BY <1>1 DEF TypeOK, PlansInv
<1>3. ProcessInv' /\ LateInv'
  BY DEF ProcessInv, LateInv
<1>4. AttemptsInv' /\ StampsInv'
  BY DEF AttemptsInv, StampsInv, Wrote
<1>5. WrittenOnce' /\ ReceiptLanded' /\ OneOfTwoPlans'
  BY DEF WrittenOnce, ReceiptLanded, CellsOf, OneOfTwoPlans
<1> QED
  BY <1>2, <1>3, <1>4, <1>5

LEMMA StampInv == IInv /\ Stamp => IInv'
<1> SUFFICES ASSUME IInv, Stamp PROVE IInv'
  OBVIOUS
<1> USE DEF IInv, Stamp, device, files, process, history, world
<1>1. TypeOK' /\ PlansInv'
  BY DEF TypeOK, PlansInv
<1>2. Pending' = Pending
  BY DEF Pending, Target
<1>3. ProcessInv' /\ LateInv'
  BY <1>2 DEF ProcessInv, LateInv
<1>4. AttemptsInv' /\ StampsInv'
  BY DEF AttemptsInv, StampsInv, Wrote
<1>5. WrittenOnce' /\ ReceiptLanded' /\ OneOfTwoPlans'
  BY DEF WrittenOnce, ReceiptLanded, CellsOf, OneOfTwoPlans
<1> QED
  BY <1>1, <1>3, <1>4, <1>5

LEMMA RebuildInv == IInv /\ Rebuild => IInv'
<1> SUFFICES ASSUME IInv, Rebuild PROVE IInv'
  OBVIOUS
<1> USE DEF IInv, Rebuild, device, files, process, history, world
<1>1. CASE Pending = {}
  <2>1. ReceiptLanded'
    BY DEF ReceiptLanded, CellsOf
  <2> QED
    BY <1>1, <2>1, ExitInv DEF TypeOK
<1>2. CASE Pending # {}
  <2> USE <1>2
  <2>1. TypeOK' /\ PlansInv'
    BY DEF TypeOK, PlansInv
  <2>2. Pending' = Pending
    BY DEF Pending, Target
  <2>3. ProcessInv' /\ LateInv'
    BY <2>2 DEF ProcessInv, LateInv
  <2>4. AttemptsInv' /\ StampsInv'
    BY DEF AttemptsInv, StampsInv, Wrote
  <2>5. WrittenOnce' /\ ReceiptLanded' /\ OneOfTwoPlans'
    BY DEF WrittenOnce, ReceiptLanded, CellsOf, OneOfTwoPlans
  <2> QED
    BY <2>1, <2>3, <2>4, <2>5
<1> QED
  BY <1>1, <1>2

LEMMA CreateIntentInv == IInv /\ CreateIntent => IInv'
<1> SUFFICES ASSUME IInv, CreateIntent PROVE IInv'
  OBVIOUS
<1> USE DEF IInv, CreateIntent, device, files, process, history, world
<1>0. bundle \in Bundles /\ plan[bundle] # None /\ bundle \in used /\ bundle \notin receipt
  BY DEF ProcessInv, PlansInv, TypeOK
<1>1. TypeOK' /\ PlansInv'
  BY <1>0 DEF TypeOK, PlansInv
<1>2. Pending' = Pending
  BY DEF Pending, Target
<1>3. ProcessInv' /\ LateInv'
  BY <1>0, <1>2 DEF ProcessInv, LateInv
<1>4. AttemptsInv' /\ StampsInv'
  BY <1>0 DEF AttemptsInv, StampsInv, Wrote
<1>5. WrittenOnce' /\ ReceiptLanded' /\ OneOfTwoPlans'
  BY DEF WrittenOnce, ReceiptLanded, CellsOf, OneOfTwoPlans
<1> QED
  BY <1>1, <1>3, <1>4, <1>5
(* The last look: what is left to write has nothing readable that differs, *)
(* and no other plan of this log has written to it.                        *)
LEMMA LookInv == IInv /\ Look => IInv'
<1> SUFFICES ASSUME IInv, Look PROVE IInv'
  OBVIOUS
<1> USE DEF IInv, Look, device, files, process, history, world
<1>0. bundle \in Bundles /\ plan[bundle] # None /\ Pending # {} /\ Pending \subseteq Extents /\ mtime = plan[bundle].log
  <2>1. bundle \in Bundles /\ plan[bundle] # None /\ Pending # {} /\ before = plan[bundle].log
    BY DEF ProcessInv
  <2>2. plan[bundle] \in Plan
    BY <2>1 DEF TypeOK
  <2> QED
    BY <2>1, <2>2 DEF Pending, Target, Plan, Stamped
<1>1. TypeOK' /\ PlansInv'
  BY <1>0 DEF TypeOK, PlansInv
<1>2. ProcessInv'
  BY <1>0 DEF ProcessInv
<1>3. LateInv'
  <2>1. \A e \in Pending : \A c \in CellsOf(e) : View(c) # "other"
    BY DEF Pending, ExtentState
  <2> QED
    BY <2>1 DEF LateInv, CellsOf, View
<1>4. AttemptsInv'
  BY <1>0 DEF AttemptsInv
<1>5. StampsInv'
  <2>1. \A b \in Bundles : Wrote(b)' <=> Wrote(b)
    BY DEF Wrote
  <2>2. \A b \in Bundles : plan[b] # None => plan[b].log \in Nat
    BY DEF TypeOK, Plan
  <2> QED
    BY <1>0, <2>1, <2>2 DEF StampsInv
<1>6. WrittenOnce' /\ ReceiptLanded' /\ OneOfTwoPlans'
  BY DEF WrittenOnce, ReceiptLanded, CellsOf, OneOfTwoPlans
<1> QED
  BY <1>1, <1>2, <1>3, <1>4, <1>5, <1>6

(* One write: the log is now newer than every plan. *)
(* A plan was stamped before now, and it stays so as the clock goes on. *)
LEMMA LaterPlans ==
    ASSUME TypeOK, PlansInv, clock' = clock + 1, UNCHANGED <<used, plan, builder>>
    PROVE  PlansInv'
<1>1. clock \in Nat
  BY DEF TypeOK
<1>2. \A b \in Bundles : plan[b] # None => plan[b].log \in Nat /\ plan[b].index \in Nat
  BY DEF TypeOK, Plan
<1>3. builder # None => builder.plan.log \in Nat /\ builder.plan.index \in Nat
  BY DEF TypeOK, Plan
<1>4. \A n \in Nat : n <= clock => n <= clock'
  BY <1>1
<1>5. ASSUME NEW b \in Bundles, plan[b] # None
      PROVE  b \in used /\ plan[b].log <= clock' /\ plan[b].index <= clock'
  BY <1>2, <1>4, <1>5 DEF PlansInv
<1>6. ASSUME builder # None
      PROVE  /\ builder.bundle \notin used
             /\ builder.plan.log <= clock' /\ builder.plan.index <= clock'
  BY <1>3, <1>4, <1>6 DEF PlansInv
<1> QED
  BY <1>5, <1>6, Zenon DEF PlansInv

LEMMA WriteInv == IInv /\ Write => IInv'
<1> SUFFICES ASSUME IInv, Write PROVE IInv'
  OBVIOUS
<1> USE DEF IInv, device, files, process, history, world
<1> DEFINE e0 == First(todo)
<1>0. PICK n \in Records : /\ dirty' = {e0} \X (1 .. n) /\ cached' = cached \cup dirty'
                           /\ attempts' = [attempts EXCEPT ![bundle][e0] = @ + 1]
  BY DEF Write
<1>1. /\ pc = "write" /\ pc' = "sync" /\ clock' = clock + 1 /\ mtime' = clock + 1
      /\ UNCHANGED <<disk, synced, index, files, builder, bundle, states, before, todo, late, landed, world>>
  BY DEF Write
<1>2. bundle \in Bundles /\ bundle \in intent /\ bundle \notin receipt /\ plan[bundle] # None /\ e0 \in todo /\ e0 \in Extents
  <2>1. todo # {} /\ todo \subseteq Extents
    BY <1>1 DEF ProcessInv, TypeOK
  <2> QED
    BY <1>1, <2>1, FirstIn DEF ProcessInv
<1>3. First(todo)' = e0
  BY <1>1 DEF First
<1> HIDE DEF e0
<1>4. /\ attempts' \in [Bundles -> [Extents -> Nat]] /\ attempts[bundle][e0] = 0 /\ attempts'[bundle][e0] = 1
      /\ \A b \in Bundles, e \in Extents : ~(b = bundle /\ e = e0) => attempts'[b][e] = attempts[b][e]
  <2>1. attempts[bundle][e0] = 0 /\ attempts \in [Bundles -> [Extents -> Nat]]
    BY <1>1, <1>2 DEF AttemptsInv, TypeOK
  <2> QED
    BY <1>0, <1>2, <2>1
<1>5. dirty' \subseteq CellsOf(e0) /\ dirty' \subseteq Cells
  BY <1>0, <1>2, RepairAssumption DEF CellsOf, Cells, Records
<1>6. clock \in Nat /\ mtime <= clock /\ mtime \in Nat /\ plan[bundle].log <= clock /\ plan[bundle].log \in Nat
      /\ \A b \in Bundles : plan[b] # None => plan[b].log \in Nat
  BY <1>2 DEF TypeOK, PlansInv, Plan
<1>7. TypeOK'
  <2>1. {mtime', synced', index'} \subseteq 0 .. clock' /\ clock' \in Nat
    BY <1>1, <1>6 DEF TypeOK
  <2> QED
    BY <1>0, <1>1, <1>4, <1>5, <2>1 DEF TypeOK
<1>8. PlansInv'
  BY <1>1, LaterPlans
<1>9. ProcessInv'
  BY <1>1, <1>2, <1>3, <1>5 DEF ProcessInv, CellsOf
<1>10. LateInv'
  <2>1. \A c \in Cells : View(c)' = "other" => View(c) = "other"
    BY <1>0, <1>1 DEF View
  <2>2. \A e \in todo : CellsOf(e) \subseteq Cells
    BY DEF TypeOK, CellsOf, Cells
  <2> QED
    BY <1>1, <2>1, <2>2 DEF LateInv, CellsOf
<1>11. AttemptsInv'
  <2>1. \A b \in Bundles \ intent : \A e \in Extents : attempts'[b][e] = 0
    BY <1>2, <1>4 DEF AttemptsInv
  <2>2. \A e \in todo \ {e0} : attempts'[bundle][e] = 0
    BY <1>1, <1>2, <1>4 DEF AttemptsInv, TypeOK
  <2>3. \A e \in Extents \ {e0} : attempts'[bundle][e] > 0 => CellsOf(e) \subseteq landed[bundle]
    BY <1>1, <1>2, <1>4 DEF AttemptsInv
  <2> QED
    BY <1>1, <1>3, <2>1, <2>2, <2>3 DEF AttemptsInv, CellsOf
<1>12. WrittenOnce' /\ ReceiptLanded'
  <2>1. \A b \in Bundles, e \in Extents : attempts'[b][e] <= 1 /\ (attempts'[b][e] > 0 => b \in intent)
    BY <1>2, <1>4 DEF WrittenOnce
  <2>2. \A b \in receipt : b \in Bundles /\ b # bundle
    BY <1>2 DEF TypeOK
  <2>3. \A b \in receipt : \A e \in Extents : attempts'[b][e] > 0 => CellsOf(e) \subseteq landed[b]
    BY <1>4, <2>2 DEF ReceiptLanded
  <2> QED
    BY <1>1, <2>1, <2>3 DEF WrittenOnce, ReceiptLanded, CellsOf
<1>13. \A b \in Bundles : b # bundle => (Wrote(b)' <=> Wrote(b))
  BY <1>4 DEF Wrote
<1>14. StampsInv'
  <2>1. ASSUME losses = 0, NEW b \in Bundles, Wrote(b)' PROVE plan[b] # None /\ plan[b].log < clock + 1
    <3>1. CASE b = bundle
      BY <1>2, <1>6, <3>1
    <3>2. CASE b # bundle
      BY <1>6, <1>13, <2>1, <3>2 DEF StampsInv
    <3> QED
      BY <3>1, <3>2
  <2>2. ASSUME losses = 0, NEW b \in Bundles, b # bundle, plan[b] # None, plan[b].log = plan[bundle].log PROVE ~Wrote(b)'
    BY <1>1, <1>13, <2>2 DEF StampsInv
  <2> QED
    BY <1>1, <2>1, <2>2 DEF StampsInv
<1>15. OneOfTwoPlans'
  <2> SUFFICES ASSUME losses = 0, NEW a \in Bundles, NEW b \in Bundles, a # b, plan[a] # None, plan[b] # None, plan[a].log = plan[b].log
               PROVE  (\A e \in Extents : attempts'[a][e] = 0) \/ (\A e \in Extents : attempts'[b][e] = 0)
    BY <1>1 DEF OneOfTwoPlans
  <2>1. ASSUME NEW d \in Bundles, ~Wrote(d)' PROVE \A e \in Extents : attempts'[d][e] = 0
    BY <1>4, <2>1 DEF Wrote
  <2>2. CASE a = bundle
    BY <1>1, <1>13, <2>1, <2>2 DEF StampsInv
  <2>3. CASE b = bundle
    BY <1>1, <1>13, <2>1, <2>3 DEF StampsInv
  <2>4. CASE a # bundle /\ b # bundle
    <3>1. \A e \in Extents : attempts'[a][e] = attempts[a][e] /\ attempts'[b][e] = attempts[b][e]
      BY <1>4, <2>4
    <3> QED
      BY <3>1 DEF OneOfTwoPlans
  <2> QED
    BY <2>2, <2>3, <2>4
<1> QED
  BY <1>7, <1>8, <1>9, <1>10, <1>11, <1>12, <1>14, <1>15
LEMMA SyncInv == IInv /\ Sync => IInv'
<1> SUFFICES ASSUME IInv, Sync PROVE IInv'
  OBVIOUS
<1> USE DEF IInv, device, files, process, history, world
<1> DEFINE e0 == First(todo)
<1>1. /\ pc = "sync" /\ disk' = [c \in Cells |-> IF c \in dirty THEN "good" ELSE disk[c]] /\ cached' = cached \ dirty
      /\ synced' = mtime /\ landed' = [landed EXCEPT ![bundle] = @ \cup dirty]
      /\ UNCHANGED <<mtime, index, clock, files, builder, attempts, world>>
  BY DEF Sync
<1>2. bundle \in Bundles /\ bundle \in intent /\ bundle \notin receipt /\ plan[bundle] # None /\ e0 \in todo /\ todo \subseteq Extents
      /\ dirty \subseteq Cells
  <2>1. todo # {} /\ todo \subseteq Extents
    BY <1>1 DEF ProcessInv, TypeOK
  <2> QED
    BY <1>1, <2>1, FirstIn DEF ProcessInv, TypeOK
<1>3. disk' \in [Cells -> Content] /\ cached' \subseteq Cells /\ {mtime', synced'} \subseteq 0 .. clock
  BY <1>1 DEF TypeOK, Content
<1>4. /\ landed' \in [Bundles -> SUBSET Cells] /\ landed'[bundle] = landed[bundle] \cup dirty
      /\ \A b \in Bundles : landed[b] \subseteq landed'[b]
  BY <1>1, <1>2 DEF TypeOK
<1>5. ReceiptLanded'
  <2>1. \A b \in receipt : b \in Bundles
    BY DEF TypeOK
  <2> QED
    BY <1>1, <1>4, <2>1 DEF ReceiptLanded, CellsOf
<1>6. CASE dirty # CellsOf(e0)
  <2>1. Exit
    BY <1>6 DEF Sync
  <2> QED
    BY <1>1, <1>3, <1>4, <1>5, <2>1, ExitInv DEF TypeOK
<1>7. CASE dirty = CellsOf(e0)
  <2>1. /\ todo' = todo \ {e0} /\ pc' = (IF todo' = {} THEN "verify" ELSE "write") /\ dirty' = {}
        /\ UNCHANGED <<bundle, states, before, late>>
    BY <1>7 DEF Sync
  <2> HIDE DEF e0
  <2>2. TypeOK'
    BY <1>1, <1>2, <1>3, <1>4, <2>1 DEF TypeOK
  <2>3. PlansInv'
    BY <1>1 DEF PlansInv
  <2>4. ProcessInv'
    BY <1>1, <1>2, <2>1 DEF ProcessInv
  <2>5. LateInv'
    <3>1. \A c \in Cells : View(c)' = "other" => View(c) = "other"
      BY <1>1 DEF View
    <3>2. \A e \in todo : CellsOf(e) \subseteq Cells
      BY <1>2 DEF CellsOf, Cells
    <3> QED
      BY <1>1, <2>1, <3>1, <3>2 DEF LateInv, CellsOf
  <2>6. AttemptsInv'
    <3>1. \A e \in todo \ {e0} : attempts[bundle][e] = 0
      BY <1>1 DEF AttemptsInv, e0
    <3>2. \A e \in Extents : attempts[bundle][e] > 0 => CellsOf(e) \subseteq landed'[bundle]
      <4> TAKE e \in Extents
      <4>1. CASE e = e0
        BY <1>4, <1>7, <4>1
      <4>2. CASE e # e0
        BY <1>1, <1>4, <4>2 DEF AttemptsInv, e0
      <4> QED
        BY <4>1, <4>2
    <3>3. pc' # "sync" /\ pc' # "look"
      BY <2>1
    <3> QED
      BY <1>1, <2>1, <3>1, <3>2, <3>3 DEF AttemptsInv, CellsOf
  <2>7. StampsInv' /\ WrittenOnce' /\ OneOfTwoPlans'
    BY <1>1, <2>1 DEF StampsInv, Wrote, WrittenOnce, OneOfTwoPlans
  <2> QED
    BY <1>5, <2>2, <2>3, <2>4, <2>5, <2>6, <2>7
<1> QED
  BY <1>6, <1>7

LEMMA ArrivesType ==
    ASSUME TypeOK, Arrives
    PROVE  disk' \in [Cells -> Content]
  BY DEF TypeOK, Arrives, Content

LEMMA SyncFailsInv == IInv /\ SyncFails => IInv'
<1> SUFFICES ASSUME IInv, SyncFails PROVE IInv'
  OBVIOUS
<1>a. failures \in 0 .. MaxFailures
  BY DEF IInv, TypeOK
<1>b. failures < MaxFailures /\ failures' = failures + 1
  BY DEF SyncFails
<1>1. failures' \in 0 .. MaxFailures
  BY <1>a, <1>b, RepairAssumption
<1> USE DEF IInv, SyncFails, files, history
<1>2. ReceiptLanded'
  BY Zenon DEF ReceiptLanded, CellsOf
<1> QED
  BY <1>1, <1>2, ArrivesType, ExitInv DEF TypeOK

(* The receipt is written for extents that were each written in full. *)
LEMMA VerifyInv == IInv /\ Verify => IInv'
<1> SUFFICES ASSUME IInv, Verify PROVE IInv'
  OBVIOUS
<1> USE DEF IInv, Verify, device, files, history, world
<1>1. receipt' \subseteq intent
  BY DEF ProcessInv, TypeOK
<1>2. ReceiptLanded'
  BY DEF ReceiptLanded, AttemptsInv, CellsOf
<1> QED
  BY <1>1, <1>2, ExitInv DEF TypeOK

LEMMA StopInv == IInv /\ Stop => IInv'
<1> SUFFICES ASSUME IInv, Stop PROVE IInv'
  OBVIOUS
<1> USE DEF IInv, Stop, files, history, world
<1>1. ReceiptLanded'
  BY DEF ReceiptLanded, CellsOf
<1> QED
  BY <1>1, ArrivesType, ExitInv DEF TypeOK

LEMMA PowerLossInv == IInv /\ PowerLoss => IInv'
<1> SUFFICES ASSUME IInv, PowerLoss PROVE IInv'
  OBVIOUS
<1> USE DEF IInv, PowerLoss, files, history
<1>1. ReceiptLanded'
  BY DEF ReceiptLanded, CellsOf
<1>2. losses' \in 0 .. MaxLosses /\ losses' # 0
  BY RepairAssumption DEF TypeOK
<1>3. {mtime', synced'} \subseteq 0 .. clock
  BY DEF TypeOK
<1> QED
  BY <1>1, <1>2, <1>3, ArrivesType, ExitInv DEF TypeOK
-----------------------------------------------------------------------------
LEMMA DropCachesInv == IInv /\ DropCaches => IInv'
<1> SUFFICES ASSUME IInv, DropCaches PROVE IInv'
  OBVIOUS
<1> USE DEF IInv, DropCaches, files, process, history, world
<1>1. TypeOK' /\ PlansInv'
  BY DEF TypeOK, PlansInv
<1>2. ProcessInv' /\ AttemptsInv' /\ WrittenOnce' /\ ReceiptLanded'
  BY SameProcess
<1>3. LateInv' /\ StampsInv' /\ OneOfTwoPlans'
  BY DEF LateInv, StampsInv, Wrote, OneOfTwoPlans
<1> QED
  BY <1>1, <1>2, <1>3

LEMMA DecayInv ==
    ASSUME IInv, NEW c \in Cells, Decay(c)
    PROVE  IInv'
<1> USE DEF IInv, Decay, files, process, history, world
<1>0. disk' \in [Cells -> Content] /\ decays' \in 0 .. MaxDecays
  BY RepairAssumption DEF TypeOK, Content
<1>1. TypeOK' /\ PlansInv'
  BY <1>0 DEF TypeOK, PlansInv
<1>2. ProcessInv' /\ AttemptsInv' /\ WrittenOnce' /\ ReceiptLanded'
  BY SameProcess
<1>3. LateInv'
  <2>1. \A d \in Cells : View(d)' = "other" => View(d) = "other"
    BY DEF View, TypeOK
  <2>2. \A e \in todo : CellsOf(e) \subseteq Cells
    BY DEF TypeOK, CellsOf, Cells
  <2> QED
    BY <2>1, <2>2 DEF LateInv, CellsOf
<1>4. StampsInv' /\ OneOfTwoPlans'
  BY DEF StampsInv, Wrote, OneOfTwoPlans
<1> QED
  BY <1>1, <1>2, <1>3, <1>4

LEMMA ForeignWriteInv ==
    ASSUME IInv, NEW c \in Cells, ForeignWrite(c)
    PROVE  IInv'
<1> USE DEF IInv, files, history
<1>0. /\ clock' = clock + 1 /\ foreign' \in 0 .. MaxForeign /\ dirty' \subseteq dirty
      /\ UNCHANGED <<used, plan, intent, receipt, builder, pc, bundle, states, before, todo, attempts, landed, failures, decays, losses>>
  BY RepairAssumption DEF ForeignWrite, TypeOK
<1>1. ProcessInv' /\ AttemptsInv' /\ WrittenOnce' /\ ReceiptLanded'
  BY <1>0, SameProcess
<1>2. PlansInv'
  BY <1>0, LaterPlans
<1>3. mtime \in Nat /\ mtime' \in Nat /\ mtime <= mtime'
  BY <1>0 DEF ForeignWrite, TypeOK
<1>4. TypeOK'
  <2>1. {mtime', synced', index'} \subseteq 0 .. clock' /\ clock' \in Nat
    BY <1>0 DEF ForeignWrite, TypeOK
  <2>2. disk' \in [Cells -> Content] /\ cached' \subseteq Cells /\ late' \subseteq Cells /\ dirty' \subseteq Cells
    BY DEF ForeignWrite, TypeOK, Content
  <2> QED
    BY <1>0, <2>1, <2>2 DEF TypeOK
<1>5. LateInv'
  <2>1. \A d \in Cells : View(d)' = "other" => View(d) = "other" \/ (d = c /\ (pc \in {"write", "sync"} => c \in late'))
    BY DEF View, ForeignWrite, TypeOK
  <2>2. late \subseteq late'
    BY DEF ForeignWrite
  <2>3. \A e \in todo : CellsOf(e) \subseteq Cells
    BY DEF TypeOK, CellsOf, Cells
  <2> QED
    BY <1>0, <2>1, <2>2, <2>3 DEF LateInv, CellsOf
<1>6. StampsInv'
  <2>1. \A b \in Bundles : plan[b] # None => plan[b].log \in Nat
    BY DEF TypeOK, Plan
  <2> QED
    BY <1>0, <1>3, <2>1 DEF StampsInv, Wrote
<1>7. OneOfTwoPlans'
  BY <1>0 DEF OneOfTwoPlans
<1> QED
  BY <1>1, <1>2, <1>4, <1>5, <1>6, <1>7
-----------------------------------------------------------------------------
LEMMA StepInv == IInv /\ [Next]_vars => IInv'
<1> SUFFICES ASSUME IInv, [Next]_vars PROVE IInv'
  OBVIOUS
<1>1. CASE UNCHANGED vars
  <2> USE <1>1 DEF vars, IInv, device, files, process, history, world
  <2>1. TypeOK' /\ PlansInv'
    BY DEF TypeOK, PlansInv
  <2>2. ProcessInv' /\ AttemptsInv' /\ WrittenOnce' /\ ReceiptLanded'
    BY SameProcess
  <2>3. LateInv' /\ StampsInv' /\ OneOfTwoPlans'
    BY DEF LateInv, CellsOf, View, StampsInv, Wrote, OneOfTwoPlans
  <2> QED
    BY <2>1, <2>2, <2>3
<1>2. CASE Apply
  BY <1>2, BeginInv, StampInv, RebuildInv, CreateIntentInv, LookInv, WriteInv, SyncInv, SyncFailsInv, VerifyInv DEF Apply
<1>3. CASE Environment
  BY <1>3, PowerLossInv, DropCachesInv, DecayInv, ForeignWriteInv DEF Environment
<1> QED
  BY <1>1, <1>2, <1>3, BuildInv, StopInv DEF Next

THEOREM Invariance == Spec => []IInv
  BY InitInv, StepInv, PTL DEF Spec

(* apply_open writes each unreadable extent once and never without its     *)
(* intent, its receipt speaks of extents that are on the device in full,   *)
(* and of two plans for one state of the log at most one writes, unless a  *)
(* power loss took the writes back.                                        *)
THEOREM Applied == Spec => []AppliedSoundly
<1>1. IInv => AppliedSoundly
  BY DEF IInv, AppliedSoundly
<1> QED
  BY <1>1, Invariance, PTL

(* write_extent never covers a readable record that differs, except one    *)
(* another process wrote after the last look at the extents.               *)
THEOREM Preserves == Spec => NeverOverwritten
<1> DEFINE Kept == \A c \in dirty' \ dirty : View(c) = "other" => c \in late
<1>1. IInv /\ [Next]_vars => [Kept]_vars
  <2> SUFFICES ASSUME IInv, Next, NEW c \in dirty' \ dirty, View(c) = "other" PROVE c \in late
    OBVIOUS
  <2>1. CASE Write
    <3>1. pc = "write" /\ todo # {} /\ todo \subseteq Extents
      BY <2>1 DEF Write, IInv, ProcessInv, TypeOK
    <3>2. First(todo) \in todo
      BY <3>1, FirstIn
    <3>3. dirty' \subseteq CellsOf(First(todo))
      BY <2>1, RepairAssumption DEF Write, CellsOf, Records
    <3> QED
      BY <3>1, <3>2, <3>3 DEF IInv, LateInv
  <2>2. CASE ~Write
    BY <2>2 DEF Next, Build, BuildBegin, BuildEnd, BuildStop, Apply, Begin, Stamp, Rebuild, CreateIntent, Look,
       Sync, SyncFails, Verify, Stop, Environment, PowerLoss, DropCaches, Decay, ForeignWrite, Exit, process
  <2> QED
    BY <2>1, <2>2
<1> QED
  BY <1>1, Invariance, PTL DEF Spec, NeverOverwritten
=============================================================================
