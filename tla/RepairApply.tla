----------------------------- MODULE RepairApply ----------------------------
(***************************************************************************)
(* antelope-log-repair build and apply: records of a log that the device   *)
(* no longer reads are written again, in place, from replacement bytes     *)
(* that a bundle holds.  log-repair/src/repair.rs, with io.rs.             *)
(*                                                                         *)
(* A cell is one record of a damaged extent.  What matters of its bytes is *)
(* whether they are the replacement ("good"), readable and different       *)
(* ("other") or unreadable ("bad").  A cell of `cached` reads as good      *)
(* from the page cache, whatever the device holds.  The index, and the     *)
(* sources, matter by their stamps only.                                   *)
(***************************************************************************)
EXTENDS Naturals, FiniteSets

CONSTANTS
    NumExtents,     \* damaged extents of the log
    NumRecords,     \* records of an extent
    Bundles,        \* directories a build may create
    None,           \* no bundle, no plan
    MaxFailures,    \* writes that the device fails (bound)
    MaxDecays,      \* further records that become unreadable (bound)
    MaxForeign,     \* writes by another process (bound)
    MaxLosses       \* power losses (bound)

ASSUME RepairAssumption ==
    /\ NumExtents \in Nat \ {0} /\ NumRecords \in Nat \ {0}
    /\ {MaxFailures, MaxDecays, MaxForeign, MaxLosses} \subseteq Nat
    /\ None \notin Bundles

Extents == 1 .. NumExtents
Records == 1 .. NumRecords
Cells == Extents \X Records
Content == {"good", "other", "bad"}
State == {"Unreadable", "Identical", "Differs"}

(* plan.json: the extents and the stamps of the log and of its index. *)
Plan == [target : SUBSET Extents \ {{}}, log : Nat, index : Nat]

VARIABLES
    disk, cached,       \* what the device holds; what the page cache hides
    mtime, synced,      \* the log's stamp, and the one on the device
    index,              \* the index's stamp
    clock,              \* the newest stamp given
    used, plan,         \* directories created; the plans in them
    intent, receipt,    \* bundles with apply-intent.json, with receipt.json
    builder,            \* the bundle and the plan a build is at work on
    pc, bundle,         \* the apply process, which holds the log's lock
    states, before,     \* its view of the extents, and of the log's stamp
    todo, dirty,        \* extents to write; cells written and not synced
    late,               \* cells another process wrote after the last look
    attempts, landed,   \* writes of an extent for a bundle; cells synced
    failures, decays, foreign, losses

device == <<disk, cached, mtime, synced, index, clock>>
files == <<used, plan, intent, receipt>>
process == <<pc, bundle, states, before, todo, dirty, late>>
history == <<attempts, landed>>
world == <<failures, decays, foreign, losses>>
vars == <<device, files, builder, process, history, world>>

TypeOK ==
    /\ disk \in [Cells -> Content] /\ cached \subseteq Cells
    /\ {mtime, synced, index} \subseteq 0 .. clock /\ clock \in Nat
    /\ used \subseteq Bundles
    /\ plan \in [Bundles -> Plan \cup {None}]
    /\ intent \subseteq used /\ receipt \subseteq intent
    /\ builder = None \/ builder \in [bundle : Bundles, plan : Plan]
    /\ pc \in {"none", "stamp", "rebuild", "intent", "look", "write", "sync", "verify"}
    /\ bundle \in Bundles \cup {None}
    /\ states \in [Extents -> State] /\ before \in Nat
    /\ todo \subseteq Extents /\ dirty \subseteq Cells /\ late \subseteq Cells
    /\ attempts \in [Bundles -> [Extents -> Nat]]
    /\ landed \in [Bundles -> SUBSET Cells]
    /\ failures \in 0 .. MaxFailures /\ decays \in 0 .. MaxDecays
    /\ foreign \in 0 .. MaxForeign /\ losses \in 0 .. MaxLosses

Init ==
    /\ disk \in [Cells -> Content] /\ cached = {}
    /\ mtime = 0 /\ synced = 0 /\ index = 0 /\ clock = 0
    /\ used = {} /\ plan = [b \in Bundles |-> None] /\ intent = {} /\ receipt = {}
    /\ builder = None
    /\ pc = "none" /\ bundle = None /\ before = 0 /\ todo = {} /\ dirty = {} /\ late = {}
    /\ states = [e \in Extents |-> "Identical"]
    /\ attempts = [b \in Bundles |-> [e \in Extents |-> 0]]
    /\ landed = [b \in Bundles |-> {}]
    /\ failures = 0 /\ decays = 0 /\ foreign = 0 /\ losses = 0

-----------------------------------------------------------------------------
View(c) == IF c \in cached THEN "good" ELSE disk[c]

CellsOf(e) == {e} \X Records

(* A mutant: an extent with an unreadable record counts as unreadable.     *)
AnyUnreadable(e) ==
    IF \E c \in CellsOf(e) : View(c) = "bad" THEN "Unreadable"
    ELSE IF \E c \in CellsOf(e) : View(c) = "other" THEN "Differs"
    ELSE "Identical"

(* Record by record where the whole extent does not read. *)
ExtentState(e) ==
    IF \E c \in CellsOf(e) : View(c) = "other" THEN "Differs"
    ELSE IF \E c \in CellsOf(e) : View(c) = "bad" THEN "Unreadable"
    ELSE "Identical"

Target == plan[bundle].target
Pending == {e \in Target : states[e] = "Unreadable"}
Stamped == mtime = before /\ index = plan[bundle].index

Exit ==
    /\ pc' = "none" /\ bundle' = None /\ before' = 0 /\ todo' = {} /\ dirty' = {} /\ late' = {}
    /\ states' = [e \in Extents |-> "Identical"]

-----------------------------------------------------------------------------
(* build: the stamps are taken, the replacement is assembled... *)
BuildBegin(b, target) ==
    /\ builder = None /\ b \notin used
    /\ builder' = [bundle |-> b, plan |-> [target |-> target, log |-> mtime, index |-> index]]
    /\ UNCHANGED <<device, files, process, history, world>>

(* A mutant: the bundle goes to a directory that is not its own. *)
BuildEndElsewhere ==
    /\ builder # None
    /\ \A e \in builder.plan.target : ExtentState(e) # "Differs"
    /\ builder.plan.log = mtime /\ builder.plan.index = index
    /\ plan' = [plan EXCEPT ![builder.bundle] = builder.plan]
    /\ builder' = None
    /\ UNCHANGED <<device, used, intent, receipt, process, history, world>>

(* ...and the bundle is written if nothing readable differs from it and    *)
(* the stamps are the same.                                                *)
BuildEnd ==
    /\ builder # None
    /\ \A e \in builder.plan.target : ExtentState(e) # "Differs"
    /\ builder.plan.log = mtime /\ builder.plan.index = index
    /\ used' = used \cup {builder.bundle}
    /\ plan' = [plan EXCEPT ![builder.bundle] = builder.plan]
    /\ builder' = None
    /\ UNCHANGED <<device, intent, receipt, process, history, world>>

(* A build that fails, or is killed, may leave its directory. *)
BuildStop ==
    /\ builder # None
    /\ used' \in {used, used \cup {builder.bundle}}
    /\ builder' = None
    /\ UNCHANGED <<device, plan, intent, receipt, process, history, world>>

-----------------------------------------------------------------------------
(* apply: the plan is read, the log locked, nobody else has it open, the   *)
(* index is the plan's, and no readable byte differs.                      *)
Begin(b) ==
    /\ pc = "none" /\ plan[b] # None
    /\ builder = None
    /\ index = plan[b].index
    /\ states' = [e \in Extents |-> IF e \in plan[b].target THEN ExtentState(e) ELSE "Identical"]
    /\ \A e \in plan[b].target : states'[e] # "Differs"
    /\ bundle' = b
    /\ pc' = "stamp"
    /\ UNCHANGED <<device, files, builder, before, todo, dirty, late, history, world>>

(* A mutant: a changed log is accepted. *)
StampAny ==
    /\ pc = "stamp"
    /\ before' = mtime
    /\ pc' = "rebuild"
    /\ UNCHANGED <<device, files, builder, bundle, states, todo, dirty, late, history, world>>

(* With something to write, the log must be the one the plan was built on. *)
Stamp ==
    /\ pc = "stamp"
    /\ Pending # {} => mtime = plan[bundle].log
    /\ before' = mtime
    /\ pc' = "rebuild"
    /\ UNCHANGED <<device, files, builder, bundle, states, todo, dirty, late, history, world>>

(* The replacement is assembled again; without anything to write that is   *)
(* all.                                                                    *)
Rebuild ==
    /\ pc = "rebuild" /\ Stamped
    /\ IF Pending = {}
       THEN Exit
       ELSE pc' = "intent" /\ UNCHANGED <<bundle, states, before, todo, dirty, late>>
    /\ UNCHANGED <<device, files, builder, history, world>>

(* A mutant: an intent that exists is written over. *)
CreateIntentAgain ==
    /\ pc = "intent"
    /\ intent' = intent \cup {bundle}
    /\ pc' = "look"
    /\ UNCHANGED <<device, used, plan, receipt, builder, bundle, states, before, todo, dirty,
                   late, history, world>>

(* apply-intent.json is created, synced, and never written over. *)
CreateIntent ==
    /\ pc = "intent" /\ bundle \notin intent
    /\ intent' = intent \cup {bundle}
    /\ pc' = "look"
    /\ UNCHANGED <<device, used, plan, receipt, builder, bundle, states, before, todo, dirty,
                   late, history, world>>

(* The last look: same stamps, same state of every extent. *)
Look ==
    /\ pc = "look" /\ Stamped
    /\ \A e \in Target : ExtentState(e) = states[e]
    /\ todo' = Pending
    /\ pc' = "write"
    /\ UNCHANGED <<device, files, builder, bundle, states, before, dirty, late, history, world>>

First(S) == CHOOSE e \in S : \A f \in S : e <= f

(* `write_extent`: one write, which may stop short after n records. *)
Write ==
    /\ pc = "write"
    /\ \E n \in Records :
          LET e == First(todo) IN
          /\ dirty' = {e} \X (1 .. n)
          /\ cached' = cached \cup dirty'
          /\ attempts' = [attempts EXCEPT ![bundle][e] = @ + 1]
    /\ clock' = clock + 1 /\ mtime' = clock'
    /\ pc' = "sync"
    /\ UNCHANGED <<disk, synced, index, files, builder, bundle, states, before, todo, late, landed,
                   world>>

(* Its sync_all; then a short write ends the process. *)
Sync ==
    /\ pc = "sync"
    /\ disk' = [c \in Cells |-> IF c \in dirty THEN "good" ELSE disk[c]]
    /\ cached' = cached \ dirty
    /\ synced' = mtime
    /\ landed' = [landed EXCEPT ![bundle] = @ \cup dirty]
    /\ LET e == First(todo) IN
       IF dirty = CellsOf(e)
       THEN /\ todo' = todo \ {e}
            /\ pc' = IF todo' = {} THEN "verify" ELSE "write"
            /\ dirty' = {}
            /\ UNCHANGED <<bundle, states, before, late>>
       ELSE Exit
    /\ UNCHANGED <<mtime, index, clock, files, builder, attempts, world>>

(* The device fails the sync: part of it arrived, the cache has it all. *)
Arrives ==
    \E part \in SUBSET dirty :
        disk' = [c \in Cells |-> IF c \in part THEN "good" ELSE disk[c]]

(* A mutant: the error of sync_all is dropped. *)
SyncFailsUnseen ==
    /\ pc = "sync" /\ failures < MaxFailures
    /\ failures' = failures + 1
    /\ Arrives
    /\ todo' = todo \ {First(todo)}
    /\ pc' = IF todo' = {} THEN "verify" ELSE "write"
    /\ dirty' = {}
    /\ UNCHANGED <<cached, mtime, synced, index, clock, files, builder, bundle, states, before, late,
                   history, decays, foreign, losses>>

SyncFails ==
    /\ pc = "sync" /\ failures < MaxFailures
    /\ failures' = failures + 1
    /\ Arrives
    /\ Exit
    /\ UNCHANGED <<cached, mtime, synced, index, clock, files, builder, history, decays, foreign,
                   losses>>

(* All extents read back as replaced, the index is the same: the receipt. *)
Verify ==
    /\ pc = "verify"
    /\ index = plan[bundle].index
    /\ \A e \in Target : ExtentState(e) = "Identical"
    /\ receipt' = receipt \cup {bundle}
    /\ Exit
    /\ UNCHANGED <<device, used, plan, intent, builder, history, world>>

(* A check or a call that fails, or a kill, at any point.  What was not    *)
(* synced may arrive or not.                                               *)
Stop ==
    /\ pc # "none"
    /\ Arrives
    /\ Exit
    /\ UNCHANGED <<cached, mtime, synced, index, clock, files, builder, history, world>>

-----------------------------------------------------------------------------
PowerLoss ==
    /\ losses < MaxLosses
    /\ losses' = losses + 1
    /\ Arrives
    /\ cached' = {}
    /\ mtime' \in {mtime, synced} /\ synced' = mtime'
    /\ builder' = None
    /\ Exit
    /\ UNCHANGED <<index, clock, files, history, failures, decays, foreign>>

DropCaches ==
    /\ cached # {} /\ pc = "none"
    /\ cached' = {}
    /\ UNCHANGED <<disk, mtime, synced, index, clock, files, builder, process, history, world>>

(* A record becomes unreadable; no stamp shows it. *)
Decay(c) ==
    /\ decays < MaxDecays
    /\ decays' = decays + 1
    /\ disk' = [disk EXCEPT ![c] = "bad"]
    /\ UNCHANGED <<cached, mtime, synced, index, clock, files, builder, process, history, failures,
                   foreign, losses>>

(* Another process writes other bytes to a record, or to the index. *)
ForeignWrite(c) ==
    /\ foreign < MaxForeign
    /\ foreign' = foreign + 1
    /\ clock' = clock + 1
    /\ \/ /\ disk' = [disk EXCEPT ![c] = "other"]
          /\ cached' = cached \ {c} /\ dirty' = dirty \ {c}
          /\ mtime' = clock' /\ synced' = clock'
          /\ late' = IF pc \in {"write", "sync"} THEN late \cup {c} ELSE late
          /\ UNCHANGED index
       \/ index' = clock' /\ UNCHANGED <<disk, cached, mtime, synced, dirty, late>>
    /\ UNCHANGED <<files, builder, pc, bundle, states, before, todo, history, failures, decays,
                   losses>>

Build == (\E b \in Bundles : \E t \in SUBSET Extents \ {{}} : BuildBegin(b, t)) \/ BuildEnd \/ BuildStop
Apply ==
    \/ \E b \in Bundles : Begin(b)
    \/ Stamp \/ Rebuild \/ CreateIntent \/ Look \/ Write \/ Sync \/ SyncFails \/ Verify
Environment == PowerLoss \/ DropCaches \/ \E c \in Cells : Decay(c) \/ ForeignWrite(c)

Next == Build \/ Apply \/ Stop \/ Environment

Spec == Init /\ [][Next]_vars

-----------------------------------------------------------------------------
(* "Never overwritten" is what State::Differs says of a readable record    *)
(* that is not the replacement: no write of apply covers one, whatever     *)
(* happened since the plan was built, except what another process wrote    *)
(* after the last look at the extents.                                     *)
NeverOverwritten ==
    [][\A c \in dirty' \ dirty : View(c) = "other" => c \in late]_vars

(* "each unreadable extent written once", and no write without an intent   *)
(* journal: over all runs of apply on a bundle, power losses included,     *)
(* after which the stamp may again be the plan's.                          *)
WrittenOnce ==
    \A b \in Bundles : \A e \in Extents :
        /\ attempts[b][e] <= 1
        /\ attempts[b][e] > 0 => b \in intent

(* A receipt speaks of extents that were unreadable when the plan was      *)
(* approved for this log: every extent the bundle wrote is on the device   *)
(* in full.                                                                *)
ReceiptLanded ==
    \A b \in receipt : \A e \in Extents : attempts[b][e] > 0 => CellsOf(e) \subseteq landed[b]

(* A log that changed since the build is not written to: of two plans for  *)
(* the same log at most one writes, unless a power loss undid the writes.  *)
OneOfTwoPlans ==
    losses = 0 =>
        \A a, b \in Bundles :
            a # b /\ plan[a] # None /\ plan[b] # None /\ plan[a].log = plan[b].log =>
                \/ \A e \in Extents : attempts[a][e] = 0
                \/ \A e \in Extents : attempts[b][e] = 0

(* An apply (apply_open) writes an extent once, under one plan per state   *)
(* of the log, and its receipt speaks of what the device holds.            *)
AppliedSoundly == TypeOK /\ WrittenOnce /\ ReceiptLanded /\ OneOfTwoPlans
=============================================================================
