----------------------------- MODULE WireHistory -----------------------------
(***************************************************************************)
(* abi-scanner on a Wire chain: core/src/wire_history.rs.  One pass over   *)
(* the state and trace logs from genesis to an irreversible block writes   *)
(* the ABI history and the block ids, and publishes them with a manifest.  *)
(* Several runs may be given the same output, a run may be killed, and the *)
(* logs may change under it.                                               *)
(*                                                                         *)
(* A block of the logs is [id, tid, rows, acts]: the ids in the state and  *)
(* the trace log; account rows [account, present, abi]; receipts [account, *)
(* seq, rev, sets] in the order of the trace, where rev is the ABI         *)
(* revision of a primary receipt (NoRev in a notification) and sets the    *)
(* <<account, abi>> of a setabi, or NoSet.                                 *)
(***************************************************************************)
EXTENDS Integers, Sequences, FiniteSets, SequencesExt

CONSTANTS
    Runs,           \* processes started with the same output
    Accounts,
    EndOf,          \* run |-> the last block it was asked for
    Sources,        \* the logs there may be: block |-> block of the logs
    EndId,          \* run |-> the irreversible id given for that block
    NoAbi, NoRev, NoSet, None,
    MaxChanges, MaxCrashes  \* bounds: changes of the logs, runs killed

VARIABLES
    source, stamp,  \* the logs, and their sizes and modification times
    run,            \* run |-> [pc, block, stamp, revs, current, records, ids, last]
    partial,        \* "records", "blocks", "manifest" |-> the run that made the .partial file, or None
    output, blocks, manifest,   \* the published files, or None
    changes, crashes

vars == <<source, stamp, run, partial, output, blocks, manifest, changes, crashes>>
published == <<output, blocks, manifest>>

(* An account without state has none; an absent row has no ABI. *)
Unknown == [present |-> FALSE, abi |-> None]

Fresh == [pc |-> "start", block |-> 1, stamp |-> 0, revs |-> [a \in Accounts |-> 0],
          current |-> [a \in Accounts |-> Unknown], records |-> <<>>, ids |-> <<>>, last |-> 0]

Init ==
    /\ source \in Sources /\ stamp = 0
    /\ run = [r \in Runs |-> Fresh]
    /\ partial = [f \in {"records", "blocks", "manifest"} |-> None] /\ output = None /\ blocks = None /\ manifest = None
    /\ changes = 0 /\ crashes = 0

Stop(r) == [run EXCEPT ![r].pc = "refused"]
-----------------------------------------------------------------------------
(* scan: the end of the logs is the irreversible block given, the files    *)
(* are stamped, and none of the outputs exists.                            *)
Begin(r) ==
    /\ run[r].pc = "start"
    /\ run' = IF source[EndOf[r]].id # EndId[r] \/ output # None \/ blocks # None \/ manifest # None
              THEN Stop(r)
              ELSE [run EXCEPT ![r].pc = "create_records", ![r].stamp = stamp]
    /\ UNCHANGED <<source, stamp, partial, published, changes, crashes>>

(* fresh: a partial output is created, never opened. *)
Create(r, f, pc, then) ==
    /\ run[r].pc = pc
    /\ run' = IF partial[f] # None THEN Stop(r) ELSE [run EXCEPT ![r].pc = then]
    /\ partial' = IF partial[f] = None THEN [partial EXCEPT ![f] = r] ELSE partial
    /\ UNCHANGED <<source, stamp, published, changes, crashes>>

-----------------------------------------------------------------------------
(* actions: receipts are put in the order of their sequence, which no two  *)
(* share.                                                                  *)
Ordered(acts) == SortSeq(acts, LAMBDA x, y : x.seq < y.seq)

(* One receipt: sequences rise; a setabi is a new revision of its account; *)
(* any other primary receipt names the revision its account is at.         *)
Act(s, act) ==
    [s EXCEPT !.last = act.seq,
              !.ok = @ /\ act.seq > s.last
                       /\ (act.sets = NoSet /\ act.rev # NoRev => act.rev = s.revs[act.account]),
              !.revs = IF act.sets = NoSet THEN @ ELSE [@ EXCEPT ![act.sets[1]] = @ + 1],
              !.changed = IF act.sets = NoSet THEN @ ELSE [@ EXCEPT ![act.sets[1]] = act.sets[2]],
              !.records = IF act.sets = NoSet THEN @
                          ELSE Append(@, [account |-> act.sets[1], block |-> s.block, phase |-> "deployment", abi |-> act.sets[2]])]

(* One account row: after setabi it holds the last ABI set; without it,    *)
(* and after genesis, the ABI the account had.  A record is written where  *)
(* the state differs.                                                      *)
Row(s, row) ==
    LET a == row.account
        old == s.current[a]
        now == [present |-> row.present, abi |-> row.abi]
    IN  [s EXCEPT !.seen = @ \cup {a},
                  !.ok = @ /\ a \notin s.seen
                           /\ IF s.changed[a] # None THEN row.present /\ row.abi = s.changed[a]
                              ELSE \/ s.block = 1 \/ old = now \/ ~row.present
                                   \/ old = Unknown /\ row.abi = NoAbi,
                  !.changed[a] = None,
                  !.current[a] = now,
                  !.records = IF old # now /\ (row.abi # NoAbi \/ old # Unknown)
                              THEN Append(@, [account |-> a, block |-> s.block, phase |-> "block-final", abi |-> row.abi])
                              ELSE @]

(* A setabi without a row must have set what was there. *)
Unsettled(s) == \E a \in Accounts : s.changed[a] # None /\ s.current[a] # [present |-> TRUE, abi |-> s.changed[a]]

(* The body of the loop; any check that fails ends the run. *)
ScanBlock(r) ==
    /\ run[r].pc = "scan" /\ run[r].block <= EndOf[r]
    /\ LET b == run[r].block
           start == [ok |-> source[b].tid = source[b].id, block |-> b, last |-> run[r].last, revs |-> run[r].revs,
                     current |-> run[r].current, records |-> run[r].records,
                     changed |-> [a \in Accounts |-> None], seen |-> {}]
           end == FoldLeft(Row, FoldLeft(Act, start, Ordered(source[b].acts)), source[b].rows)
       IN  run' = IF ~end.ok \/ Unsettled(end) THEN Stop(r)
                  ELSE [run EXCEPT ![r] = [@ EXCEPT !.block = b + 1, !.last = end.last, !.revs = end.revs,
                                           !.current = end.current, !.records = end.records,
                                           !.ids = Append(@, source[b].id)]]
    /\ UNCHANGED <<source, stamp, partial, published, changes, crashes>>

(* Mutant: the logs are not looked at again. *)
RecheckNothing(r) ==
    /\ run[r].pc = "scan" /\ run[r].block > EndOf[r]
    /\ run' = [run EXCEPT ![r].pc = "create_manifest"]
    /\ UNCHANGED <<source, stamp, partial, published, changes, crashes>>

(* The logs have the size and time they had; the outputs are synced. *)
Recheck(r) ==
    /\ run[r].pc = "scan" /\ run[r].block > EndOf[r]
    /\ run' = IF run[r].stamp # stamp \/ (EndOf[r] > 1 /\ run[r].last = 0) THEN Stop(r)
              ELSE [run EXCEPT ![r].pc = "create_manifest"]
    /\ UNCHANGED <<source, stamp, partial, published, changes, crashes>>

-----------------------------------------------------------------------------
(* Mutant: a rename that replaces what is there. *)
CanLinkOver(f) == TRUE

(* publish: a hard link fails where the name exists. *)
CanLink(f) == f = None

Unlink(f) == [partial EXCEPT ![f] = None]

PublishRecords(r) ==
    /\ run[r].pc = "records"
    /\ IF CanLink(output)
       THEN /\ output' = run[partial["records"]].records
            /\ partial' = Unlink("records")
            /\ run' = [run EXCEPT ![r].pc = "blocks"]
       ELSE run' = Stop(r) /\ UNCHANGED <<output, partial>>
    /\ UNCHANGED <<source, stamp, blocks, manifest, changes, crashes>>

PublishBlocks(r) ==
    /\ run[r].pc = "blocks"
    /\ IF CanLink(blocks)
       THEN /\ blocks' = run[partial["blocks"]].ids
            /\ partial' = Unlink("blocks")
            /\ run' = [run EXCEPT ![r].pc = "manifest"]
       ELSE run' = Stop(r) /\ UNCHANGED <<blocks, partial>>
    /\ UNCHANGED <<source, stamp, output, manifest, changes, crashes>>

PublishManifest(r) ==
    /\ run[r].pc = "manifest"
    /\ IF CanLink(manifest)
       THEN /\ manifest' = LET m == partial["manifest"]
                           IN  [records |-> run[m].records, ids |-> run[m].ids, end |-> EndOf[m]]
            /\ partial' = Unlink("manifest")
            /\ run' = [run EXCEPT ![r].pc = "done"]
       ELSE run' = Stop(r) /\ UNCHANGED <<manifest, partial>>
    /\ UNCHANGED <<source, stamp, output, blocks, changes, crashes>>

-----------------------------------------------------------------------------
(* nodeos rewrites a part of the logs. *)
SourceChanges ==
    /\ changes < MaxChanges
    /\ changes' = changes + 1 /\ stamp' = stamp + 1
    /\ source' \in Sources
    /\ UNCHANGED <<run, partial, published, crashes>>

(* A run is killed; what it wrote stays. *)
Crash(r) ==
    /\ crashes < MaxCrashes /\ run[r].pc \notin {"start", "refused", "done"}
    /\ crashes' = crashes + 1
    /\ run' = Stop(r)
    /\ UNCHANGED <<source, stamp, partial, published, changes>>

Next ==
    \/ \E r \in Runs : \/ Begin(r) \/ ScanBlock(r)
                       \/ Create(r, "records", "create_records", "create_blocks")
                       \/ Create(r, "blocks", "create_blocks", "scan")
                       \/ Create(r, "manifest", "create_manifest", "records")
                       \/ Recheck(r)
                       \/ PublishRecords(r) \/ PublishBlocks(r) \/ PublishManifest(r) \/ Crash(r)
    \/ SourceChanges

Spec == Init /\ [][Next]_vars

-----------------------------------------------------------------------------
CONSTANT Truth      \* account |-> block |-> the ABI it has at the end of the block

Catalog == INSTANCE AbiIndex

Of(records, a) == SelectSeq(records, LAMBDA x : x.account = a)

(* "A manifest is published only after every source block, output and      *)
(* identity check succeeds": whatever other runs do with the same output,  *)
(* and wherever one is killed, a manifest describes the files beside it.   *)
ManifestMatches ==
    manifest # None => output = manifest.records /\ blocks = manifest.ids

(* The block-final records of a published history give every account the   *)
(* ABI it had at the end of each block, though rows or receipts of the     *)
(* logs are missing or wrong, or the logs changed while they were read.    *)
HistoryTrue ==
    manifest # None => \A a \in Accounts, b \in 1 .. manifest.end :
        Catalog!Select(Catalog!LoadCatalog(Of(manifest.records, a)), b) = Truth[a][b]
=============================================================================
