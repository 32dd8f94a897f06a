------------------------------ MODULE MCIngest -------------------------------
(* The bulk tools.  A behaviour is about one of five: abi-scanner and the  *)
(* disk scan (DiskScan), its scan over SHiP (ShipScan), the Wire history   *)
(* of ABIs (WireHistory), the document indexers (Indexers), snapshot-load  *)
(* (SnapshotLoad).                                                         *)
EXTENDS DiskScan

MCDocs == <<<<"v1">>, <<>>, <<"v2", "v3">>, <<>>>>

CONSTANTS NoAbi, NoReceipt, NoDoc, NoRev, NoSet, NoRow, Batch, MaxFaults,
    Runs, Accounts, MaxChanges, EndOf, EndId, Sources, Truth,
    TransferMemo, Tools, NumBlocks, NumThreads, Posters, PartitionSize, Traces, Deltas, KvRows, AbiLines,
    Capacity, LoadLines,
    Jobs, Slots, RowBound, OutBound, BatchBound
VARIABLES about,
    source, stamp, run, partial, output, blocks, manifest, changes, hCrashes,
    tool, sink, lines, made, bad, headless, at, iPc, iOut, chan, iLock, poster, es, iFile,
    unread, counted, failed, iErrors, posted, iFaults, iDropped,
    job, plan, pc, result, tmp, bin, sent, queue, hand, docs, stage, pend, join, batches, slot,
    lock, dropped, db, sFile, seg, teed, landed, missed, errors, warned, faults, sCrashes,
    args, conn, node, switched, lChan, writer, lFile, verdict, took, lFaults

liveVars == <<args, conn, node, switched, lChan, writer, lFile, verdict, took, lFaults>>
historyVars == <<source, stamp, run, partial, output, blocks, manifest, changes, hCrashes>>
indexVars == <<tool, sink, lines, made, bad, headless, at, iPc, iOut, chan, iLock, poster, es, iFile,
               unread, counted, failed, iErrors, posted, iFaults, iDropped>>
loadVars == <<job, plan, pc, result, tmp, bin, sent, queue, hand, docs, stage, pend, join, batches, slot,
              lock, dropped, db, sFile, seg, teed, landed, missed, errors, warned, faults, sCrashes>>
mcVars == <<about, vars, historyVars, indexVars, loadVars, liveVars>>

-----------------------------------------------------------------------------
Given == INSTANCE MCIngestInputs
MCEndOf == Given!MCEndOf
MCEndId == Given!MCEndId
MCSources == Given!MCSources
MCTruth == Given!MCTruth
History == INSTANCE WireHistory WITH crashes <- hCrashes

MCTraces == Given!MCTraces
MCDeltas == Given!MCDeltas
MCKvRows == Given!MCKvRows
MCAbiLines == Given!MCAbiLines
MCCapacity == Given!MCCapacity
MCLoadLines == Given!MCLoadLines
Indexer == INSTANCE Indexers WITH pc <- iPc, out <- iOut, lock <- iLock, file <- iFile,
                                  errors <- iErrors, faults <- iFaults, dropped <- iDropped

MCJobs == Given!MCJobs
Load == INSTANCE SnapshotLoad WITH Workers <- Threads, out <- docs, file <- sFile, crashes <- sCrashes

(* Blocks 1 to 3 over SHiP, in one request or split; the node may lack the *)
(* first one, have a row that does not decode or a Wire schema.            *)
LiveDocs(b, version) == IF version = "new" THEN <<"x">> ELSE MCDocs[b]
LiveScan(connections, inFlight, provider, schema, irreversible, avail, undecoded) ==
    [connections |-> connections, inFlight |-> inFlight, provider |-> provider, schema |-> schema,
     irreversible |-> irreversible, avail |-> avail, undecoded |-> undecoded, start |-> 1, end |-> 3]
LiveArgs ==
    UNION {{LiveScan(0, 1, p, p, i, 1, 0), LiveScan(0, 1, p, p, i, 2, 0), LiveScan(0, 1, p, p, i, 1, 3)} :
             p \in {"antelope", "wire"}, i \in BOOLEAN}
      \cup {LiveScan(0, n, "antelope", s, TRUE, 1, 0) : n \in {0, 2}, s \in {"antelope", "wire"}}
      \cup {LiveScan(2, 1, "antelope", "antelope", TRUE, 1, 0), LiveScan(2, 1, "wire", "wire", FALSE, 1, 0)}
Live == INSTANCE ShipScan WITH Args <- LiveArgs, DocsOf <- LiveDocs, MaxU32 <- 7, Fork <- 3, ChannelSize <- 1,
                               MaxIdle <- 1, chan <- lChan, file <- lFile, faults <- lFaults

-----------------------------------------------------------------------------
(* The parts a behaviour is not about stay as they begin. *)
IdleHistory == History!Init /\ source = Given!MCChain
IdleIndexer == Indexer!Init /\ tool = "load" /\ bad = {}
IdleLoad == Load!Init /\ job = Given!Nothing
IdleLive == Live!Init /\ args = LiveScan(0, 1, "wire", "wire", TRUE, 1, 0)

MCInit ==
    /\ Init
    /\ \/ about = "scan" /\ IdleHistory /\ IdleIndexer /\ IdleLoad /\ IdleLive
       \/ about = "live" /\ IdleHistory /\ IdleIndexer /\ IdleLoad /\ Live!Init
       \/ about = "history" /\ History!Init /\ IdleIndexer /\ IdleLoad /\ IdleLive
       \/ about = "index" /\ IdleHistory /\ Indexer!Init /\ IdleLoad /\ IdleLive
       \/ about = "load" /\ IdleHistory /\ IdleIndexer /\ Load!Init /\ IdleLive
ScanStep == about = "scan" /\ Next /\ UNCHANGED <<about, historyVars, indexVars, loadVars, liveVars>>
HistoryStep == about = "history" /\ History!Next /\ UNCHANGED <<about, vars, indexVars, loadVars, liveVars>>
IndexStep == about = "index" /\ Indexer!Next /\ UNCHANGED <<about, vars, historyVars, loadVars, liveVars>>
LoadStep == about = "load" /\ Load!Next /\ UNCHANGED <<about, vars, historyVars, indexVars, liveVars>>
LiveStep == about = "live" /\ Live!Next /\ UNCHANGED <<about, vars, historyVars, indexVars, loadVars>>
MCNext == ScanStep \/ LiveStep \/ HistoryStep \/ IndexStep \/ LoadStep
MCSpec ==
    /\ MCInit /\ [][MCNext]_mcVars
    /\ WF_mcVars(IndexStep) /\ WF_mcVars(LoadStep) /\ WF_mcVars(LiveStep)

(* A published Wire history is true, and its manifest describes the files  *)
(* beside it (wire_history.rs, scan and publish).                          *)
HistoryPublished == History!ManifestMatches /\ History!HistoryTrue

(* The indexers lose nothing silently, tell each action once and decode    *)
(* what the ABI in force decodes (es_poster, FinalizeAndEmit, Registry).   *)
IndexedRight == Indexer!NothingSilent /\ Indexer!ActionsToldOnce /\ Indexer!DecodedWhenItCan

(* A load that exits 0 without a reported error has put exactly what the   *)
(* snapshot holds, what landed stays, and a decompressed file is whole     *)
(* (snapshot-load main.rs, mongo.rs).                                      *)
LoadedRight == Load!LoadsExactly /\ Load!LandedStay /\ Load!DecompressedWhole

(* abi-scanner says all is done only when its output gives every block the *)
(* ABI in force there, whether it read the logs or the range over SHiP     *)
(* (scan_disk; scan_range and run_ship_with_provider).                     *)
ScansTruly == IndexIsHistory /\ Live!ScansRange

(* The indexers, snapshot-load and a scan over SHiP end, whatever fails. *)
RunsEnd ==
    /\ about = "index" => Indexer!IndexerEnds
    /\ about = "load" => Load!LoadEnds
    /\ about = "live" => Live!ScanEnds
=============================================================================
