---------------------------- MODULE SnapshotLoad -----------------------------
(***************************************************************************)
(* A run of snapshot-load: main walks the snapshot and sends rows over a   *)
(* bounded channel to the decode workers, which send documents to one      *)
(* sink: the writer of NDJSON, the builder of a segment, or the MongoDB    *)
(* sink, an accumulator of batches before several inserts in flight.       *)
(***************************************************************************)
EXTENDS SnapshotDocs

CONSTANTS
    Jobs,       \* [path, sink, drop, tee, limit, filters, perms, lightapi, atomic, zst, snap, stored]
    Workers, Slots,                 \* decode workers; inserts in flight, from 1
    Batch,                          \* --mongo-batch
    RowBound, OutBound, BatchBound, \* channel bounds
    NoRow,
    MaxFaults, MaxCrashes           \* bounds of the environment

VARIABLES
    job, plan,      \* what is asked; what the snapshot holds for it
    pc, result,     \* main; its exit, "" while it runs
    tmp, bin,       \* the decompressed file and its temporary: "none", "part" or "whole"
    sent,           \* rows or documents main has sent in this pass
    queue, hand,    \* row channel; worker |-> the row it holds
    out,            \* document channel
    stage,          \* the sink: "off", "up", "flush", "dead", "failed" or "ended"
    pend, join,     \* accumulator: documents to batch; proposals and approvals
    batches, slot,  \* batch channel; slot |-> [pc, coll, docs]
    lock, dropped,  \* who holds the write lock of the dropped set (0: nobody)
    db, file, seg, teed,
    landed, missed, errors, warned,
    faults, crashes

vars == <<job, plan, pc, result, tmp, bin, sent, queue, hand, out, stage, pend, join, batches, slot,
          lock, dropped, db, file, seg, teed, landed, missed, errors, warned, faults, crashes>>
mainVars == <<job, plan, pc, result, tmp, bin, sent, teed>>
flow == <<queue, hand, out>>
mongo == <<pend, join, batches, slot, lock, dropped>>
stored == <<db, landed, missed, errors, warned>>
env == <<faults, crashes>>

NoBatch == [pc |-> "idle", coll |-> <<"", "">>, docs |-> {}]

-----------------------------------------------------------------------------
(* main and run_url_path: what is refused. *)
Refused(j) ==
    IF j.path = "stream"
    THEN j.lightapi \/ j.atomic \/ (j.perms /\ (j.sink = "mongo" \/ j.filters # {})) \/ (~j.perms /\ j.filters = {})
    ELSE j.sink # "segment" /\ ((j.lightapi /\ j.sink # "mongo") \/ (j.perms /\ j.sink = "lines" /\ j.filters # {}))

Supported(snap) == snap.version \in 2 .. 6 \cup {8}

(* main over a file: every section is found before anything is read. *)
SeekOpens(j) ==
    SectionsFit(j.snap) /\ Supported(j.snap) /\ Has(j.snap, "header") /\ Has(j.snap, "accounts")
SeekRows(j) ==
    [rows |-> UpToLimit(Walk(j.snap, j.filters), j.limit),
     fails |-> \E s \in RowSections(j.snap) : ~Has(j.snap, s)]

(* run_stream: one pass, which takes the ABIs and the table ids it has met *)
(* before the rows.  With --tee it reads on to the end of the stream.      *)
StreamOpens(j) ==
    IF j.perms THEN TRUE
    ELSE Supported(j.snap) /\ Before(j.snap, "header", "rows") /\ Reaches(j.snap, "rows")
StreamAbis(j, upto) == IF Before(j.snap, "accounts", upto) THEN LoadAbis(j.snap) ELSE {}
StreamRows(j) ==
    LET all == IF "ids" \in RowSections(j.snap) /\ ~Before(j.snap, "ids", "rows") THEN <<>> ELSE Walk(j.snap, j.filters)
        torn == j.snap.cut = "rows"
        got == IF torn THEN SubSeq(all, 1, j.snap.rowsRead) ELSE all
    IN  [rows |-> UpToLimit(got, j.limit),
         fails |-> (torn /\ j.limit > Len(got)) \/ (j.tee /\ j.snap.cut # "")]

(* The permissions pass: rows before one that is not framed are sent. *)
PermissionRows(j) ==
    LET bad == {i \in DOMAIN j.snap.perms : ~j.snap.perms[i].framed}
    IN  IF bad = {} THEN j.snap.perms
        ELSE SubSeq(j.snap.perms, 1, (CHOOSE i \in bad : \A k \in bad : i <= k) - 1)
PermissionPass(j, abis) ==
    LET snap == [j.snap EXCEPT !.perms = PermissionRows(j)]
        ps == Permissions(snap, j.limit)
        docs == FlattenSeq([i \in DOMAIN ps |->
                  (IF j.sink = "lines" THEN <<>> ELSE PubKeyDocs(abis, ps[i])) \o <<PermissionDoc(snap, abis, ps[i])>>])
        whole == IF j.path = "stream"
                 THEN Before(snap, "perms", "links") /\ Reaches(snap, "links") /\ snap.cut # "links"
                      /\ ~(j.tee /\ snap.cut # "")
                 ELSE Has(snap, "perms") /\ Has(snap, "links")
        torn == Len(snap.perms) < Len(j.snap.perms) /\ j.limit > Len(ps)
    IN  [docs |-> (IF whole THEN docs ELSE <<>>)
                    \o (IF (j.sink = "mongo" \/ (j.sink = "segment" /\ whole /\ ~torn)) /\ Has(snap, "codes")
                        THEN CodeHashDocs(snap) ELSE <<>>),
         fails |-> ~whole \/ torn]

Plan(j) ==
    LET abis == IF j.path = "seek" THEN LoadAbis(j.snap)
                ELSE StreamAbis(j, IF j.perms THEN "links" ELSE "rows")
        perms == PermissionPass(j, abis)
        rows == IF j.path = "seek" THEN SeekRows(j) ELSE StreamRows(j)
    IN  [opens |-> IF j.path = "seek" THEN SeekOpens(j) ELSE StreamOpens(j),
         abis |-> abis,
         reg |-> IF j.atomic /\ j.sink # "segment" THEN BuildSchemaRegistry(j.snap) ELSE NoRegistry,
         docs |-> perms.docs, docsFail |-> perms.fails, rows |-> rows.rows, rowsFail |-> rows.fails]

-----------------------------------------------------------------------------
Init ==
    /\ job \in Jobs /\ plan = Plan(job)
    /\ pc = "start" /\ result = "" /\ sent = 0
    /\ queue = <<>> /\ hand = [w \in Workers |-> NoRow] /\ out = <<>> /\ stage = "off"
    /\ pend = <<>> /\ join = {} /\ batches = <<>> /\ slot = [k \in Slots |-> NoBatch]
    /\ lock = 0 /\ dropped = {}
    /\ landed = {} /\ missed = {} /\ errors = 0 /\ warned = {}
    /\ tmp = "none" /\ bin = "none" /\ db = job.stored /\ file = <<>> /\ seg = "none" /\ teed = "none"
    /\ faults = 0 /\ crashes = 0

Exit(how) == pc' = "done" /\ result' = how
(* A segment's builder is left behind when main returns an error: it may   *)
(* have begun to write what it received.                                   *)
ExitFailed ==
    /\ Exit("err")
    /\ seg' \in IF stage = "up" /\ job.sink = "segment" THEN {seg, "part"} ELSE {seg}

(* ensure_decompressed: into a temporary, renamed when it is complete. *)
Start ==
    /\ pc = "start"
    /\ IF job.path = "stream" /\ Refused(job) THEN Exit("err") /\ UNCHANGED tmp
       ELSE /\ UNCHANGED result
            /\ IF job.path = "seek" /\ job.zst /\ bin = "none"
               THEN pc' = "copy" /\ tmp' = "part"
               ELSE pc' = "open" /\ UNCHANGED tmp
    /\ UNCHANGED <<job, plan, bin, sent, flow, stage, mongo, stored, file, seg, teed, env>>

(* Decompressing in place. *)
CopyInPlace ==
    /\ pc = "copy"
    /\ bin' = "part" /\ pc' = "rename"
    /\ UNCHANGED <<job, plan, result, tmp, sent, flow, stage, mongo, stored, file, seg, teed, env>>

Copy ==
    /\ pc = "copy"
    /\ tmp' = "whole" /\ pc' = "rename"
    /\ UNCHANGED <<job, plan, result, bin, sent, flow, stage, mongo, stored, file, seg, teed, env>>

Rename ==
    /\ pc = "rename"
    /\ bin' = tmp /\ tmp' = "none" /\ pc' = "open"
    /\ UNCHANGED <<job, plan, result, sent, flow, stage, mongo, stored, file, seg, teed, env>>

(* The header and the sections; a stream is mirrored from its first byte. *)
Open ==
    /\ pc = "open"
    /\ teed' = IF job.tee THEN "part" ELSE teed
    /\ IF ~plan.opens \/ Refused(job) THEN Exit("err") /\ UNCHANGED stage
       ELSE /\ stage' = IF job.sink = "segment" THEN "up" ELSE stage
            /\ IF job.perms THEN pc' = "perms" /\ UNCHANGED result
               ELSE IF job.filters # {} THEN pc' = "prepass" /\ UNCHANGED result
               ELSE IF job.sink = "segment" THEN pc' = "segment" /\ UNCHANGED result
               ELSE Exit("ok")
    /\ UNCHANGED <<job, plan, tmp, bin, sent, flow, mongo, stored, file, seg, env>>

(* The collections a pass drops before it loads. *)
SpecialDrops ==
    IF pc = "perms" THEN {Fixed("permissions"), Fixed("pub_keys"), Fixed("account_codehash")}
    ELSE IF job.atomic THEN AtomicAssetsTables \cup AtomicMarketTables
    ELSE {Fixed("voters"), Fixed("accounts"), Fixed("proposals")}

(* run_sink and the writer thread start: the client may fail to be built.  *)
(* A drop that fails is only logged.                                       *)
SinkStart ==
    /\ stage = "off" /\ pc \in {"perms", "tables"} /\ (pc = "perms" => job.sink # "lines")
    /\ file' = IF job.sink = "lines" THEN <<>> ELSE file
    /\ \/ /\ stage' = "up"
          /\ \E kept \in SUBSET (SpecialDrops \cap {d.coll : d \in db}) :
               /\ faults + Cardinality(kept) <= MaxFaults
               /\ IF job.sink = "mongo" /\ job.drop
                  THEN /\ db' = {d \in db : d.coll \notin SpecialDrops \ kept}
                       /\ warned' = warned \cup kept /\ faults' = faults + Cardinality(kept)
                  ELSE kept = {} /\ UNCHANGED <<db, warned, faults>>
       \/ /\ job.sink = "mongo" /\ faults < MaxFaults
          /\ stage' = "dead" /\ faults' = faults + 1 /\ UNCHANGED <<db, warned>>
    /\ UNCHANGED <<mainVars, flow, mongo, landed, missed, errors, seg, crashes>>

(* The writer of NDJSON cannot create or write its file: the receiver goes *)
(* away, and what is sent to it is lost.                                   *)
WriterDies ==
    /\ stage = "up" /\ job.sink = "lines" /\ faults < MaxFaults
    /\ stage' = "dead" /\ out' = <<>> /\ faults' = faults + 1
    /\ UNCHANGED <<mainVars, queue, hand, mongo, stored, file, seg, crashes>>

RoomBlocking == stage = "up" /\ (job.sink = "segment" \/ Len(out) < OutBound)
Room == stage = "dead" \/ (stage = "up" /\ (job.sink = "segment" \/ Len(out) < OutBound))
Put(docs) == out' = IF stage = "dead" THEN out ELSE out \o SetToSeq(docs)

-----------------------------------------------------------------------------
(* load_permissions_to_mongo, load_permissions_to_sink and the NDJSON pass, *)
(* where main writes the file itself.                                      *)
SendPermission ==
    /\ pc = "perms" /\ sent < Len(plan.docs)
    /\ sent' = sent + 1
    /\ IF job.sink = "lines"
       THEN file' = Append(IF sent = 0 THEN <<>> ELSE file, plan.docs[sent + 1]) /\ UNCHANGED out
       ELSE Room /\ Put({plan.docs[sent + 1]}) /\ UNCHANGED file
    /\ UNCHANGED <<job, plan, pc, result, tmp, bin, queue, hand, stage, mongo, stored, seg, teed, env>>

PermissionsSent ==
    /\ pc = "perms" /\ sent = Len(plan.docs) /\ (job.sink # "lines" => stage # "off")
    /\ sent' = 0
    /\ CASE job.sink = "lines" -> Exit(IF plan.docsFail THEN "err" ELSE "ok") /\ UNCHANGED seg
         [] job.sink = "mongo" -> pc' = "permsjoin" /\ UNCHANGED <<result, seg>>
         [] job.sink = "segment" ->
              IF plan.docsFail THEN ExitFailed
              ELSE pc' = (IF job.filters = {} THEN "segment" ELSE "prepass") /\ UNCHANGED <<result, seg>>
    /\ teed' = IF job.tee /\ ~plan.docsFail THEN "whole" ELSE teed
    /\ UNCHANGED <<job, plan, tmp, bin, flow, stage, mongo, stored, file, env>>

PermissionsJoined ==
    /\ pc = "permsjoin" /\ stage \in {"ended", "failed", "dead"}
    /\ IF stage # "ended" \/ plan.docsFail THEN Exit("err") /\ UNCHANGED <<stage, dropped>>
       ELSE IF job.filters = {} THEN Exit("ok") /\ UNCHANGED <<stage, dropped>>
       ELSE pc' = "prepass" /\ stage' = "off" /\ dropped' = {} /\ UNCHANGED result
    /\ UNCHANGED <<job, plan, tmp, bin, sent, flow, pend, join, batches, slot, lock, stored, file, seg, teed, env>>

(* build_schema_registry, before the pass that needs it. *)
Prepass ==
    /\ pc = "prepass"
    /\ IF plan.reg.fails THEN ExitFailed ELSE pc' = "tables" /\ UNCHANGED <<result, seg>>
    /\ UNCHANGED <<job, plan, tmp, bin, sent, flow, stage, mongo, stored, file, teed, env>>

(* The producer; it blocks while the row channel is full. *)
SendRow ==
    /\ pc = "tables" /\ stage # "off" /\ sent < Len(plan.rows) /\ Len(queue) < RowBound
    /\ queue' = Append(queue, plan.rows[sent + 1]) /\ sent' = sent + 1
    /\ UNCHANGED <<job, plan, pc, result, tmp, bin, hand, out, stage, mongo, stored, file, seg, teed, env>>

(* The walk ends or fails; either way the row channel closes. *)
WalkEnds ==
    /\ pc = "tables" /\ stage # "off" /\ sent = Len(plan.rows)
    /\ pc' = "join"
    /\ teed' = IF job.tee /\ ~plan.rowsFail THEN "whole" ELSE teed
    /\ UNCHANGED <<job, plan, result, tmp, bin, sent, flow, stage, mongo, stored, file, seg, env>>

Take(w) ==
    /\ hand[w] = NoRow /\ queue # <<>>
    /\ hand' = [hand EXCEPT ![w] = Head(queue)] /\ queue' = Tail(queue)
    /\ UNCHANGED <<mainVars, out, stage, mongo, stored, file, seg, env>>

(* The worker decodes and maps its row; a failed send is ignored. *)
Deliver(w) ==
    /\ hand[w] # NoRow
    /\ LET docs == IF job.sink = "lines" THEN Line(plan.abis, plan.reg, hand[w])
                   ELSE Mapped(plan.abis, plan.reg, hand[w])
       IN  (docs # {} => Room) /\ Put(docs)
    /\ hand' = [hand EXCEPT ![w] = NoRow]
    /\ UNCHANGED <<mainVars, queue, stage, mongo, stored, file, seg, env>>

WorkersDone == queue = <<>> /\ \A w \in Workers : hand[w] = NoRow
Closed == pc \in {"permsjoin", "join", "segment"} /\ WorkersDone /\ out = <<>>

(* The workers and the sink are joined in this order; the segment's sink   *)
(* is joined when its last pass is over.                                   *)
Joined ==
    /\ pc = "join" /\ WorkersDone
    /\ IF job.sink = "segment"
       THEN IF plan.rowsFail THEN ExitFailed ELSE pc' = "segment" /\ UNCHANGED <<result, seg>>
       ELSE /\ stage \in {"ended", "failed", "dead"}
            /\ Exit(IF plan.rowsFail \/ stage # "ended" THEN "err" ELSE "ok") /\ UNCHANGED seg
    /\ UNCHANGED <<job, plan, tmp, bin, sent, flow, stage, mongo, stored, file, teed, env>>

-----------------------------------------------------------------------------
(* The NDJSON writer, and the builder of the segment. *)
WriteLine ==
    /\ stage = "up" /\ job.sink = "lines" /\ out # <<>>
    /\ file' = Append(file, Head(out)) /\ out' = Tail(out)
    /\ UNCHANGED <<mainVars, queue, hand, stage, mongo, stored, seg, env>>

Push ==
    /\ stage = "up" /\ job.sink = "segment" /\ out # <<>>
    /\ landed' = landed \cup {Head(out)} /\ out' = Tail(out)
    /\ UNCHANGED <<mainVars, queue, hand, stage, mongo, db, missed, errors, warned, file, seg, env>>

WriterEnds ==
    /\ stage = "up" /\ job.sink = "lines" /\ Closed
    /\ stage' = "ended"
    /\ UNCHANGED <<mainVars, flow, mongo, stored, file, seg, env>>

(* Builder::finish writes the segment in place; main joins it. *)
SegmentEnds ==
    /\ stage = "up" /\ pc = "segment" /\ Closed
    /\ \/ /\ seg' = "whole" /\ stage' = "ended" /\ Exit("ok") /\ UNCHANGED faults
       \/ /\ faults < MaxFaults /\ faults' = faults + 1
          /\ seg' \in {seg, "part"} /\ stage' = "failed" /\ Exit("err")
    /\ UNCHANGED <<job, plan, tmp, bin, sent, flow, mongo, stored, file, teed, crashes>>

-----------------------------------------------------------------------------
(* run_writer's accumulator: a full batch of a collection is sent, which   *)
(* blocks while the batch channel is full; proposals and their approvals   *)
(* are kept for the join.                                                  *)
OfColl(c) == LET In(d) == d.coll = c IN SelectSeq(pend, In)
NotOf(c) == LET Out(d) == d.coll # c IN SelectSeq(pend, Out)
BatchOf(c, docs) == [coll |-> c, docs |-> docs]

(* The batch sent before its last document is added. *)
AccumulateBefore ==
    /\ stage = "up" /\ job.sink = "mongo" /\ out # <<>>
    /\ out' = Tail(out)
    /\ LET d == Head(out)
           full == ToSet(OfColl(d.coll)) \cup {d}
       IN  IF d.coll = Fixed("proposals") THEN join' = join \cup {d} /\ UNCHANGED <<pend, batches>>
           ELSE IF Cardinality(full) < Batch THEN pend' = Append(pend, d) /\ UNCHANGED <<join, batches>>
           ELSE /\ Len(batches) < BatchBound
                /\ batches' = Append(batches, BatchOf(d.coll, ToSet(OfColl(d.coll))))
                /\ pend' = NotOf(d.coll) /\ UNCHANGED join
    /\ UNCHANGED <<mainVars, queue, hand, stage, slot, lock, dropped, stored, file, seg, env>>

Accumulate ==
    /\ stage = "up" /\ job.sink = "mongo" /\ out # <<>>
    /\ out' = Tail(out)
    /\ LET d == Head(out)
           full == ToSet(OfColl(d.coll)) \cup {d}
       IN  IF d.coll = Fixed("proposals") THEN join' = join \cup {d} /\ UNCHANGED <<pend, batches>>
           ELSE IF Cardinality(full) < Batch THEN pend' = Append(pend, d) /\ UNCHANGED <<join, batches>>
           ELSE /\ Len(batches) < BatchBound
                /\ batches' = Append(batches, BatchOf(d.coll, full))
                /\ pend' = NotOf(d.coll) /\ UNCHANGED join
    /\ UNCHANGED <<mainVars, queue, hand, stage, slot, lock, dropped, stored, file, seg, env>>

(* merge_proposals: each proposal takes the approvals of its key. *)
MergeProposals ==
    {[p EXCEPT !.data = IF [p EXCEPT !.data = <<"approvals2">>] \in join THEN <<"approved">> ELSE @] :
        p \in {d \in join : d.data = <<"proposal">>}}

(* At the end of the channel the partial batches are sent in any order,    *)
(* then the proposals, in batches of one collection taken here as one.     *)
Flush ==
    /\ stage \in {"up", "flush"} /\ job.sink = "mongo" /\ Closed
    /\ pend # <<>> \/ join # {} \/ stage = "up"
    /\ stage' = "flush"
    /\ IF pend # <<>>
       THEN \E d \in ToSet(pend) :
              /\ Len(batches) < BatchBound
              /\ batches' = Append(batches, BatchOf(d.coll, ToSet(OfColl(d.coll))))
              /\ pend' = NotOf(d.coll) /\ UNCHANGED join
       ELSE /\ MergeProposals # {} => Len(batches) < BatchBound
            /\ batches' = IF MergeProposals = {} THEN batches ELSE Append(batches, BatchOf(Fixed("proposals"), MergeProposals))
            /\ join' = {} /\ UNCHANGED pend
    /\ UNCHANGED <<mainVars, flow, slot, lock, dropped, stored, file, seg, env>>

(* An insert in flight takes the next batch.  One for a collection without *)
(* a fixed name first looks, under the read lock, whether it was dropped.  *)
NextBatch(k) ==
    /\ slot[k].pc = "idle" /\ batches # <<>>
    /\ batches' = Tail(batches)
    /\ slot' = [slot EXCEPT ![k] =
                  [pc |-> IF job.drop /\ ~IsNamed(Head(batches).coll) THEN "look" ELSE "insert",
                   coll |-> Head(batches).coll, docs |-> Head(batches).docs]]
    /\ UNCHANGED <<mainVars, flow, stage, pend, join, lock, dropped, stored, file, seg, env>>

Look(k) ==
    /\ slot[k].pc = "look" /\ lock = 0
    /\ slot' = [slot EXCEPT ![k].pc = IF slot[k].coll \in dropped THEN "insert" ELSE "claim"]
    /\ UNCHANGED <<mainVars, flow, stage, pend, join, batches, lock, dropped, stored, file, seg, env>>

(* The lock let go before the drop is answered. *)
ClaimBriefly(k) ==
    /\ slot[k].pc = "claim" /\ lock = 0
    /\ slot' = [slot EXCEPT ![k].pc = IF slot[k].coll \in dropped THEN "insert" ELSE "drop"]
    /\ dropped' = dropped \cup {slot[k].coll}
    /\ UNCHANGED <<mainVars, flow, stage, pend, join, batches, lock, stored, file, seg, env>>

(* The write lock, with the check repeated under it. *)
Claim(k) ==
    /\ slot[k].pc = "claim" /\ lock = 0
    /\ IF slot[k].coll \in dropped
       THEN slot' = [slot EXCEPT ![k].pc = "insert"] /\ UNCHANGED <<lock, dropped>>
       ELSE /\ slot' = [slot EXCEPT ![k].pc = "drop"]
            /\ lock' = k /\ dropped' = dropped \cup {slot[k].coll}
    /\ UNCHANGED <<mainVars, flow, stage, pend, join, batches, stored, file, seg, env>>

Drop(k) ==
    /\ slot[k].pc = "drop"
    /\ slot' = [slot EXCEPT ![k].pc = "insert"] /\ lock' = 0
    /\ \/ /\ db' = {d \in db : d.coll # slot[k].coll} /\ UNCHANGED <<warned, faults>>
       \/ /\ faults < MaxFaults /\ faults' = faults + 1
          /\ warned' = warned \cup {slot[k].coll} /\ UNCHANGED db
    /\ UNCHANGED <<mainVars, flow, stage, pend, join, batches, dropped, landed, missed, errors, file, seg, crashes>>

(* insert_many, unordered: an error leaves any part of the batch stored. *)
Insert(k) ==
    /\ slot[k].pc = "insert"
    /\ slot' = [slot EXCEPT ![k] = NoBatch]
    /\ \E in \in IF faults < MaxFaults THEN SUBSET slot[k].docs ELSE {slot[k].docs} :
         /\ db' = db \cup in /\ landed' = landed \cup in
         /\ missed' = missed \cup (slot[k].docs \ in)
         /\ IF in = slot[k].docs THEN UNCHANGED <<errors, faults>> ELSE errors' = errors + 1 /\ faults' = faults + 1
    /\ UNCHANGED <<mainVars, flow, stage, pend, join, batches, lock, dropped, warned, file, seg, crashes>>

(* All batches are in: the indexes are built, which may fail. *)
SinkEnds ==
    /\ stage = "flush" /\ pend = <<>> /\ join = {} /\ batches = <<>> /\ \A k \in Slots : slot[k].pc = "idle"
    /\ \/ stage' = "ended" /\ UNCHANGED faults
       \/ faults < MaxFaults /\ stage' = "failed" /\ faults' = faults + 1
    /\ UNCHANGED <<mainVars, flow, mongo, stored, file, seg, crashes>>

(* The process is killed and started again with the same arguments. *)
Crash ==
    /\ crashes < MaxCrashes /\ pc # "done"
    /\ crashes' = crashes + 1
    /\ pc' = "start" /\ result' = "" /\ sent' = 0
    /\ queue' = <<>> /\ hand' = [w \in Workers |-> NoRow] /\ out' = <<>> /\ stage' = "off"
    /\ pend' = <<>> /\ join' = {} /\ batches' = <<>> /\ slot' = [k \in Slots |-> NoBatch]
    /\ lock' = 0 /\ dropped' = {}
    /\ landed' = {} /\ missed' = {} /\ errors' = 0 /\ warned' = {}
    /\ UNCHANGED <<job, plan, tmp, bin, db, file, seg, teed, faults>>

MainStep ==
    \/ Start \/ Copy \/ Rename \/ Open \/ SendPermission \/ PermissionsSent \/ PermissionsJoined
    \/ Prepass \/ SendRow \/ WalkEnds \/ Joined
WorkerStep == \E w \in Workers : Take(w) \/ Deliver(w)
SlotStep == \E k \in Slots : NextBatch(k) \/ Look(k) \/ Claim(k) \/ Drop(k) \/ Insert(k)
SinkStep ==
    \/ SinkStart \/ WriterDies \/ WriteLine \/ Push \/ WriterEnds \/ SegmentEnds
    \/ Accumulate \/ Flush \/ SlotStep \/ SinkEnds
Next == MainStep \/ WorkerStep \/ SinkStep \/ Crash

(* No thread stops on its own, and the faults are bounded: something that  *)
(* can happen does.                                                        *)
Spec == Init /\ [][Next]_vars /\ WF_vars(Next)

-----------------------------------------------------------------------------
(* What the snapshot holds for the job, whatever was sent in which order.  *)
Wanted(j) == {r \in UNION {ToSet(RowsOf(j.snap.tables[i])) : i \in DOMAIN j.snap.tables} : Selected(j.filters, r)}
Complete(j) == j.limit > 100
SchemaKnown(j, r) ==
    \E i \in DOMAIN j.snap.tables : \E s \in ToSet(RowsOf(j.snap.tables[i])) :
        s.code = "atomicassets" /\ s.table = "schemas" /\ s.scope = r.of /\ s.ref = r.ref /\ s.good
RowDocs(j) ==
    UNION {Mapped(LoadAbis(j.snap), plan.reg, r) : r \in Wanted(j)}
Proposals(j) == {d \in RowDocs(j) : d.coll = Fixed("proposals")}
Joins(j) ==
    {Doc(d.coll, d.key, IF Doc(d.coll, d.key, <<"approvals2">>) \in Proposals(j) THEN <<"approved">> ELSE <<"proposal">>) :
        d \in {x \in Proposals(j) : x.data = <<"proposal">>}}
Expected(j) == (RowDocs(j) \ Proposals(j)) \cup Joins(j) \cup (IF j.perms THEN ToSet(PermissionPass(j, LoadAbis(j.snap)).docs) ELSE {})
Collections(docs) == {d.coll : d \in docs}

(* A run that exits without an error and without a limit has delivered     *)
(* every document of the snapshot's selected rows, once, however the       *)
(* workers interleaved, and after any number of killed runs: into NDJSON,  *)
(* into the segment, or into MongoDB, where collections that were dropped  *)
(* hold nothing else, proposals carry their approvals and what is missing  *)
(* was counted as an error (run_workers_and_sink, run_writer).  A stream   *)
(* that was mirrored to a file is there whole (TeeReader), and outside of  *)
(* a Light-API segment an asset whose schema the snapshot has is decoded.  *)
LoadsExactly ==
    result = "ok" /\ Complete(job) =>
        /\ job.sink = "mongo" /\ (job.drop \/ crashes = 0) =>
             /\ {d \in db : d.coll \in Collections(Expected(job)) \ warned}
                  = {d \in Expected(job) \ missed : d.coll \notin warned}
             /\ Expected(job) \subseteq db \cup missed
             /\ missed # {} => errors > 0
        /\ job.sink = "segment" => seg = "whole" /\ landed = RowDocs(job) \cup (IF job.perms THEN ToSet(plan.docs) ELSE {})
        /\ job.sink = "lines" /\ ~job.perms =>
             /\ ToSet(file) = UNION {Line(LoadAbis(job.snap), plan.reg, r) : r \in Wanted(job)}
             /\ Len(file) = Cardinality(ToSet(file))
        /\ job.tee => teed = "whole"
        /\ \A r \in Wanted(job) :
             job.atomic /\ job.sink # "segment" /\ r.code = "atomicassets" /\ r.table = "assets" /\ SchemaKnown(job, r)
                 => \A d \in Mapped(plan.abis, plan.reg, r) : d.data = <<"data">>

(* A document this run has stored is never removed by it: no insert runs   *)
(* ahead of the drop of its collection (the RwLock of run_writer).         *)
LandedStay == job.sink = "mongo" => landed \subseteq db

(* A file under the decompressed name is complete, whenever the process    *)
(* was killed: a later run trusts its existence (ensure_decompressed).     *)
DecompressedWhole == bin # "part"

(* The loader ends: a sink that fails, in any of its stages, blocks        *)
(* neither the workers nor main on a channel nobody reads.                 *)
LoadEnds == <>(result # "")
=============================================================================
