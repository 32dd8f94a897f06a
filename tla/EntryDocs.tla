------------------------------ MODULE EntryDocs ------------------------------
(***************************************************************************)
(* action-proto: from the traces of a transaction to the documents of its  *)
(* actions.  A trace is [ord, creator, digest, gs, except, accepts, name,  *)
(* data]: gs is NoReceipt without a receipt, `accepts` the ABI versions    *)
(* that decode its data, `name` the action, `data` the fields decoded.     *)
(*                                                                         *)
(* delta-proto: from the rows of a block's state deltas to documents, on   *)
(* an Antelope chain (main.rs) and on a Wire chain (wire.rs).  A row is    *)
(* [key, table, present, parses, accepts, tables, needs, has]: `accepts`   *)
(* the ABI versions that decode it; for Wire, the number of ABI tables its *)
(* id maps to, and the fields its system table handler needs and it has.   *)
(***************************************************************************)
EXTENDS AbiIndex, FiniteSets, TLC

CONSTANTS
    NoReceipt,
    TransferMemo    \* --index-transfer-memo: fields a transfer moves besides, {} or {"memo"}

-----------------------------------------------------------------------------
(* The @-field handlers of Hyperion: what each needs to apply, the fields  *)
(* it copies into the @-object and those it removes from act.data.         *)
Moves(needs, copies, removes) == [needs |-> needs, copies |-> copies, removes |-> removes]

(* h_transfer, h_newaccount, h_updateauth: the ones that edit act.data. *)
EditHandlers ==
    [transfer |-> Moves({"quantity"}, {"from", "to", "quantity"} \cup TransferMemo,
                         {"from", "to"} \cup TransferMemo),
     newaccount |-> Moves({"name"}, {"name", "owner", "active"}, {"name"}),
     updateauth |-> Moves({}, {"permission", "parent", "auth"}, {})]

(* h_delegatebw, h_undelegatebw, h_buyram, h_buyrambytes: act.data goes. *)
StakeHandlers ==
    [delegatebw |-> Moves({}, {"from", "receiver", "transfer", "stake_cpu_quantity",
                               "stake_net_quantity"}, {"*"}),
     undelegatebw |-> Moves({}, {"from", "receiver", "unstake_cpu_quantity",
                                 "unstake_net_quantity"}, {"*"}),
     buyram |-> Moves({}, {"payer", "receiver", "quant"}, {"*"}),
     buyrambytes |-> Moves({}, {"payer", "receiver", "bytes"}, {"*"})]

(* h_buyrex, h_unstaketorex, h_voteproducer: act.data stays. *)
CopyHandlers ==
    [buyrex |-> Moves({}, {"from", "amount"}, {}),
     unstaketorex |-> Moves({}, {"owner", "receiver", "from_cpu", "from_net"}, {}),
     voteproducer |-> Moves({}, {"proxy", "producers"}, {})]

(* process_action_data: the fields left in act.data and in the @-object. *)
ProcessActionData(name, data) ==
    LET all == EditHandlers @@ StakeHandlers @@ CopyHandlers
    IN  IF name \notin DOMAIN all \/ ~(all[name].needs \subseteq data)
        THEN [data |-> data, at |-> {}]
        ELSE [data |-> IF all[name].removes = {"*"} THEN {} ELSE data \ all[name].removes,
              at |-> all[name].copies \cap data]

-----------------------------------------------------------------------------
(* worker: the actions of a transaction that ran and have a receipt, each  *)
(* decoded; the first carries the usage of the transaction.                *)
Procs(versions, b, tx) ==
    LET ran == SelectSeq(tx, LAMBDA a : ~a.except /\ a.gs # NoReceipt)
    IN  [i \in DOMAIN ran |->
            LET a == ran[i]
                abi == Decoded(versions, b, a.accepts)
            IN  [ord |-> a.ord, creator |-> a.creator, digest |-> a.digest, gs |-> a.gs,
                 usage |-> i = 1, abi |-> abi,
                 body |-> IF abi = NoAbi THEN [data |-> {"hex"}, at |-> {}]
                          ELSE ProcessActionData(a.name, a.data)]]

(* Mutant: a notification is known by its digest alone. *)
KeyDigestOnly(procs, p) == <<p.digest, 0>>

(* finalize_and_emit: a notification has the digest of its creator, and    *)
(* belongs to its document.                                                *)
Key(procs, p) ==
    <<p.digest,
      IF p.creator > 0 /\ \E i \in DOMAIN procs :
             procs[i].ord = p.creator /\ procs[i].digest = p.digest
      THEN p.creator ELSE p.ord>>

(* The first of each group heads a document with the receipts of all. *)
FinalizeAndEmit(b, procs) ==
    LET heads == SelectSeq([i \in DOMAIN procs |-> i],
                     LAMBDA i : \A j \in 1 .. i - 1 : Key(procs, procs[j]) # Key(procs, procs[i]))
    IN  [h \in DOMAIN heads |->
            LET p == procs[heads[h]]
            IN  [id |-> p.gs, block |-> b, usage |-> p.usage, abi |-> p.abi, body |-> p.body,
                 receipts |-> {procs[i].gs : i \in {i \in DOMAIN procs :
                                                  Key(procs, procs[i]) = Key(procs, p)}}]]

-----------------------------------------------------------------------------
(* worker of main.rs: every present contract row that parses has a         *)
(* document, decoded or raw.                                               *)
DeltaRows(versions, b, rows) ==
    LET kept == SelectSeq(rows, LAMBDA r : r.table = "contract_row" /\ r.present /\ r.parses)
    IN  [i \in DOMAIN kept |-> [id |-> <<b, kept[i].key>>, block |-> b,
                                abi |-> Decoded(versions, b, kept[i].accepts)]]

-----------------------------------------------------------------------------
(* apply_handlers throws when a field its table's handler reads is not of  *)
(* the expected kind.                                                      *)
HandlerThrows(r) == r.table = "contract_row_kv" /\ ~(r.needs \subseteq r.has)

(* worker of wire.rs, one row: why it has no document, or "doc". *)
WireOutcome(catalog, b, r) ==
    IF r.table \notin {"contract_row_kv", "contract_index_kv"} THEN "other"
    ELSE IF ~r.present THEN "absent"
    ELSE IF ~r.parses THEN "bad_row"
    ELSE IF Select(catalog, b) = NoAbi THEN "no_abi"
    ELSE IF r.tables # 1 THEN "no_table"
    ELSE IF r.table = "contract_row_kv" /\ Select(catalog, b) \notin r.accepts THEN "decode"
    ELSE IF HandlerThrows(r) THEN "handler"
    ELSE "doc"

(* document_id: the identity of the row, the block, and the row's ordinal; *)
(* every row of every stream has one.                                      *)
DocumentId(b, rows, i) == <<rows[i].key, b, i - 1>>

WireRows(catalog, b, rows) ==
    LET docs == SelectSeq([i \in DOMAIN rows |-> i],
                    LAMBDA i : WireOutcome(catalog, b, rows[i]) = "doc")
    IN  [d \in DOMAIN docs |-> [id |-> DocumentId(b, rows, docs[d]), block |-> b,
                                abi |-> Select(catalog, b)]]

(* fail and the counters: the rows of a block without a document. *)
WireFailures(catalog, b, rows) ==
    {<<b, rows[i].key>> : i \in {i \in DOMAIN rows :
        WireOutcome(catalog, b, rows[i]) \notin {"doc", "other", "absent"}}}
=============================================================================
