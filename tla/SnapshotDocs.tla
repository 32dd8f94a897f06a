---------------------------- MODULE SnapshotDocs -----------------------------
(***************************************************************************)
(* What snapshot-load makes of a portable snapshot: the framing it walks,  *)
(* the rows it selects, the ABI it decodes them with and the document each *)
(* becomes.  A snapshot is                                                 *)
(*   [version, order, cut, rowsRead, accounts, tables, perms, links, codes] *)
(* where order is the sequence of its sections, cut the one the file ends  *)
(* inside ("" when it is whole) and rowsRead the rows a forward read gets  *)
(* before the end.  A collection is a pair <<code, table>>; the code of a  *)
(* collection with a fixed name is "".                                     *)
(***************************************************************************)
EXTENDS Integers, Sequences, FiniteSets, SequencesExt

(* parse_table_specs: the presets of --tables.  A word is the sequence of  *)
(* the names it separates by colons.                                       *)
LightapiTables ==
    {<<"voters">>, <<"accounts">>} \cup
    {<<"eosio", t>> : t \in {"global", "userres", "delband", "rexbal", "rexfund", "rexpool"}}
AtomicAssetsTables == {<<"atomicassets", t>> : t \in {"schemas", "collections", "templates", "assets", "offers", "config"}}
AtomicMarketTables ==
    {<<"atomicmarket", t>> : t \in {"sales", "auctions", "buyoffers", "tbuyoffers", "marketplaces", "config"}}

ParseTableSpecs(words) ==
    LET asks(preset) == \E w \in preset : <<w>> \in words
        light == asks({"lightapi"})
        aa == asks({"atomicassets", "atomic"})
        am == asks({"atomicmarket", "atomic"})
        presets == {<<"lightapi">>, <<"atomicassets">>, <<"atomicmarket">>, <<"atomic">>, <<"permissions">>}
    IN  [specs |-> (words \ presets) \cup (IF light THEN LightapiTables ELSE {})
                     \cup (IF aa THEN AtomicAssetsTables ELSE {}) \cup (IF am THEN AtomicMarketTables ELSE {}),
         perms |-> light \/ asks({"permissions"}), lightapi |-> light, atomic |-> aa \/ am]

(* build_targets: "*" stands for any name. *)
BuildTargets(specs) ==
    {CASE w \in {<<"*">>, <<"all">>} -> <<"*", "*", "*">>
       [] w = <<"voters">> -> <<"eosio", "eosio", "voters">>
       [] Len(w) = 1 /\ w \notin {<<"*">>, <<"all">>, <<"voters">>} -> <<"*", "*", w[1]>>
       [] Len(w) = 2 -> <<w[1], "*", w[2]>>
       [] Len(w) = 3 -> w : w \in specs}

(* Targets::selected *)
Selected(filters, r) ==
    \E f \in filters : f[1] \in {"*", r.code} /\ f[2] \in {"*", r.scope} /\ f[3] \in {"*", r.table}

(* enumerate_sections: every section up to the end of the file, which must *)
(* hold all of the last one.                                               *)
SectionsFit(snap) == snap.cut = ""
Has(snap, section) == section \in ToSet(snap.order)
Place(snap, section) == CHOOSE i \in DOMAIN snap.order : snap.order[i] = section
Before(snap, s, t) == Has(snap, s) /\ Has(snap, t) /\ Place(snap, s) < Place(snap, t)

(* The one section a forward read stops at: the stream reaches it when the *)
(* file does not end in an earlier one.                                    *)
Reaches(snap, section) ==
    Has(snap, section) /\ (snap.cut = "" \/ ~Before(snap, snap.cut, section))

-----------------------------------------------------------------------------
(* load_abis: accounts without an ABI are skipped. *)
LoadAbis(snap) == {a \in snap.accounts : a.tables # {}}

(* AbiRegistry::handle: an ABI that does not parse is cached as none. *)
Handle(abis, code) == {a \in abis : a.name = code /\ a.parses}

Decode(abis, r) ==
    IF Handle(abis, r.code) = {} THEN "no abi"
    ELSE IF \A a \in Handle(abis, r.code) : r.table \notin a.tables THEN "no table"
    ELSE IF r.good THEN "ok" ELSE "error"

(* transfer_fields_match: the first four fields, in their places; the old  *)
(* alias of name is accepted for the accounts.                             *)
TransferFieldsMatch(fields) ==
    /\ Len(fields) >= 4
    /\ fields[1] \in {<<"from", "name">>, <<"from", "account_name">>}
    /\ fields[2] \in {<<"to", "name">>, <<"to", "account_name">>}
    /\ fields[3] = <<"quantity", "asset">> /\ fields[4] = <<"memo", "string">>

(* compute_token_eligibility *)
IsTokenContract(abis, code) ==
    \E a \in Handle(abis, code) : {"accounts", "stat"} \subseteq a.tables /\ TransferFieldsMatch(a.transfer)

-----------------------------------------------------------------------------
(* The rows of a table, with the names its header gives them. *)
RowsOf(t) ==
    [j \in DOMAIN t.rows |->
        [code |-> t.code, scope |-> t.scope, table |-> t.table, pk |-> t.rows[j].pk, good |-> t.rows[j].good,
         of |-> t.rows[j].of, ref |-> t.rows[j].ref, flag |-> t.rows[j].flag]]

(* walk_v6: the tables in order; rows of a selected one are emitted. *)
WalkV6(snap, filters) ==
    FlattenSeq([i \in DOMAIN snap.tables |->
        IF Selected(filters, snap.tables[i]) THEN RowsOf(snap.tables[i]) ELSE <<>>])

(* load_table_ids_v8: the ordinals, from 0, of the selected tables. *)
LoadTableIds(snap, filters) ==
    {i \in 0 .. Len(snap.tables) - 1 : Selected(filters, snap.tables[i + 1])}

(* walk_v8: the rows come in groups by ordinal, one for each table that    *)
(* has any.                                                                *)
Groups(snap) ==
    LET Filled(i) == snap.tables[i + 1].rows # <<>>
    IN  SelectSeq([i \in DOMAIN snap.tables |-> i - 1], Filled)
WalkV8(snap, filters) ==
    FlattenSeq([g \in DOMAIN Groups(snap) |->
        IF Groups(snap)[g] \in LoadTableIds(snap, filters) THEN RowsOf(snap.tables[Groups(snap)[g] + 1]) ELSE <<>>])

RowSections(snap) == IF snap.version < 7 THEN {"rows"} ELSE {"ids", "rows"}

Walk(snap, filters) == IF snap.version < 7 THEN WalkV6(snap, filters) ELSE WalkV8(snap, filters)

(* Both walkers stop sending once the limit is reached, and look at it     *)
(* after a row is sent.                                                    *)
UpToLimit(rows, limit) ==
    LET most == IF limit < 1 THEN 1 ELSE limit
    IN  IF Len(rows) > most THEN SubSeq(rows, 1, most) ELSE rows

-----------------------------------------------------------------------------
(* build_schema_registry: a pass of its own over the schemas and config of *)
(* atomicassets, so that an asset may precede its schema.                  *)
AtomicFilters == {<<"atomicassets", "*", t>> : t \in {"schemas", "config", "tokenconfigs"}}
NoRegistry == [fails |-> FALSE, schemas |-> {}, format |-> FALSE, version |-> FALSE]

BuildSchemaRegistry(snap) ==
    LET abis == LoadAbis(snap)
        rows == {r \in ToSet(Walk(snap, AtomicFilters)) : Decode(abis, r) = "ok"}
    IN  IF \A a \in abis : a.name # "atomicassets" THEN NoRegistry
        ELSE [fails |-> Handle(abis, "atomicassets") = {} \/ \E x \in RowSections(snap) : ~Has(snap, x),
              schemas |-> {<<r.scope, r.ref>> : r \in {x \in rows : x.table = "schemas"}},
              format |-> \E r \in rows : r.table = "config",
              version |-> \E r \in rows : r.table = "tokenconfigs"]

-----------------------------------------------------------------------------
Fixed(name) == <<"", name>>

(* map_row's routes, and dynamic_collection. *)
Collection(r) ==
    IF r.code = "eosio" /\ r.table = "voters" THEN Fixed("voters")
    ELSE IF r.table = "accounts" THEN Fixed("accounts")
    ELSE IF r.code = "eosio.msig" /\ r.table \in {"proposal", "approvals2"} THEN Fixed("proposals")
    ELSE <<r.code, r.table>>

(* is_named_collection *)
IsNamed(coll) == coll[1] \in {"", "atomicassets", "atomicmarket"}

(* decode_blob: a blob decodes against the format its row names, and is    *)
(* empty without one.                                                      *)
DecodeBlob(known) == IF known THEN <<"data">> ELSE <<"empty">>

(* map_template, map_asset: the schema of the collection the row names. *)
TemplateData(reg, r) == DecodeBlob(<<r.of, r.ref>> \in reg.schemas)
AssetData(reg, r) == DecodeBlob(<<r.of, r.ref>> \in reg.schemas)
(* map_collection: the format of the contract's config. *)
CollectionData(reg) == DecodeBlob(reg.format)
(* map_config: the version is of another table. *)
ConfigData(reg) == IF reg.version THEN <<"version">> ELSE <<"row">>

AtomicData(reg, r) ==
    CASE r.table = "templates" -> TemplateData(reg, r)
      [] r.table = "assets" -> AssetData(reg, r)
      [] r.table = "collections" -> CollectionData(reg)
      [] r.table = "config" -> ConfigData(reg)
      [] OTHER -> <<"row">>

(* map_sale and map_auction: listed once the offer exists, or the assets   *)
(* are in.                                                                 *)
MarketData(r) ==
    IF r.table \in {"sales", "auctions"} THEN (IF r.flag THEN <<"listed">> ELSE <<"waiting">>) ELSE <<"row">>

(* map_voter, map_proposal, map_approvals2, map_userres, map_dynamic. *)
Data(reg, r) ==
    CASE r.code = "atomicassets" /\ Collection(r) # Fixed("accounts") -> AtomicData(reg, r)
      [] r.code = "atomicmarket" /\ Collection(r) # Fixed("accounts") -> MarketData(r)
      [] Collection(r) = Fixed("proposals") -> <<r.table>>
      [] OTHER -> <<"row">>

Key(r) == IF Collection(r) = Fixed("proposals") THEN <<r.scope, r.ref>> ELSE <<r.scope, r.pk>>
Doc(coll, key, data) == [coll |-> coll, key |-> key, data |-> data]

(* map_row: a row of accounts has a document when its contract is a token  *)
(* and its balance parses.                                                 *)
MapRow(abis, reg, r) ==
    IF r.table = "accounts" /\ ~(IsTokenContract(abis, r.code) /\ r.flag) THEN {}
    ELSE {Doc(Collection(r), Key(r), Data(reg, r))}

(* The worker: what a row becomes for a typed sink, and for NDJSON, where  *)
(* a row without a document has a generic line and approvals have none.    *)
Mapped(abis, reg, r) == IF Decode(abis, r) = "ok" THEN MapRow(abis, reg, r) ELSE {}
FormatLine(abis, r) ==
    Doc(<<r.code, r.table>>, <<r.scope, r.pk>>, IF Decode(abis, r) = "ok" THEN <<"decoded">> ELSE <<"hex">>)
Line(abis, reg, r) ==
    IF Mapped(abis, reg, r) = {} THEN {FormatLine(abis, r)}
    ELSE {d \in Mapped(abis, reg, r) : d.data # <<"approvals2">>}

-----------------------------------------------------------------------------
(* decode_permissions_bufs, decode_permissions_mongo: the links of an      *)
(* account's permission are gathered first; the sentinel has no owner.     *)
LinksOf(snap, p) == {l \in snap.links : l.account = p.owner /\ l.perm = p.name}
AuthDecodes(abis, p) == Handle(abis, "eosio") # {} /\ p.good

PermissionDoc(snap, abis, p) ==
    Doc(Fixed("permissions"), <<p.owner, p.name>>,
        <<IF AuthDecodes(abis, p) THEN "auth" ELSE "hex", {<<l.code, l.action>> : l \in LinksOf(snap, p)}>>)

(* The reverse index: one document per key, before the permission's own. *)
PubKeyDocs(abis, p) ==
    IF AuthDecodes(abis, p)
    THEN [i \in DOMAIN p.keys |-> Doc(Fixed("pub_keys"), <<p.owner, p.name>>, <<p.keys[i]>>)]
    ELSE <<>>

Permissions(snap, limit) ==
    LET Real(p) == p.owner # "" IN UpToLimit(SelectSeq(snap.perms, Real), limit)

(* load_codehashes *)
CodeHashDocs(snap) == [i \in DOMAIN snap.codes |-> Doc(Fixed("account_codehash"), <<snap.codes[i], "">>, <<"hash">>)]
=============================================================================
