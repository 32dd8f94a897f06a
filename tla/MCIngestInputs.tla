-------------------------- MODULE MCIngestInputs ----------------------------
(* What the bulk tools are given in MCIngest. *)
EXTENDS SnapshotDocs

CONSTANTS NoAbi, NoRev, NoSet, NoReceipt, NoDoc

-----------------------------------------------------------------------------
(* Logs of three Wire blocks, whole, damaged and forked. *)
Receipt(a, seq, rev) == [account |-> a, seq |-> seq, rev |-> rev, sets |-> NoSet]
SetAbi(seq, rev, a, v) == [account |-> "sysio", seq |-> seq, rev |-> rev, sets |-> <<a, v>>]
AccountRow(a, v) == [account |-> a, present |-> TRUE, abi |-> v]

MCChain ==
    <<[id |-> "b1", tid |-> "b1", rows |-> <<AccountRow("sysio", "n0")>>, acts |-> <<>>],
      [id |-> "b2", tid |-> "b2", rows |-> <<AccountRow("a", "v1"), AccountRow("b", NoAbi)>>,
       acts |-> <<Receipt("sysio", 1, 0), Receipt("a", 4, 1), SetAbi(2, 0, "a", "v1"), Receipt("sysio", 3, NoRev)>>],
      [id |-> "b3", tid |-> "b3", rows |-> <<AccountRow("sysio", "n0"), AccountRow("a", "v3"), [AccountRow("b", NoAbi) EXCEPT !.present = FALSE]>>,
       acts |-> <<SetAbi(5, 0, "a", "v2"), SetAbi(6, 0, "a", "v3"), SetAbi(7, 0, "sysio", "n0"), Receipt("sysio", 8, 1), Receipt("a", 9, 3)>>]>>

MCTruth == [a |-> <<NoAbi, "v1", "v3">>, b |-> <<NoAbi, NoAbi, NoAbi>>, sysio |-> <<"n0", "n0", "n0">>]

Damaged(b) ==
    {[MCChain EXCEPT ![b].rows = RemoveAt(@, i)] : i \in DOMAIN MCChain[b].rows}
    \cup {[MCChain EXCEPT ![b].rows[i].abi = "v9"] : i \in {i \in DOMAIN MCChain[b].rows : MCChain[b].rows[i].present}}
    \cup {[MCChain EXCEPT ![b].rows = Append(@, MCChain[b].rows[1])]}
    \cup {[MCChain EXCEPT ![b].acts = RemoveAt(@, i)] : i \in DOMAIN MCChain[b].acts}
    \cup {[MCChain EXCEPT ![b].tid = "c"], [MCChain EXCEPT ![b].acts[1].seq = 3], [MCChain EXCEPT ![b].acts[2].seq = 1]}

(* A fork that gives "a" another ABI in the last block. *)
MCFork == [MCChain EXCEPT ![3] = [MCChain[3] EXCEPT !.id = "c3", !.tid = "c3", !.rows[2].abi = "w3", !.acts[2].sets[2] = "w3"]]

MCSources == {MCChain, MCFork} \cup Damaged(2) \cup Damaged(3)
MCEndOf == [r1 |-> 3, r2 |-> 2]
MCEndId == [r1 |-> "b3", r2 |-> "b2"]

-----------------------------------------------------------------------------
(* Logs and ABI files of three blocks for the indexers. *)
Act(ord, creator, digest, gs, accepts, name, data) ==
    [ord |-> ord, creator |-> creator, digest |-> digest, gs |-> gs, except |-> FALSE,
     accepts |-> accepts, name |-> name, data |-> data]
Pay == {"from", "to", "quantity", "memo"}

MCTraces ==
    <<<<<<Act(1, 0, "x", 11, {"v1"}, "transfer", Pay), Act(2, 1, "x", 12, {"v1"}, "transfer", Pay),
          Act(3, 0, "x", 13, {"v1"}, "transfer", Pay)>>>>,
      <<<<Act(1, 0, "y", 21, {"v1"}, "newaccount", {"creator", "name", "owner", "active"}),
          [Act(2, 1, "z", 22, {"v2"}, "buyram", {"payer", "receiver", "quant"}) EXCEPT !.except = TRUE]>>,
        <<Act(1, 0, "z", NoReceipt, {"v2"}, "buyram", {}),
          Act(2, 1, "w", 23, {"v3"}, "buyram", {"payer", "receiver", "quant"})>>>>,
      <<<<Act(1, 0, "u", 31, {"v2"}, "vote", {"voter"})>>>>>>

Row(key, table, present, parses, accepts) ==
    [key |-> key, table |-> table, present |-> present, parses |-> parses, accepts |-> accepts,
     tables |-> 1, needs |-> {}, has |-> {}]
MCDeltas ==
    <<<<Row("a", "contract_row", TRUE, TRUE, {"v1"}), Row("b", "account", TRUE, TRUE, {})>>,
      <<Row("a", "contract_row", TRUE, TRUE, {"v1"}), Row("b", "contract_row", FALSE, TRUE, {"v3"}),
        Row("c", "contract_row", TRUE, FALSE, {"v3"})>>,
      <<Row("a", "contract_row", TRUE, TRUE, {"v2"})>>>>
MCKvRows ==
    <<<<Row("a", "account", TRUE, TRUE, {}), Row("b", "contract_row_kv", TRUE, TRUE, {"v1"}),
        Row("c", "contract_row_kv", FALSE, TRUE, {"v1"})>>,
      <<Row("a", "contract_row_kv", TRUE, TRUE, {"v3"}), [Row("b", "contract_index_kv", TRUE, TRUE, {}) EXCEPT !.tables = 2],
        [Row("c", "contract_row_kv", TRUE, TRUE, {"v3"}) EXCEPT !.needs = {"producers"}]>>,
      <<Row("a", "contract_row_kv", TRUE, TRUE, {"v1"}), Row("b", "contract_index_kv", TRUE, TRUE, {}),
        Row("c", "contract_row_kv", TRUE, FALSE, {"v3"})>>>>

AbiLine(b, phase, abi) == [block |-> b, phase |-> phase, abi |-> abi]
Scanned == {<<AbiLine(1, "", "v1"), AbiLine(2, "", "v2"), AbiLine(2, "", "v3")>>,
            <<AbiLine(2, "", "v2"), AbiLine(1, "", "v1"), AbiLine(2, "", "v3")>>}
History == {<<AbiLine(1, "execution", "v1"), AbiLine(1, "block-final", "v1"), AbiLine(2, "execution", "v2"),
              AbiLine(2, "execution", "v3"), AbiLine(2, "block-final", "v3")>>}
Cleared == {Append(h, AbiLine(3, "block-final", NoAbi)) : h \in History}
MCAbiLines == [action |-> Scanned, delta |-> Scanned, wire |-> History \cup Cleared, load |-> {<<>>}]

MCCapacity == [action |-> 9, delta |-> 9, wire |-> 1, load |-> 9]
MCLoadLines == <<[id |-> 1, block |-> 1], NoDoc, [id |-> 2, block |-> 2], [id |-> 3, block |-> 3]>>

-----------------------------------------------------------------------------
(* Snapshots and what snapshot-load is asked to do with them. *)
R(pk, good, of, ref, flag) == [pk |-> pk, good |-> good, of |-> of, ref |-> ref, flag |-> flag]
T(code, scope, table, rows) == [code |-> code, scope |-> scope, table |-> table, rows |-> rows]
Abi(name, tables) == [name |-> name, tables |-> tables, parses |-> TRUE,
     transfer |-> IF name = "tok" THEN <<<<"from", "account_name">>, <<"to", "name">>, <<"quantity", "asset">>, <<"memo", "string">>, <<"x", "name">>>>
                  ELSE <<<<"from", "name">>, <<"to", "name">>, <<"asset_id", "uint64">>, <<"memo", "string">>>>]
Perm(owner, name, keys) == [owner |-> owner, name |-> name, keys |-> keys, good |-> TRUE, framed |-> TRUE]

Order6 == <<"header", "accounts", "codes", "rows", "perms", "links">>
Order8 == <<"header", "accounts", "codes", "ids", "rows", "perms", "links">>
Snap(version, tables) ==
    [version |-> version, order |-> IF version < 7 THEN Order6 ELSE Order8, cut |-> "", rowsRead |-> 1,
     accounts |-> {Abi("eosio", {"voters"}), Abi("eosio.msig", {"proposal", "approvals2"}), Abi("tok", {"accounts", "stat"}),
                   Abi("c", {"t"}), Abi("atomicassets", {"schemas", "assets", "config"}), Abi("atomicmarket", {"sales"}),
                   [Abi("odd", {"accounts"}) EXCEPT !.parses = FALSE], Abi("none", {})},
     tables |-> tables, perms |-> <<>>, links |-> {}, codes |-> <<>>]

One(pk) == <<R(pk, TRUE, "", "", TRUE)>>
(* Three rows of one collection, and a proposal after its approvals. *)
Plain == <<T("c", "s1", "t", One(1)), T("c", "s2", "t", <<R(1, TRUE, "", "", TRUE), R(2, TRUE, "", "", TRUE)>>)>>
Voting ==
    <<T("eosio.msig", "bob", "approvals2", <<R(1, TRUE, "", "p1", TRUE), R(3, TRUE, "", "p3", TRUE)>>), T("eosio", "eosio", "voters", One(7)),
      T("eosio.msig", "bob", "proposal", <<R(1, TRUE, "", "p1", TRUE), R(2, TRUE, "", "p2", TRUE)>>)>>
(* Rows that do not decode or have no document. *)
Mixed ==
    <<T("tok", "a", "accounts", <<R(1, TRUE, "", "", TRUE), R(2, TRUE, "", "", FALSE)>>), T("odd", "a", "accounts", One(1)),
      T("c", "s", "t", <<R(1, FALSE, "", "", TRUE)>>), T("c", "s", "u", One(1))>>
(* An asset before its schema, and one without. *)
Nfts ==
    <<T("atomicassets", "alice", "assets", <<R(1, TRUE, "col", "sch", TRUE), R(2, TRUE, "col", "gone", TRUE)>>),
      T("atomicassets", "col", "schemas", <<R(1, TRUE, "", "sch", TRUE)>>), T("atomicmarket", "m", "sales", <<R(1, TRUE, "", "", FALSE)>>)>>

WithPerms(snap) ==
    [snap EXCEPT !.perms = <<Perm("", "", <<>>), Perm("a", "active", <<"k1", "k2">>), Perm("b", "owner", <<>>)>>,
                 !.links = {[account |-> "a", perm |-> "active", code |-> "c", action |-> "x"]},
                 !.codes = <<"c">>]

Old(coll) == Doc(coll, <<"s0", 0>>, <<"old">>)
(* --tables; Cut and Dropping change one thing about a job. *)
Words(ws) == {<<w>> : w \in ws}
Some == Words({"t", "u", "voters", "accounts"}) \cup {<<"eosio.msig", "proposal">>, <<"eosio.msig", "bob", "approvals2">>}
Tables(j, words) ==
    LET p == ParseTableSpecs(words)
    IN  [j EXCEPT !.filters = BuildTargets(p.specs), !.perms = p.perms, !.lightapi = p.lightapi, !.atomic = p.atomic]
Job(path, sink, snap) ==
    Tables([path |-> path, sink |-> sink, drop |-> FALSE, tee |-> FALSE, limit |-> 1000, filters |-> {}, perms |-> FALSE,
            lightapi |-> FALSE, atomic |-> FALSE, zst |-> FALSE, snap |-> snap, stored |-> {}], Some)
Dropping(j, colls) == [j EXCEPT !.drop = TRUE, !.stored = {Old(c) : c \in colls}]
Cut(snap, at) == [snap EXCEPT !.cut = at]

Nothing == Tables(Job("seek", "lines", Snap(6, <<>>)), {})

MCJobs ==
    {Dropping(Job("seek", "mongo", Snap(6, Plain)), {<<"c", "t">>}),
     Dropping(Job("seek", "mongo", Snap(8, Voting)), {Fixed("proposals"), Fixed("voters")}),
     Dropping(Tables(Job("seek", "mongo", Snap(8, Nfts)), Words({"atomic"})), {<<"atomicassets", "assets">>}),
     Dropping(Tables(Job("seek", "mongo", WithPerms(Snap(6, <<T("c", "s1", "t", One(1))>>))), Words({"lightapi", "t"})),
              {Fixed("permissions"), <<"c", "t">>}),
     [Tables(Job("stream", "mongo", Snap(8, Mixed)), Words({"*"})) EXCEPT !.tee = TRUE],
     [Job("seek", "lines", Snap(6, Mixed)) EXCEPT !.zst = TRUE],
     Tables(Job("seek", "lines", Snap(6, Nfts)), Words({"atomicassets"})),
     Tables(Job("seek", "segment", Snap(6, Nfts)), Words({"atomicmarket", "atomicassets"})),
     [Job("stream", "lines", Cut(Snap(6, Plain), "rows")) EXCEPT !.tee = TRUE],
     [Job("stream", "lines", Cut(Snap(6, Plain), "links")) EXCEPT !.tee = TRUE],
     Job("stream", "lines", Cut(Snap(6, Voting), "links")), Job("seek", "lines", Cut(Snap(6, Plain), "links")),
     [Job("seek", "lines", Snap(8, Plain)) EXCEPT !.limit = 2],
     [Job("stream", "lines", [Snap(8, Plain) EXCEPT !.order = <<"header", "rows", "ids", "accounts">>]) EXCEPT !.limit = 2],
     Tables(Job("seek", "segment", WithPerms(Snap(6, Mixed))), Words({"lightapi"})),
     Tables(Job("seek", "segment", [WithPerms(Snap(6, Plain)) EXCEPT !.perms[3].framed = FALSE]), Words({"permissions", "t"})),
     Tables(Job("seek", "lines", WithPerms(Snap(6, Plain))), Words({"permissions"})),
     [Tables(Job("stream", "lines", WithPerms(Snap(6, Plain))), Words({"permissions"})) EXCEPT !.tee = TRUE],
     Tables(Job("stream", "mongo", WithPerms(Snap(6, Plain))), Words({"permissions"})),
     Tables(Job("seek", "mongo", WithPerms(Snap(6, Plain))), Words({"permissions"})),
     Tables(Job("seek", "segment", Snap(6, Plain)), {}), Nothing,
     Tables(Job("seek", "mongo", [Snap(6, Nfts) EXCEPT !.accounts = {[Abi("atomicassets", {"assets"}) EXCEPT !.parses = FALSE]}]), Words({"atomic"})),
     [Job("seek", "segment", [Snap(8, Plain) EXCEPT !.order = <<"header", "accounts", "rows">>]) EXCEPT !.limit = 1],
     Tables(Job("seek", "lines", Snap(7, Plain)), Words({"lightapi"}))}
=============================================================================
