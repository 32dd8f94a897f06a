----------------------------- MODULE RepairJobs ------------------------------
(* The inputs of LogRepair: logs of five blocks in the styles a node may   *)
(* have written, the ways they are damaged, and the sources there are.     *)
EXTENDS RepairFormat

Id(n) == <<n, "a">>
Fork(n, from) == IF n >= from THEN <<n, "b">> ELSE Id(n)

(* Block n of a branch that leaves at `from`; txs as `txs` says. *)
BlockBody(n, from, txs) ==
    <<[is |-> "header", prev |-> Fork(n - 1, from), id |-> Fork(n, from)],
      [is |-> "txs", of |-> Fork(n, from), txs |-> txs]>>
HistoryBody(id, payload, style) ==
    LET stream == Compressed(payload, Stream(payload, style[1]), style[2])
    IN  <<[is |-> "head", id |-> id, size |-> Len(stream)]>> \o stream

File(path, kind, cells, idx, bad) ==
    [path |-> path, kind |-> kind, cells |-> cells, idx |-> idx, bad |-> bad]
PreambleOf(version, first, chain) ==
    [is |-> "preamble", version |-> version, first |-> first, totem |-> TRUE,
     genesis |-> chain, chain |-> chain]

(* The block log a..b of a branch, txs of some blocks altered. *)
BlockFile(path, a, b, from, altered, version, bad) ==
    LET laid == LaidOut([i \in 1 .. b - a + 1 |->
                    BlockBody(a + i - 1, from, IF a + i - 1 \in altered THEN "altered" ELSE "txs")], 1)
    IN  File(path, "blocks", <<PreambleOf(version, a, "chain")>> \o laid.cells, laid.idx, bad)

(* How a node encoded block n: as it always did, or upgraded after block 3. *)
Style(style, n) ==
    CASE style = "old" -> <<"stored", 2>>
      [] style = "upgraded" -> IF n > 3 THEN <<"best", 1>> ELSE <<"default", 1>>
      [] style = "moved" -> IF n > 3 THEN <<"stored", 1>> ELSE <<"stored", 2>>
      [] OTHER -> <<style, 1>>

(* The history of blocks a..b, each with its style, and after block        *)
(* `orphaned` the entry of a branch that was dropped.                      *)
HistoryFile(path, kind, a, b, style, from, altered, orphaned, bad) ==
    LET numbers == FlattenSeq([i \in 1 .. b - a + 1 |->
                       IF a + i - 1 = orphaned THEN <<a + i - 1, 0>> ELSE <<a + i - 1>>])
        payload(n) == IF n \in altered THEN <<n, "altered", "plain">>
                      ELSE IF n = a /\ kind = "chain_state" THEN <<n, "a", "huge">>
                      ELSE PayloadOf(Fork(n, from))
        entry(n) == IF n = 0 THEN HistoryBody(<<orphaned + 1, "x">>, <<orphaned + 1, "x", "plain">>, Style(style, orphaned))
                    ELSE HistoryBody(Fork(n, from), payload(n), Style(style, n))
        laid == LaidOut([i \in DOMAIN numbers |-> entry(numbers[i])], 0)
        canonical == SelectSeq([i \in DOMAIN numbers |-> <<numbers[i], laid.idx[i]>>], LAMBDA p : p[1] # 0)
    IN  File(path, kind, laid.cells, [i \in DOMAIN canonical |-> canonical[i][2]], bad)

-----------------------------------------------------------------------------
Target(kind, style, orphaned, bad) ==
    IF kind = "blocks" THEN BlockFile("log", 1, 5, 9, {}, 3, bad)
    ELSE HistoryFile("log", kind, 1, 5, style, 9, {}, orphaned, bad)
Styles == {<<"default", 0>>, <<"default", 2>>, <<"default", 3>>, <<"stored", 3>>, <<"best", 0>>, <<"old", 0>>,
           <<"upgraded", 0>>, <<"moved", 2>>}

Damage(records) ==
    {{r} : r \in records} \cup {{r, s} : r, s \in records}
      \cup {{r, r + 1, r + 2} : r \in {r \in records : r + 2 \in records}}
Choice(choice, bad) ==
    CASE choice = 1 -> [is |-> "whole"]
      [] choice = 2 -> [is |-> "blocks", from |-> 2, to |-> 3]
      [] choice = 3 -> [is |-> "blocks", from |-> 3, to |-> 3]
      [] choice = 4 -> [is |-> "records", ranges |-> {<<r, r>> : r \in bad}]
      [] choice = 5 -> [is |-> "records", ranges |-> {<<r, r + 1>> : r \in bad}]

-----------------------------------------------------------------------------
Box(a, b, from, altered) ==
    [n \in a .. b |-> BlockBody(n, from, IF n \in altered THEN "altered" ELSE "txs")]
From(blocks, blockLogs, donors) == [blocks |-> blocks, blockLogs |-> blockLogs, donors |-> donors]
Good == BlockFile("good", 1, 5, 9, {}, 3, {})
Branch == BlockFile("branch", 1, 5, 3, {}, 3, {})

BlockSources ==
    <<From(<<Box(1, 3, 9, {}), Box(3, 5, 9, {})>>, <<>>, <<>>), From(<<>>, <<Good>>, <<>>),
      From(<<Box(2, 4, 9, {3})>>, <<Good>>, <<>>), From(<<Box(1, 3, 9, {3}), Box(3, 5, 9, {})>>, <<>>, <<>>),
      From(<<>>, <<BlockFile("altered", 1, 5, 9, {3}, 3, {})>>, <<>>), From(<<>>, <<Branch>>, <<>>),
      From(<<Box(1, 3, 3, {}), Box(4, 5, 9, {})>>, <<>>, <<>>),
      From(<<>>, <<BlockFile("log", 1, 5, 9, {}, 3, {})>>, <<>>),
      From(<<>>, <<BlockFile("good", 1, 5, 9, {}, 3, {4})>>, <<>>), From(<<>>, <<>>, <<>>)>>

Donor(path, a, b, style, from, altered) == HistoryFile(path, "trace", a, b, style, from, altered, 0, {})
HistorySources ==
    <<From(<<>>, <<Good>>, <<Donor("d", 1, 5, "default", 9, {})>>),
      From(<<>>, <<Good>>, <<Donor("d", 1, 5, "old", 9, {})>>),
      From(<<>>, <<Good>>, <<Donor("d", 1, 5, "best", 9, {3})>>),
      From(<<>>, <<Good>>, <<Donor("d", 1, 5, "default", 3, {})>>),
      From(<<>>, <<Good>>, <<Donor("log", 1, 5, "default", 9, {})>>),
      From(<<>>, <<Good>>, <<Donor("e", 2, 4, "default", 9, {}), Donor("d", 1, 5, "best", 9, {})>>),
      From(<<>>, <<Good>>, <<>>), From(<<>>, <<Branch>>, <<Donor("d", 1, 5, "default", 3, {})>>),
      From(<<Box(1, 3, 9, {}), Box(3, 5, 9, {})>>, <<>>, <<Donor("d", 1, 5, "stored", 9, {})>>)>>

BuildNames ==
    [kind : {"blocks"}, style : {<<"default", 0>>}, bad : Damage(1 .. 7), choice : 1 .. 5, sources : 1 .. 10,
     maxFailed : {9}]
      \cup [kind : {"blocks"}, style : {<<"default", 0>>}, bad : {{r, r + 1} : r \in 1 .. 5}, choice : 1 .. 2,
            sources : {2}, maxFailed : {1, 3}]
      \cup [kind : {"trace"}, style : Styles, bad : Damage(2 .. 7), choice : {1}, sources : 1 .. 9, maxFailed : {9}]
      \cup [kind : {"trace"}, style : {<<"default", 2>>, <<"stored", 3>>}, bad : Damage(2 .. 7), choice : 2 .. 5,
            sources : {2, 9}, maxFailed : {9}]
Build(j) ==
    [command |-> "prepare", file |-> Target(j.kind, j.style[1], j.style[2], j.bad),
     select |-> Choice(j.choice, j.bad), maxFailed |-> j.maxFailed, from |-> "build",
     sources |-> IF j.kind = "blocks" THEN BlockSources[j.sources] ELSE HistorySources[j.sources]]

-----------------------------------------------------------------------------
(* An endpoint that holds blocks 1..to of a branch, some of them altered. *)
Endpoint(to, from, altered, lib, more) ==
    [abi |-> more # "abi",
     results |-> [i \in 1 .. to |->
        [num |-> i, id |-> IF more = "ids" THEN Fork(i, 1) ELSE Fork(i, from), prev |-> Fork(i - 1, from),
         lib |-> lib, head |-> 5,
         block |-> BlockBody(i, from, IF i \in altered THEN "altered" ELSE "txs"),
         payload |-> IF more = "blocks only" THEN None
                     ELSE IF i \in altered THEN <<i, "altered", "plain">> ELSE PayloadOf(Fork(i, from))]]]
Honest == Endpoint(5, 9, {}, 5, "")
Altered == Endpoint(5, 9, {3}, 5, "")
EndpointLists ==
    <<<<Honest>>, <<Altered>>, <<Honest, Honest>>, <<Honest, Altered>>, <<Altered, Honest>>,
      <<Endpoint(5, 3, {}, 5, "")>>, <<Endpoint(3, 9, {}, 5, "")>>, <<Endpoint(5, 9, {}, 3, "")>>,
      <<Endpoint(5, 9, {}, 5, "ids")>>, <<Endpoint(5, 9, {}, 5, "abi")>>, <<Endpoint(5, 9, {}, 5, "blocks only")>>>>
FetchNames ==
    [kind : {"blocks"}, style : {<<"default", 0>>}, bad : Damage(2 .. 6), endpoints : 1 .. 11]
      \cup [kind : {"trace"}, style : Styles, bad : {{r, s} : r, s \in 3 .. 6}, endpoints : 1 .. 11]
Fetch(j) ==
    [command |-> "prepare", file |-> Target(j.kind, j.style[1], j.style[2], j.bad), select |-> [is |-> "whole"],
     maxFailed |-> 9, from |-> "fetch", endpoints |-> EndpointLists[j.endpoints]]

BlockFiles ==
    LET begin == BlockFile("begin", 1, 3, 9, {}, 3, {})
        end == BlockFile("end", 3, 5, 9, {}, 3, {})
        other == [end EXCEPT !.cells[1] = PreambleOf(3, 3, "other")]
    IN  <<<<Good>>, <<end, begin>>, <<begin, other>>, <<begin>>, <<BlockFile("late", 2, 5, 9, {}, 3, {})>>,
          <<BlockFile("v1", 1, 5, 9, {}, 1, {})>>, <<BlockFile("v2", 2, 5, 9, {}, 2, {})>>,
          <<Branch>>, <<[Good EXCEPT !.bad = {3}]>>, <<>>>>
ReplayNames ==
    [style : {<<"default", 3>>, <<"best", 0>>, <<"upgraded", 0>>, <<"moved", 0>>}, bad : {{4}, {5}, {6}, {4, 5}, {5, 6}},
     blocks : 1 .. 10, snapshot : 0 .. 2, codec : {"default", "best"}, short : {0}]
      \cup [style : {<<"default", 3>>}, bad : {{5}, {6}}, blocks : {1}, snapshot : {1}, codec : {"default"}, short : {1}]
Replay(j) ==
    [command |-> "prepare", file |-> Target("chain_state", j.style[1], j.style[2], j.bad),
     select |-> [is |-> "whole"], maxFailed |-> 9, from |-> "replay",
     blockFiles |-> BlockFiles[j.blocks], snapshot |-> j.snapshot, 
     node |-> [codec |-> j.codec, marker |-> 1, short |-> j.short]]

-----------------------------------------------------------------------------
(* A log with a cell, a slot of the index or a record changed. *)
Changed(f, what, at, to) ==
    LET i == Min({at, Len(f.cells)})
        c == f.cells[i]
    IN  CASE what = "slot" -> [f EXCEPT !.idx[at] = to]
          [] what = "record" -> [f EXCEPT !.bad = {at}]
          [] what = "cell" /\ c.is = "head" /\ to = 1 -> [f EXCEPT !.cells[i].size = @ + 1]
          [] what = "cell" /\ c.is \in {"head", "header"} /\ to = 2 -> [f EXCEPT !.cells[i].id = <<c.id[1], "b">>]
          [] what = "cell" /\ c.is = "head" /\ to = 3 -> [f EXCEPT !.cells[i].id = <<c.id[1] + 1, "a">>]
          [] what = "cell" /\ c.is = "header" /\ to = 3 ->
                [f EXCEPT !.cells[i].prev = <<c.prev[1], "b">>, !.cells[i].id = <<c.id[1], "b">>]
          [] what = "cell" /\ c.is = "header" /\ to = 1 ->
                [f EXCEPT !.cells[i].prev = <<c.prev[1] + 1, "a">>, !.cells[i].id = <<c.id[1] + 1, "b">>]
          [] what = "cell" /\ c.is = "trail" -> [f EXCEPT !.cells[i].pos = @ + to]
          [] what = "cell" /\ c.is = "txs" -> [f EXCEPT !.cells[i].txs = "altered"]
          [] what = "cell" /\ (c.is \in {"body", "preamble"} \/ to = 0) -> [f EXCEPT !.cells[i] = [is |-> "junk"]]
          [] OTHER -> f
Against ==
    <<<<>>, <<Good>>, <<BlockFile("part", 2, 3, 9, {}, 3, {3})>>>>
VerifyNames ==
    [log : {<<"blocks", "default", 0>>}, what : {"cell"} \X {5, 8} \X {0}, range : {<<1, 9>>}, against : {1}, max : {1}]
      \cup
    [log : {<<"blocks", "default", 0>>, <<"chain_state", "stored", 3>>, <<"trace", "default", 2>>},
     what : {<<"none", 1, 0>>} \cup ({"cell"} \X (1 .. 23) \X (0 .. 3)) \cup ({"slot"} \X (1 .. 5) \X (0 .. 19))
              \cup ({"record"} \X (1 .. 4) \X {0}),
     range : {<<1, 9>>, <<2, 3>>}, against : 1 .. 3, max : {9}]
Verify(j) ==
    [command |-> "verify",
     file |-> Changed(Target(j.log[1], j.log[2], j.log[3], {}), j.what[1], j.what[2], j.what[3]),
     range |-> j.range, against |-> Against[j.against], maxFindings |-> j.max]

-----------------------------------------------------------------------------
Names ==
    [is : {"build"}, name : BuildNames] \cup [is : {"fetch"}, name : FetchNames]
      \cup [is : {"replay"}, name : ReplayNames] \cup [is : {"verify"}, name : VerifyNames]
JobNamed(j) ==
    CASE j.is = "build" -> Build(j.name)
      [] j.is = "fetch" -> Fetch(j.name)
      [] j.is = "replay" -> Replay(j.name)
      [] j.is = "verify" -> Verify(j.name)
=============================================================================
