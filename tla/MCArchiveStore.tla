--------------------------- MODULE MCArchiveStore ---------------------------
EXTENDS ArchiveStore

MCLogKinds == <<"trace", "chain_state">>
MCRanges == {None, <<1, 3>>, <<2, N + 1>>, <<N, N + 1>>}

NoBlocks == [begin |-> 0, end |-> 0, chain |-> "left", bad |-> {}]

(* A file that ends at the fork or before is the same on both chains. *)
Files(bad) ==
    {f \in [begin : 1 .. N, end : 2 .. N + 1, chain : Chains, bad : bad] :
        /\ f.begin < f.end /\ f.bad \subseteq f.begin .. f.end - 1
        /\ f.chain = "left" \/ f.end > Fork}

(* Found in descending order, so that sorting has work to do; of two files *)
(* over one range both orders occur.                                       *)
Descending(f, g) == f.begin > g.begin \/ (f.begin = g.begin /\ f.end >= g.end)

UpToOne(bad) == {<<>>} \cup {<<f>> : f \in Files(bad)}
UpToTwo ==
    UpToOne({{}}) \cup {<<NoBlocks>>} \cup
    {s \in [1 .. 2 -> Files({{}})] : Descending(s[1], s[2])}

(* Several files of one kind; or one of each, with an unreadable block. *)
OneKind ==
    [ship : {[trace |-> s, chain_state |-> <<>>] : s \in UpToTwo}, blocks : UpToTwo]
TwoKinds ==
    [ship : [Kinds -> UpToOne({{}, {2}})], blocks : UpToOne({{}, {2}})]
MCFound == OneKind \cup TwoKinds
=============================================================================
