---------------------------- MODULE MCLiveServer ----------------------------
EXTENDS LiveServer

CONSTANTS o1, o2, t1, f1

asset(o, t, imm, mut) ==
    [owner |-> o, tmpl |-> t, imm |-> imm, mut |-> mut, mint |-> 0,
     facet |-> FacetKeyOf(imm, mut)]

(* One asset, whose facet is in either part of its data. *)
OneAsset ==
    {[id \in Ids |-> IF id = 1 THEN asset(o1, t1, p[1], p[2]) ELSE None] :
        p \in {<<None, f1>>, <<f1, None>>}}

(* Four assets of one owner. *)
FourAssets ==
    {[id \in Ids |-> IF id <= 4 THEN asset(o1, None, None, None) ELSE None]}

OneMint == {[owner |-> o1, tmpl |-> t1, imm |-> None, mut |-> f1]}
NoMints == {}
=============================================================================
