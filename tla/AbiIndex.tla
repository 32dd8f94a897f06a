------------------------------ MODULE AbiIndex -------------------------------
(***************************************************************************)
(* The ABI versions the indexers decode with: load_abi_index and Registry  *)
(* of action-proto and delta-proto, load_catalog and select of delta-proto *)
(* for Wire.  A line of the file is [block, phase, abi]: the phase is "" in *)
(* an abi-scanner line and "execution" or "block-final" in a Wire catalog; *)
(* the abi is NoAbi where the account has none.                            *)
(***************************************************************************)
EXTENDS Integers, Sequences

CONSTANT NoAbi

Greatest(S) == CHOOSE x \in S : \A y \in S : y <= x

(* action-proto: lines of another phase and lines without an ABI are       *)
(* passed over.                                                            *)
LoadActionIndex(lines) ==
    SelectSeq(lines, LAMBDA l : l.phase \in {"", "block-final"} /\ l.abi # NoAbi)

(* delta-proto: only abi-scanner's field names are known. *)
LoadDeltaIndex(lines) == SelectSeq(lines, LAMBDA l : l.phase = "" /\ l.abi # NoAbi)

(* delta-proto for Wire: block-final lines, the last of a block; an        *)
(* account without an ABI is an entry too.                                 *)
LoadCatalog(lines) ==
    LET final == SelectSeq(lines, LAMBDA l : l.phase = "block-final")
    IN  {final[i] : i \in {i \in DOMAIN final :
                             \A j \in DOMAIN final : final[j].block = final[i].block => j <= i}}

(* Mutant: the first version of a block wins. *)
ActiveFirst(versions, b) ==
    LET from == {i \in DOMAIN versions : versions[i].block <= b}
        newest == {i \in from : \A j \in from : versions[j].block <= versions[i].block}
    IN  IF from = {} THEN NoAbi ELSE versions[CHOOSE x \in newest : \A y \in newest : x <= y].abi

(* Registry::active: after a stable sort by block, the last version whose  *)
(* block is not above b.                                                   *)
Active(versions, b) ==
    LET from == {i \in DOMAIN versions : versions[i].block <= b}
        newest == {i \in from : \A j \in from : versions[j].block <= versions[i].block}
    IN  IF from = {} THEN NoAbi ELSE versions[Greatest(newest)].abi

(* select: the latest block-final state at or before b. *)
Select(catalog, b) ==
    LET from == {d \in catalog : d.block <= b}
    IN  IF from = {} THEN NoAbi
        ELSE (CHOOSE d \in from : \A e \in from : e.block <= d.block).abi

(* decode_action and decode_at tried at the block and, unless there is no  *)
(* ABI at all, at the block before it; `accepts` are the versions under    *)
(* which the bytes decode.  NoAbi stands for the raw hex.                  *)
Decoded(versions, b, accepts) ==
    LET now == Active(versions, b)
        before == Active(versions, b - 1)
    IN  IF now \in accepts THEN now
        ELSE IF now # NoAbi /\ b > 1 /\ before \in accepts THEN before
        ELSE NoAbi
=============================================================================
