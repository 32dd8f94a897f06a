------------------------------- MODULE MCFetch -------------------------------
(***************************************************************************)
(* Two sessions over few io threads and a budget that cannot hold all they *)
(* would build ahead.  One asks for a block again under other flags, with  *)
(* ids to look up; the other lives on acknowledgements.                    *)
(***************************************************************************)
EXTENDS Fetch

CONSTANTS s1, s2

MCRequest(start, credit, want) ==
    [start |-> start, credit |-> credit, want |-> want, end |-> MaxU32]

MCRequests ==
    [s \in Sessions |->
        IF s = s1 THEN {MCRequest(0, 2, "v0"), MCRequest(1, 2, "v1")} ELSE {MCRequest(0, 1, "v0")}]
MCNeedsIds == {MCRequest(1, 2, "v1")}
MCMaxRequests == [s \in Sessions |-> IF s = s1 THEN 2 ELSE 1]

MCBound == [n \in U32 |-> 2]
MCHeld == [n \in U32 |-> 1]
=============================================================================
