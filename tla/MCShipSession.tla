--------------------------- MODULE MCShipSession -----------------------------
(***************************************************************************)
(* A session against every client of up to MaxMsgs messages chosen from a  *)
(* few requests: one that ends the range, one that restarts below its      *)
(* start, one whose credit wraps.                                          *)
(***************************************************************************)
EXTENDS ShipSession

Ask(start, last, credit, want, have) ==
    [have |-> have,
     req |-> [start |-> start, credit |-> credit, want |-> want, end |-> last]]

Pos(num, same) == [num |-> num, same |-> same]

MCAsks == {
    Ask(0, 3, 1, "v0", <<>>),
    Ask(1, 2, 3, "v1", <<Pos(2, FALSE)>>),
    Ask(3, 3, 2, "v1",
        <<Pos(2, FALSE), Pos(1, FALSE), Pos(0, TRUE), Pos(2, FALSE)>>)}
=============================================================================
