----------------------------- MODULE MCChainApi -----------------------------
(* Two clients, one slot, one io thread and a budget that two requests, or *)
(* a request and a session, cannot both have.                              *)
EXTENDS ChainApi

R(size, declared, kind) == [size |-> size, declared |-> declared, kind |-> kind, len |-> 1]
MCRequests == {R(1, TRUE, "raw"), R(3, FALSE, "header"), R(4, FALSE, "other"), R(4, TRUE, "raw")}
=============================================================================
