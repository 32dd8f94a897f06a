--------------------------- MODULE MCRecoverTail ---------------------------
(* Damaged logs of up to three entries: walks over any log and index of    *)
(* two blocks, with payloads that differ, and recoveries of three blocks   *)
(* with sources that are missing, spliced or in conflict, and donors.      *)
EXTENDS RecoverTail

CONSTANTS MaxLog

(* Below the fork the chains are one. *)
Proper == {e \in Entry : e.chain = "left" \/ e.num >= Fork}
Plain == {e \in Proper : e.pay = 0}
LogsOf(entries) == UNION {[1 .. m -> entries \cup {Torn}] : m \in 1 .. MaxLog}
Left == {b \in Plain : b.chain = "left"}
Low == {e \in Proper : e.num <= 2}

(* Any log and any index; the trusted blocks are those of one chain. *)
Walks ==
    [log : LogsOf(Low), kind : {"ship"}, blocks : {{b \in Left : b.num <= 2}}, donors : {{}},
     index : {None} \cup
             [slots : UNION {[1 .. m -> 1 .. MaxLog] : m \in 0 .. 2}, partial : BOOLEAN]]

Spliced == {{b \in Plain : b.num = n \/ b.chain = "left"} \ {b \in Left : b.num = n} : n \in 2 .. MaxBlock}
Sources == {{}, Left, Plain} \cup {Left \ {b} : b \in Left} \cup Spliced
Indexes == {None, [slots |-> <<1, 3>>, partial |-> FALSE], [slots |-> <<1>>, partial |-> TRUE]}
TornAtEnd == {l \in LogsOf(Plain) : \A i \in DOMAIN l : l[i] = Torn => i = Len(l)}
Recoveries ==
    [log : TornAtEnd, index : Indexes, kind : {"blocks"}, blocks : Sources, donors : {{}}]
      \cup
    [log : TornAtEnd, index : Indexes, kind : {"ship"}, blocks : Sources,
     donors : {{}, Left, {e \in Proper : e.chain = "left"}}]

(* The entry torn, of the other chain, or with another payload. *)
MCForeign == {Torn} \cup {e \in Proper : e.num = 2 /\ (e.chain = "right") # (e.pay = 1)}
MCInputs == Walks \cup Recoveries
=============================================================================
