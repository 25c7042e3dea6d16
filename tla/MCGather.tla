------------------------------ MODULE MCGather ------------------------------
(* A gather of more items than its limit; the first unit of the body can fail *)
(* with its effect half done, the undo of the second may fail.                *)
EXTENDS Gather

MCBody == <<"make", "mark">>
MCOutcomes == [u \in Range(MCBody) |-> IF u = "make" THEN {"ok", "partial"} ELSE {"ok"}]
=============================================================================
