------------------------------ MODULE MCAMode ------------------------------
(* Instances of AMode for TLC.  The second register keeps its value. *)
EXTENDS AMode, TLC

CONSTANTS k1, r1, r2

\* One KPZ, two requests in two packets.
MCPlan  == k1 :> <<r1, r2>>
MCWidth == [r \in Regs |-> 1]
MCVals  == [r \in Regs |-> IF r = r1 THEN {0, 1} ELSE {0}]
=============================================================================
