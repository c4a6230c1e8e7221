------------------------------ MODULE MCSdmaInit ------------------------------
(* Instances of SdmaInit for TLC: two processes, one of them with two threads. *)
EXTENDS SdmaInit

CONSTANTS p1, p2, t1, t2, t3

MCProcess == {p1, p2}
MCThread  == {t1, t2, t3}
MCProcOf  == [t \in MCThread |-> IF t = t3 THEN p2 ELSE p1]
===============================================================================
