------------------------------ MODULE MCSdmaCmd ------------------------------
(* Instances of SdmaCmd for TLC: two processes, one of them with two threads. *)
EXTENDS SdmaCmd

CONSTANTS p1, p2, t1, t2, t3

MCProcess == {p1, p2}
MCThread  == {t1, t2, t3}
MCProcOf  == [t \in MCThread |-> IF t = t3 THEN p2 ELSE p1]

\* One thread in each process: enough for a late answer to meet another process.
MCTwoThread == {t1, t3}
MCTwoProcOf == [t \in MCTwoThread |-> IF t = t3 THEN p2 ELSE p1]
==============================================================================
