------------------------------ MODULE MCSdmaChan ------------------------------
(* Instances of SdmaChan for TLC: two processes that share two channels; of three threads
   one has an event driven channel that another's release may disturb. *)
EXTENDS SdmaChan, TLC

CONSTANTS p1, p2, t1, t2, t3

MCProcess == {p1, p2}
MCThread  == {t1, t2, t3}
MCProcOf  == [t \in MCThread |-> IF t = t3 THEN p2 ELSE p1]
MCChannel == {1, 2}
MCDriven  == {t3}
MCRegen   == {t3}
MCSymmetry == Permutations({t1, t2})
===============================================================================
