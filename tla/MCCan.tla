--------------------------------- MODULE MCCan ---------------------------------
(* Instances of Can for TLC: mailboxes 0 and 1 receive, 32 and 33 transmit. *)
EXTENDS Can

MCNone  == {}
MCOneRx == {0}
MCTwoRx == {0, 1}
MCOneTx == {32}
MCTwoTx == {32, 33}
===============================================================================
