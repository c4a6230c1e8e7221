--------------------------------- MODULE MCSpi ---------------------------------
(* An instance of Spi for TLC: a transfer of two bursts that does not end on a word. *)
EXTENDS Spi

CONSTANTS c1, c2, d1, d2

MCClient == {c1, c2}
MCDevice == {d1, d2}
MCLens   == {1, 11}
===============================================================================
