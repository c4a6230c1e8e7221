-------------------------------- MODULE SpiBus --------------------------------
(***************************************************************************)
(* What the SPI manager and its driver promise the clients, without words, *)
(* FIFOs, bursts, interrupts and pulses: a client uses a device that       *)
(* nobody else has locked, one transfer at a time, and every byte of it is *)
(* exchanged at once or none is said to be.  Nothing is promised after a   *)
(* transfer has timed out.                                                 *)
(***************************************************************************)
EXTENDS Naturals

CONSTANTS NoDevice, Client, Device, Lens
VARIABLES open, locks, cur, wire, got, late

vars == <<open, locks, cur, wire, got, late>>

Free   == [who |-> NoDevice, dev |-> NoDevice, len |-> 0]
Out(i) == <<"out", i>>
In(i)  == <<"in", i>>

Init ==
  /\ open = {} /\ locks = {} /\ cur = Free /\ wire = <<>> /\ got = <<>> /\ late = FALSE

Open(c) ==
  /\ cur = Free /\ c \notin open
  /\ open' = open \cup {c}
  /\ UNCHANGED <<locks, cur, wire, got>>

Close(c) ==
  /\ cur = Free /\ c \in open
  /\ open' = open \ {c}
  /\ locks' = {l \in locks : l.owner # c}
  /\ UNCHANGED <<cur, wire, got>>

\* A message to a device nobody else has locked may lock or unlock it, and is refused or
\* begins a transfer of n bytes.
Use(c, d, n) ==
  LET mine == [owner |-> c, device |-> d] IN
  /\ cur = Free /\ c \in open
  /\ \A l \in locks : l.device = d => l.owner = c
  /\ locks' \in {locks, locks \cup {mine}, locks \ {mine}}
  /\ cur' \in {Free, [who |-> c, dev |-> d, len |-> n]}
  /\ UNCHANGED <<open, wire, got>>

Exchange ==
  /\ cur # Free /\ wire = <<>>
  /\ wire' = [i \in 1 .. cur.len |-> Out(i)]
  /\ got'  = [i \in 1 .. cur.len |-> In(i)]
  /\ UNCHANGED <<open, locks, cur>>

\* The answer: what was exchanged, or an error.
Answer ==
  /\ cur # Free
  /\ cur' = Free /\ wire' = <<>> /\ got' = <<>>
  /\ UNCHANGED <<open, locks>>

Step ==
  \/ \E c \in Client : Open(c) \/ Close(c) \/ \E d \in Device, n \in Lens : Use(c, d, n)
  \/ Exchange \/ Answer

Next == late' = TRUE \/ (UNCHANGED late /\ Step)

Spec == Init /\ [][Next]_vars
===============================================================================
