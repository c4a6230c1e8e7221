------------------------------- MODULE CanProofs -------------------------------
(***************************************************************************)
(* Proofs about the mailboxes of the FlexCAN driver, for any number of     *)
(* them, any capacity of the lists, either option, and whatever a write to *)
(* a flag register clears.  The transmit side is proved as long as the two *)
(* reads of the flags agree on the mailbox that is served (agreed).        *)
(***************************************************************************)
EXTENDS Can, SequenceTheorems, WellFoundedInduction, TLAPS

\* The places of the handler that have to do with a receive or a transmit mailbox.
RxPlaces == {"rx", "rx_clear", "rx_enqueue"}
TxPlaces == {"tx", "tx_ack", "tx_next", "tx_end"}

\* What the receive branch needs to know of the types.
RxTypes ==
  /\ flag \subseteq Box
  /\ count \in [Box -> Nat]
  /\ queue \in [Box -> Seq(Nat)]
  /\ isr \in [pc : {"off", "top", "which", "notify", "clear"} \cup RxPlaces \cup TxPlaces,
              src : SUBSET Box, rx : SUBSET RxBox, box : Nat, msg : Nat]

\* The frames listed for m are older than n; not newer; and n is in the list as often as a
\* frame may be listed again.
Before(m, n) == \A i \in 1..Len(queue[m]) : queue[m][i] < n
UpTo(m, n)   == \A i \in 1..Len(queue[m]) : queue[m][i] <= n
Few(m, n)    == \A i \in 1..Len(queue[m]) : i + Again <= Len(queue[m]) => queue[m][i] < n

\* The handler works on a mailbox whose flag it has seen.
PlaceInv ==
  /\ At("which") => flag # {}
  /\ isr.pc \in {"rx", "rx_clear"} => isr.box \in isr.rx
  /\ At("rx") => isr.box \in flag
  /\ At("rx_enqueue") => isr.box \in RxBox
  /\ isr.pc \in TxPlaces => isr.box \in TxBox

\* The list s is in order, and no frame is in it more often than it may be.
InOrder(s) ==
  \A i, j \in 1..Len(s) : (i < j => s[i] <= s[j]) /\ (i + Again < j => s[i] < s[j])

\* The lists are in order and hold no frame that has not come.
ListInv == \A m \in RxBox : InOrder(queue[m]) /\ UpTo(m, count[m])

\* The flag of a mailbox says that its frame is in the list as often as it may be listed
\* again: not at all, if a write to the flags clears them.
FlagInv == \A m \in RxBox : m \in flag => Few(m, count[m])

\* A frame that has come since the registers were read is not in the list when it is copied.
FreshInv == At("rx") /\ isr.box \in fresh => Before(isr.box, count[isr.box])

\* The frame the handler has copied is not older than those in the list; if it is the one
\* whose flag is left by the write, it is not in the list yet.
CopyInv ==
  isr.pc \in {"rx_clear", "rx_enqueue"} =>
    /\ isr.msg <= count[isr.box]
    /\ UpTo(isr.box, isr.msg) /\ Few(isr.box, isr.msg)
    /\ At("rx_clear") /\ isr.box \in fresh =>
         isr.msg < count[isr.box] \/ Before(isr.box, isr.msg)
    /\ At("rx_enqueue") /\ isr.box \in flag =>
         isr.msg < count[isr.box] \/ (KeepsNew /\ Before(isr.box, isr.msg))

RxInv == RxTypes /\ PlaceInv /\ ListInv /\ FlagInv /\ FreshInv /\ CopyInv

-----------------------------------------------------------------------------
\* The mailbox the handler picks is one of those whose flag is set.
LEMMA LowestIn == ASSUME NEW S \in SUBSET Nat, S # {} PROVE Lowest(S) \in S
<1> DEFINE Less == {ss \in Nat \X Nat : ss[1] < ss[2]}
<1>1. IsWellFoundedOn(Less, Nat)
  BY NatLessThanWellFounded DEF OpToRel
<1>2. \E m \in S : \A n \in S : <<n, m>> \notin Less
  <2> HIDE DEF Less
  <2> QED
    BY <1>1, WFMin
<1>3. \E m \in S : \A n \in S : m <= n
  <2>1. \A n, m \in Nat : n < m => <<n, m>> \in Less
    OBVIOUS
  <2> HIDE DEF Less
  <2>2. \A n, m \in S : <<n, m>> \notin Less => m <= n
    BY <2>1
  <2>3. QED
    BY <1>2, <2>2
<1>4. QED
  BY <1>3 DEF Lowest

LEMMA RxInit == Init => RxInv
<1> SUFFICES ASSUME Init PROVE RxInv
  OBVIOUS
<1>1. RxTypes /\ PlaceInv /\ FlagInv /\ FreshInv /\ CopyInv
  BY BoxAssumption
     DEF Init, Off, Box, RxTypes, PlaceInv, FlagInv, FreshInv, CopyInv, At, RxPlaces, TxPlaces
<1>2. ListInv
  BY DEF Init, Box, ListInv, InOrder, UpTo
<1>3. QED
  BY <1>1, <1>2 DEF RxInv

\* A write to the flag registers clears bits and sets none.
LEMMA FlagsShrink == ASSUME NEW S PROVE FlagsAfter(S) \subseteq flag
  BY DEF FlagsAfter

\* At the end of a branch the handler keeps what it read first.
LEMMA GoOnType ==
  ASSUME isr.src \in SUBSET Box, GoOn("notify")
  PROVE  /\ isr' \in [pc : {"notify"}, src : SUBSET Box, rx : SUBSET RxBox, box : Nat, msg : Nat]
         /\ isr'.pc = "notify"
  BY DEF GoOn, Off

\* A step of the threads or of a transmit mailbox, which the receive mailboxes do not see.
LEMMA TxSideStep ==
  ASSUME RxInv, NEW m \in TxBox, Transmitted(m) \/ Write(m) \/ Transmit(m)
  PROVE  RxInv'
<1>1. RxTypes /\ m \in Box /\ m \notin RxBox
  BY BoxAssumption DEF RxInv, Box
<1>2. isr' = isr /\ flag \subseteq flag' /\ flag' \subseteq flag \cup {m} /\ fresh' \subseteq fresh \cup {m}
  BY DEF Transmitted, Raise, Write, Transmit, TransmitCheck, TransmitSet, TransmitSend,
         hwVars, libVars, isrVars
<1>3. /\ count' \in [Box -> Nat] /\ queue' \in [Box -> Seq(Nat)]
      /\ \A n \in RxBox : queue'[n] = queue[n] /\ count'[n] = count[n]
  <2>1. CASE UNCHANGED <<queue, count>>
    BY <1>1, <2>1 DEF RxTypes
  <2>2. CASE Write(m)
    <3>1. count[m] + 1 \in Nat
      BY <1>1 DEF RxTypes
    <3>2. Append(queue[m], count[m] + 1) \in Seq(Nat)
      BY <1>1, <3>1 DEF RxTypes
    <3>3. /\ count' = [count EXCEPT ![m] = count[m] + 1]
          /\ queue' = [queue EXCEPT ![m] = Append(queue[m], count[m] + 1)]
      BY <2>2 DEF Write
    <3>4. QED
      BY <1>1, <3>1, <3>2, <3>3 DEF RxTypes, Box
  <2>3. QED
    BY <2>1, <2>2 DEF Transmitted, Transmit, TransmitCheck, TransmitSet, TransmitSend,
                      hwVars, libVars
<1>4. RxTypes'
  BY <1>1, <1>2, <1>3 DEF RxTypes
<1>5. PlaceInv'
  BY <1>2 DEF RxInv, PlaceInv, At
<1>6. ListInv' /\ FlagInv'
  BY <1>1, <1>2, <1>3 DEF RxInv, ListInv, InOrder, UpTo, FlagInv, Few
<1>7. isr.pc \in RxPlaces => isr.box \in RxBox
  BY <1>1 DEF RxInv, PlaceInv, RxTypes, RxPlaces, At
<1>8. FreshInv'
  BY <1>1, <1>2, <1>3, <1>7 DEF RxInv, FreshInv, Before, RxPlaces, At
<1>9. CopyInv'
  BY <1>1, <1>2, <1>3, <1>7 DEF RxInv, CopyInv, UpTo, Few, Before, RxPlaces, At
<1>10. QED
  BY <1>4, <1>5, <1>6, <1>8, <1>9 DEF RxInv

\* A frame that comes is newer than all that is listed or copied.
LEMMA ArriveStep == ASSUME RxInv, NEW m \in RxBox, Arrive(m) PROVE RxInv'
<1>1. RxTypes /\ m \in Box
  BY DEF RxInv, Box
<1>2. /\ count' = [count EXCEPT ![m] = count[m] + 1]
      /\ flag' = flag \cup {m} /\ queue' = queue /\ isr' = isr
  BY DEF Arrive, Raise, libVars, isrVars
<1>3. /\ count' \in [Box -> Nat]
      /\ count'[m] = count[m] + 1
      /\ \A n \in Box : count'[n] >= count[n] /\ (n # m => count'[n] = count[n])
  BY <1>1, <1>2 DEF RxTypes
<1>4. RxTypes'
  BY <1>1, <1>2, <1>3 DEF RxTypes
<1>5. PlaceInv'
  BY <1>2 DEF RxInv, PlaceInv, At
<1>6. ASSUME NEW n \in RxBox, UpTo(n, count[n]) PROVE Before(n, count[n] + 1) /\ Few(n, count[n] + 1)
  BY <1>1, <1>6 DEF RxTypes, UpTo, Before, Few, Box
<1>7. ListInv'
  BY <1>1, <1>2, <1>3 DEF RxInv, RxTypes, ListInv, InOrder, UpTo, Box
<1>8. FlagInv'
  BY <1>2, <1>3, <1>6 DEF RxInv, ListInv, FlagInv, Few, Box
<1>9. isr.pc \in RxPlaces => isr.box \in RxBox /\ isr.msg \in Nat
  BY <1>1 DEF RxInv, PlaceInv, RxTypes, RxPlaces, At
<1>10. fresh' = fresh \cup {m}
  BY DEF Arrive, Raise
<1>11. FreshInv'
  BY <1>2, <1>3, <1>6, <1>9, <1>10 DEF RxInv, ListInv, FreshInv, Before, RxPlaces, Box, At
<1>12. CopyInv'
  <2> SUFFICES ASSUME isr.pc \in {"rx_clear", "rx_enqueue"} PROVE CopyInv'
    BY <1>2 DEF CopyInv
  <2>1. isr.box \in RxBox /\ isr.msg \in Nat /\ count[isr.box] \in Nat
    BY <1>1, <1>9 DEF RxPlaces, RxTypes, Box
  <2>2. CASE isr.box = m
    <3>1. isr.msg < count'[isr.box]
      BY <1>3, <2>1, <2>2 DEF RxInv, CopyInv
    <3>2. QED
      BY <1>2, <1>3, <2>1, <3>1 DEF RxInv, CopyInv, UpTo, Few
  <2>3. CASE isr.box # m
    BY <1>2, <1>3, <1>10, <2>1, <2>3 DEF RxInv, CopyInv, UpTo, Few, Before, At, Box
  <2>4. QED
    BY <2>2, <2>3
<1>13. QED
  BY <1>4, <1>5, <1>7, <1>8, <1>11, <1>12 DEF RxInv

\* Taking the head of a list leaves the others in their order.
LEMMA ReadStep == ASSUME RxInv, NEW m \in RxBox, Read(m) PROVE RxInv'
<1>1. RxTypes /\ m \in Box
  BY DEF RxInv, Box
<1>2. queue' = [queue EXCEPT ![m] = Tail(queue[m])] /\ UNCHANGED <<flag, count, isr>>
      /\ queue[m] # <<>>
  BY DEF Read, hwVars, isrVars
<1>3. /\ queue[m] \in Seq(Nat) /\ Tail(queue[m]) \in Seq(Nat)
      /\ Len(Tail(queue[m])) = Len(queue[m]) - 1
      /\ \A i \in 1..(Len(queue[m]) - 1) : Tail(queue[m])[i] = queue[m][i + 1]
  BY <1>1, <1>2 DEF RxTypes
<1>4. /\ queue' \in [Box -> Seq(Nat)]
      /\ Len(queue'[m]) = Len(queue[m]) - 1
      /\ \A i \in 1..Len(queue'[m]) : i + 1 \in 1..Len(queue[m]) /\ queue'[m][i] = queue[m][i + 1]
      /\ \A n \in Box \ {m} : queue'[n] = queue[n]
  <2>1. queue' \in [Box -> Seq(Nat)] /\ queue'[m] = Tail(queue[m])
        /\ \A n \in Box \ {m} : queue'[n] = queue[n]
    BY <1>1, <1>2, <1>3 DEF RxTypes
  <2> HIDE DEF RxTypes
  <2>2. QED
    BY <1>3, <2>1
<1>5. RxTypes' /\ PlaceInv'
  BY <1>1, <1>2, <1>4 DEF RxInv, RxTypes, PlaceInv, At
<1>6. Again \in Nat
  BY DEF Again
<1>7. \A n \in Box \ {m} : queue'[n] = queue[n]
  BY <1>4
<1> DEFINE s == queue[m]
           t == queue'[m]
<1>8. Len(t) \in Nat /\ Len(s) = Len(t) + 1 /\ \A i \in 1..Len(t) : t[i] = s[i + 1]
  <2>1. Len(s) \in Nat \ {0}
    BY <1>2, <1>3, EmptySeq
  <2>2. QED
    BY <1>4, <2>1
<1> HIDE DEF s, t
<1>9. \A i \in 1..Len(t) : i + 1 \in 1..Len(s) /\ (i + Again <= Len(t) => i + 1 + Again <= Len(s))
  BY <1>6, <1>8
<1>10. \A k : /\ Before(m, k) => Before(m, k)'
              /\ UpTo(m, k) => UpTo(m, k)'
              /\ Few(m, k) => Few(m, k)'
  BY <1>8, <1>9 DEF Before, UpTo, Few, s, t
<1>11. \A n \in RxBox : \A k : /\ Before(n, k) => Before(n, k)'
                               /\ UpTo(n, k) => UpTo(n, k)'
                               /\ Few(n, k) => Few(n, k)'
  <2> DEFINE Kept(n) == \A k : /\ Before(n, k) => Before(n, k)'
                               /\ UpTo(n, k) => UpTo(n, k)'
                               /\ Few(n, k) => Few(n, k)'
  <2>1. Kept(m)
    BY <1>10
  <2>2. ASSUME NEW n \in RxBox, n # m PROVE Kept(n)
    <3>1. queue'[n] = queue[n]
      BY <1>7, <2>2 DEF Box
    <3>2. QED
      BY <3>1 DEF Before, UpTo, Few
  <2>3. \A n \in RxBox : Kept(n)
    <3> HIDE DEF Kept
    <3>1. QED
      BY <2>1, <2>2
  <2>4. QED
    BY <2>3
<1>12. InOrder(s) => InOrder(t)
  <2> SUFFICES ASSUME InOrder(s), NEW i \in 1..Len(t), NEW j \in 1..Len(t)
               PROVE  (i < j => t[i] <= t[j]) /\ (i + Again < j => t[i] < t[j])
    BY DEF InOrder
  <2>1. i + 1 \in 1..Len(s) /\ j + 1 \in 1..Len(s) /\ t[i] = s[i + 1] /\ t[j] = s[j + 1]
    BY <1>8, <1>9
  <2>2. (i < j => i + 1 < j + 1) /\ (i + Again < j => i + 1 + Again < j + 1)
    BY <1>6
  <2>3. QED
    BY <2>1, <2>2 DEF InOrder
<1>13. ListInv' /\ FlagInv'
  BY <1>2, <1>7, <1>11, <1>12 DEF RxInv, ListInv, FlagInv, Box, s, t
<1>14. isr.pc \in RxPlaces => isr.box \in RxBox
  BY <1>1 DEF RxInv, PlaceInv, RxTypes, RxPlaces, At
<1>15. fresh' = fresh
  BY DEF Read, hwVars
<1>16. FreshInv' /\ CopyInv'
  BY <1>2, <1>11, <1>14, <1>15 DEF RxInv, FreshInv, CopyInv, RxPlaces, At
<1>17. QED
  BY <1>5, <1>13, <1>16 DEF RxInv
-----------------------------------------------------------------------------
(* can_intr *)

\* A step of the handler that neither copies, clears nor lists a frame.
LEMMA QuietStep ==
  ASSUME RxInv, RxTypes', count' = count, \A n \in RxBox : queue'[n] = queue[n],
         flag' \subseteq flag, isr'.pc \notin {"rx_clear", "rx_enqueue"},
         isr'.pc = "rx" => fresh' = {}
  PROVE  ListInv' /\ FlagInv' /\ FreshInv' /\ CopyInv'
<1>1. ListInv'
  BY DEF RxInv, ListInv, InOrder, UpTo
<1>2. FlagInv'
  BY DEF RxInv, FlagInv, Few
<1>3. FreshInv' /\ CopyInv'
  BY DEF FreshInv, CopyInv, At
<1>4. QED
  BY <1>1, <1>2, <1>3

\* The ways through the handler, without those that touch a list or a flag.
LEMMA PassStep ==
  ASSUME RxInv, IsrEnter \/ IsrTop \/ IsrTxNext \/ IsrTxEnd \/ IsrNotify
  PROVE  RxInv'
<1>1. RxTypes /\ UNCHANGED <<flag, count, queue>>
  BY DEF RxInv, IsrEnter, IsrTop, IsrTxNext, IsrTxEnd, IsrNotify, hwVars, libVars
<1>2. /\ isr.pc # "rx_clear"
      /\ \/ isr' = Off
         \/ \E l \in {"top", "clear"} : isr' = [isr EXCEPT !.pc = l]
         \/ GoOn("notify")
         \/ flag # {} /\ isr' = [isr EXCEPT !.pc = "which", !.src = flag]
  BY DEF IsrEnter, IsrTop, IsrTxNext, IsrTxEnd, IsrNotify, At, GoTo
<1> DEFINE Past == [pc : {"off", "top", "which", "notify", "clear"}, src : SUBSET Box,
                    rx : SUBSET RxBox, box : Nat, msg : Nat]
<1>3. isr' \in Past /\ (isr'.pc = "which" => flag # {})
  <2>1. CASE isr' = Off
    BY <2>1 DEF Off
  <2>2. ASSUME NEW l \in {"top", "clear"}, isr' = [isr EXCEPT !.pc = l]
        PROVE  isr' \in Past /\ isr'.pc # "which"
    BY <1>1, <2>2 DEF RxTypes
  <2>3. CASE flag # {} /\ isr' = [isr EXCEPT !.pc = "which", !.src = flag]
    BY <1>1, <2>3 DEF RxTypes
  <2>4. CASE GoOn("notify")
    <3>1. isr.src \in SUBSET Box
      BY <1>1 DEF RxTypes
    <3>2. QED
      BY <2>4, <3>1, GoOnType
  <2>5. QED
    BY <1>2, <2>1, <2>2, <2>3, <2>4
<1>4. RxTypes'
  BY <1>1, <1>3 DEF RxTypes
<1>5. PlaceInv'
  BY <1>1, <1>3 DEF PlaceInv, At, RxPlaces, TxPlaces
<1>6. QED
  BY <1>1, <1>2, <1>3, <1>4, <1>5, QuietStep DEF RxInv

\* The mailbox of the branch taken is one of that branch.
LEMMA WhichStep == ASSUME RxInv, IsrWhich PROVE RxInv'
<1> DEFINE rx == flag \cap RxBox
<1>1. RxTypes /\ UNCHANGED <<flag, count, queue>> /\ isr.pc = "which" /\ flag # {} /\ fresh' = {}
  BY DEF RxInv, PlaceInv, IsrWhich, libVars, At
<1>2. rx \in SUBSET Nat /\ flag \in SUBSET Nat
  BY <1>1, BoxAssumption DEF RxTypes, Box
<1>3. Lowest(flag) \in flag /\ (rx # {} => Lowest(rx) \in rx)
  BY <1>1, <1>2, LowestIn
<1>4. isr' = IF rx # {} THEN [isr EXCEPT !.pc = "rx", !.rx = rx, !.box = Lowest(rx)]
             ELSE [isr EXCEPT !.pc = "tx", !.box = Lowest(flag)]
  BY DEF IsrWhich
<1> HIDE DEF rx
<1>5. CASE rx # {}
  <2>1. isr' = [isr EXCEPT !.pc = "rx", !.rx = rx, !.box = Lowest(rx)]
    BY <1>4, <1>5
  <2>2. rx \subseteq RxBox /\ rx \subseteq flag
    BY DEF rx
  <2>3. Lowest(rx) \in rx /\ Lowest(rx) \in Nat
    BY <1>2, <1>3, <1>5
  <2>4. isr'.pc = "rx" /\ isr'.box \in isr'.rx /\ isr'.box \in flag
    BY <1>1, <2>1, <2>2, <2>3 DEF RxTypes
  <2>5. RxTypes'
    BY <1>1, <2>1, <2>2, <2>3 DEF RxTypes, RxPlaces
  <2>6. PlaceInv'
    BY <1>1, <2>4 DEF PlaceInv, At, TxPlaces
  <2>7. QED
    BY <1>1, <2>4, <2>5, <2>6, QuietStep DEF RxInv
<1>6. CASE rx = {}
  <2>1. isr' = [isr EXCEPT !.pc = "tx", !.box = Lowest(flag)]
    BY <1>4, <1>6
  <2>2. Lowest(flag) \in TxBox /\ Lowest(flag) \in Nat
    BY <1>1, <1>2, <1>3, <1>6 DEF rx, RxTypes, Box
  <2>3. isr'.pc = "tx" /\ isr'.box \in TxBox
    BY <1>1, <2>1, <2>2 DEF RxTypes
  <2>4. RxTypes'
    BY <1>1, <2>1, <2>2 DEF RxTypes, TxPlaces
  <2>5. PlaceInv'
    BY <1>1, <2>3 DEF PlaceInv, At, TxPlaces
  <2>6. QED
    BY <1>1, <2>3, <2>4, <2>5, QuietStep DEF RxInv
<1>7. QED
  BY <1>5, <1>6

\* The flags that are cleared are of mailboxes the handler has done with.
LEMMA ClearStep == ASSUME RxInv, IsrTxClear \/ IsrClear PROVE RxInv'
<1>1. RxTypes /\ UNCHANGED <<count, queue>> /\ flag' \subseteq flag
  BY FlagsShrink DEF RxInv, IsrTxClear, IsrClear, libVars
<1>2. \/ isr.pc = "tx" /\ isr'.pc = "tx_ack" /\ isr'.box = isr.box
      \/ isr'.pc = "top"
  BY <1>1 DEF RxTypes, IsrTxClear, IsrClear, At, GoTo, Off
<1>3. RxTypes'
  <2>1. CASE IsrTxClear
    BY <1>1, <2>1 DEF RxTypes, IsrTxClear, GoTo, TxPlaces
  <2>2. CASE IsrClear
    <3>1. isr' = [pc |-> "top", src |-> {}, rx |-> {}, box |-> 0, msg |-> 0]
      BY <2>2 DEF IsrClear, Off
    <3>2. QED
      BY <1>1, <3>1 DEF RxTypes
  <2>3. QED
    BY <2>1, <2>2
<1>4. PlaceInv'
  BY <1>2 DEF RxInv, PlaceInv, At, TxPlaces
<1>5. QED
  BY <1>1, <1>2, <1>3, <1>4, QuietStep DEF RxInv

\* An acknowledgement takes a message from the list of a transmit mailbox.
LEMMA AckStep == ASSUME RxInv, IsrTxAck PROVE RxInv'
<1> DEFINE m == isr.box
<1>1. RxTypes /\ UNCHANGED <<flag, count>> /\ isr.pc = "tx_ack"
  BY DEF RxInv, IsrTxAck, hwVars, At
<1>2. m \in TxBox /\ m \in Box /\ m \notin RxBox
  BY <1>1, BoxAssumption DEF RxInv, PlaceInv, TxPlaces, Box
<1>3. queue[m] \in Seq(Nat)
  BY <1>1, <1>2 DEF RxTypes
<1>4. \/ queue[m] = <<>> /\ GoOn("notify") /\ UNCHANGED queue
      \/ /\ queue[m] # <<>> /\ queue' = [queue EXCEPT ![m] = Tail(queue[m])]
         /\ \/ Len(queue[m]) = 1 /\ GoTo("tx_end")
            \/ Len(queue[m]) # 1 /\ isr' = [isr EXCEPT !.pc = "tx_next", !.msg = queue[m][2]]
  BY DEF IsrTxAck, GoTo
<1>5. queue[m] # <<>> => Tail(queue[m]) \in Seq(Nat)
  <2> DEFINE q == queue[m]
  <2>1. q \in Seq(Nat)
    BY <1>3
  <2> HIDE DEF q
  <2>2. q # <<>> => Tail(q) \in Seq(Nat)
    BY <2>1
  <2>3. QED
    BY <2>2 DEF q
<1>6. queue[m] # <<>> /\ Len(queue[m]) # 1 => queue[m][2] \in Nat
  <2> DEFINE q == queue[m]
  <2>1. q \in Seq(Nat)
    BY <1>3
  <2> HIDE DEF q
  <2>2. q # <<>> /\ Len(q) # 1 => 2 \in 1..Len(q)
    <3>1. q # <<>> => Len(q) \in Nat \ {0}
      BY <2>1, EmptySeq
    <3>2. \A n \in Nat \ {0} : n # 1 => 2 \in 1..n
      OBVIOUS
    <3>3. QED
      BY <3>1, <3>2
  <2>3. q # <<>> /\ Len(q) # 1 => q[2] \in Nat
    BY <2>1, <2>2
  <2>4. QED
    BY <2>3 DEF q
<1>7. queue' \in [Box -> Seq(Nat)] /\ \A n \in RxBox : queue'[n] = queue[n]
  <2>1. \/ queue' = queue
        \/ Tail(queue[m]) \in Seq(Nat) /\ queue' = [queue EXCEPT ![m] = Tail(queue[m])]
    BY <1>4, <1>5
  <2>2. RxBox \subseteq Box
    BY DEF Box
  <2> HIDE DEF m
  <2>3. QED
    BY <1>1, <1>2, <2>1, <2>2 DEF RxTypes
<1>8. /\ isr'.pc = "notify" \/ (isr'.pc \in {"tx_end", "tx_next"} /\ isr'.box = m)
      /\ isr' \in [pc : {"notify"} \cup TxPlaces, src : SUBSET Box, rx : SUBSET RxBox,
                   box : Nat, msg : Nat]
  <2>1. CASE GoOn("notify")
    <3>1. isr.src \in SUBSET Box
      BY <1>1 DEF RxTypes
    <3>2. QED
      BY <2>1, <3>1, GoOnType
  <2>2. CASE ~GoOn("notify")
    BY <1>1, <1>4, <1>6, <2>2 DEF RxTypes, GoTo, TxPlaces
  <2>3. QED
    BY <2>1, <2>2
<1>9. RxTypes'
  BY <1>1, <1>7, <1>8 DEF RxTypes
<1>10. PlaceInv'
  BY <1>2, <1>8 DEF PlaceInv, At, TxPlaces
<1>11. QED
  BY <1>1, <1>7, <1>8, <1>9, <1>10, QuietStep DEF RxInv

\* The frame is copied while its flag is set: nothing newer is listed, and the frame itself
\* as often as it may be listed again.
LEMMA CopyStep == ASSUME RxInv, IsrRxCopy PROVE RxInv'
<1> DEFINE m == isr.box
           Taken == isr' = [isr EXCEPT !.pc = "rx_clear", !.msg = count[m]]
<1>1. RxTypes /\ UNCHANGED <<flag, fresh, count, queue>> /\ isr.pc = "rx"
  BY DEF RxInv, IsrRxCopy, hwVars, At
<1>2. m \in isr.rx /\ m \in flag /\ m \in RxBox /\ m \in Box
  BY <1>1 DEF RxInv, RxTypes, PlaceInv, At, Box
<1>3. /\ UpTo(m, count[m]) /\ Few(m, count[m]) /\ count[m] \in Nat
      /\ m \in fresh => Before(m, count[m])
  BY <1>1, <1>2 DEF RxInv, RxTypes, ListInv, FlagInv, FreshInv, At
<1>4. Taken \/ GoOn("notify")
  BY DEF IsrRxCopy, GoOn
<1>5. CASE Taken
  <2>1. isr'.pc = "rx_clear" /\ isr'.box = m /\ isr'.rx = isr.rx /\ isr'.msg = count[m]
    BY <1>1, <1>5 DEF RxTypes
  <2>2. RxTypes'
    BY <1>1, <1>3, <1>5 DEF RxTypes, RxPlaces
  <2>3. PlaceInv'
    BY <1>2, <2>1 DEF PlaceInv, At, TxPlaces
  <2>4. ListInv' /\ FlagInv' /\ FreshInv'
    BY <1>1, <2>1 DEF RxInv, ListInv, InOrder, UpTo, FlagInv, Few, FreshInv, At
  <2>5. CopyInv'
    <3>1. isr'.msg <= count'[m]
      BY <1>1, <1>3, <2>1
    <3>2. UpTo(isr.box, isr.msg)' /\ Few(isr.box, isr.msg)' /\ (m \in fresh => Before(isr.box, isr.msg)')
      BY <1>1, <1>3, <2>1 DEF UpTo, Few, Before
    <3>3. QED
      BY <1>1, <2>1, <3>1, <3>2 DEF CopyInv, At
  <2>6. QED
    BY <2>2, <2>3, <2>4, <2>5 DEF RxInv
<1>6. CASE GoOn("notify")
  <2>1. isr.src \in SUBSET Box
    BY <1>1 DEF RxTypes
  <2>2. RxTypes' /\ isr'.pc = "notify"
    BY <1>1, <1>6, <2>1, GoOnType DEF RxTypes
  <2>3. PlaceInv'
    BY <2>2 DEF PlaceInv, At, TxPlaces
  <2>4. QED
    BY <1>1, <2>2, <2>3, QuietStep DEF RxInv
<1>7. QED
  BY <1>4, <1>5, <1>6

\* The flag is cleared after the copy: if it is set afterwards a newer frame has come, or the
\* write has left it for one that came after the registers were read.
LEMMA RxClearStep == ASSUME RxInv, IsrRxClear PROVE RxInv'
<1>1. RxTypes /\ UNCHANGED <<fresh, count, queue>> /\ flag' = FlagsAfter(isr.rx)
      /\ isr.pc = "rx_clear" /\ isr' = [isr EXCEPT !.pc = "rx_enqueue"]
  BY DEF RxInv, IsrRxClear, libVars, At, GoTo
<1>2. isr'.pc = "rx_enqueue" /\ isr'.box = isr.box /\ isr'.msg = isr.msg
  BY <1>1 DEF RxTypes
<1>3. isr.box \in isr.rx /\ isr.box \in RxBox
  BY <1>1 DEF RxInv, RxTypes, PlaceInv
<1>4. flag' \subseteq flag /\ (isr.box \in flag' => KeepsNew /\ isr.box \in fresh)
  BY <1>1, <1>3 DEF FlagsAfter
<1>5. RxTypes'
  BY <1>1, <1>4 DEF RxTypes, RxPlaces
<1>6. PlaceInv'
  BY <1>2, <1>3 DEF PlaceInv, At, TxPlaces
<1>7. ListInv' /\ FlagInv' /\ FreshInv'
  BY <1>1, <1>2, <1>4 DEF RxInv, ListInv, InOrder, UpTo, FlagInv, Few, FreshInv, At
<1>8. CopyInv'
  BY <1>1, <1>2, <1>4 DEF RxInv, CopyInv, UpTo, Few, Before, At
<1>9. QED
  BY <1>5, <1>6, <1>7, <1>8 DEF RxInv

\* A frame put behind a list that holds nothing newer, and the frame itself as often as it
\* may be listed again.
LEMMA AppendInOrder ==
  ASSUME NEW s \in Seq(Nat), NEW n \in Nat, InOrder(s), \A i \in 1..Len(s) : s[i] <= n,
         \A i \in 1..Len(s) : i + Again <= Len(s) => s[i] < n
  PROVE  /\ InOrder(Append(s, n))
         /\ \A i \in 1..Len(Append(s, n)) : Append(s, n)[i] <= n
<1> DEFINE t == Append(s, n)
           l == Len(s)
<1>1. /\ t \in Seq(Nat) /\ Len(t) = l + 1 /\ l \in Nat /\ t[l + 1] = n
      /\ \A i \in 1..l : t[i] = s[i] /\ s[i] \in Nat
  BY AppendProperties, LenProperties
<1>2. \A i \in 1..l : s[i] <= n /\ (i + Again <= l => s[i] < n)
  OBVIOUS
<1>3. \A i, j \in 1..l : (i < j => s[i] <= s[j]) /\ (i + Again < j => s[i] < s[j])
  BY DEF InOrder
<1>4. Again \in Nat
  BY DEF Again
<1> HIDE DEF t, l
<1>5. \A i \in 1..l + 1 : i \in 1..l \/ i = l + 1
  BY <1>1
<1>6. \A i \in 1..l + 1 : t[i] <= n
  <2> TAKE i \in 1..l + 1
  <2>1. CASE i \in 1..l
    BY <1>1, <1>2, <2>1
  <2>2. CASE i = l + 1
    BY <1>1, <2>2
  <2>3. QED
    BY <1>5, <2>1, <2>2
<1>7. ASSUME NEW i \in 1..l + 1, NEW j \in 1..l + 1
      PROVE  (i < j => t[i] <= t[j]) /\ (i + Again < j => t[i] < t[j])
  <2>1. CASE j \in 1..l
    <3>1. i < j \/ i + Again < j => i \in 1..l
      BY <1>1, <1>4, <2>1
    <3>2. QED
      BY <1>1, <1>3, <2>1, <3>1
  <2>2. CASE j = l + 1
    <3>1. /\ i < j => i \in 1..l
          /\ i + Again < j => i \in 1..l /\ i + Again <= l
      BY <1>1, <1>4, <2>2
    <3>2. QED
      BY <1>1, <1>2, <2>2, <3>1
  <2>3. QED
    BY <1>5, <2>1, <2>2
<1>8. QED
  BY <1>1, <1>6, <1>7 DEF InOrder, t

\* What is listed last is the newest of the list.
LEMMA EnqueueStep == ASSUME RxInv, IsrRxEnqueue PROVE RxInv'
<1> DEFINE m == isr.box
           q == queue[m]
           new == Append(q, isr.msg)
<1>1. RxTypes /\ UNCHANGED <<flag, count>> /\ isr.pc = "rx_enqueue"
      /\ GoOn("notify") /\ queue' = [queue EXCEPT ![m] = new]
  BY DEF RxInv, IsrRxEnqueue, hwVars, At
<1>2. m \in RxBox /\ m \in Box /\ q \in Seq(Nat) /\ isr.msg \in Nat /\ count[m] \in Nat
  BY <1>1 DEF RxInv, RxTypes, PlaceInv, At, Box
<1>3. isr'.pc = "notify"
      /\ isr' \in [pc : {"notify"}, src : SUBSET Box, rx : SUBSET RxBox, box : Nat, msg : Nat]
  <2>1. isr.src \in SUBSET Box
    BY <1>1 DEF RxTypes
  <2>2. QED
    BY <1>1, <2>1, GoOnType
<1>4. /\ isr.msg <= count[m]
      /\ \A i \in 1..Len(q) : q[i] <= isr.msg
      /\ \A i \in 1..Len(q) : i + Again <= Len(q) => q[i] < isr.msg
      /\ m \in flag => isr.msg < count[m] \/ (KeepsNew /\ \A i \in 1..Len(q) : q[i] < isr.msg)
  BY <1>1 DEF RxInv, CopyInv, UpTo, Few, Before, At
<1>5. InOrder(q)
  BY <1>2 DEF RxInv, ListInv
<1>6. /\ new \in Seq(Nat) /\ Len(new) = Len(q) + 1 /\ Len(q) \in Nat
      /\ \A i \in 1..Len(q) : new[i] = q[i]
      /\ \A i \in 1..Len(new) : new[i] \in Nat
  <2> HIDE DEF q
  <2>1. QED
    BY <1>2, AppendProperties, LenProperties
<1> HIDE DEF q
<1>7. InOrder(new) /\ \A i \in 1..Len(new) : new[i] <= isr.msg
  BY <1>2, <1>4, <1>5, AppendInOrder
<1> HIDE DEF new
<1>8. \A i \in 1..Len(new) : new[i] <= count[m]
  BY <1>2, <1>4, <1>6, <1>7
<1>9. m \in flag => \A i \in 1..Len(new) : i + Again <= Len(new) => new[i] < count[m]
  <2>1. CASE isr.msg < count[m]
    BY <1>2, <1>6, <1>7, <2>1
  <2>2. CASE KeepsNew /\ \A i \in 1..Len(q) : q[i] < isr.msg
    <3>1. \A i \in 1..Len(new) : i + Again <= Len(new) => i \in 1..Len(q)
      BY <1>6, <2>2 DEF Again
    <3>2. \A i \in 1..Len(q) : new[i] < isr.msg /\ i \in 1..Len(new)
      BY <1>6, <2>2
    <3>3. QED
      BY <1>2, <1>4, <1>6, <3>1, <3>2
  <2>3. QED
    BY <1>4, <2>1, <2>2
<1>10. /\ queue' \in [Box -> Seq(Nat)] /\ queue'[m] = new
       /\ \A n \in Box \ {m} : queue'[n] = queue[n]
  <2> HIDE DEF m
  <2>1. QED
    BY <1>1, <1>2, <1>6 DEF RxTypes
<1>11. RxTypes'
  BY <1>1, <1>3, <1>10 DEF RxTypes
<1>12. PlaceInv' /\ FreshInv' /\ CopyInv'
  BY <1>3 DEF PlaceInv, FreshInv, CopyInv, At, TxPlaces
<1> HIDE DEF m
<1>13. \A n \in RxBox : n # m => queue'[n] = queue[n]
  BY <1>10 DEF Box
<1>14. ListInv'
  BY <1>1, <1>7, <1>8, <1>10, <1>13 DEF RxInv, ListInv, UpTo
<1>15. FlagInv'
  BY <1>1, <1>9, <1>10, <1>13 DEF RxInv, FlagInv, Few
<1>16. QED
  BY <1>11, <1>12, <1>14, <1>15 DEF RxInv

-----------------------------------------------------------------------------
LEMMA RxStep == RxInv /\ [Next]_vars => RxInv'
<1> SUFFICES ASSUME RxInv, [Next]_vars PROVE RxInv'
  OBVIOUS
<1>1. CASE UNCHANGED vars
  BY <1>1 DEF vars, hwVars, libVars, isrVars, RxInv, RxTypes, PlaceInv, ListInv, FlagInv, FreshInv,
              CopyInv, Before, UpTo, Few, At
<1>2. CASE \E m \in RxBox : Arrive(m) \/ Read(m)
  BY <1>2, ArriveStep, ReadStep
<1>3. CASE \E m \in TxBox : Transmitted(m) \/ Write(m) \/ Transmit(m)
  BY <1>3, TxSideStep
<1>4. CASE IsrEnter \/ Handler
  BY <1>4, PassStep, WhichStep, ClearStep, AckStep, CopyStep, RxClearStep, EnqueueStep
     DEF Handler, HandlerRuns
<1>5. QED
  BY <1>1, <1>2, <1>3, <1>4 DEF Next

\* The frames of a mailbox are listed in the order they came, with any number of mailboxes:
\* each once if a write to the flags clears the bits written, and twice at most if it leaves
\* those that are newer.  The handler may clear the flags of mailboxes it has not read
\* (iflag_rx of can_intr), but a flag that is set says how often its frame is in the list.
THEOREM RxOrdered == Spec => []RxInOrder
<1>1. Init => RxInv
  BY RxInit
<1>2. RxInv /\ [Next]_vars => RxInv'
  BY RxStep
<1>3. RxInv => RxInOrder
  <2>1. ASSUME RxInv PROVE \A m \in RxBox : DOMAIN queue[m] = 1..Len(queue[m])
    BY <2>1, LenProperties DEF RxInv, RxTypes, Box
  <2>2. QED
    BY <2>1 DEF RxInv, ListInv, InOrder, RxInOrder
<1>4. QED
  BY <1>1, <1>2, <1>3, PTL DEF Spec

-----------------------------------------------------------------------------
(* The transmit mailbox *)

TxWork == {"tx_ack", "tx_next", "tx_end"}

\* The handler works on the device of m, whose flag it has cleared.
Handles(m) == isr.pc \in TxWork /\ isr.box = m

\* What the transmit branch and the threads need to know of the types.
TxTypes ==
  /\ flag \subseteq Box
  /\ count \in [Box -> Nat] /\ seen \in [Box -> Nat]
  /\ queue \in [Box -> Seq(Nat)]
  /\ air \in [TxBox -> Nat] /\ sent \in [TxBox -> Nat]
  /\ enabled \in [TxBox -> BOOLEAN]
  /\ thread \in [TxBox -> [pc : {"idle", "check", "set", "send"}, msg : Nat]]
  /\ isr \in [pc : {"off", "top", "which", "notify", "clear"} \cup RxPlaces \cup TxPlaces,
              src : SUBSET Box, rx : SUBSET RxBox, box : Nat, msg : Nat]

\* The handler serves a transmit mailbox whose flag it has seen in both reads, and no event
\* has come since that would keep the flag.
TxPlaceInv ==
  /\ At("which") => isr.src # {} /\ isr.src \subseteq flag
  /\ At("tx") => isr.box \in isr.src /\ isr.box \in flag /\ isr.box \notin fresh
  /\ isr.pc \in TxPlaces => isr.box \in TxBox
  /\ isr.pc \in RxPlaces => isr.box \in RxBox

\* The numbers in list s increase, from above a up to b.
Rising(s, a, b) ==
  /\ a <= b
  /\ \A i \in 1 .. Len(s) : a < s[i] /\ s[i] <= b
  /\ \A i, j \in 1 .. Len(s) : i < j => s[i] < s[j]

\* The messages of a list are those written after the last that was acknowledged.
WaitInv ==
  \A m \in TxBox : Rising(queue[m], seen[m], count[m]) /\ seen[m] <= sent[m]

\* A transmission that is enabled is in one place at most: with the thread that starts it, on
\* the air, in the flag, or with the handler.  One that is not enabled is in none.
TokenInv ==
  \A m \in TxBox :
    /\ air[m] # 0 => m \notin flag /\ ~Handles(m) /\ thread[m].pc # "send"
    /\ m \in flag => ~Handles(m) /\ thread[m].pc # "send"
    /\ Handles(m) => thread[m].pc # "send"
    /\ air[m] # 0 \/ m \in flag \/ Handles(m) \/ thread[m].pc = "send" => enabled[m]
    /\ thread[m].pc = "set" => ~enabled[m]

\* What is in transmission is the message at the head of the list; until it is acknowledged.
FrontInv ==
  \A m \in TxBox :
    /\ air[m] # 0 => queue[m] # <<>> /\ air[m] = Head(queue[m])
    /\ m \in flag \/ (Handles(m) /\ At("tx_ack")) => queue[m] # <<>> /\ sent[m] = Head(queue[m])
    /\ Handles(m) /\ At("tx_next") => queue[m] # <<>> /\ isr.msg = Head(queue[m])
    /\ thread[m].pc \in {"set", "send"} => queue[m] # <<>> /\ thread[m].msg = Head(queue[m])

TxInv == TxTypes /\ TxPlaceInv /\ WaitInv /\ TokenInv /\ FrontInv

LEMMA TxInit == Init => TxInv
<1> SUFFICES ASSUME Init PROVE TxInv
  OBVIOUS
<1>1. TxTypes
  BY BoxAssumption DEF Init, Off, Rest, Box, TxTypes
<1>2. TxPlaceInv /\ TokenInv /\ FrontInv
  BY DEF Init, Off, Rest, TxPlaceInv, TokenInv, FrontInv, Handles, TxWork, At, RxPlaces, TxPlaces
<1>3. WaitInv
  BY DEF Init, WaitInv, Rising, Box
<1>4. QED
  BY <1>1, <1>2, <1>3 DEF TxInv

\* The head of a rising list, and the list without it.
LEMMA RisingTail ==
  ASSUME NEW s \in Seq(Nat), s # <<>>, NEW a \in Nat, NEW b \in Nat, Rising(s, a, b)
  PROVE  /\ Head(s) \in Nat /\ a < Head(s) /\ Tail(s) \in Seq(Nat)
         /\ Rising(Tail(s), Head(s), b)
<1>1. /\ Head(s) = s[1] /\ Tail(s) \in Seq(Nat) /\ Len(s) \in Nat \ {0} /\ 1 \in 1 .. Len(s)
      /\ Len(Tail(s)) = Len(s) - 1
      /\ \A i \in 1 .. Len(s) - 1 : Tail(s)[i] = s[i + 1]
  BY EmptySeq, LenProperties, HeadTailProperties
<1> DEFINE l == Len(s)
           t == Tail(s)
<1>2. \A i \in 1 .. l : s[i] \in Nat /\ a < s[i] /\ s[i] <= b
  BY DEF Rising
<1>3. \A i, j \in 1 .. l : i < j => s[i] < s[j]
  BY DEF Rising
<1>4. \A i \in 1 .. l - 1 : i + 1 \in 1 .. l /\ 1 < i + 1
  BY <1>1
<1> HIDE DEF l, t
<1>5. \A i \in 1 .. l - 1 : s[1] < t[i] /\ t[i] <= b
  BY <1>1, <1>2, <1>3, <1>4 DEF l, t
<1>6. ASSUME NEW i \in 1 .. l - 1, NEW j \in 1 .. l - 1, i < j PROVE t[i] < t[j]
  <2>1. i + 1 < j + 1
    BY <1>6
  <2>2. s[i + 1] < s[j + 1]
    BY <1>3, <1>4, <2>1
  <2>3. QED
    BY <1>1, <2>2 DEF l, t
<1>7. QED
  BY <1>1, <1>2, <1>5, <1>6 DEF Rising, l, t

\* A list with one message more.
LEMMA RisingAppend ==
  ASSUME NEW s \in Seq(Nat), NEW a \in Nat, NEW b \in Nat, Rising(s, a, b)
  PROVE  /\ Append(s, b + 1) \in Seq(Nat) /\ Append(s, b + 1) # <<>>
         /\ Rising(Append(s, b + 1), a, b + 1)
         /\ s # <<>> => Head(Append(s, b + 1)) = Head(s)
<1> DEFINE l == Len(s)
           t == Append(s, b + 1)
<1>1. /\ t \in Seq(Nat) /\ Len(t) = l + 1 /\ l \in Nat /\ t[l + 1] = b + 1
      /\ \A i \in 1 .. l : t[i] = s[i] /\ s[i] \in Nat
  BY AppendProperties, LenProperties
<1>2. t # <<>>
  BY <1>1, EmptySeq
<1>3. \A i \in 1 .. l : a < s[i] /\ s[i] <= b
  BY DEF Rising
<1>4. \A i, j \in 1 .. l : i < j => s[i] < s[j]
  BY DEF Rising
<1>5. s # <<>> => Head(t) = Head(s)
  <2>1. s # <<>> => 1 \in 1 .. l
    BY <1>1, EmptySeq
  <2>2. Head(t) = t[1] /\ Head(s) = s[1]
    OBVIOUS
  <2>3. QED
    BY <1>1, <2>1, <2>2
<1> HIDE DEF l, t
<1>6. \A i \in 1 .. l + 1 : i \in 1 .. l \/ i = l + 1
  BY <1>1
<1>7. \A i \in 1 .. l + 1 : a < t[i] /\ t[i] <= b + 1
  <2> TAKE i \in 1 .. l + 1
  <2>1. a <= b
    BY DEF Rising
  <2>2. CASE i \in 1 .. l
    <3>1. t[i] = s[i] /\ s[i] \in Nat /\ a < s[i] /\ s[i] <= b
      BY <1>1, <1>3, <2>2
    <3>2. QED
      BY <3>1
  <2>3. CASE i = l + 1
    BY <1>1, <2>1, <2>3
  <2>4. QED
    BY <1>6, <2>2, <2>3
<1>8. ASSUME NEW i \in 1 .. l + 1, NEW j \in 1 .. l + 1, i < j PROVE t[i] < t[j]
  <2>1. i \in 1 .. l
    BY <1>1, <1>8
  <2>2. CASE j \in 1 .. l
    BY <1>1, <1>4, <1>8, <2>1, <2>2
  <2>3. CASE j = l + 1
    BY <1>1, <1>3, <2>1, <2>3
  <2>4. QED
    BY <1>6, <2>2, <2>3
<1>9. Rising(t, a, b + 1)
  <2>1. a <= b + 1
    BY DEF Rising
  <2>2. QED
    BY <1>1, <1>7, <1>8, <2>1 DEF Rising
<1>10. QED
  BY <1>1, <1>2, <1>5, <1>9 DEF t

\* The steps that leave the transmit devices alone.
LEMMA TxSame ==
  ASSUME TxInv, TxTypes', TxPlaceInv', UNCHANGED <<air, sent, enabled, thread>>,
         \A m \in TxBox : queue'[m] = queue[m] /\ count'[m] = count[m] /\ seen'[m] = seen[m],
         \A m \in TxBox : m \in flag' => m \in flag,
         isr'.pc \notin TxWork \/ isr' = isr
  PROVE  TxInv'
<1>1. WaitInv'
  BY DEF TxInv, WaitInv
<1>2. \A m \in TxBox : Handles(m)' => Handles(m) /\ isr' = isr
  BY DEF Handles
<1>3. TokenInv'
  BY <1>2 DEF TxInv, TokenInv
<1>4. FrontInv'
  BY <1>2 DEF TxInv, FrontInv, At
<1>5. QED
  BY <1>1, <1>3, <1>4 DEF TxInv

\* The receive side: frames that come or are read, and the receive branch of the handler.
LEMMA RxSideTx ==
  ASSUME TxInv, (\E m \in RxBox : Arrive(m) \/ Read(m)) \/ IsrRxCopy \/ IsrRxClear \/ IsrRxEnqueue
  PROVE  TxInv'
<1>1. TxTypes /\ TxPlaceInv
  BY DEF TxInv
<1>2. \A m \in RxBox : m \in Box /\ m \in Nat /\ m \notin TxBox
  BY BoxAssumption DEF Box
<1>3. ASSUME NEW m \in RxBox, Arrive(m) PROVE TxInv'
  <2>1. /\ count' = [count EXCEPT ![m] = count[m] + 1] /\ flag' = flag \cup {m}
        /\ fresh' = fresh \cup {m} /\ UNCHANGED <<air, sent, queue, seen, enabled, isr, thread>>
    BY <1>3 DEF Arrive, Raise, libVars, isrVars
  <2>2. TxTypes'
    BY <1>1, <1>2, <2>1 DEF TxTypes
  <2>3. TxPlaceInv'
    BY <1>1, <1>2, <2>1 DEF TxPlaceInv, At, TxPlaces
  <2>4. \A n \in TxBox : count'[n] = count[n] /\ (n \in flag' => n \in flag)
    BY <1>1, <1>2, <2>1 DEF TxTypes, Box
  <2>5. QED
    BY <2>1, <2>2, <2>3, <2>4, TxSame
<1>4. ASSUME NEW m \in RxBox, Read(m) PROVE TxInv'
  <2>1. /\ queue' = [queue EXCEPT ![m] = Tail(queue[m])] /\ queue[m] # <<>>
        /\ UNCHANGED <<flag, fresh, count, air, sent, seen, enabled, isr, thread>>
    BY <1>4 DEF Read, hwVars, isrVars
  <2>2. Tail(queue[m]) \in Seq(Nat)
    BY <1>1, <1>2, <2>1 DEF TxTypes
  <2>3. TxTypes'
    BY <1>1, <2>1, <2>2 DEF TxTypes
  <2>4. TxPlaceInv'
    BY <1>1, <2>1 DEF TxPlaceInv, At
  <2>5. \A n \in TxBox : queue'[n] = queue[n]
    BY <1>1, <1>2, <2>1 DEF TxTypes, Box
  <2>6. QED
    BY <2>1, <2>3, <2>4, <2>5, TxSame
<1>5. CASE IsrRxCopy
  <2>1. /\ seen' = [seen EXCEPT ![isr.box] = count[isr.box]] /\ isr.pc = "rx"
        /\ \/ isr' = [isr EXCEPT !.pc = "rx_clear", !.msg = count[isr.box]]
           \/ GoOn("notify")
        /\ UNCHANGED <<flag, fresh, count, air, sent, queue, enabled, thread>>
    BY <1>5 DEF IsrRxCopy, GoOn, hwVars, At
  <2>2. isr.box \in RxBox /\ count[isr.box] \in Nat
    BY <1>1, <1>2, <2>1 DEF TxTypes, TxPlaceInv, RxPlaces
  <2>3. TxTypes' /\ (isr'.pc = "notify" \/ (isr'.pc = "rx_clear" /\ isr'.box = isr.box))
    <3>1. seen' \in [Box -> Nat]
      BY <1>1, <2>1, <2>2 DEF TxTypes
    <3>2. CASE isr' = [isr EXCEPT !.pc = "rx_clear", !.msg = count[isr.box]]
      BY <1>1, <2>1, <2>2, <3>1, <3>2 DEF TxTypes, RxPlaces
    <3>3. CASE GoOn("notify")
      <4>1. isr.src \in SUBSET Box
        BY <1>1 DEF TxTypes
      <4>2. QED
        BY <1>1, <2>1, <3>1, <3>3, <4>1, GoOnType DEF TxTypes
    <3>4. QED
      BY <2>1, <3>2, <3>3
  <2>4. TxPlaceInv'
    BY <2>2, <2>3 DEF TxPlaceInv, At, RxPlaces, TxPlaces
  <2>5. \A n \in TxBox : seen'[n] = seen[n]
    BY <1>1, <1>2, <2>1, <2>2 DEF TxTypes, Box
  <2>6. QED
    BY <2>1, <2>3, <2>4, <2>5, TxSame DEF TxWork
<1>6. CASE IsrRxClear
  <2>1. /\ isr.pc = "rx_clear" /\ isr' = [isr EXCEPT !.pc = "rx_enqueue"] /\ flag' \subseteq flag
        /\ UNCHANGED <<fresh, count, air, sent, queue, seen, enabled, thread>>
    BY <1>6, FlagsShrink DEF IsrRxClear, libVars, At, GoTo
  <2>2. TxTypes' /\ isr'.pc = "rx_enqueue" /\ isr'.box = isr.box
    BY <1>1, <2>1 DEF TxTypes, RxPlaces
  <2>3. TxPlaceInv'
    BY <1>1, <2>1, <2>2 DEF TxPlaceInv, At, RxPlaces, TxPlaces
  <2>4. QED
    BY <2>1, <2>2, <2>3, TxSame DEF TxWork
<1>7. CASE IsrRxEnqueue
  <2>1. /\ isr.pc = "rx_enqueue" /\ GoOn("notify")
        /\ queue' = [queue EXCEPT ![isr.box] = Append(queue[isr.box], isr.msg)]
        /\ UNCHANGED <<flag, fresh, count, air, sent, seen, enabled, thread>>
    BY <1>7 DEF IsrRxEnqueue, hwVars, At, GoTo
  <2>2. isr.box \in RxBox /\ Append(queue[isr.box], isr.msg) \in Seq(Nat)
    BY <1>1, <1>2, <2>1 DEF TxTypes, TxPlaceInv, RxPlaces
  <2>3. TxTypes' /\ isr'.pc = "notify"
    <3>1. isr.src \in SUBSET Box
      BY <1>1 DEF TxTypes
    <3>2. queue' \in [Box -> Seq(Nat)]
      BY <1>1, <2>1, <2>2 DEF TxTypes
    <3>3. QED
      BY <1>1, <2>1, <3>1, <3>2, GoOnType DEF TxTypes
  <2>4. TxPlaceInv'
    BY <2>3 DEF TxPlaceInv, At, RxPlaces, TxPlaces
  <2>5. \A n \in TxBox : queue'[n] = queue[n]
    BY <1>1, <1>2, <2>1, <2>2 DEF TxTypes, Box
  <2>6. QED
    BY <2>1, <2>3, <2>4, <2>5, TxSame DEF TxWork
<1>8. QED
  BY <1>3, <1>4, <1>5, <1>6, <1>7

\* The ways through the handler, and the flags it clears at the end of its loop.
LEMMA PassTx ==
  ASSUME TxInv, IsrEnter \/ IsrTop \/ IsrNotify \/ IsrClear
  PROVE  TxInv'
<1>1. TxTypes /\ flag' \subseteq flag /\ UNCHANGED <<count, air, sent, queue, seen, enabled, thread>>
  BY FlagsShrink DEF TxInv, IsrEnter, IsrTop, IsrNotify, IsrClear, hwVars, libVars
<1>2. \/ isr' = Off
      \/ isr' = [Off EXCEPT !.pc = "top"]
      \/ \E l \in {"top", "clear"} : isr' = [isr EXCEPT !.pc = l]
      \/ flag # {} /\ flag' = flag /\ isr' = [isr EXCEPT !.pc = "which", !.src = flag]
  BY DEF IsrEnter, IsrTop, IsrNotify, IsrClear, At, GoTo
<1> DEFINE Past == [pc : {"off", "top", "which", "clear"}, src : SUBSET Box,
                    rx : SUBSET RxBox, box : Nat, msg : Nat]
<1>3. isr' \in Past /\ (isr'.pc = "which" => flag' # {} /\ isr'.src = flag')
  <2>1. CASE isr' = Off \/ isr' = [Off EXCEPT !.pc = "top"]
    BY <2>1 DEF Off
  <2>2. ASSUME NEW l \in {"top", "clear"}, isr' = [isr EXCEPT !.pc = l]
        PROVE  isr' \in Past /\ isr'.pc # "which"
    BY <1>1, <2>2 DEF TxTypes
  <2>3. CASE flag # {} /\ flag' = flag /\ isr' = [isr EXCEPT !.pc = "which", !.src = flag]
    BY <1>1, <2>3 DEF TxTypes
  <2>4. QED
    BY <1>2, <2>1, <2>2, <2>3
<1>4. TxTypes'
  BY <1>1, <1>3 DEF TxTypes
<1>5. TxPlaceInv'
  BY <1>3 DEF TxPlaceInv, At, RxPlaces, TxPlaces
<1>6. isr'.pc \notin TxWork
  BY <1>3 DEF TxWork
<1>7. QED
  BY <1>1, <1>4, <1>5, <1>6, TxSame

\* If the reads agree the transmit mailbox that is served is one of those read first, whose
\* flags are cleared.
LEMMA WhichTx == ASSUME agreed', TxInv, IsrWhich PROVE TxInv'
<1> DEFINE rx == flag \cap RxBox
<1>1. /\ TxTypes /\ isr.pc = "which" /\ fresh' = {}
      /\ UNCHANGED <<flag, count, air, sent, queue, seen, enabled, thread>>
      /\ isr.src # {} /\ isr.src \subseteq flag
  BY DEF TxInv, TxPlaceInv, IsrWhich, libVars, At
<1>2. rx \in SUBSET Nat /\ flag \in SUBSET Nat /\ flag # {}
  BY <1>1, BoxAssumption DEF TxTypes, Box
<1>3. Lowest(flag) \in flag /\ (rx # {} => Lowest(rx) \in rx)
  BY <1>2, LowestIn
<1>4. isr' = IF rx # {} THEN [isr EXCEPT !.pc = "rx", !.rx = rx, !.box = Lowest(rx)]
             ELSE [isr EXCEPT !.pc = "tx", !.box = Lowest(flag)]
  BY DEF IsrWhich
<1> HIDE DEF rx
<1>5. CASE rx # {}
  <2>1. isr' = [isr EXCEPT !.pc = "rx", !.rx = rx, !.box = Lowest(rx)]
    BY <1>4, <1>5
  <2>2. rx \subseteq RxBox
    BY DEF rx
  <2>3. Lowest(rx) \in RxBox /\ Lowest(rx) \in Nat
    BY <1>2, <1>3, <1>5, <2>2
  <2>4. TxTypes' /\ isr'.pc = "rx" /\ isr'.box \in RxBox
    BY <1>1, <2>1, <2>2, <2>3 DEF TxTypes, RxPlaces
  <2>5. TxPlaceInv'
    BY <2>4 DEF TxPlaceInv, At, RxPlaces, TxPlaces
  <2>6. QED
    BY <1>1, <2>4, <2>5, TxSame DEF TxWork
<1>6. CASE rx = {}
  <2>1. isr' = [isr EXCEPT !.pc = "tx", !.box = Lowest(flag)]
    BY <1>4, <1>6
  <2>2. \A m \in flag : m \in TxBox
    BY <1>1, <1>6 DEF rx, TxTypes, Box
  <2>3. Lowest(flag) \in TxBox /\ Lowest(flag) \in Nat /\ Lowest(flag) \in isr.src
    BY <1>2, <1>3, <1>6, <2>2 DEF IsrWhich, rx
  <2>4. TxTypes' /\ isr'.pc = "tx" /\ isr'.box = Lowest(flag) /\ isr'.src = isr.src
    BY <1>1, <2>1, <2>3 DEF TxTypes, TxPlaces
  <2>5. TxPlaceInv'
    BY <1>1, <1>3, <2>3, <2>4 DEF TxPlaceInv, At, RxPlaces
  <2>6. QED
    BY <1>1, <2>4, <2>5, TxSame DEF TxWork
<1>7. QED
  BY <1>5, <1>6

\* The flag goes to the handler with the transmission.
LEMMA ClearTx == ASSUME TxInv, IsrTxClear PROVE TxInv'
<1> DEFINE b == isr.box
<1>1. /\ TxTypes /\ isr.pc = "tx" /\ isr' = [isr EXCEPT !.pc = "tx_ack"]
      /\ flag' = FlagsAfter(isr.src \cap TxBox)
      /\ UNCHANGED <<fresh, count, air, sent, queue, seen, enabled, thread>>
  BY DEF TxInv, IsrTxClear, libVars, At, GoTo
<1>2. b \in TxBox /\ b \in isr.src /\ b \in flag /\ b \notin fresh
  BY <1>1 DEF TxInv, TxPlaceInv, At, TxPlaces
<1>3. b \notin flag' /\ flag' \subseteq flag
  BY <1>1, <1>2 DEF FlagsAfter
<1>4. TxTypes' /\ isr'.pc = "tx_ack" /\ isr'.box = b
  BY <1>1, <1>3 DEF TxTypes, TxPlaces
<1>5. TxPlaceInv'
  BY <1>2, <1>4 DEF TxPlaceInv, At, RxPlaces
<1>6. \A m \in TxBox : ~Handles(m) /\ (Handles(m)' <=> m = b)
  BY <1>1, <1>4 DEF Handles, TxWork
<1>7. WaitInv'
  BY <1>1 DEF TxInv, WaitInv
<1>8. TokenInv'
  BY <1>1, <1>2, <1>3, <1>6 DEF TxInv, TokenInv
<1>9. FrontInv'
  BY <1>1, <1>2, <1>3, <1>4, <1>6 DEF TxInv, FrontInv, At
<1>10. QED
  BY <1>4, <1>5, <1>7, <1>8, <1>9 DEF TxInv

\* The message that was sent is acknowledged, and the next in the list is taken.
LEMMA AckTx == ASSUME TxInv, IsrTxAck PROVE TxInv'
<1> DEFINE b == isr.box
           s == queue[b]
<1>1. TxTypes /\ isr.pc = "tx_ack" /\ UNCHANGED <<flag, fresh, count, air, sent, enabled, thread>>
  BY DEF TxInv, IsrTxAck, hwVars, At
<1>2. b \in TxBox /\ b \in Box /\ Handles(b)
  BY <1>1 DEF TxInv, TxPlaceInv, TxPlaces, Box, Handles, TxWork
<1>3. s \in Seq(Nat) /\ s # <<>> /\ sent[b] = Head(s) /\ seen[b] \in Nat /\ count[b] \in Nat
      /\ Rising(s, seen[b], count[b])
  BY <1>1, <1>2 DEF TxInv, TxTypes, FrontInv, WaitInv, At
<1>4. /\ queue' = [queue EXCEPT ![b] = Tail(s)] /\ seen' = [seen EXCEPT ![b] = Head(s)]
      /\ \/ Len(s) = 1 /\ isr' = [isr EXCEPT !.pc = "tx_end"]
         \/ Len(s) # 1 /\ isr' = [isr EXCEPT !.pc = "tx_next", !.msg = s[2]]
  BY <1>3 DEF IsrTxAck, GoTo
<1> HIDE DEF s
<1>5. /\ Head(s) \in Nat /\ Tail(s) \in Seq(Nat) /\ Rising(Tail(s), Head(s), count[b])
  BY <1>3, RisingTail
<1>6. Len(s) # 1 => s[2] \in Nat /\ Tail(s) # <<>> /\ Head(Tail(s)) = s[2]
  <2>1. /\ Len(s) \in Nat \ {0} /\ Len(Tail(s)) = Len(s) - 1
        /\ \A i \in 1 .. Len(s) - 1 : Tail(s)[i] = s[i + 1]
    BY <1>3, EmptySeq, LenProperties, HeadTailProperties
  <2>2. Len(s) # 1 => 1 \in 1 .. Len(s) - 1 /\ 2 \in 1 .. Len(s)
    BY <2>1
  <2>3. Len(s) # 1 => Tail(s)[1] = s[2] /\ s[2] \in Nat
    BY <1>3, <2>1, <2>2
  <2>4. Len(s) # 1 => Tail(s) # <<>>
    <3>1. Len(s) # 1 => Len(Tail(s)) # 0
      BY <2>1
    <3>2. QED
      BY <3>1
  <2>5. QED
    BY <2>3, <2>4
<1>7. TxTypes' /\ isr'.pc \in {"tx_end", "tx_next"} /\ isr'.box = b
      /\ (isr'.pc = "tx_next" => isr'.msg = s[2] /\ Len(s) # 1)
  <2>1. isr'.pc \in {"tx_end", "tx_next"} /\ isr'.box = b
        /\ (isr'.pc = "tx_next" => isr'.msg = s[2] /\ Len(s) # 1)
        /\ isr' \in [pc : TxPlaces, src : SUBSET Box, rx : SUBSET RxBox, box : Nat, msg : Nat]
    BY <1>1, <1>4, <1>6 DEF TxTypes, TxPlaces
  <2>2. queue' \in [Box -> Seq(Nat)] /\ seen' \in [Box -> Nat]
    BY <1>1, <1>2, <1>4, <1>5 DEF TxTypes
  <2>3. QED
    BY <1>1, <2>1, <2>2 DEF TxTypes
<1>8. TxPlaceInv'
  BY <1>2, <1>7 DEF TxPlaceInv, At, RxPlaces
<1>9. /\ queue'[b] = Tail(s) /\ seen'[b] = Head(s)
      /\ \A m \in TxBox \ {b} : queue'[m] = queue[m] /\ seen'[m] = seen[m]
  BY <1>1, <1>2, <1>4 DEF TxTypes, Box
<1>10. \A m \in TxBox : Handles(m)' <=> Handles(m)
  BY <1>1, <1>7 DEF Handles, TxWork
<1>11. WaitInv'
  <2>1. Rising(queue'[b], seen'[b], count'[b]) /\ seen'[b] <= sent'[b]
    BY <1>1, <1>3, <1>5, <1>9
  <2>2. QED
    BY <1>1, <1>9, <2>1 DEF TxInv, WaitInv
<1>12. TokenInv'
  BY <1>1, <1>10 DEF TxInv, TokenInv
<1>13. FrontInv'
  <2>1. ASSUME NEW m \in TxBox, m # b PROVE ~Handles(m) /\ ~Handles(m)' /\ queue'[m] = queue[m]
    BY <1>9, <1>10, <2>1 DEF Handles
  <2>2. air[b] = 0 /\ b \notin flag /\ thread[b].pc \notin {"set", "send"}
    BY <1>2 DEF TxInv, TokenInv
  <2>3. At("tx_next")' => queue'[b] # <<>> /\ isr'.msg = Head(queue'[b])
    BY <1>6, <1>7, <1>9 DEF At
  <2>4. ~At("tx_ack")'
    BY <1>7 DEF At
  <2>5. QED
    BY <1>1, <2>1, <2>2, <2>3, <2>4 DEF TxInv, FrontInv
<1>14. QED
  BY <1>7, <1>8, <1>11, <1>12, <1>13 DEF TxInv

\* The next message goes on the air, or the transmission ends.
LEMMA NextTx ==
  ASSUME TxInv, IsrTxNext \/ IsrTxEnd
  PROVE  TxInv' /\ \A m \in TxBox : air'[m] = air[m] \/ air[m] = 0
<1> DEFINE b == isr.box
<1>1. /\ TxTypes /\ isr.pc \in {"tx_next", "tx_end"} /\ GoOn("notify")
      /\ UNCHANGED <<flag, fresh, count, sent, queue, seen, thread>>
  <2>1. CASE IsrTxNext
    BY <2>1 DEF TxInv, IsrTxNext, libVars, At
  <2>2. CASE IsrTxEnd
    BY <2>2 DEF TxInv, IsrTxEnd, hwVars, At
  <2>3. QED
    BY <2>1, <2>2
<1>2. b \in TxBox /\ Handles(b)
  BY <1>1 DEF TxInv, TxPlaceInv, TxPlaces, Handles, TxWork
<1>3. air[b] = 0 /\ b \notin flag /\ thread[b].pc # "send" /\ enabled[b] /\ thread[b].pc # "set"
  BY <1>2 DEF TxInv, TokenInv
<1>4. isr'.pc = "notify"
      /\ isr' \in [pc : {"notify"}, src : SUBSET Box, rx : SUBSET RxBox, box : Nat, msg : Nat]
  <2>1. isr.src \in SUBSET Box
    BY <1>1 DEF TxTypes
  <2>2. QED
    BY <1>1, <2>1, GoOnType
<1>5. \A m \in TxBox : ~Handles(m)' /\ (m # b => ~Handles(m))
  BY <1>4 DEF Handles, TxWork
<1>6. \/ /\ isr.pc = "tx_next" /\ air' = [air EXCEPT ![b] = isr.msg] /\ enabled' = enabled
         /\ queue[b] # <<>> /\ isr.msg = Head(queue[b])
      \/ air' = air /\ enabled' = [enabled EXCEPT ![b] = FALSE]
  <2>1. CASE IsrTxNext
    BY <1>2, <2>1 DEF IsrTxNext, At, libVars, TxInv, FrontInv
  <2>2. CASE IsrTxEnd
    BY <2>2 DEF IsrTxEnd, hwVars
  <2>3. QED
    BY <2>1, <2>2
<1>7. TxTypes'
  <2>1. air' \in [TxBox -> Nat] /\ enabled' \in [TxBox -> BOOLEAN]
    BY <1>1, <1>6 DEF TxTypes
  <2>2. QED
    BY <1>1, <1>4, <2>1 DEF TxTypes
<1>8. TxPlaceInv'
  BY <1>4 DEF TxPlaceInv, At, RxPlaces, TxPlaces
<1>9. WaitInv'
  BY <1>1 DEF TxInv, WaitInv
<1>10. \A m \in TxBox \ {b} : air'[m] = air[m] /\ enabled'[m] = enabled[m]
  BY <1>1, <1>6 DEF TxTypes
<1>11. \/ air'[b] = isr.msg /\ enabled'[b] /\ queue[b] # <<>> /\ isr.msg = Head(queue[b])
       \/ air'[b] = 0 /\ ~enabled'[b]
  BY <1>1, <1>2, <1>3, <1>6 DEF TxTypes
<1>12. TokenInv'
  BY <1>1, <1>2, <1>3, <1>5, <1>10, <1>11 DEF TxInv, TokenInv
<1>13. FrontInv'
  BY <1>1, <1>2, <1>3, <1>5, <1>10, <1>11 DEF TxInv, FrontInv
<1>14. QED
  BY <1>3, <1>7, <1>8, <1>9, <1>10, <1>12, <1>13 DEF TxInv

\* The controller has sent the message: the flag is set.
LEMMA SentTx == ASSUME TxInv, NEW b \in TxBox, Transmitted(b) PROVE TxInv'
<1>1. /\ TxTypes /\ air[b] # 0 /\ sent' = [sent EXCEPT ![b] = air[b]] /\ air' = [air EXCEPT ![b] = 0]
      /\ flag' = flag \cup {b} /\ fresh' = fresh \cup {b}
      /\ UNCHANGED <<count, queue, seen, enabled, isr, thread>>
  BY DEF TxInv, Transmitted, Raise, libVars, isrVars
<1>2. /\ b \notin flag /\ ~Handles(b) /\ thread[b].pc # "send" /\ enabled[b]
      /\ queue[b] # <<>> /\ air[b] = Head(queue[b])
  BY <1>1 DEF TxInv, TokenInv, FrontInv
<1>3. b \in Box /\ seen[b] \in Nat /\ count[b] \in Nat /\ queue[b] \in Seq(Nat)
      /\ Rising(queue[b], seen[b], count[b])
  BY <1>1 DEF TxInv, TxTypes, WaitInv, Box
<1>4. seen[b] < Head(queue[b]) /\ Head(queue[b]) \in Nat
  BY <1>2, <1>3, RisingTail
<1>5. TxTypes'
  BY <1>1, <1>3 DEF TxTypes
<1>6. TxPlaceInv'
  BY <1>1, <1>2 DEF TxInv, TxPlaceInv, At
<1>7. /\ sent'[b] = Head(queue[b]) /\ air'[b] = 0
      /\ \A m \in TxBox \ {b} : sent'[m] = sent[m] /\ air'[m] = air[m]
  BY <1>1, <1>2 DEF TxTypes
<1>8. WaitInv'
  BY <1>1, <1>3, <1>4, <1>7 DEF TxInv, WaitInv
<1>9. \A m \in TxBox : Handles(m)' <=> Handles(m)
  BY <1>1 DEF Handles
<1>10. TokenInv'
  BY <1>1, <1>2, <1>7, <1>9 DEF TxInv, TokenInv
<1>11. FrontInv'
  BY <1>1, <1>2, <1>7, <1>9 DEF TxInv, FrontInv, At
<1>12. QED
  BY <1>5, <1>6, <1>8, <1>10, <1>11 DEF TxInv

\* A message is put behind the others (libcan), and can_drvr_transmit is called.
LEMMA WriteTx == ASSUME TxInv, NEW b \in TxBox, Write(b) PROVE TxInv'
<1> DEFINE s == queue[b]
           n == count[b]
<1>1. /\ TxTypes /\ thread[b].pc = "idle"
      /\ count' = [count EXCEPT ![b] = n + 1] /\ queue' = [queue EXCEPT ![b] = Append(s, n + 1)]
      /\ thread' = [thread EXCEPT ![b].pc = "check"]
      /\ UNCHANGED <<flag, fresh, air, sent, seen, enabled, isr>>
  BY DEF TxInv, Write, isrVars
<1>2. b \in Box /\ s \in Seq(Nat) /\ n \in Nat /\ seen[b] \in Nat /\ Rising(s, seen[b], n)
  BY <1>1 DEF TxInv, TxTypes, WaitInv, Box
<1> HIDE DEF s, n
<1>3. /\ Append(s, n + 1) \in Seq(Nat) /\ Append(s, n + 1) # <<>>
      /\ Rising(Append(s, n + 1), seen[b], n + 1)
      /\ s # <<>> => Head(Append(s, n + 1)) = Head(s)
  BY <1>2, RisingAppend
<1>4. TxTypes'
  <2>1. n + 1 \in Nat
    BY <1>2
  <2>2. count' \in [Box -> Nat] /\ queue' \in [Box -> Seq(Nat)]
    BY <1>1, <1>3, <2>1 DEF TxTypes
  <2>3. thread' \in [TxBox -> [pc : {"idle", "check", "set", "send"}, msg : Nat]]
    BY <1>1 DEF TxTypes
  <2>4. QED
    BY <1>1, <2>2, <2>3 DEF TxTypes
<1>5. TxPlaceInv'
  BY <1>1 DEF TxInv, TxPlaceInv, At
<1>6. /\ queue'[b] = Append(s, n + 1) /\ count'[b] = n + 1 /\ thread'[b].pc = "check"
      /\ \A m \in TxBox \ {b} : queue'[m] = queue[m] /\ count'[m] = count[m] /\ thread'[m] = thread[m]
  BY <1>1, <1>2 DEF TxTypes, Box
<1>7. WaitInv'
  BY <1>1, <1>3, <1>6 DEF TxInv, WaitInv
<1>8. \A m \in TxBox : Handles(m)' <=> Handles(m)
  BY <1>1 DEF Handles
<1>9. TokenInv'
  BY <1>1, <1>6, <1>8 DEF TxInv, TokenInv
<1>10. FrontInv'
  BY <1>1, <1>3, <1>6, <1>8 DEF TxInv, FrontInv, At, s
<1>11. QED
  BY <1>4, <1>5, <1>7, <1>9, <1>10 DEF TxInv

\* can_drvr_transmit starts a transmission if none is enabled: nobody else enables one.
LEMMA ThreadTx ==
  ASSUME TxInv, NEW b \in TxBox, Transmit(b)
  PROVE  TxInv' /\ \A m \in TxBox : air'[m] = air[m] \/ air[m] = 0
<1>1. TxTypes /\ UNCHANGED <<flag, fresh, count, sent, queue, seen, isr>>
  BY DEF TxInv, Transmit, TransmitCheck, TransmitSet, TransmitSend, hwVars, libVars, isrVars
<1>2. thread[b] \in [pc : {"idle", "check", "set", "send"}, msg : Nat] /\ queue[b] \in Seq(Nat)
  BY <1>1 DEF TxTypes, Box
<1>3. TxPlaceInv' /\ WaitInv'
  BY <1>1 DEF TxInv, TxPlaceInv, WaitInv, At
<1>4. \A m \in TxBox : Handles(m)' <=> Handles(m)
  BY <1>1 DEF Handles
<1>5. CASE TransmitCheck(b)
  <2>1. /\ thread[b].pc = "check" /\ UNCHANGED <<air, enabled>>
        /\ \/ thread' = [thread EXCEPT ![b] = Rest]
           \/ /\ ~enabled[b] /\ queue[b] # <<>>
              /\ thread' = [thread EXCEPT ![b] = [pc |-> "set", msg |-> Head(queue[b])]]
    BY <1>5 DEF TransmitCheck, hwVars, libVars
  <2>2. /\ \A m \in TxBox \ {b} : thread'[m] = thread[m]
        /\ \/ thread'[b].pc = "idle"
           \/ ~enabled[b] /\ queue[b] # <<>> /\ thread'[b].pc = "set" /\ thread'[b].msg = Head(queue[b])
    BY <1>1, <2>1 DEF TxTypes, Rest
  <2>3. TxTypes'
    <3>1. queue[b] # <<>> => Head(queue[b]) \in Nat
      BY <1>2
    <3> DEFINE T == [pc : {"idle", "check", "set", "send"}, msg : Nat]
    <3>2. Rest \in T /\ (queue[b] # <<>> => [pc |-> "set", msg |-> Head(queue[b])] \in T)
      BY <3>1 DEF Rest
    <3>3. thread \in [TxBox -> T]
      BY <1>1 DEF TxTypes
    <3>4. thread' \in [TxBox -> T]
      <4> HIDE DEF T
      <4>1. QED
        BY <2>1, <3>2, <3>3
    <3>5. QED
      BY <1>1, <2>1, <3>4 DEF TxTypes
  <2>4. TokenInv'
    BY <1>1, <1>4, <2>1, <2>2 DEF TxInv, TokenInv
  <2>5. FrontInv'
    BY <1>1, <1>4, <2>1, <2>2 DEF TxInv, FrontInv, At
  <2>6. QED
    BY <1>3, <2>1, <2>3, <2>4, <2>5 DEF TxInv
<1>6. CASE TransmitSet(b)
  <2>1. /\ thread[b].pc = "set" /\ enabled' = [enabled EXCEPT ![b] = TRUE] /\ air' = air
        /\ thread' = [thread EXCEPT ![b].pc = "send"]
    BY <1>6 DEF TransmitSet, hwVars
  <2>2. /\ \A m \in TxBox \ {b} : thread'[m] = thread[m] /\ enabled'[m] = enabled[m]
        /\ thread'[b].pc = "send" /\ thread'[b].msg = thread[b].msg /\ enabled'[b]
    BY <1>1, <1>2, <2>1 DEF TxTypes
  <2>3. TxTypes'
    BY <1>1, <1>2, <2>1 DEF TxTypes
  <2>4. ~enabled[b] /\ air[b] = 0 /\ b \notin flag /\ ~Handles(b)
    BY <2>1 DEF TxInv, TokenInv
  <2>5. TokenInv'
    BY <1>1, <1>4, <2>1, <2>2, <2>4 DEF TxInv, TokenInv
  <2>6. FrontInv'
    BY <1>1, <1>4, <2>1, <2>2 DEF TxInv, FrontInv, At
  <2>7. QED
    BY <1>3, <2>1, <2>3, <2>5, <2>6 DEF TxInv
<1>7. CASE TransmitSend(b)
  <2>1. /\ thread[b].pc = "send" /\ air' = [air EXCEPT ![b] = thread[b].msg] /\ enabled' = enabled
        /\ thread' = [thread EXCEPT ![b] = Rest]
    BY <1>7 DEF TransmitSend, libVars
  <2>2. /\ \A m \in TxBox \ {b} : thread'[m] = thread[m] /\ air'[m] = air[m]
        /\ thread'[b].pc = "idle" /\ air'[b] = thread[b].msg
    BY <1>1, <1>2, <2>1 DEF TxTypes, Rest
  <2>3. TxTypes'
    BY <1>1, <1>2, <2>1 DEF TxTypes, Rest
  <2>4. enabled[b] /\ air[b] = 0 /\ b \notin flag /\ ~Handles(b) /\ queue[b] # <<>>
        /\ thread[b].msg = Head(queue[b])
    BY <2>1 DEF TxInv, TokenInv, FrontInv
  <2>5. TokenInv'
    BY <1>1, <1>4, <2>1, <2>2, <2>4 DEF TxInv, TokenInv
  <2>6. FrontInv'
    BY <1>1, <1>4, <2>1, <2>2, <2>4 DEF TxInv, FrontInv, At
  <2>7. QED
    BY <1>3, <2>2, <2>3, <2>4, <2>5, <2>6 DEF TxInv
<1>8. QED
  BY <1>5, <1>6, <1>7 DEF Transmit

\* As long as the reads of the flags agree.
AgreedInv == agreed => TxInv

LEMMA TxStep == AgreedInv /\ [Next]_vars => AgreedInv'
<1> SUFFICES ASSUME AgreedInv, [Next]_vars, agreed' PROVE TxInv'
  BY DEF AgreedInv
<1>1. agreed
  <2>1. CASE IsrWhich
    BY <2>1 DEF IsrWhich
  <2>2. CASE agreed' = agreed
    BY <2>2
  <2>3. QED
    BY <2>1, <2>2
       DEF Next, Handler, HandlerRuns, Arrive, Read, Transmitted, Write, Transmit, TransmitCheck,
           TransmitSet, TransmitSend, IsrEnter, IsrTop, IsrRxCopy, IsrRxClear, IsrRxEnqueue,
           IsrTxClear, IsrTxAck, IsrTxNext, IsrTxEnd, IsrNotify, IsrClear, vars, isrVars
<1>2. TxInv
  BY <1>1 DEF AgreedInv
<1>3. CASE UNCHANGED vars
  BY <1>2, <1>3 DEF vars, hwVars, libVars, isrVars, TxInv, TxTypes, TxPlaceInv, WaitInv, TokenInv,
              FrontInv, Handles, At
<1>4. QED
  BY <1>2, <1>3, RxSideTx, PassTx, WhichTx, ClearTx, AckTx, NextTx, SentTx, WriteTx, ThreadTx
     DEF Next, Handler, HandlerRuns

\* A message is acknowledged only when the controller has sent it, with any number of
\* mailboxes and whatever a write to the flags clears: as long as the reads agree, the flag
\* cleared is the flag handled (the transmit branch of can_intr).
THEOREM AckedAfterSent == Spec => []AckedWereSent
<1>1. Init => AgreedInv
  BY TxInit DEF AgreedInv
<1>2. AgreedInv /\ [Next]_vars => AgreedInv'
  BY TxStep
<1>3. AgreedInv => AckedWereSent
  BY DEF AgreedInv, TxInv, WaitInv, AckedWereSent
<1>4. QED
  BY <1>1, <1>2, <1>3, PTL DEF Spec

\* "Make sure transmit isn't already in progress": as long as the reads agree, neither the
\* thread nor the handler writes to a mailbox that is sending (can_drvr_transmit, can_intr).
THEOREM NeverOverwritten == Spec => TxNotOverwritten
<1> DEFINE Kept == \A m \in TxBox : air[m] # 0 => air'[m] \in {0, air[m]}
<1>1. Init => AgreedInv
  BY TxInit DEF AgreedInv
<1>2. AgreedInv /\ [Next]_vars => AgreedInv'
  BY TxStep
<1>3. AgreedInv /\ [Next]_vars => [agreed => Kept]_vars
  <2> SUFFICES ASSUME TxInv, Next PROVE Kept
    BY DEF AgreedInv
  <2>1. CASE \E m \in TxBox : Transmitted(m)
    BY <2>1 DEF Transmitted, TxInv, TxTypes
  <2>2. CASE IsrTxNext \/ IsrTxEnd \/ \E m \in TxBox : Transmit(m)
    BY <2>2, NextTx, ThreadTx
  <2>3. CASE air' = air
    BY <2>3
  <2>4. QED
    BY <2>1, <2>2, <2>3
       DEF Next, Handler, HandlerRuns, Arrive, Read, Write, IsrEnter, IsrTop, IsrWhich, IsrRxCopy,
           IsrRxClear, IsrRxEnqueue, IsrTxClear, IsrTxAck, IsrNotify, IsrClear, hwVars, libVars
<1>4. QED
  BY <1>1, <1>2, <1>3, PTL DEF Spec, TxNotOverwritten
===============================================================================
