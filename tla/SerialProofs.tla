----------------------------- MODULE SerialProofs -----------------------------
(***************************************************************************)
(* Proofs about one port of the serial driver, for every size of transfer, *)
(* FIFO and input buffer and every number of bytes: output and input stay  *)
(* in order though two threads, the interrupt handler and the DMA channels *)
(* pass them on, and though a timeout may disable DMA at any time.         *)
(***************************************************************************)
EXTENDS Serial, SequenceTheorems, TLAPS

\* Every byte on its way, the oldest first.
All == wire \o fifo \o dma \o buf \o obuf

Increasing(s) == \A i, j \in 1 .. Len(s) : i < j => s[i] < s[j]

\* The bytes of the output are numbers, and neither buffer is over-full.
OutTypes ==
  /\ {wire, fifo, dma, buf, obuf} \subseteq Seq(Nat) /\ written \in Nat
  /\ Len(buf) <= XferSize /\ Len(fifo) <= FifoSize
  /\ {usedma, active, txPulse, gave} \subseteq BOOLEAN

\* The channel moves bytes only while a transfer is active, the buffer is filled only while
\* none is, and without DMA there are none of either (tto.c, mx53_tx_pulse_hdlr).
OwnInv ==
  /\ io = "filled" => usedma /\ ~active
  /\ io = "pio" => ~usedma
  /\ io = "busy" => usedma /\ buf = <<>>
  /\ dma # <<>> => active /\ ~txPulse
  /\ txPulse => active
  /\ active => usedma /\ buf = <<>>
  /\ ~usedma => buf = <<>>

\* The bytes are in the order they were written, and none is lost as long as DMA is not
\* given up.
SortInv ==
  /\ Increasing(All)
  /\ \A i \in 1 .. Len(All) : All[i] <= written
  /\ ~gave => Len(All) = written

OutInv == OutTypes /\ OwnInv /\ SortInv

\* A transfer of input that is not passed up yet is in the half the channel has left, or in
\* the one it has just filled; someone is to start the channel unless it runs.
InputTypes ==
  /\ {usedma, rdma, rxPulse, ipaged} \subseteq BOOLEAN /\ cur \in {0, 1}
  /\ half \in [{0, 1} -> Nat] /\ ibuf \in Seq(Nat) /\ up \in Nat /\ heard \in Nat
  /\ rxh \in {"away", "up"}

HalfInv ==
  /\ rdma => usedma /\ ~rxPulse
  /\ rxPulse => usedma /\ half[cur] = heard
  /\ ipaged /\ usedma => half[cur] = heard /\ ~rdma /\ ~rxPulse /\ rxh = "away"
  /\ rxh = "up" => half[1 - cur] = up + Len(ibuf) + 1
  /\ usedma => rdma \/ rxPulse \/ ipaged
  /\ usedma => up + Len(ibuf) = heard - (IF rxh = "up" THEN 1 ELSE 0) - (IF rdma THEN 0 ELSE 1)

InputInv == InputTypes /\ HalfInv /\ \A j \in 1 .. Len(ibuf) : ibuf[j] = up + j

-----------------------------------------------------------------------------
(* Sequences of bytes *)

LEMMA ConcatType ==
  ASSUME NEW a \in Seq(Nat), NEW b \in Seq(Nat)
  PROVE  a \o b \in Seq(Nat) /\ Len(a \o b) = Len(a) + Len(b) /\ Len(a) \in Nat /\ Len(b) \in Nat
  BY ConcatProperties, LenProperties

\* What stands before the parts that change stays as it is.
LEMMA Regroup ==
  ASSUME NEW a \in Seq(Nat), NEW b \in Seq(Nat), NEW c \in Seq(Nat)
  PROVE  (a \o b) \o c = a \o (b \o c) /\ a \o <<>> = a /\ <<>> \o a = a
  BY ConcatAssociative, ConcatEmptySeq

\* The first n bytes and the rest.
LEMMA Splits ==
  ASSUME NEW s \in Seq(Nat), NEW n \in 0 .. Len(s)
  PROVE  /\ SubSeq(s, 1, n) \in Seq(Nat) /\ From(s, n) \in Seq(Nat)
         /\ Len(SubSeq(s, 1, n)) = n
         /\ SubSeq(s, 1, n) \o From(s, n) = s
<1>1. Len(s) \in Nat /\ \A i \in 1 .. Len(s) : s[i] \in Nat
  BY LenProperties, ElementOfSeq
<1>2. SubSeq(s, 1, n) \in Seq(Nat) /\ Len(SubSeq(s, 1, n)) = n
  BY <1>1, SubSeqProperties
<1>3. SubSeq(s, n + 1, Len(s)) \in Seq(Nat)
  BY <1>1, SubSeqProperties
<1>4. SubSeq(s, 1, n) \o SubSeq(s, n + 1, Len(s)) = s
  <2>1. 1 \in 1 .. Len(s) + 1 /\ n \in 1 - 1 .. Len(s) /\ Len(s) \in n .. Len(s)
    BY <1>1
  <2>2. SubSeq(s, 1, n) \o SubSeq(s, n + 1, Len(s)) = SubSeq(s, 1, Len(s))
    BY <2>1, ConcatAdjacentSubSeq
  <2>3. QED
    BY <2>2, SubSeqFull
<1>5. QED
  BY <1>2, <1>3, <1>4 DEF From

\* A byte that is passed on is the first of one sequence and the last of the next.
LEMMA HeadMoves ==
  ASSUME NEW a \in Seq(Nat), NEW s \in Seq(Nat), s # <<>>
  PROVE  /\ Append(a, Head(s)) \in Seq(Nat) /\ Tail(s) \in Seq(Nat)
         /\ Append(a, Head(s)) \o Tail(s) = a \o s
         /\ Len(Append(a, Head(s))) = Len(a) + 1
<1>1. Head(s) \in Nat /\ Tail(s) \in Seq(Nat) /\ <<Head(s)>> \in Seq(Nat)
  BY HeadTailProperties
<1>2. Append(a, Head(s)) = a \o <<Head(s)>> /\ Len(Append(a, Head(s))) = Len(a) + 1
      /\ Append(a, Head(s)) \in Seq(Nat)
  BY <1>1, AppendIsConcat, AppendProperties
<1>3. <<Head(s)>> \o Tail(s) = s
  <2>1. Len(s) \in Nat \ {0}
    BY EmptySeq
  <2>2. s = SubSeq(s, 1, Len(s)) /\ Tail(s) = SubSeq(s, 2, Len(s))
    BY SubSeqFull, TailIsSubSeq
  <2>3. SubSeq(s, 1, Len(s)) = <<s[1]>> \o SubSeq(s, 1 + 1, Len(s))
    <3>1. 1 \in 1 .. Len(s) /\ Len(s) \in 1 .. Len(s)
      BY <2>1
    <3>2. QED
      BY <3>1, SubSeqRecursiveFirst
  <2>4. Head(s) = s[1]
    OBVIOUS
  <2>5. QED
    BY <2>2, <2>3, <2>4
<1>4. QED
  BY <1>1, <1>2, <1>3, Regroup

\* What is dropped from the middle leaves the rest in order.
LEMMA DropMiddle ==
  ASSUME NEW a \in Seq(Nat), NEW b \in Seq(Nat), NEW c \in Seq(Nat), NEW w \in Nat,
         Increasing((a \o b) \o c), \A i \in 1 .. Len((a \o b) \o c) : ((a \o b) \o c)[i] <= w
  PROVE  Increasing(a \o c) /\ \A i \in 1 .. Len(a \o c) : (a \o c)[i] <= w
<1> DEFINE long  == (a \o b) \o c
           short == a \o c
           from(i) == IF i <= Len(a) THEN i ELSE i + Len(b)
<1>1. /\ Len(a) \in Nat /\ Len(b) \in Nat /\ Len(c) \in Nat /\ a \o b \in Seq(Nat)
      /\ Len(a \o b) = Len(a) + Len(b)
      /\ Len(long) = Len(a) + Len(b) + Len(c) /\ Len(short) = Len(a) + Len(c)
  BY ConcatType
<1>2. \A i \in 1 .. Len(short) : from(i) \in 1 .. Len(long)
  BY <1>1
<1>3. \A i \in 1 .. Len(short) : short[i] = long[from(i)]
  <2> TAKE i \in 1 .. Len(short)
  <2>1. short[i] = IF i <= Len(a) THEN a[i] ELSE c[i - Len(a)]
    BY <1>1, ConcatProperties
  <2>2. long[from(i)] = IF from(i) <= Len(a) + Len(b) THEN (a \o b)[from(i)]
                        ELSE c[from(i) - (Len(a) + Len(b))]
    BY <1>1, <1>2, ConcatProperties
  <2>3. CASE i <= Len(a)
    <3>1. from(i) = i /\ i \in 1 .. Len(a) + Len(b)
      BY <1>1, <2>3
    <3>2. (a \o b)[i] = a[i]
      BY <2>3, <3>1, ConcatProperties
    <3>3. QED
      BY <1>1, <2>1, <2>2, <2>3, <3>1, <3>2
  <2>4. CASE ~(i <= Len(a))
    <3>1. from(i) = i + Len(b) /\ ~(from(i) <= Len(a) + Len(b))
          /\ from(i) - (Len(a) + Len(b)) = i - Len(a)
      BY <1>1, <2>4
    <3>2. QED
      BY <2>1, <2>2, <2>4, <3>1
  <2>5. QED
    BY <2>3, <2>4
<1>4. \A i, j \in 1 .. Len(short) : i < j => from(i) < from(j)
  BY <1>1
<1> HIDE DEF long, short, from
<1>5. Increasing(short) /\ \A i \in 1 .. Len(short) : short[i] <= w
  <2>1. Increasing(long) /\ \A i \in 1 .. Len(long) : long[i] <= w
    BY DEF long
  <2>2. QED
    BY <1>2, <1>3, <1>4, <2>1 DEF Increasing
<1>6. QED
  BY <1>5 DEF short

-----------------------------------------------------------------------------
(* The output *)

\* What is on its way is a sequence of bytes, part by part.
LEMMA AllType ==
  ASSUME OutTypes
  PROVE  /\ wire \in Seq(Nat) /\ fifo \in Seq(Nat) /\ dma \in Seq(Nat)
         /\ buf \in Seq(Nat) /\ obuf \in Seq(Nat)
         /\ wire \o fifo \in Seq(Nat) /\ wire \o fifo \o dma \in Seq(Nat)
         /\ wire \o fifo \o dma \o buf \in Seq(Nat) /\ All \in Seq(Nat)
<1>1. /\ wire \in Seq(Nat) /\ fifo \in Seq(Nat) /\ dma \in Seq(Nat)
      /\ buf \in Seq(Nat) /\ obuf \in Seq(Nat)
  BY DEF OutTypes
<1>2. wire \o fifo \in Seq(Nat)
  BY <1>1, ConcatType
<1>3. wire \o fifo \o dma \in Seq(Nat)
  BY <1>1, <1>2, ConcatType
<1>4. wire \o fifo \o dma \o buf \in Seq(Nat)
  BY <1>1, <1>3, ConcatType
<1>5. All \in Seq(Nat)
  BY <1>1, <1>4, ConcatType DEF All
<1>6. QED
  BY <1>1, <1>2, <1>3, <1>4, <1>5

\* The steps that pass bytes on, or leave them alone, keep what is on its way.
LEMMA SortKept ==
  ASSUME SortInv, All' = All, written' = written, ~gave' => ~gave
  PROVE  SortInv'
  BY DEF SortInv, Increasing

\* At first nothing is on its way.
LEMMA OutInit ==
  ASSUME Init
  PROVE  OutInv
<1>1. <<>> \in Seq(Nat) /\ Len(<<>>) = 0
  OBVIOUS
<1>2. OutTypes
  BY <1>1, SizeAssumption DEF OutTypes, Init
<1>3. OwnInv
  BY DEF OwnInv, Init
<1>4. All = <<>>
  BY <1>1, Regroup DEF All, Init
<1>5. SortInv
  BY <1>1, <1>4 DEF SortInv, Increasing, Init
<1>6. QED
  BY <1>2, <1>3, <1>5 DEF OutInv

\* A client writes at the end of io-char's buffer.
LEMMA OutWrite ==
  ASSUME OutInv, Write
  PROVE  OutInv'
<1> USE DEF OutInv
<1> DEFINE front == wire \o fifo \o dma \o buf
           n == written + 1
<1>1. n \in Nat /\ written \in Nat /\ front \in Seq(Nat) /\ obuf \in Seq(Nat) /\ All \in Seq(Nat)
  BY AllType DEF OutTypes
<1>2. /\ written' = n /\ obuf' = Append(obuf, n) /\ obuf' \in Seq(Nat)
      /\ UNCHANGED <<usedma, buf, active, gave, io, txPulse, dma, fifo, wire>>
  BY <1>1, AppendProperties DEF Write, ioVars, wireVars
<1>3. All' = Append(All, n)
  <2>1. obuf' = obuf \o <<n>> /\ <<n>> \in Seq(Nat)
    BY <1>1, <1>2, AppendIsConcat
  <2>2. All' = front \o (obuf \o <<n>>)
    BY <1>2, <2>1 DEF All
  <2>3. front \o (obuf \o <<n>>) = (front \o obuf) \o <<n>>
    BY <1>1, <2>1, Regroup
  <2>4. (front \o obuf) \o <<n>> = Append(All, n)
    BY <1>1, AppendIsConcat DEF All
  <2>5. QED
    BY <2>2, <2>3, <2>4
<1>4. /\ Len(All') = Len(All) + 1 /\ Len(All) \in Nat
      /\ \A i \in 1 .. Len(All) : All'[i] = All[i]
      /\ All'[Len(All) + 1] = n
      /\ \A i \in 1 .. Len(All) : All[i] \in Nat
  BY <1>1, <1>3, AppendProperties, LenProperties, ElementOfSeq
<1>5. OutTypes' /\ OwnInv'
  BY <1>1, <1>2 DEF OutTypes, OwnInv
<1> HIDE DEF front
<1>6. SortInv'
  <2>1. \A i \in 1 .. Len(All') : i \in 1 .. Len(All) \/ i = Len(All) + 1
    BY <1>4
  <2>2. Increasing(All')
    <3> SUFFICES ASSUME NEW i \in 1 .. Len(All'), NEW j \in 1 .. Len(All'), i < j
                 PROVE  All'[i] < All'[j]
      BY DEF Increasing
    <3>1. i \in 1 .. Len(All)
      BY <1>4
    <3>2. CASE j \in 1 .. Len(All)
      <4>1. All[i] < All[j]
        BY <3>1, <3>2 DEF SortInv, Increasing
      <4>2. QED
        BY <1>4, <3>1, <3>2, <4>1
    <3>3. CASE j = Len(All) + 1
      <4>1. All[i] <= written /\ All[i] \in Nat
        BY <1>4, <3>1 DEF SortInv
      <4>2. QED
        BY <1>1, <1>4, <3>1, <3>3, <4>1
    <3>4. QED
      BY <2>1, <3>2, <3>3
  <2>3. \A i \in 1 .. Len(All') : All'[i] <= written'
    <3> SUFFICES ASSUME NEW i \in 1 .. Len(All') PROVE All'[i] <= n
      BY <1>2
    <3>1. CASE i \in 1 .. Len(All)
      <4>1. All[i] <= written /\ All[i] \in Nat
        BY <1>4, <3>1 DEF SortInv
      <4>2. QED
        BY <1>1, <1>4, <3>1, <4>1
    <3>2. CASE i = Len(All) + 1
      BY <1>1, <1>4, <3>2
    <3>3. QED
      BY <2>1, <3>1, <3>2
  <2>4. ~gave' => Len(All') = written'
    BY <1>1, <1>2, <1>4 DEF SortInv
  <2>5. QED
    BY <2>2, <2>3, <2>4 DEF SortInv
<1>7. QED
  BY <1>5, <1>6

\* tto fills tx_dma.buf from io-char's buffer.
LEMMA OutTtoFill ==
  ASSUME OutInv, NEW a, TtoFill(a)
  PROVE  OutInv'
<1> USE DEF OutInv
<1> DEFINE n == IF paged THEN 0 ELSE Least(Len(obuf), XferSize - Len(buf))
           p == SubSeq(obuf, 1, n)
           front == wire \o fifo \o dma
<1>1. front \in Seq(Nat) /\ buf \in Seq(Nat) /\ obuf \in Seq(Nat)
  BY AllType
<1>2. /\ buf' = buf \o p /\ obuf' = From(obuf, n) /\ io' = "filled" /\ usedma /\ ~active
      /\ UNCHANGED <<usedma, written, active, gave, txPulse, dma, fifo, wire>>
  BY DEF TtoFill, wireVars
<1>3. XferSize - Len(buf) \in Nat
  BY <1>1, LenProperties, SizeAssumption DEF OutTypes
<1>4. n \in 0 .. Len(obuf) /\ n <= XferSize - Len(buf)
  BY <1>1, <1>3, LenProperties DEF Least
<1> HIDE DEF n
<1>5. p \in Seq(Nat) /\ obuf' \in Seq(Nat) /\ Len(p) = n /\ p \o obuf' = obuf
  BY <1>1, <1>2, <1>4, Splits
<1>6. buf' \in Seq(Nat) /\ Len(buf') <= XferSize
  <2>1. buf' \in Seq(Nat) /\ Len(buf') = Len(buf) + n /\ Len(buf) \in Nat
    BY <1>1, <1>2, <1>5, ConcatType
  <2>2. XferSize \in Nat /\ n \in Nat
    BY <1>1, <1>4, LenProperties, SizeAssumption
  <2>3. QED
    BY <1>4, <2>1, <2>2
<1>7. OutTypes'
  BY <1>2, <1>5, <1>6 DEF OutTypes
<1>8. OwnInv'
  BY <1>2 DEF OwnInv, OutTypes
<1> HIDE DEF front, p
<1>9. All' = All
  <2>1. All' = (front \o (buf \o p)) \o obuf'
    BY <1>2 DEF All, front
  <2>2. front \o (buf \o p) = (front \o buf) \o p
    <3>1. front \in Seq(Nat) /\ buf \in Seq(Nat) /\ p \in Seq(Nat)
      BY <1>1, <1>5
    <3>2. QED
      BY <3>1, Regroup
  <2>3. front \o buf \in Seq(Nat)
    BY <1>1, ConcatType
  <2>4. ((front \o buf) \o p) \o obuf' = (front \o buf) \o (p \o obuf')
    BY <1>5, <2>3, Regroup
  <2>5. QED
    BY <1>5, <2>1, <2>2, <2>4 DEF All, front
<1>10. QED
  BY <1>2, <1>7, <1>8, <1>9, SortKept

\* The transfer that tto starts takes all of the buffer; the channel has had none.
LEMMA OutTtoStart ==
  ASSUME OutInv, TtoStart
  PROVE  OutInv'
<1> USE DEF OutInv
<1>1. io' = "idle" /\ UNCHANGED <<usedma, written, obuf, gave, txPulse, fifo, wire>>
  BY DEF TtoStart, wireVars
<1>2. usedma /\ ~active /\ ~txPulse /\ dma = <<>>
  BY DEF OwnInv, TtoStart
<1>3. CASE dma' = buf /\ buf' = <<>> /\ active' = TRUE
  <2>1. <<>> \in Seq(Nat) /\ Len(<<>>) = 0
    OBVIOUS
  <2>2. OutTypes'
    BY <1>1, <1>3, <2>1, SizeAssumption DEF OutTypes
  <2>3. OwnInv'
    BY <1>1, <1>2, <1>3 DEF OwnInv
  <2>4. wire \o fifo \in Seq(Nat) /\ buf \in Seq(Nat) /\ obuf \in Seq(Nat)
        /\ (wire \o fifo) \o buf \in Seq(Nat)
    BY AllType, ConcatType
  <2>5. All' = (((wire \o fifo) \o buf) \o <<>>) \o obuf
    BY <1>1, <1>3 DEF All
  <2>6. All = (((wire \o fifo) \o <<>>) \o buf) \o obuf
    BY <1>2 DEF All
  <2>7. ((wire \o fifo) \o buf) \o <<>> = (wire \o fifo) \o buf
        /\ (wire \o fifo) \o <<>> = wire \o fifo
    BY <2>4, Regroup
  <2>8. All' = All
    BY <2>5, <2>6, <2>7
  <2>9. QED
    BY <1>1, <2>2, <2>3, <2>8, SortKept
<1>4. CASE UNCHANGED <<dma, buf, active>>
  <2>1. OutTypes' /\ OwnInv'
    BY <1>1, <1>2, <1>4 DEF OutTypes, OwnInv
  <2>2. All' = All
    BY <1>1, <1>4 DEF All
  <2>3. QED
    BY <1>1, <2>1, <2>2, SortKept
<1>5. QED
  BY <1>3, <1>4 DEF TtoStart

\* Without DMA tto fills the FIFO from io-char's buffer; nothing stands between the two.
LEMMA OutFill ==
  ASSUME OutInv, ~usedma, Fill
  PROVE  OutInv'
<1> USE DEF OutInv
<1> DEFINE n == IF paged THEN 0 ELSE Least(Len(obuf), FifoSize - Len(fifo))
           p == SubSeq(obuf, 1, n)
<1>1. wire \in Seq(Nat) /\ fifo \in Seq(Nat) /\ obuf \in Seq(Nat) /\ wire \o fifo \in Seq(Nat)
  BY AllType
<1>2. /\ fifo' = fifo \o p /\ obuf' = From(obuf, n) /\ io' \in {"trdy", "idle"}
      /\ UNCHANGED <<usedma, written, buf, active, gave, txPulse, dma, wire>>
  BY DEF Fill
<1>3. ~active /\ buf = <<>> /\ dma = <<>>
  BY DEF OwnInv
<1>4. FifoSize - Len(fifo) \in Nat
  BY <1>1, LenProperties, SizeAssumption DEF OutTypes
<1>5. n \in 0 .. Len(obuf) /\ n <= FifoSize - Len(fifo)
  BY <1>1, <1>4, LenProperties DEF Least
<1> HIDE DEF n
<1>6. p \in Seq(Nat) /\ obuf' \in Seq(Nat) /\ Len(p) = n /\ p \o obuf' = obuf
  BY <1>1, <1>2, <1>5, Splits
<1> HIDE DEF p
<1>7. fifo' \in Seq(Nat) /\ Len(fifo') <= FifoSize
  <2>1. /\ fifo \o p \in Seq(Nat) /\ Len(fifo \o p) = Len(fifo) + Len(p)
        /\ Len(fifo) \in Nat /\ Len(p) \in Nat
    <3>1. fifo \in Seq(Nat) /\ p \in Seq(Nat)
      BY <1>1, <1>6
    <3>2. QED
      BY <3>1, ConcatType, ZenonT(30)
  <2>2. Len(p) <= FifoSize - Len(fifo) /\ FifoSize \in Nat
    BY <1>5, <1>6, SizeAssumption
  <2>3. QED
    BY <1>2, <2>1, <2>2
<1>8. OutTypes' /\ OwnInv'
  BY <1>2, <1>3, <1>6, <1>7 DEF OutTypes, OwnInv
<1>9. All' = All
  <2>1. All' = (((wire \o (fifo \o p)) \o <<>>) \o <<>>) \o obuf'
    BY <1>2, <1>3 DEF All
  <2>2. All = (((wire \o fifo) \o <<>>) \o <<>>) \o obuf
    BY <1>3 DEF All
  <2>3. wire \o (fifo \o p) = (wire \o fifo) \o p /\ (wire \o fifo) \o p \in Seq(Nat)
    <3>1. wire \in Seq(Nat) /\ fifo \in Seq(Nat) /\ p \in Seq(Nat) /\ wire \o fifo \in Seq(Nat)
      BY <1>1, <1>6
    <3>2. wire \o (fifo \o p) = (wire \o fifo) \o p
      BY <3>1, Regroup, ZenonT(30)
    <3>3. (wire \o fifo) \o p \in Seq(Nat)
      BY <3>1, ConcatType, ZenonT(30)
    <3>4. QED
      BY <3>2, <3>3
  <2>4. ((wire \o fifo) \o p) \o <<>> = (wire \o fifo) \o p /\ (wire \o fifo) \o <<>> = wire \o fifo
    BY <1>1, <2>3, Regroup
  <2>5. ((wire \o fifo) \o p) \o obuf' = (wire \o fifo) \o (p \o obuf')
    <3>1. wire \o fifo \in Seq(Nat) /\ p \in Seq(Nat) /\ obuf' \in Seq(Nat)
      BY <1>1, <1>6
    <3>2. QED
      BY <3>1, Regroup
  <2>6. QED
    BY <1>6, <2>1, <2>2, <2>3, <2>4, <2>5
<1>10. QED
  BY <1>2, <1>8, <1>9, SortKept

\* The transfer that is given up leaves a gap; nothing stands behind it in the buffer.
LEMMA OutTimedOut ==
  ASSUME OutInv, TtoTimedOut
  PROVE  OutInv'
<1> USE DEF OutInv
<1>1. /\ io = "busy" /\ usedma' = FALSE /\ active' = FALSE /\ io' = "pio" /\ dma' = <<>>
      /\ txPulse' = FALSE /\ gave' = TRUE /\ UNCHANGED <<written, obuf, buf, fifo, wire>>
  BY DEF TtoTimedOut, DevCleanup, wireVars
<1>2. buf = <<>> /\ <<>> \in Seq(Nat)
  BY <1>1 DEF OwnInv
<1>3. OutTypes' /\ OwnInv'
  BY <1>1, <1>2 DEF OutTypes, OwnInv
<1>4. wire \o fifo \in Seq(Nat) /\ dma \in Seq(Nat) /\ obuf \in Seq(Nat) /\ written \in Nat
      /\ (wire \o fifo) \o dma \in Seq(Nat)
  BY AllType DEF OutTypes
<1>5. All' = (wire \o fifo) \o obuf
  <2>1. All' = (((wire \o fifo) \o <<>>) \o <<>>) \o obuf
    BY <1>1, <1>2 DEF All
  <2>2. QED
    BY <1>4, <2>1, Regroup
<1>6. All = ((wire \o fifo) \o dma) \o obuf
  BY <1>2, <1>4, Regroup DEF All
<1>7. Increasing(((wire \o fifo) \o dma) \o obuf)
      /\ \A i \in 1 .. Len(((wire \o fifo) \o dma) \o obuf) :
           (((wire \o fifo) \o dma) \o obuf)[i] <= written
  BY <1>6 DEF SortInv
<1>8. Increasing((wire \o fifo) \o obuf)
      /\ \A i \in 1 .. Len((wire \o fifo) \o obuf) : ((wire \o fifo) \o obuf)[i] <= written
  BY <1>4, <1>7, DropMiddle
<1>9. SortInv'
  BY <1>1, <1>5, <1>8 DEF SortInv, Increasing
<1>10. QED
  BY <1>3, <1>9

\* The channel moves the first byte of the transfer to the end of the FIFO, and with the last
\* one its thread gets a pulse.
LEMMA OutTxDma ==
  ASSUME OutInv, TxDma
  PROVE  OutInv'
<1> USE DEF OutInv
<1>1. /\ dma # <<>> /\ Len(fifo) < FifoSize
      /\ fifo' = Append(fifo, Head(dma)) /\ dma' = Tail(dma) /\ txPulse' = (Len(dma) = 1)
      /\ UNCHANGED <<usedma, written, obuf, buf, active, gave, io, wire>>
  BY DEF TxDma, outVars, ioVars
<1>2. wire \in Seq(Nat) /\ fifo \in Seq(Nat) /\ dma \in Seq(Nat) /\ obuf \in Seq(Nat) /\ buf \in Seq(Nat)
  BY AllType
<1>3. /\ fifo' \in Seq(Nat) /\ dma' \in Seq(Nat) /\ fifo' \o dma' = fifo \o dma
      /\ Len(fifo') = Len(fifo) + 1
  BY <1>1, <1>2, HeadMoves
<1>4. OutTypes'
  BY <1>1, <1>2, <1>3, SizeAssumption, LenProperties DEF OutTypes
<1>5. dma' # <<>> => ~txPulse'
  <2>1. Len(dma') = Len(dma) - 1 /\ Len(dma) \in Nat
    BY <1>1, <1>2, HeadTailProperties, LenProperties, EmptySeq
  <2>2. Len(dma) = 1 => dma' = <<>>
    BY <1>3, <2>1, EmptySeq
  <2>3. QED
    BY <1>1, <2>2
<1>6. OwnInv'
  BY <1>1, <1>5 DEF OwnInv, OutTypes
<1>7. All' = All
  <2>1. (wire \o fifo') \o dma' = wire \o (fifo' \o dma') /\ (wire \o fifo) \o dma = wire \o (fifo \o dma)
    <3>1. wire \in Seq(Nat) /\ fifo \in Seq(Nat) /\ dma \in Seq(Nat)
          /\ fifo' \in Seq(Nat) /\ dma' \in Seq(Nat)
      BY <1>2, <1>3
    <3>2. (wire \o fifo') \o dma' = wire \o (fifo' \o dma')
      BY <3>1, Regroup, ZenonT(30)
    <3>3. (wire \o fifo) \o dma = wire \o (fifo \o dma)
      BY <3>1, Regroup, ZenonT(30)
    <3>4. QED
      BY <3>2, <3>3
  <2>2. QED
    BY <1>1, <1>3, <2>1 DEF All
<1>8. QED
  BY <1>1, <1>4, <1>6, <1>7, SortKept

\* The UART sends the first byte of the FIFO.
LEMMA OutShift ==
  ASSUME OutInv, Shift
  PROVE  OutInv'
<1> USE DEF OutInv
<1>1. /\ fifo # <<>> /\ wire' = Append(wire, Head(fifo)) /\ fifo' = Tail(fifo)
      /\ UNCHANGED <<usedma, written, obuf, buf, active, gave, io, txPulse, dma>>
  BY DEF Shift, outVars, ioVars
<1>2. wire \in Seq(Nat) /\ fifo \in Seq(Nat)
  BY AllType
<1>3. wire' \in Seq(Nat) /\ fifo' \in Seq(Nat) /\ wire' \o fifo' = wire \o fifo
  BY <1>1, <1>2, HeadMoves
<1>4. Len(fifo') <= FifoSize
  BY <1>1, <1>2, HeadTailProperties, LenProperties, SizeAssumption DEF OutTypes
<1>5. OutTypes' /\ OwnInv'
  BY <1>1, <1>3, <1>4 DEF OutTypes, OwnInv
<1>6. All' = All
  BY <1>1, <1>3 DEF All
<1>7. QED
  BY <1>1, <1>5, <1>6, SortKept

\* The steps that pass no byte on: all the transmit handler does is to end the transfer, and
\* no other step fills the buffer.
LEMMA OutOther ==
  ASSUME OutInv, UNCHANGED <<usedma, written, obuf, buf, gave, dma, fifo, wire>>,
         \/ UNCHANGED <<active, txPulse>>
         \/ txPulse /\ txPulse' = FALSE /\ active' = FALSE,
         io' \in {"filled", "pio"} => io' = io,
         io' = "busy" => io = "busy" \/ (usedma /\ active)
  PROVE  OutInv'
<1> USE DEF OutInv
<1>1. OutTypes'
  BY DEF OutTypes
<1>2. OwnInv'
  BY DEF OwnInv, OutTypes
<1>3. All' = All
  BY DEF All
<1>4. QED
  BY <1>1, <1>2, <1>3, SortKept

\* Every step keeps the output in order.
LEMMA OutStep ==
  ASSUME OutInv, [Next]_vars
  PROVE  OutInv'
<1> USE DEF outVars, ioVars, intrVars, wireVars, rxVars
<1>1. CASE Write
  BY <1>1, OutWrite
<1>2. CASE Tick \/ PeerStops \/ PeerResumes
  BY <1>2, OutOther DEF Tick, PeerStops, PeerResumes
<1>3. ASSUME NEW a \in {"data", "event"}, TtoBusy(a) \/ TtoFill(a) \/ TtoPio(a)
      PROVE  OutInv'
  <2>1. CASE TtoBusy(a)
    BY <2>1, OutOther DEF TtoBusy, Called
  <2>2. CASE TtoFill(a)
    BY <2>2, OutTtoFill
  <2>3. CASE TtoPio(a)
    BY <2>3, OutFill DEF TtoPio
  <2>4. QED
    BY <1>3, <2>1, <2>2, <2>3
<1>4. CASE TtoTimedOut \/ TtoWait
  BY <1>4, OutTimedOut, OutOther DEF TtoWait
<1>5. CASE TtoStart
  BY <1>5, OutTtoStart
<1>6. CASE TtoPioNow
  BY <1>6, OutFill DEF TtoPioNow, OutInv, OwnInv
<1>7. CASE TrdyRead \/ Cr1Write \/ CtrlRead
  BY <1>7, OutOther DEF TrdyRead, Cr1Write, CtrlRead, IoOnly
<1>8. CASE RtsResume
  BY <1>8, OutOther DEF RtsResume
<1>9. CASE IsrRead \/ IsrWrite
  BY <1>9, OutOther DEF IsrRead, IsrWrite
<1>10. CASE TxPulse
  BY <1>10, OutOther DEF TxPulse
<1>11. CASE TxPulseTmr
  BY <1>11, OutOther DEF TxPulseTmr
<1>12. CASE RxPulse \/ RxPulseUp
  BY <1>12, OutOther DEF RxPulse, RxPulseUp
<1>13. CASE TxDma
  BY <1>13, OutTxDma
<1>14. CASE Shift
  BY <1>14, OutShift
<1>15. CASE RxDma \/ Read
  BY <1>15, OutOther DEF RxDma, Read
<1>16. CASE UNCHANGED vars
  BY <1>16, OutOther DEF vars
<1>17. QED
  BY <1>1, <1>2, <1>3, <1>4, <1>5, <1>6, <1>7, <1>8, <1>9, <1>10, <1>11, <1>12, <1>13, <1>14,
     <1>15, <1>16 DEF Next, Tto, Handlers

\* Whatever the sizes and the load, the bytes are on their way in the order the clients wrote
\* them (tto.c, mx53_tx_pulse_hdlr), and as long as DMA is not given up none is lost.
THEOREM OutputKept == Spec => []OutputInOrder
<1>1. OutInv => OutputInOrder
  <2> SUFFICES ASSUME OutInv PROVE OutputInOrder
    OBVIOUS
  <2>1. All \in Seq(Nat) /\ Len(All) \in Nat
    BY AllType, LenProperties DEF OutInv
  <2>2. \A j \in 1 .. Len(All) - 1 : j \in 1 .. Len(All) /\ j + 1 \in 1 .. Len(All) /\ j < j + 1
    BY <2>1
  <2>3. \A j \in 1 .. Len(All) - 1 : All[j] < All[j + 1]
    BY <2>2 DEF OutInv, SortInv, Increasing
  <2>4. ~gave => Len(All) = written
    BY DEF OutInv, SortInv
  <2>5. QED
    BY <2>3, <2>4 DEF OutputInOrder, All
<1>2. QED
  BY <1>1, OutInit, OutStep, PTL DEF Spec

-----------------------------------------------------------------------------
(* The input *)

\* A transfer passed up behind the others.
LEMMA UpAppend ==
  ASSUME InputTypes, \A j \in 1 .. Len(ibuf) : ibuf[j] = up + j,
         NEW f \in Nat, f = up + Len(ibuf) + 1
  PROVE  /\ Append(ibuf, f) \in Seq(Nat) /\ Len(Append(ibuf, f)) = Len(ibuf) + 1
         /\ \A j \in 1 .. Len(Append(ibuf, f)) : Append(ibuf, f)[j] = up + j
<1>1. ibuf \in Seq(Nat) /\ up \in Nat
  BY DEF InputTypes
<1>2. /\ Append(ibuf, f) \in Seq(Nat) /\ Len(Append(ibuf, f)) = Len(ibuf) + 1
      /\ Append(ibuf, f)[Len(ibuf) + 1] = f /\ Len(ibuf) \in Nat
      /\ \A j \in 1 .. Len(ibuf) : Append(ibuf, f)[j] = ibuf[j]
  BY <1>1, AppendProperties, LenProperties
<1>3. QED
  BY <1>1, <1>2

\* The half that found no room is passed up by RTS, and the channel starts.
LEMMA InputRtsResume ==
  ASSUME ~UserRts, InputInv, RtsResume
  PROVE  InputInv'
<1> USE DEF InputInv
<1>1. /\ usedma /\ ipaged /\ ipaged' = FALSE /\ ibuf' = Append(ibuf, half[cur]) /\ rdma' = TRUE
      /\ cur' = 1 - cur /\ UNCHANGED <<usedma, rxPulse, rxh, half, up, heard>>
  BY DEF RtsResume, Started, intrVars
<1>2. half[cur] = heard /\ ~rdma /\ ~rxPulse /\ rxh = "away" /\ up + Len(ibuf) = heard - 1
  <2>1. half[cur] = heard /\ ~rdma /\ ~rxPulse /\ rxh = "away"
    BY <1>1 DEF HalfInv
  <2>2. heard \in Nat /\ up \in Nat /\ Len(ibuf) \in Nat
    BY LenProperties DEF InputTypes
  <2>3. QED
    BY <1>1, <2>1, <2>2 DEF HalfInv
<1>3. heard \in Nat /\ up \in Nat /\ Len(ibuf) \in Nat /\ heard = up + Len(ibuf) + 1
  BY <1>2, LenProperties DEF InputTypes
<1>4. /\ ibuf' \in Seq(Nat) /\ Len(ibuf') = Len(ibuf) + 1
      /\ \A j \in 1 .. Len(ibuf') : ibuf'[j] = up' + j
  BY <1>1, <1>2, <1>3, UpAppend
<1>5. InputTypes'
  <2>1. cur' \in {0, 1}
    BY <1>1 DEF InputTypes
  <2>2. QED
    BY <1>1, <1>4, <2>1 DEF InputTypes
<1>6. HalfInv'
  BY <1>1, <1>2, <1>3, <1>4 DEF HalfInv
<1>7. QED
  BY <1>4, <1>5, <1>6

\* The receive handler starts the channel with the other half, or leaves it stopped.
LEMMA InputRxPulse ==
  ASSUME InputInv, RxPulse
  PROVE  InputInv'
<1> USE DEF InputInv
<1>1. /\ rxPulse /\ rxh = "away" /\ rxPulse' = FALSE /\ UNCHANGED <<usedma, ibuf, half, up, heard>>
  BY DEF RxPulse
<1>2. /\ usedma /\ half[cur] = heard /\ ~rdma /\ ~ipaged /\ cur \in {0, 1}
      /\ up + Len(ibuf) = heard - 1
  BY <1>1 DEF HalfInv, InputTypes
<1>3. heard \in Nat /\ up \in Nat /\ Len(ibuf) \in Nat
  BY LenProperties DEF InputTypes
<1>4. CASE rdma' = TRUE /\ cur' = 1 - cur /\ rxh' = "up" /\ ipaged' = ipaged
  <2>1. InputTypes'
    <3>1. cur' \in {0, 1}
      BY <1>2, <1>4
    <3>2. rdma' \in BOOLEAN /\ rxPulse' \in BOOLEAN
      BY <1>1, <1>4
    <3>3. rxh' \in {"away", "up"}
      BY <1>4
    <3>4. QED
      BY <1>1, <1>4, <3>1, <3>2, <3>3 DEF InputTypes
  <2>2. 1 - cur' = cur
    BY <1>2, <1>4
  <2>3. HalfInv'
    BY <1>1, <1>2, <1>3, <1>4, <2>2 DEF HalfInv
  <2>4. QED
    BY <1>1, <2>1, <2>3
<1>5. CASE ipaged' = TRUE /\ UNCHANGED <<rdma, cur, rxh>>
  <2>1. InputTypes'
    BY <1>1, <1>5 DEF InputTypes
  <2>2. HalfInv'
    BY <1>1, <1>2, <1>3, <1>5 DEF HalfInv
  <2>3. QED
    BY <1>1, <2>1, <2>2
<1>6. QED
  BY <1>4, <1>5 DEF RxPulse, Started

\* The handler passes up the half that was full.  The channel may have filled the other one
\* in the meantime.
LEMMA InputRxPulseUp ==
  ASSUME InputInv, RxPulseUp
  PROVE  InputInv'
<1> USE DEF InputInv
<1>1. /\ rxh = "up" /\ rxh' = "away" /\ ibuf' = Append(ibuf, half[1 - cur])
      /\ UNCHANGED <<usedma, rdma, rxPulse, ipaged, cur, half, up, heard>>
  BY DEF RxPulseUp
<1>2. half[1 - cur] = up + Len(ibuf) + 1 /\ (usedma => ~ipaged)
  BY <1>1 DEF HalfInv
<1>3. heard \in Nat /\ up \in Nat /\ Len(ibuf) \in Nat /\ half[1 - cur] \in Nat
  BY LenProperties DEF InputTypes
<1>5. /\ ibuf' \in Seq(Nat) /\ Len(ibuf') = Len(ibuf) + 1
      /\ \A j \in 1 .. Len(ibuf') : ibuf'[j] = up' + j
  BY <1>1, <1>2, <1>3, UpAppend
<1>6. InputTypes'
  BY <1>1, <1>5 DEF InputTypes
<1>7. HalfInv'
  BY <1>1, <1>2, <1>3, <1>5 DEF HalfInv
<1>8. QED
  BY <1>5, <1>6, <1>7

\* A transfer of input fills the half the channel has.
LEMMA InputRxDma ==
  ASSUME InputInv, RxDma
  PROVE  InputInv'
<1> USE DEF InputInv
<1>1. /\ rdma /\ rdma' = FALSE /\ rxPulse' = TRUE /\ heard' = heard + 1
      /\ half' = [half EXCEPT ![cur] = heard + 1] /\ UNCHANGED <<usedma, rxh, ipaged, cur, ibuf, up>>
  BY DEF RxDma, intrVars
<1>2. /\ heard \in Nat /\ up \in Nat /\ Len(ibuf) \in Nat /\ cur \in {0, 1} /\ half \in [{0, 1} -> Nat]
      /\ ibuf \in Seq(Nat)
  BY LenProperties DEF InputTypes
<1>3. half'[cur] = heard + 1 /\ half'[1 - cur] = half[1 - cur] /\ half' \in [{0, 1} -> Nat]
  BY <1>1, <1>2
<1>4. InputTypes'
  BY <1>1, <1>2, <1>3 DEF InputTypes
<1>5. HalfInv'
  <2>1. usedma /\ ~rxPulse /\ ~ipaged
    BY <1>1 DEF HalfInv, InputTypes
  <2>2. rxh = "up" => half[1 - cur] = up + Len(ibuf) + 1
    BY DEF HalfInv
  <2>3. up + Len(ibuf) = heard - (IF rxh = "up" THEN 1 ELSE 0)
    BY <1>1, <1>2, <2>1 DEF HalfInv
  <2>4. rxh' = "up" => half'[1 - cur'] = up' + Len(ibuf') + 1
    BY <1>1, <1>2, <1>3, <2>2
  <2>5. up' + Len(ibuf') = heard' - (IF rxh' = "up" THEN 1 ELSE 0) - 1
    <3>1. heard' = heard + 1 /\ up' = up /\ ibuf' = ibuf /\ rxh' = rxh
      BY <1>1
    <3>2. CASE rxh = "up"
      BY <1>2, <2>3, <3>1, <3>2
    <3>3. CASE rxh # "up"
      BY <1>2, <2>3, <3>1, <3>3
    <3>4. QED
      BY <3>2, <3>3
  <2>6. QED
    BY <1>1, <1>3, <2>1, <2>4, <2>5 DEF HalfInv
<1>6. QED
  BY <1>1, <1>4, <1>5

\* A client reads what was passed up first.
LEMMA InputRead ==
  ASSUME InputInv, Read
  PROVE  InputInv'
<1> USE DEF InputInv
<1>1. /\ ibuf # <<>> /\ up' = Head(ibuf) /\ ibuf' = Tail(ibuf)
      /\ UNCHANGED <<usedma, rdma, rxPulse, rxh, ipaged, cur, half, heard>>
  BY DEF Read, intrVars
<1>2. ibuf \in Seq(Nat) /\ up \in Nat /\ Len(ibuf) \in Nat /\ heard \in Nat
  BY LenProperties DEF InputTypes
<1>3. /\ Head(ibuf) = ibuf[1] /\ Tail(ibuf) \in Seq(Nat) /\ Len(Tail(ibuf)) = Len(ibuf) - 1
      /\ Len(ibuf) >= 1 /\ \A j \in 1 .. Len(Tail(ibuf)) : Tail(ibuf)[j] = ibuf[j + 1]
  BY <1>1, <1>2, HeadTailProperties, EmptySeq
<1>4. up' = up + 1
  BY <1>1, <1>2, <1>3
<1>5. \A j \in 1 .. Len(ibuf') : ibuf'[j] = up' + j
  <2> TAKE j \in 1 .. Len(ibuf')
  <2>1. j + 1 \in 1 .. Len(ibuf) /\ ibuf'[j] = ibuf[j + 1]
    BY <1>1, <1>2, <1>3
  <2>2. QED
    BY <1>2, <1>4, <2>1
<1>6. InputTypes'
  BY <1>1, <1>2, <1>3, <1>4 DEF InputTypes
<1>7. HalfInv'
  <2>1. up' + Len(ibuf') = up + Len(ibuf)
    BY <1>1, <1>2, <1>3, <1>4
  <2>2. QED
    BY <1>1, <2>1 DEF HalfInv
<1>8. QED
  BY <1>5, <1>6, <1>7

\* Every step keeps the input in order.
LEMMA InputStep ==
  ASSUME ~UserRts, InputInv, [Next]_vars
  PROVE  InputInv'
<1> DEFINE Same == UNCHANGED <<usedma, rdma, rxPulse, ipaged, cur, half, ibuf, up, heard, rxh>>
<1> USE DEF ioVars, intrVars, wireVars, rxVars, outVars
<1>1. CASE Same
  BY <1>1 DEF InputInv, InputTypes, HalfInv
<1>2. CASE Write \/ Tick \/ PeerStops \/ PeerResumes \/ CtrlRead
  <2>1. Same
    BY <1>2 DEF Write, Tick, PeerStops, PeerResumes, CtrlRead, IoOnly
  <2>2. QED
    BY <1>1, <2>1
<1>3. CASE RtsResume
  BY <1>3, InputRtsResume
<1>4. ASSUME NEW a \in {"data", "event"}, TtoBusy(a) \/ TtoFill(a) \/ TtoPio(a)
      PROVE  InputInv'
  <2>1. Same
    BY <1>4 DEF TtoBusy, TtoFill, TtoPio, Fill
  <2>2. QED
    BY <1>1, <2>1
<1>5. CASE TtoTimedOut
  <2>1. /\ usedma' = FALSE /\ rdma' = FALSE /\ rxPulse' = FALSE
        /\ UNCHANGED <<ipaged, cur, half, ibuf, up, heard, rxh>>
    BY <1>5 DEF TtoTimedOut, DevCleanup
  <2>2. QED
    BY <2>1 DEF InputInv, InputTypes, HalfInv
<1>6. CASE TtoWait \/ TtoStart \/ TtoPioNow \/ TrdyRead \/ Cr1Write
  <2>1. Same
    BY <1>6 DEF TtoWait, TtoStart, TtoPioNow, Fill, TrdyRead, Cr1Write, IoOnly
  <2>2. QED
    BY <1>1, <2>1
<1>7. CASE IsrRead \/ IsrWrite \/ TxPulse \/ TxPulseTmr \/ TxDma \/ Shift
  <2>1. Same
    BY <1>7 DEF IsrRead, IsrWrite, TxPulse, TxPulseTmr, TxDma, Shift
  <2>2. QED
    BY <1>1, <2>1
<1>8. CASE RxPulse
  BY <1>8, InputRxPulse
<1>9. CASE RxPulseUp
  BY <1>9, InputRxPulseUp
<1>10. CASE RxDma
  BY <1>10, InputRxDma
<1>11. CASE Read
  BY <1>11, InputRead
<1>12. CASE UNCHANGED vars
  BY <1>1, <1>12 DEF vars
<1>13. QED
  BY <1>2, <1>3, <1>4, <1>5, <1>6, <1>7, <1>8, <1>9, <1>10, <1>11, <1>12 DEF Next, Tto, Handlers

\* Whatever the size of the input buffer, each transfer of input is passed up once and in
\* order, by mx53_rx_pulse_hdlr or by tto (intr.c, tto.c), as long as RTS is io-char's alone.
THEOREM InputKept ==
  ASSUME ~UserRts
  PROVE  Spec => []InputInOrder
<1>1. Init => InputInv
  BY DEF Init, InputInv, InputTypes, HalfInv
<1>2. InputInv /\ [Next]_vars => InputInv'
  BY InputStep
<1>3. InputInv => InputInOrder
  <2> SUFFICES ASSUME InputInv PROVE InputInOrder
    OBVIOUS
  <2>1. DOMAIN ibuf = 1 .. Len(ibuf)
    BY LenProperties DEF InputInv, InputTypes
  <2>2. QED
    BY <2>1 DEF InputInv, InputInOrder
<1>4. QED
  BY <1>1, <1>2, <1>3, PTL DEF Spec

===============================================================================
