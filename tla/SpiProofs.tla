------------------------------- MODULE SpiProofs -------------------------------
(***************************************************************************)
(* Proofs about the SPI manager and controller, for any clients, devices   *)
(* and lengths and every size of word, FIFO and burst: locks exclude, and  *)
(* until a transfer has timed out nothing is lost on the way through the   *)
(* two FIFOs and a transfer that ends is complete.                         *)
(***************************************************************************)
EXTENDS Spi, SequenceTheorems, TLAPS

ChipInv == chip \in [Client -> Device \cup {NoDevice}]

\* The locks, and whom the transfer in progress is for.
LockInv ==
  /\ {"who", "dev"} \subseteq DOMAIN x
  /\ locks \subseteq [owner : Client, device : Device \cup {NoDevice}]
  /\ LockExcludes

\* The first word of a burst of n bytes is short by Pad(n) bytes; Ends(n)[k] bytes are in its
\* first k words.
Pad(n)  == IF n % W = 0 THEN 0 ELSE W - (n % W)
Ends(n) == [k \in Nat |-> IF k = 0 THEN 0 ELSE (k * W) - Pad(n)]

\* Word k of the burst after byte a of the transfer; e[k] is where it ends.
OutWord(a, e, k) == [b \in 1 .. e[k] - e[k - 1] |-> Out(a + e[k - 1] + b)]
InWord(a, e, k)  == [b \in 1 .. e[k] - e[k - 1] |-> In(a + e[k - 1] + b)]

\* f is a sequence of m elements.
Row(f, m) == m \in Nat /\ f = [j \in 1 .. m |-> f[j]]

\* One sequence, or one element, behind another.
Joined(s, t) == s \o t
Added(s, v)  == Append(s, v)

\* s holds the m words of the burst that follow its first k.
Outs(s, a, e, k, m) == Row(s, m) /\ \A j \in 1 .. m : s[j] = OutWord(a, e, k + j)
Ins(s, a, e, k, m)  == Row(s, m) /\ \A j \in 1 .. m : s[j] = InWord(a, e, k + j)

\* A buffer of l bytes of which the first m have been received; the first m bytes as they
\* were sent.
Bytes(l, m) == [i \in 1 .. l |-> IF i <= m THEN In(i) ELSE Out(i)]
OnWire(m)   == [i \in 1 .. m |-> Out(i)]

Transfer ==
  [who : Client \cup {NoDevice}, dev : Device \cup {NoDevice}, xlen : Nat, dlen : Nat,
   tlen : Nat, rlen : Nat, bxlen : Nat, btlen : Nat, brlen : Nat, lsb : Nat]

Numbers ==
  /\ x \in Transfer /\ pulse \in Nat /\ left \in Nat /\ cnt \in Nat
  /\ pc \in {"idle", "load", "start", "wait", "done", "fail"}
  /\ isr \in {"away", "move", "end"}
  /\ inten \in BOOLEAN /\ xch \in BOOLEAN /\ tc \in BOOLEAN
  /\ xch => left > 0

\* Nothing is under way.
Clean == pulse = 0 /\ ~inten /\ isr = "away" /\ txf = <<>> /\ rxf = <<>> /\ ~tc

\* A burst of N words after byte a, of which T are loaded, X exchanged and R received.
Counts(a, N, T, X, R) ==
  /\ R <= X /\ X <= T /\ T <= N /\ T > 0 /\ T - R <= FifoSize
  /\ Ends(x.bxlen)[N] = x.bxlen /\ a + x.bxlen <= x.xlen
  /\ x.bxlen <= BurstMax /\ (a + x.bxlen < x.xlen => x.bxlen = BurstMax)
  /\ x.tlen = a + x.btlen /\ x.btlen = Ends(x.bxlen)[T]
  /\ x.rlen = a + x.brlen /\ x.brlen = Ends(x.bxlen)[R]
  /\ x.lsb = IF R = 0 THEN x.bxlen % W ELSE 0

\* Where its bytes are.
Burst(a, T, X, R) ==
  /\ Outs(txf, a, Ends(x.bxlen), X, T - X)
  /\ Ins(rxf, a, Ends(x.bxlen), R, X - R)
  /\ sent = OnWire(a + Ends(x.bxlen)[X])
  /\ buf = Bytes(x.xlen, x.rlen)

\* All words of the burst are exchanged, and the controller is told to start no other one, or
\* one of the same length.
Ended(N, X) == X = N /\ left \in {0, x.bxlen}

\* The controller exchanges no less than the rest of the burst: it may still have the length
\* of the one before, which was not shorter.
Rest(N, X) == X < N => left >= x.bxlen - Ends(x.bxlen)[X] \/ (X = 0 /\ left = 0)

\* TC says that the last word is exchanged, before it is received.
Complete(N, X, R) == tc => Ended(N, X) /\ R < N

\* What the handler is about to read is there, and is the end only if the burst has ended.
Moving(N, X, R) ==
  /\ cnt \in 1 .. X - R
  /\ cnt = RxMark \/ X = N
  /\ R + cnt = N => Ended(N, X) /\ ~tc

\* The handler is away, at work or about to leave; or all is received, which the pulse says.
Phase(N, X, R) ==
  /\ pc \in {"start", "wait"}
  /\ Rest(N, X) /\ Complete(N, X, R)
  /\ \/ inten /\ pulse = 0 /\ isr = "away" /\ R < N
     \/ inten /\ pulse = 0 /\ isr = "move" /\ Moving(N, X, R)
     \/ inten /\ pulse = 0 /\ isr = "end" /\ (R = N => Ended(N, X))
     \/ ~inten /\ pulse = 1 /\ isr = "away" /\ R = N /\ Ended(N, X)

BurstInv ==
  \E a, N, T, X, R \in Nat : Counts(a, N, T, X, R) /\ Burst(a, T, X, R) /\ Phase(N, X, R)

\* Between bursts.
Between ==
  /\ Clean /\ x.rlen = x.tlen /\ x.rlen <= x.xlen
  /\ sent = OnWire(x.rlen) /\ buf = Bytes(x.xlen, x.rlen)
  /\ x.rlen = x.xlen <=> pc = "done"
  /\ pc = "load" => left \in {0, BurstMax}

Sound ==
  /\ Numbers
  /\ pc \in {"idle", "fail"} => Clean
  /\ pc \in {"load", "done"} => Between
  /\ pc \in {"start", "wait"} => BurstInv

XferInv == ~late => Sound

-----------------------------------------------------------------------------
(* Sequences as rows. *)

LEMMA RowSeq ==
  ASSUME NEW f, NEW m \in Nat, Row(f, m)
  PROVE  /\ f \in Seq({f[j] : j \in 1 .. m})
         /\ Len(f) = m /\ DOMAIN f = 1 .. m
  <1>1. m \in Nat /\ DOMAIN f = 1 .. m BY DEF Row
  <1>2. f \in [1 .. m -> {f[j] : j \in 1 .. m}] BY <1>1 DEF Row
  <1>3. f \in Seq({f[j] : j \in 1 .. m}) BY <1>1, <1>2
  <1>4. Len(f) = m BY <1>1, <1>3, LenProperties
  <1> QED BY <1>1, <1>3, <1>4

LEMMA RowIs ==
  ASSUME NEW f, NEW g, NEW m \in Nat, Row(f, m), Row(g, m), \A j \in 1 .. m : f[j] = g[j]
  PROVE  f = g
  BY DEF Row

LEMMA RowConcat ==
  ASSUME NEW f, NEW m \in Nat, NEW g, NEW n \in Nat, Row(f, m), Row(g, n)
  PROVE  /\ Row(Joined(f, g), m + n)
         /\ \A j \in 1 .. m + n : Joined(f, g)[j] = IF j <= m THEN f[j] ELSE g[j - m]
  <1> DEFINE S == {f[j] : j \in 1 .. m} \cup {g[j] : j \in 1 .. n}
  <1>1. f \in Seq(S) /\ g \in Seq(S) /\ Len(f) = m /\ Len(g) = n /\ m \in Nat /\ n \in Nat
    <2>1. f \in Seq({f[j] : j \in 1 .. m}) /\ g \in Seq({g[j] : j \in 1 .. n})
      BY RowSeq
    <2>2. {f[j] : j \in 1 .. m} \subseteq S /\ {g[j] : j \in 1 .. n} \subseteq S OBVIOUS
    <2>3. Seq({f[j] : j \in 1 .. m}) \subseteq Seq(S) BY <2>2
    <2>4. Seq({g[j] : j \in 1 .. n}) \subseteq Seq(S) BY <2>2
    <2> HIDE DEF S
    <2> QED BY <2>1, <2>3, <2>4, RowSeq
  <1> HIDE DEF S
  <1>2. f \o g \in Seq(S) /\ Len(f \o g) = m + n BY <1>1, ConcatProperties
  <1>3. \A j \in 1 .. m + n : (f \o g)[j] = IF j <= m THEN f[j] ELSE g[j - m]
    BY <1>1, ConcatProperties
  <1>4. f \o g = [j \in 1 .. m + n |-> (f \o g)[j]] BY <1>1, <1>2, LenProperties
  <1> QED BY <1>1, <1>3, <1>4 DEF Row, Joined

LEMMA RowTail ==
  ASSUME NEW f, NEW m \in Nat, Row(f, m), m > 0
  PROVE  /\ f # <<>> /\ Head(f) = f[1]
         /\ Row(Tail(f), m - 1) /\ \A j \in 1 .. m - 1 : Tail(f)[j] = f[j + 1]
  <1> DEFINE S == {f[j] : j \in 1 .. m}
  <1>1. f \in Seq(S) /\ Len(f) = m /\ m \in Nat BY RowSeq
  <1> HIDE DEF S
  <1>2. f # <<>> /\ Head(f) = f[1] BY <1>1, HeadTailProperties
  <1>3. /\ Tail(f) \in Seq(S) /\ Len(Tail(f)) = m - 1
        /\ \A j \in 1 .. m - 1 : Tail(f)[j] = f[j + 1]
    BY <1>1, <1>2, HeadTailProperties
  <1>4. Tail(f) = [j \in 1 .. m - 1 |-> Tail(f)[j]] BY <1>1, <1>3, LenProperties
  <1> QED BY <1>1, <1>2, <1>3, <1>4 DEF Row

LEMMA RowEmpty ==
  ASSUME NEW f
  PROVE  Row(f, 0) <=> f = <<>>
  BY DEF Row

LEMMA RowAppend ==
  ASSUME NEW f, NEW m \in Nat, NEW e, Row(f, m)
  PROVE  /\ Row(Added(f, e), m + 1)
         /\ \A j \in 1 .. m + 1 : Added(f, e)[j] = IF j <= m THEN f[j] ELSE e
  <1> DEFINE S == {f[j] : j \in 1 .. m} \cup {e}
  <1>1. f \in Seq(S) /\ e \in S /\ Len(f) = m /\ m \in Nat
    <2>1. f \in Seq({f[j] : j \in 1 .. m}) BY RowSeq
    <2>2. {f[j] : j \in 1 .. m} \subseteq S /\ e \in S OBVIOUS
    <2>3. Seq({f[j] : j \in 1 .. m}) \subseteq Seq(S) BY <2>2
    <2> HIDE DEF S
    <2> QED BY <2>1, <2>2, <2>3, RowSeq
  <1> HIDE DEF S
  <1>2. Append(f, e) \in Seq(S) /\ Len(Append(f, e)) = m + 1 BY <1>1, AppendProperties
  <1>3. \A j \in 1 .. m + 1 : Append(f, e)[j] = IF j <= m THEN f[j] ELSE e
    BY <1>1, AppendProperties
  <1>4. Append(f, e) = [j \in 1 .. m + 1 |-> Append(f, e)[j]] BY <1>1, <1>2, LenProperties
  <1> QED BY <1>1, <1>3, <1>4 DEF Row, Added

LEMMA RowSub ==
  ASSUME NEW f, NEW m \in Nat, NEW n \in 0 .. m, Row(f, m)
  PROVE  /\ Row(SubSeq(f, n + 1, m), m - n)
         /\ \A j \in 1 .. m - n : SubSeq(f, n + 1, m)[j] = f[n + j]
  <1> DEFINE S == {f[j] : j \in 1 .. m}
  <1>1. f \in Seq(S) /\ Len(f) = m /\ m \in Nat BY RowSeq
  <1> HIDE DEF S
  <1>2. SubSeq(f, n + 1, m) = [j \in 1 .. m - n |-> f[n + j]]
    BY <1>1
  <1>3. m - n \in Nat BY <1>1
  <1>4. \A j \in 1 .. m - n : SubSeq(f, n + 1, m)[j] = f[n + j] BY <1>2
  <1>5. SubSeq(f, n + 1, m) = [j \in 1 .. m - n |-> SubSeq(f, n + 1, m)[j]] BY <1>2, <1>4
  <1> QED BY <1>3, <1>4, <1>5 DEF Row

LEMMA RowFit ==
  ASSUME NEW f, NEW m \in Nat, Row(f, m), m <= FifoSize
  PROVE  Fit(f) = f
  <1> DEFINE S == {f[j] : j \in 1 .. m}
  <1>1. f \in Seq(S) /\ Len(f) = m /\ m \in Nat BY RowSeq
  <1> HIDE DEF S
  <1>2. Fit(f) = SubSeq(f, 1, m) BY <1>1, SizeAssumption DEF Fit, Least
  <1>3. SubSeq(f, 1, m) = f BY <1>1, SubSeqFull
  <1> QED BY <1>2, <1>3

-----------------------------------------------------------------------------
(* Bytes in words. *)

LEMMA WordSize == W \in Nat /\ W > 0
  BY SizeAssumption

LEMMA Division ==
  ASSUME NEW a \in Nat
  PROVE  /\ a \div W \in Nat /\ a % W \in 0 .. W - 1
         /\ a = ((a \div W) * W) + (a % W)
  BY WordSize

LEMMA Times ==
  ASSUME NEW j \in Nat, NEW k \in Nat
  PROVE  /\ j * W \in Nat /\ (j + k) * W = (j * W) + (k * W)
         /\ j < k => (j * W) + W <= k * W
  <1>1. j * W \in Nat /\ (j + k) * W = (j * W) + (k * W) BY WordSize
  <1>2. j < k => (j * W) + W <= k * W BY WordSize
  <1> QED BY <1>1, <1>2

LEMMA DivTimes ==
  ASSUME NEW j \in Nat
  PROVE  (j * W) \div W = j
  BY WordSize

LEMMA PadType == ASSUME NEW n \in Nat PROVE Pad(n) \in 0 .. W - 1
  BY Division, WordSize DEF Pad

LEMMA EndsFirst ==
  ASSUME NEW n \in Nat
  PROVE  Ends(n)[0] = 0 /\ Ends(n)[1] = W - Pad(n)
  BY PadType, WordSize DEF Ends

LEMMA EndsAdd ==
  ASSUME NEW n \in Nat, NEW k \in Nat, NEW m \in Nat, k > 0 \/ n % W = 0
  PROVE  Ends(n)[k + m] = Ends(n)[k] + (m * W)
  <1>1. (k + m) * W = (k * W) + (m * W) /\ k * W \in Nat /\ m * W \in Nat BY Times
  <1>2. Pad(n) \in 0 .. W - 1 /\ (n % W = 0 => Pad(n) = 0) BY PadType DEF Pad
  <1>3. CASE k > 0 BY <1>1, <1>2, <1>3, WordSize DEF Ends
  <1>4. CASE k = 0 /\ m > 0 BY <1>1, <1>2, <1>4, WordSize DEF Ends
  <1>5. CASE k = 0 /\ m = 0 BY <1>5, WordSize DEF Ends
  <1> QED BY <1>3, <1>4, <1>5

LEMMA EndsMono ==
  ASSUME NEW n \in Nat, NEW j \in Nat, NEW k \in Nat
  PROVE  Ends(n)[j] \in Nat /\ (j < k => Ends(n)[j] < Ends(n)[k])
  <1>1. Pad(n) \in 0 .. W - 1 BY PadType
  <1>2. /\ j * W \in Nat /\ k * W \in Nat
        /\ j < k => (j * W) + W <= k * W
        /\ j > 0 => (0 * W) + W <= j * W
    BY Times
  <1>3. Ends(n)[j] \in Nat BY <1>1, <1>2, WordSize DEF Ends
  <1>4. ASSUME j < k PROVE Ends(n)[j] < Ends(n)[k]
    BY <1>1, <1>2, <1>4, WordSize DEF Ends
  <1> QED BY <1>3, <1>4

LEMMA EndsType ==
  ASSUME NEW n \in Nat, NEW k \in Nat
  PROVE  Ends(n)[k] \in Nat
  BY EndsMono

LEMMA EndsNext ==
  ASSUME NEW n \in Nat, NEW k \in Nat
  PROVE  Ends(n)[k + 1] - Ends(n)[k] \in 1 .. W
  <1>1. CASE k = 0 BY <1>1, EndsFirst, PadType, WordSize
  <1>2. CASE k > 0
    <2>1. Ends(n)[k + 1] = Ends(n)[k] + (1 * W) /\ Ends(n)[k] \in Nat BY <1>2, EndsAdd, EndsMono
    <2> QED BY <2>1, WordSize
  <1> QED BY <1>1, <1>2

\* The word a byte is in.
LEMMA Locate ==
  ASSUME NEW n \in Nat, NEW e, e = Ends(n), NEW k \in Nat, NEW m \in Nat, NEW o \in Nat,
         e[k] < o, o <= e[k + m]
  PROVE  \E j \in 1 .. m : e[k + j - 1] < o /\ o <= e[k + j]
  <1> DEFINE q == (o + Pad(n) - 1) \div W
             j == q + 1 - k
  <1>1. Pad(n) \in 0 .. W - 1 /\ e[k] \in Nat /\ o > 0 BY PadType, EndsMono
  <1>2. o + Pad(n) - 1 \in Nat BY <1>1
  <1>3. /\ q \in Nat /\ q * W \in Nat
        /\ q * W <= o + Pad(n) - 1 /\ o + Pad(n) - 1 < (q * W) + W
    <2>1. /\ q \in Nat /\ (o + Pad(n) - 1) % W \in 0 .. W - 1
          /\ o + Pad(n) - 1 = (q * W) + ((o + Pad(n) - 1) % W)
      BY <1>2, Division
    <2>2. q * W \in Nat BY <2>1, Times
    <2> HIDE DEF q
    <2> QED BY <2>1, <2>2, WordSize
  <1> HIDE DEF q
  <1>4. (q + 1) * W = (q * W) + W BY <1>3, WordSize
  <1>5. e[q] < o
    BY <1>1, <1>3, WordSize DEF Ends
  <1>6. o <= e[q + 1]
    BY <1>1, <1>3, <1>4, WordSize DEF Ends
  <1>0. q + 1 \in Nat /\ k + m \in Nat BY <1>3
  <1>7. q + 1 > k
    <2>1. q + 1 < k => e[q + 1] < e[k] BY <1>0, EndsMono
    <2>2. e[q + 1] \in Nat BY <1>0, EndsType
    <2>3. q + 1 # k BY <1>6, <1>1, <2>2
    <2> QED BY <1>1, <1>3, <1>6, <2>1, <2>2, <2>3
  <1>8. q < k + m
    <2>1. k + m < q => e[k + m] < e[q] BY <1>0, <1>3, EndsMono
    <2>2. e[q] \in Nat /\ e[k + m] \in Nat BY <1>0, <1>3, EndsType
    <2>3. q # k + m BY <1>5, <2>2
    <2> QED BY <1>3, <1>5, <2>1, <2>2, <2>3
  <1>9. j \in 1 .. m /\ k + j - 1 = q /\ k + j = q + 1 BY <1>3, <1>7, <1>8
  <1> HIDE DEF j
  <1> QED BY <1>5, <1>6, <1>9

-----------------------------------------------------------------------------
(* Words in the two FIFOs. *)

LEMMA OutsConcat ==
  ASSUME NEW s, NEW t, NEW a, NEW e, NEW k \in Nat, NEW m \in Nat, NEW p \in Nat,
         Outs(s, a, e, k, m), Outs(t, a, e, k + m, p)
  PROVE  Outs(Joined(s, t), a, e, k, m + p)
  <1>1. /\ Row(Joined(s, t), m + p)
        /\ \A j \in 1 .. m + p : Joined(s, t)[j] = IF j <= m THEN s[j] ELSE t[j - m]
    <2>1. Row(s, m) /\ Row(t, p) BY DEF Outs
    <2> QED BY <2>1, RowConcat
  <1>2. ASSUME NEW j \in 1 .. m + p PROVE Joined(s, t)[j] = OutWord(a, e, k + j)
    <2>1. CASE j <= m
      <3>1. j \in 1 .. m BY <2>1
      <3> QED BY <1>1, <3>1 DEF Outs
    <2>2. CASE j > m
      <3>1. j - m \in 1 .. p /\ (k + m) + (j - m) = k + j BY <2>2
      <3>2. t[j - m] = OutWord(a, e, (k + m) + (j - m)) BY <3>1 DEF Outs
      <3> QED BY <1>1, <2>2, <3>1, <3>2
    <2> QED BY <2>1, <2>2
  <1> QED BY <1>1, <1>2 DEF Outs

LEMMA OutsTail ==
  ASSUME NEW s, NEW a, NEW e, NEW k \in Nat, NEW m \in Nat, Outs(s, a, e, k, m), m > 0
  PROVE  /\ s # <<>> /\ Head(s) = OutWord(a, e, k + 1)
         /\ Outs(Tail(s), a, e, k + 1, m - 1)
  <1>1. Row(s, m) /\ \A j \in 1 .. m : s[j] = OutWord(a, e, k + j) BY DEF Outs
  <1>2. /\ s # <<>> /\ Head(s) = s[1] /\ Row(Tail(s), m - 1)
        /\ \A j \in 1 .. m - 1 : Tail(s)[j] = s[j + 1]
    BY <1>1, RowTail
  <1>3. s[1] = OutWord(a, e, k + 1) BY <1>1
  <1>4. ASSUME NEW j \in 1 .. m - 1 PROVE Tail(s)[j] = OutWord(a, e, (k + 1) + j)
    <2>1. j + 1 \in 1 .. m /\ k + (j + 1) = (k + 1) + j OBVIOUS
    <2>2. s[j + 1] = OutWord(a, e, k + (j + 1)) BY <1>1, <2>1
    <2> QED BY <1>2, <2>1, <2>2
  <1> QED BY <1>2, <1>3, <1>4 DEF Outs

LEMMA InsAppend ==
  ASSUME NEW s, NEW a, NEW e, NEW k \in Nat, NEW m \in Nat, Ins(s, a, e, k, m),
         NEW v, v = InWord(a, e, k + (m + 1))
  PROVE  Ins(Added(s, v), a, e, k, m + 1)
  <1>1. Row(s, m) /\ \A j \in 1 .. m : s[j] = InWord(a, e, k + j) BY DEF Ins
  <1>3. Row(Added(s, v), m + 1) /\ \A j \in 1 .. m + 1 : Added(s, v)[j] = IF j <= m THEN s[j] ELSE v
    BY <1>1, RowAppend
  <1>4. ASSUME NEW j \in 1 .. m + 1 PROVE Added(s, v)[j] = InWord(a, e, k + j)
    <2>1. CASE j <= m
      <3>1. j \in 1 .. m BY <2>1
      <3> QED BY <1>1, <1>3, <3>1
    <2>2. CASE j = m + 1 BY <1>3, <2>2
    <2> QED BY <2>1, <2>2
  <1> QED BY <1>3, <1>4 DEF Ins

LEMMA InsSub ==
  ASSUME NEW s, NEW a, NEW e, NEW k \in Nat, NEW m \in Nat, NEW p \in 0 .. m,
         Ins(s, a, e, k, m)
  PROVE  Ins(SubSeq(s, p + 1, m), a, e, k + p, m - p)
  <1>1. Row(s, m) /\ \A j \in 1 .. m : s[j] = InWord(a, e, k + j) BY DEF Ins
  <1>2. /\ Row(SubSeq(s, p + 1, m), m - p)
        /\ \A j \in 1 .. m - p : SubSeq(s, p + 1, m)[j] = s[p + j]
    BY <1>1, RowSub
  <1>3. ASSUME NEW j \in 1 .. m - p PROVE SubSeq(s, p + 1, m)[j] = InWord(a, e, (k + p) + j)
    <2>1. p + j \in 1 .. m /\ k + (p + j) = (k + p) + j OBVIOUS
    <2>2. s[p + j] = InWord(a, e, k + (p + j)) BY <1>1, <2>1
    <2> QED BY <1>2, <2>1, <2>2
  <1> QED BY <1>2, <1>3 DEF Ins

\* The words taken from a buffer that has not been received that far are those to be sent.
LEMMA WordsOut ==
  ASSUME NEW a \in Nat, NEW e \in [Nat -> Nat], NEW l \in Nat, NEW r \in Nat, NEW k \in Nat,
         NEW m \in Nat, NEW t \in Nat, t = a + e[k], r <= t, t + (m * W) <= l,
         \A j \in 0 .. m : e[k + j] = e[k] + (j * W), buf = Bytes(l, r)
  PROVE  Outs(Words(t, m), a, e, k, m)
  <1>1. ASSUME NEW j \in 1 .. m PROVE Words(t, m)[j] = OutWord(a, e, k + j)
    <2>1. /\ (j - 1) * W \in Nat /\ j * W = ((j - 1) * W) + W
          /\ j * W <= m * W /\ m * W \in Nat
      <3>0. j \in Nat /\ j - 1 \in Nat OBVIOUS
      <3>1. ((j - 1) + 1) * W = ((j - 1) * W) + (1 * W) /\ (j - 1) * W \in Nat /\ m * W \in Nat
        BY <3>0, Times
      <3>2. j < m => (j * W) + W <= m * W BY <3>0, Times
      <3>3. j * W \in Nat BY <3>0, Times
      <3> QED BY <3>1, <3>2, <3>3, WordSize
    <2>2. (k + j) - 1 = k + (j - 1) /\ j - 1 \in 0 .. m /\ j \in 0 .. m OBVIOUS
    <2>3. e[k + j] = e[k] + (j * W) /\ e[(k + j) - 1] = e[k] + ((j - 1) * W) BY <2>2
    <2>4. e[k] \in Nat OBVIOUS
    <2>5. e[k + j] - e[(k + j) - 1] = W BY <2>1, <2>3, <2>4, WordSize
    <2>6. ASSUME NEW b \in 1 .. W
          PROVE  buf[t + ((j - 1) * W) + b] = Out(a + e[(k + j) - 1] + b)
      <3> DEFINE i == t + ((j - 1) * W) + b
      <3>1. i \in 1 .. l /\ i > r BY <2>1, WordSize
      <3>2. i = a + e[(k + j) - 1] + b BY <2>1, <2>3, <2>4, WordSize
      <3> HIDE DEF i
      <3>3. buf[i] = Out(i) BY <3>1 DEF Bytes
      <3> QED BY <3>2, <3>3 DEF i
    <2>7. Words(t, m)[j] = [b \in 1 .. W |-> buf[t + ((j - 1) * W) + b]] BY DEF Words
    <2> QED BY <2>5, <2>6, <2>7 DEF OutWord
  <1>2. Row(Words(t, m), m) BY DEF Words, Row
  <1> QED BY <1>1, <1>2 DEF Outs

\* The first word of a burst that is not whole.
LEMMA ShortOut ==
  ASSUME NEW a \in Nat, NEW e \in [Nat -> Nat], NEW l \in Nat, NEW c \in Nat,
         e[0] = 0, e[1] = c, buf = Bytes(l, a), a + c <= l
  PROVE  Outs(<<[b \in 1 .. c |-> buf[a + b]]>>, a, e, 0, 1)
  <1>1. \A b \in 1 .. c : buf[a + b] = Out(a + e[0] + b)
    <2> TAKE b \in 1 .. c
    <2>1. a + b \in 1 .. l /\ a + b > a /\ a + e[0] + b = a + b OBVIOUS
    <2> QED BY <2>1 DEF Bytes
  <1>2. OutWord(a, e, 1) = [b \in 1 .. c |-> buf[a + b]] 
    <2>1. e[1] - e[1 - 1] = c /\ e[1 - 1] = e[0] OBVIOUS
    <2> QED BY <1>1, <2>1 DEF OutWord
  <1> QED BY <1>2 DEF Outs, Row

LEMMA Lengths ==
  ASSUME NEW a, NEW T \in Nat, NEW X \in Nat, NEW R \in Nat, R <= X, X <= T, Burst(a, T, X, R)
  PROVE  Len(txf) = T - X /\ Len(rxf) = X - R
  <1>1. Row(txf, T - X) /\ Row(rxf, X - R) BY DEF Burst, Outs, Ins
  <1>2. T - X \in Nat /\ X - R \in Nat OBVIOUS
  <1> QED BY <1>1, <1>2, RowSeq

LEMMA EndsIs ==
  ASSUME NEW n \in Nat, NEW e, e = Ends(n)
  PROVE  /\ e \in [Nat -> Nat] /\ e[0] = 0
         /\ \A j, k \in Nat : j < k => e[j] < e[k]
         /\ \A j, k \in Nat : j <= k => e[j] <= e[k]
  <1>1. e \in [Nat -> Nat]
    <2>1. \A k \in Nat : Ends(n)[k] \in Nat BY EndsType
    <2>2. Ends(n) = [k \in Nat |-> Ends(n)[k]] BY DEF Ends
    <2> QED BY <2>1, <2>2
  <1>2. e[0] = 0 BY EndsFirst
  <1>3. \A j, k \in Nat : j < k => e[j] < e[k] BY EndsMono
  <1>4. \A j, k \in Nat : j <= k => e[j] <= e[k]
    <2> TAKE j, k \in Nat
    <2>1. j < k => e[j] < e[k] BY <1>3
    <2>2. e[j] \in Nat /\ e[k] \in Nat BY <1>1
    <2> QED BY <2>1, <2>2
  <1> QED BY <1>1, <1>2, <1>3, <1>4

\* What the words of the burst behind the first R that the handler reads come to.
LEMMA ReceivedIs ==
  ASSUME NEW n \in Nat, NEW e, e = Ends(n), NEW R \in Nat, NEW j \in Nat,
         R = 0 => x.lsb = n % W, R # 0 => x.lsb = 0
  PROVE  Received(j) = e[R + j] - e[R]
  <1>1. j * W \in Nat BY Times
  <1>2. e \in [Nat -> Nat] /\ e[0] = 0 BY EndsIs
  <1>3. n % W \in 0 .. W - 1 BY Division
  <1>4. CASE j = 0
    <2>1. R + j = R /\ j * W = 0 BY <1>4, WordSize
    <2>2. e[R] \in Nat BY <1>2
    <2>3. Received(j) = 0 BY <1>4, <2>1 DEF Received
    <2> QED BY <2>1, <2>2, <2>3
  <1>5. CASE R > 0
    <2>1. e[R + j] = e[R] + (j * W) BY <1>5, EndsAdd
    <2>2. e[R] \in Nat BY <1>2
    <2>3. Received(j) = j * W BY <1>1, <1>5 DEF Received
    <2> QED BY <1>1, <2>1, <2>2, <2>3
  <1>6. CASE R = 0 /\ j > 0
    <2>1. e[R + j] = (j * W) - Pad(n) /\ e[R] = 0 BY <1>2, <1>6 DEF Ends
    <2>2. Received(j) = (j * W) - Pad(n)
      <3>1. CASE n % W = 0 BY <1>1, <1>6, <3>1 DEF Received, Pad
      <3>2. CASE n % W # 0
        <4>1. x.lsb = n % W /\ x.lsb # 0 BY <1>6, <3>2
        <4>2. Received(j) = (j * W) - (W - (n % W)) BY <1>6, <4>1 DEF Received
        <4> QED BY <3>2, <4>2 DEF Pad
      <3> QED BY <3>1, <3>2
    <2>3. Pad(n) \in Int BY PadType
    <2> QED BY <1>1, <2>1, <2>2, <2>3
  <1> QED BY <1>4, <1>5, <1>6

\* R words of the burst have been received, and m are in the receive FIFO.
Reading(a, n, l, R, m) ==
  /\ x.rlen = a + Ends(n)[R] /\ buf = Bytes(l, x.rlen) /\ Ins(rxf, a, Ends(n), R, m)
  /\ R = 0 => x.lsb = n % W
  /\ R # 0 => x.lsb = 0

\* A byte of the buffer is taken from the word it was received in.
LEMMA FilledIs ==
  ASSUME NEW a \in Nat, NEW n \in Nat, NEW l \in Nat, NEW R \in Nat, NEW m \in Nat,
         NEW p \in 0 .. m, Reading(a, n, l, R, m)
  PROVE  Filled(p) = Bytes(l, a + Ends(n)[R + p])
  <1> DEFINE e == Ends(n)
             r == x.rlen
  <1>0. e = Ends(n) OBVIOUS
  <1> HIDE DEF e
  <1>a. e \in [Nat -> Nat] /\ \A j, k \in Nat : j <= k => e[j] <= e[k] BY <1>0, EndsIs
  <1>r. /\ r \in Nat /\ r = a + e[R] /\ buf = Bytes(l, r) /\ Ins(rxf, a, e, R, m)
        /\ (R = 0 => x.lsb = n % W) /\ (R # 0 => x.lsb = 0)
    BY <1>0, <1>a DEF Reading
  <1>b. \A j \in 0 .. p : Received(j) = e[R + j] - e[R]
    <2> TAKE j \in 0 .. p
    <2>1. j \in Nat OBVIOUS
    <2> QED BY <1>0, <1>r, <2>1, ReceivedIs
  <1>c. \A o \in Nat : e[R] < o /\ o <= e[R + p] =>
          \E j \in 1 .. p : e[R + j - 1] < o /\ o <= e[R + j]
    <2> TAKE o \in Nat
    <2>1. p \in Nat OBVIOUS
    <2> QED BY <1>0, <2>1, Locate
  <1> DEFINE Place(i, j) == i - x.rlen - Received(j - 1)
             From(i)     == {j \in 1 .. p : Place(i, j) \in DOMAIN rxf[j]}
  <1>1. Filled(p) = [i \in 1 .. l |->
           IF From(i) = {} THEN buf[i]
           ELSE LET j == CHOOSE j \in From(i) : TRUE IN rxf[j][Place(i, j)]]
    BY <1>r DEF Filled, Bytes
  <1>2. ASSUME NEW i \in 1 .. l, NEW j \in 1 .. p
        PROVE  /\ j \in From(i) <=> (a + e[R + j - 1] < i /\ i <= a + e[R + j])
               /\ j \in From(i) => rxf[j][Place(i, j)] = In(i)
    <2>1. /\ j \in 1 .. m /\ j - 1 \in 0 .. p /\ (R + j) - 1 = R + (j - 1)
          /\ R + j - 1 \in Nat /\ R + j \in Nat
      OBVIOUS
    <2>2. Received(j - 1) = e[R + (j - 1)] - e[R] BY <1>b, <2>1
    <2>3. e[R] \in Nat /\ e[R + j - 1] \in Nat /\ e[R + j] \in Nat BY <1>a, <2>1
    <2>4. Place(i, j) = i - a - e[R + j - 1] BY <1>r, <2>1, <2>2, <2>3
    <2>5. rxf[j] = InWord(a, e, R + j) BY <1>r, <2>1 DEF Ins
    <2> DEFINE z == Place(i, j)
    <2>6. z = i - a - e[R + j - 1] BY <2>4
    <2>7. j \in From(i) <=> z \in DOMAIN rxf[j] OBVIOUS
    <2> HIDE DEF z, From, Place
    <2>8. DOMAIN rxf[j] = 1 .. e[R + j] - e[R + j - 1] BY <2>5 DEF InWord
    <2>9. z \in DOMAIN rxf[j] <=> (a + e[R + j - 1] < i /\ i <= a + e[R + j])
      <3>1. z \in Int BY <2>3, <2>6
      <3>2. z \in 1 .. e[R + j] - e[R + j - 1] <=> z >= 1 /\ z <= e[R + j] - e[R + j - 1]
        BY <2>3, <3>1
      <3>3. z >= 1 <=> a + e[R + j - 1] < i BY <2>3, <2>6
      <3>4. z <= e[R + j] - e[R + j - 1] <=> i <= a + e[R + j] BY <2>3, <2>6
      <3> QED BY <2>8, <3>2, <3>3, <3>4
    <2>10. z \in DOMAIN rxf[j] => rxf[j][z] = In(a + e[R + j - 1] + z)
      BY <2>5, <2>8 DEF InWord
    <2>11. a + e[R + j - 1] + z = i BY <2>3, <2>6
    <2> QED BY <2>7, <2>9, <2>10, <2>11 DEF z
  <1> HIDE DEF Place, From, r
  <1>3. e[R] \in Nat /\ e[R + p] \in Nat /\ e[R] <= e[R + p]
    <2>1. R + p \in Nat /\ R <= R + p OBVIOUS
    <2> QED BY <1>a, <2>1
  <1>4. ASSUME NEW i \in 1 .. l
        PROVE  (IF From(i) = {} THEN buf[i]
                ELSE LET j == CHOOSE j \in From(i) : TRUE IN rxf[j][Place(i, j)])
               = IF i <= a + e[R + p] THEN In(i) ELSE Out(i)
    <2>1. From(i) \subseteq 1 .. p BY DEF From
    <2>2. CASE From(i) = {}
      <3>1. ~(a + e[R] < i /\ i <= a + e[R + p])
        <4>1. SUFFICES ASSUME a + e[R] < i, i <= a + e[R + p] PROVE FALSE OBVIOUS
        <4>2. i - a \in Nat /\ e[R] < i - a /\ i - a <= e[R + p] BY <4>1, <1>3
        <4>3. PICK j \in 1 .. p : e[R + j - 1] < i - a /\ i - a <= e[R + j] BY <1>c, <4>2
        <4>4. R + j - 1 \in Nat /\ R + j \in Nat OBVIOUS
        <4>5. e[R + j - 1] \in Nat /\ e[R + j] \in Nat BY <1>a, <4>4
        <4>6. j \in From(i) BY <1>2, <4>3, <4>5
        <4> QED BY <2>2, <4>6
      <3>2. buf[i] = IF i <= r THEN In(i) ELSE Out(i) BY <1>r DEF Bytes
      <3>3. r = a + e[R] BY <1>r
      <3>4. i <= r <=> i <= a + e[R + p] BY <1>3, <3>1, <3>3
      <3> QED BY <2>2, <3>2, <3>4
    <2>3. CASE From(i) # {}
      <3> DEFINE j == CHOOSE j \in From(i) : TRUE
      <3>1. j \in From(i) BY <2>3
      <3> HIDE DEF j
      <3>2. j \in 1 .. p BY <2>1, <3>1
      <3>3. i <= a + e[R + j] /\ rxf[j][Place(i, j)] = In(i) BY <1>2, <3>1, <3>2
      <3>4. R + j \in Nat /\ R + p \in Nat /\ R + j <= R + p BY <3>2
      <3>5. e[R + j] \in Nat /\ e[R + j] <= e[R + p] BY <1>a, <3>4
      <3>6. i <= a + e[R + p] BY <1>3, <3>3, <3>5
      <3> QED BY <2>3, <3>3, <3>6 DEF j
    <2> QED BY <2>2, <2>3
  <1> QED BY <1>0, <1>1, <1>4 DEF Bytes

LEMMA OnWireMore ==
  ASSUME NEW p \in Nat, NEW q \in Nat, NEW w, Row(w, q), \A j \in 1 .. q : w[j] = Out(p + j)
  PROVE  Joined(OnWire(p), w) = OnWire(p + q)
  <1> DEFINE u == OnWire(p)
             v == OnWire(p + q)
  <1>1. Row(u, p) /\ \A j \in 1 .. p : u[j] = Out(j) BY DEF OnWire, Row
  <1>2. p + q \in Nat OBVIOUS
  <1>3. Row(v, p + q) /\ \A j \in 1 .. p + q : v[j] = Out(j) BY <1>2 DEF OnWire, Row
  <1> HIDE DEF u, v
  <1>4. /\ Row(Joined(u, w), p + q)
        /\ \A j \in 1 .. p + q : Joined(u, w)[j] = IF j <= p THEN u[j] ELSE w[j - p]
    BY <1>1, RowConcat
  <1>5. ASSUME NEW j \in 1 .. p + q PROVE Joined(u, w)[j] = v[j]
    <2>1. v[j] = Out(j) BY <1>3
    <2>2. CASE j <= p
      <3>1. j \in 1 .. p BY <2>2
      <3> QED BY <1>1, <1>4, <2>1, <2>2, <3>1
    <2>3. CASE j > p
      <3>1. j - p \in 1 .. q /\ p + (j - p) = j BY <2>3
      <3>2. w[j - p] = Out(p + (j - p)) BY <3>1
      <3>3. Joined(u, w)[j] = w[j - p] BY <1>4, <2>3
      <3> QED BY <2>1, <3>1, <3>2, <3>3
    <2> QED BY <2>2, <2>3
  <1>6. Joined(u, w) = v BY <1>2, <1>3, <1>4, <1>5, RowIs
  <1> QED BY <1>6 DEF u, v

-----------------------------------------------------------------------------
(* The steps of a transfer. *)

LEMMA ShiftStep ==
  ASSUME Sound, Shift
  PROVE  Sound'
  <1>1. /\ xch /\ txf # <<>> /\ txf' = Tail(txf)
        /\ rxf' = Fit(Append(rxf, [b \in DOMAIN Head(txf) |-> In(Head(txf)[b][2])]))
        /\ sent' = sent \o Head(txf)
        /\ left' = left - Least(left, Len(Head(txf)))
        /\ IF left > Len(Head(txf)) THEN Exchanges(Tail(txf)) ELSE xch' = FALSE
        /\ tc' = (tc \/ left <= Len(Head(txf)))
        /\ pc' = pc /\ x' = x /\ buf' = buf /\ pulse' = pulse /\ inten' = inten
        /\ isr' = isr /\ cnt' = cnt
    BY DEF Shift, intrVars
  <1>2. BurstInv /\ Numbers BY <1>1 DEF Sound, Numbers, Clean, Between
  <1>3. PICK a, N, T, X, R \in Nat : Counts(a, N, T, X, R) /\ Burst(a, T, X, R) /\ Phase(N, X, R)
    BY <1>2 DEF BurstInv
  <1>4. PICK n \in Nat : n = x.bxlen BY <1>2 DEF Numbers, Transfer
  <1> DEFINE e == Ends(n)
  <1>0. e = Ends(n) OBVIOUS
  <1> HIDE DEF e
  <1>5. /\ e \in [Nat -> Nat] /\ e[0] = 0 /\ e[N] = n /\ a + n <= x.xlen
        /\ R <= X /\ X <= T /\ T <= N /\ T - R <= FifoSize
        /\ Outs(txf, a, e, X, T - X) /\ Ins(rxf, a, e, R, X - R)
        /\ sent = OnWire(a + e[X]) /\ buf = Bytes(x.xlen, x.rlen)
    <2>1. e \in [Nat -> Nat] /\ e[0] = 0 BY <1>0, EndsIs
    <2> QED BY <1>0, <1>3, <1>4, <2>1 DEF Counts, Burst
  <1>6. \A j, k \in Nat : j < k => e[j] < e[k] BY <1>0, EndsIs
  <1>8. X < T
    <2>1. Row(txf, T - X) BY <1>5 DEF Outs
    <2>2. T - X # 0 BY <1>1, <2>1, RowEmpty
    <2> QED BY <1>5, <2>2
  <1>7. X < N /\ R < N /\ ~tc /\ left \in Nat /\ left > 0 /\ left >= n - e[X]
    <2>1. X < N /\ R < N BY <1>5, <1>8
    <2>2. left \in Nat /\ left > 0 BY <1>1, <1>2 DEF Numbers
    <2>3. left >= n - e[X] BY <1>3, <1>4, <2>1, <2>2 DEF Phase, Rest, e
    <2>4. tc => X = N BY <1>3 DEF Phase, Complete, Ended
    <2> QED BY <2>1, <2>2, <2>3, <2>4
  <1>9. T - X \in Nat /\ T - X > 0 /\ X - R \in Nat BY <1>5, <1>8
  <1>10. Head(txf) = OutWord(a, e, X + 1) /\ Outs(Tail(txf), a, e, X + 1, (T - X) - 1)
    BY <1>5, <1>9, OutsTail
  <1> DEFINE q == e[X + 1] - e[X]
             w == OutWord(a, e, X + 1)
  <1>11. /\ q \in Nat /\ q > 0 /\ e[X] \in Nat /\ e[X + 1] \in Nat /\ (X + 1) - 1 = X
         /\ e[X] + q = e[X + 1] /\ (a + e[X]) + q = a + e[X + 1] /\ a + e[X] \in Nat
    <2>1. X + 1 \in Nat /\ X < X + 1 OBVIOUS
    <2>2. e[X] \in Nat /\ e[X + 1] \in Nat /\ e[X] < e[X + 1] BY <1>5, <1>6, <2>1
    <2> QED BY <2>2
  <1>12. Row(w, q) /\ \A j \in 1 .. q : w[j] = Out((a + e[X]) + j)
    BY <1>11 DEF OutWord, Row
  <1>13. Len(w) = q /\ DOMAIN w = 1 .. q BY <1>11, <1>12, RowSeq
  <1>14. [b \in DOMAIN w |-> In(w[b][2])] = InWord(a, e, X + 1)
    <2>1. \A b \in 1 .. q : In(w[b][2]) = In((a + e[X]) + b) BY <1>12 DEF Out
    <2> QED BY <1>11, <1>13, <2>1 DEF InWord
  <1> HIDE DEF q, w
  <1>15. Head(txf) = w BY <1>10 DEF w
  <1>16. sent' = OnWire(a + e[X + 1])
    <2>1. Joined(OnWire(a + e[X]), w) = OnWire((a + e[X]) + q) BY <1>11, <1>12, OnWireMore
    <2>2. sent' = Joined(sent, w) BY <1>1, <1>15 DEF Joined
    <2> QED BY <1>5, <1>11, <2>1, <2>2
  <1>17. Ins(rxf', a, e, R, (X - R) + 1)
    <2> DEFINE v == InWord(a, e, X + 1)
    <2>1. v = InWord(a, e, R + ((X - R) + 1))
      <3>1. R + ((X - R) + 1) = X + 1 BY <1>5
      <3> QED BY <3>1
    <2> HIDE DEF v
    <2>2. Ins(Added(rxf, v), a, e, R, (X - R) + 1) BY <1>5, <1>9, <2>1, InsAppend
    <2>3. Row(Added(rxf, v), (X - R) + 1) BY <2>2 DEF Ins
    <2>4. (X - R) + 1 <= FifoSize /\ (X - R) + 1 \in Nat
      BY <1>5, <1>8, <1>9, SizeAssumption
    <2>5. Fit(Added(rxf, v)) = Added(rxf, v) BY <2>3, <2>4, RowFit
    <2>6. rxf' = Fit(Added(rxf, v)) BY <1>1, <1>14, <1>15 DEF Added, v
    <2> QED BY <2>2, <2>5, <2>6
  <1>18. Outs(txf', a, e, X + 1, T - (X + 1))
    <2>1. (T - X) - 1 = T - (X + 1) BY <1>5
    <2> QED BY <1>1, <1>10, <2>1
  <1>19. e[X + 1] <= n /\ (X + 1 < N <=> e[X + 1] < n)
    <2>1. X + 1 \in Nat /\ X + 1 <= N BY <1>7
    <2>2. X + 1 < N => e[X + 1] < e[N] BY <1>6, <2>1
    <2>3. X + 1 = N => e[X + 1] = n BY <1>5
    <2>4. e[X + 1] \in Nat BY <1>11
    <2> QED BY <1>5, <2>1, <2>2, <2>3, <2>4
  <1>20. ASSUME left > q
         PROVE  /\ left' \in Nat /\ left' > 0 /\ left' >= n - e[X + 1]
                /\ tc' = FALSE /\ xch' \in BOOLEAN
    <2>1. left' = left - q /\ tc' = FALSE /\ xch' \in BOOLEAN
      <3>1. left' = left - Least(left, q) /\ tc' = (tc \/ left <= q) /\ Exchanges(Tail(txf))
        BY <1>1, <1>13, <1>15, <1>20
      <3>2. Least(left, q) = q BY <1>7, <1>11, <1>20 DEF Least
      <3>3. ~(left <= q) BY <1>7, <1>11, <1>20
      <3> QED BY <1>7, <3>1, <3>2, <3>3 DEF Exchanges
    <2>2. left' \in Nat /\ left' > 0 /\ left' >= n - e[X + 1]
      BY <1>7, <1>11, <1>20, <2>1
    <2> QED BY <2>1, <2>2
  <1>27. ASSUME ~(left > q)
         PROVE  left' = 0 /\ tc' = TRUE /\ xch' = FALSE /\ X + 1 = N
    <2>1. left' = 0 /\ tc' = TRUE /\ xch' = FALSE
      <3>1. left' = left - Least(left, q) /\ tc' = (tc \/ left <= q) /\ xch' = FALSE
        BY <1>1, <1>13, <1>15, <1>27
      <3>2. left <= q BY <1>7, <1>11, <1>27
      <3>3. Least(left, q) = left BY <1>7, <1>11, <3>2 DEF Least
      <3>4. tc' = TRUE BY <3>1, <3>2
      <3>5. left' = 0 BY <1>7, <3>1, <3>3
      <3> QED BY <3>1, <3>4, <3>5
    <2>2. e[X + 1] >= n BY <1>7, <1>11, <1>27
    <2>3. X + 1 = N BY <1>7, <1>11, <1>19, <2>2
    <2> QED BY <2>1, <2>3
  <1>28. /\ left' \in Nat /\ xch' \in BOOLEAN /\ tc' \in BOOLEAN /\ (xch' => left' > 0)
         /\ X + 1 < N => left' >= n - e[X + 1]
         /\ tc' => X + 1 = N /\ left' = 0
    <2>1. CASE left > q BY <1>20, <2>1
    <2>2. CASE ~(left > q) BY <1>27, <2>2
    <2> QED BY <2>1, <2>2
  <1>21. Counts(a, N, T, X + 1, R)'
    <2>1. R <= X + 1 /\ X + 1 <= T BY <1>5, <1>8
    <2>2. Counts(a, N, T, X + 1, R) BY <1>3, <2>1 DEF Counts
    <2> QED BY <1>1, <2>2 DEF Counts
  <1>22. Burst(a, T, X + 1, R)'
    <2>1. (X - R) + 1 = (X + 1) - R BY <1>5
    <2>2. x'.bxlen = n BY <1>1, <1>4
    <2>3. Ins(rxf', a, e, R, (X + 1) - R) BY <1>17, <2>1
    <2>4. buf' = Bytes(x'.xlen, x'.rlen) BY <1>1, <1>5
    <2> QED BY <1>16, <1>18, <2>2, <2>3, <2>4 DEF Burst, e
  <1>23. Phase(N, X + 1, R)'
    <2>1. x'.bxlen = n BY <1>1, <1>4
    <2>2. Rest(N, X + 1)' BY <1>28, <2>1 DEF Rest, e
    <2>3. Complete(N, X + 1, R)' BY <1>7, <1>28 DEF Complete, Ended
    <2>4. isr = "move" => Moving(N, X, R) BY <1>3 DEF Phase
    <2>5. isr = "move" => Moving(N, X + 1, R)'
      <3> SUFFICES ASSUME isr = "move" PROVE Moving(N, X + 1, R)' OBVIOUS
      <3>1. cnt \in 1 .. X - R /\ (cnt = RxMark \/ X = N) BY <2>4 DEF Moving
      <3>2. cnt \in 1 .. (X + 1) - R /\ R + cnt # N BY <1>5, <1>7, <3>1
      <3>3. cnt = RxMark BY <1>7, <3>1
      <3> QED BY <1>1, <3>2, <3>3 DEF Moving
    <2>6. pc \in {"start", "wait"} /\ inten /\ pulse = 0 /\ isr \in {"away", "move", "end"}
      BY <1>3, <1>7 DEF Phase
    <2> QED BY <1>1, <1>7, <2>2, <2>3, <2>5, <2>6 DEF Phase
  <1>24. BurstInv'
    <2>1. X + 1 \in Nat OBVIOUS
    <2> QED BY <1>21, <1>22, <1>23, <2>1 DEF BurstInv
  <1>25. Numbers' BY <1>1, <1>2, <1>28 DEF Numbers
  <1>26. pc' \in {"start", "wait"} BY <1>1, <1>3 DEF Phase
  <1> QED BY <1>24, <1>25, <1>26 DEF Sound

LEMMA IsrMoveStep ==
  ASSUME Sound, IsrMove
  PROVE  Sound'
  <1>1. BurstInv /\ Numbers BY DEF Sound, Numbers, Clean, Between, IsrMove
  <1>2. PICK a, N, T, X, R \in Nat : Counts(a, N, T, X, R) /\ Burst(a, T, X, R) /\ Phase(N, X, R)
    BY <1>1 DEF BurstInv
  <1>3. PICK n \in Nat, l \in Nat : n = x.bxlen /\ l = x.xlen BY <1>1 DEF Numbers, Transfer
  <1> DEFINE e == Ends(n)
  <1>4. e = Ends(n) OBVIOUS
  <1> HIDE DEF e
  <1>5. /\ e \in [Nat -> Nat] /\ e[0] = 0 /\ e[N] = n /\ a + n <= l
        /\ R <= X /\ X <= T /\ T <= N /\ T > 0 /\ T - R <= FifoSize
        /\ x.tlen = a + x.btlen /\ x.btlen = e[T] /\ x.rlen = a + x.brlen /\ x.brlen = e[R]
        /\ x.lsb = (IF R = 0 THEN n % W ELSE 0)
        /\ Outs(txf, a, e, X, T - X) /\ Ins(rxf, a, e, R, X - R)
        /\ n <= BurstMax /\ (a + n < l => n = BurstMax)
        /\ sent = OnWire(a + e[X]) /\ buf = Bytes(l, x.rlen)
    <2>1. e \in [Nat -> Nat] /\ e[0] = 0 BY <1>4, EndsIs
    <2> QED BY <1>2, <1>3, <1>4, <2>1 DEF Counts, Burst
  <1>6. /\ \A j, k \in Nat : j < k => e[j] < e[k]
        /\ \A j, k \in Nat : j <= k => e[j] <= e[k]
    BY <1>4, EndsIs
  <1>7. Len(rxf) = X - R /\ Len(txf) = T - X BY <1>2, <1>5, Lengths
  <1>8. /\ pc \in {"start", "wait"} /\ inten /\ pulse = 0 /\ isr = "move"
        /\ Rest(N, X) /\ Complete(N, X, R) /\ Moving(N, X, R)
    BY <1>2 DEF Phase, IsrMove
  \* The words that are read.
  <1>9. PICK p \in 0 .. X - R : p = cnt
    <2>1. cnt \in 1 .. X - R BY <1>8 DEF Moving
    <2>2. 1 .. X - R \subseteq 0 .. X - R BY <1>5
    <2> QED BY <2>1, <2>2
  <1>10. RxMark \in Nat /\ RxMark > 0 /\ p > 0 /\ (p = RxMark \/ X = N)
    <2>1. RxMark \in Nat /\ RxMark > 0 BY SizeAssumption DEF RxMark
    <2>2. cnt \in 1 .. X - R /\ (cnt = RxMark \/ X = N) BY <1>8 DEF Moving
    <2> QED BY <1>5, <1>9, <2>1, <2>2
  <1>11. \A j \in 0 .. p : Received(j) = e[R + j] - e[R]
    <2> TAKE j \in 0 .. p
    <2>1. j \in Nat OBVIOUS
    <2>2. (R = 0 => x.lsb = n % W) /\ (R # 0 => x.lsb = 0) BY <1>5
    <2> QED BY <1>4, <2>1, <2>2, ReceivedIs
  <1>12. /\ R + p \in Nat /\ R + p <= X
         /\ e[R] \in Nat /\ e[R + p] \in Nat /\ e[X] \in Nat /\ e[T] \in Nat
    <2>1. R + p \in Nat /\ R + p <= X BY <1>5
    <2> QED BY <1>5, <2>1
  \* The words that are loaded.
  <1>13. PICK f \in Nat : f = Refill /\ f <= N - T /\ f <= RxMark
    <2>1. N - T \in Nat /\ T + (N - T) = N BY <1>5
    <2>2. e[N] = e[T] + ((N - T) * W)
      <3>1. e[T + (N - T)] = e[T] + ((N - T) * W) BY <1>4, <1>5, <2>1, EndsAdd
      <3> QED BY <2>1, <3>1
    <2>3. (N - T) * W \in Nat BY <2>1, Times
    <2>4. x.bxlen - x.btlen = (N - T) * W BY <1>3, <1>5, <1>12, <2>2, <2>3
    <2>5. ((N - T) * W) \div W = N - T BY <2>1, DivTimes
    <2>6. Refill = Least(N - T, RxMark) BY <2>4, <2>5 DEF Refill
    <2> QED BY <2>1, <2>6, <1>10 DEF Least
  <1>14. f * W \in Nat /\ T + f \in Nat /\ T + f <= N /\ e[T + f] = e[T] + (f * W)
    <2>1. e[T + f] = e[T] + (f * W) BY <1>4, <1>5, EndsAdd
    <2>2. f * W \in Nat BY Times
    <2> QED BY <1>5, <1>13, <2>1, <2>2
  <1>15. X = N => f = 0 BY <1>5, <1>13
  <1>16. /\ rxf' = SubSeq(rxf, p + 1, X - R) /\ buf' = Filled(p)
         /\ txf' = Fit(txf \o Words(x.tlen, f)) /\ isr' = "end"
         /\ pc' = pc /\ sent' = sent /\ pulse' = pulse /\ inten' = inten /\ cnt' = cnt
         /\ xch' = xch /\ left' = left /\ tc' = tc
    BY <1>7, <1>9, <1>13 DEF IsrMove
  <1>17. x' = [x EXCEPT !.rlen = x.rlen + Received(p), !.brlen = x.brlen + Received(p), !.lsb = 0,
                        !.tlen = x.tlen + f * W, !.btlen = x.btlen + f * W]
    BY <1>9, <1>10, <1>13 DEF IsrMove
  <1>18. Received(p) = e[R + p] - e[R] BY <1>11
  <1>19. /\ x'.xlen = l /\ x'.bxlen = n /\ x'.lsb = 0
         /\ x'.rlen = a + e[R + p] /\ x'.brlen = e[R + p]
         /\ x'.tlen = a + e[T + f] /\ x'.btlen = e[T + f]
    <2>1. x \in Transfer BY <1>1 DEF Numbers
    <2>2. /\ x'.xlen = x.xlen /\ x'.bxlen = x.bxlen /\ x'.lsb = 0
          /\ x'.rlen = x.rlen + Received(p) /\ x'.brlen = x.brlen + Received(p)
          /\ x'.tlen = x.tlen + (f * W) /\ x'.btlen = x.btlen + (f * W)
      BY <1>17, <2>1 DEF Transfer
    <2>3. x.brlen + Received(p) = e[R + p] BY <1>5, <1>12, <1>18
    <2>4. x.rlen + Received(p) = a + e[R + p] BY <1>5, <1>12, <1>18
    <2>5. x.btlen + (f * W) = e[T + f] BY <1>5, <1>14
    <2>6. x.tlen + (f * W) = a + e[T + f] BY <1>5, <1>12, <1>14
    <2> QED BY <1>3, <2>2, <2>3, <2>4, <2>5, <2>6
  <1>20. x' \in Transfer
    <2>1. /\ x \in Transfer BY <1>1 DEF Numbers
    <2>2. x.rlen + Received(p) \in Nat /\ x.brlen + Received(p) \in Nat
      BY <1>5, <1>12, <1>18
    <2>3. x.tlen + f * W \in Nat /\ x.btlen + f * W \in Nat BY <1>5, <1>12, <1>14
    <2> QED BY <1>17, <2>1, <2>2, <2>3 DEF Transfer
  <1>21. buf' = Bytes(l, a + e[R + p])
    <2>1. X - R \in Nat BY <1>5
    <2>2. Reading(a, n, l, R, X - R) BY <1>4, <1>5 DEF Reading
    <2>3. Filled(p) = Bytes(l, a + Ends(n)[R + p]) BY <2>1, <2>2, FilledIs
    <2> QED BY <1>4, <1>16, <2>3
  <1>22. Ins(rxf', a, e, R + p, X - (R + p))
    <2>1. X - R \in Nat /\ (X - R) - p = X - (R + p) BY <1>5
    <2>2. Ins(SubSeq(rxf, p + 1, X - R), a, e, R + p, (X - R) - p) BY <1>5, <2>1, InsSub
    <2> QED BY <1>16, <2>1, <2>2
  <1>23. (T - X) + f <= FifoSize /\ (T + f) - (R + p) <= FifoSize
    <2>1. FifoSize \in Nat BY SizeAssumption
    <2>2. CASE X = N BY <1>5, <1>12, <1>15, <2>1, <2>2
    <2>3. CASE p = RxMark
      <3>1. f <= p /\ p <= X - R BY <1>10, <1>13, <2>3
      <3> QED BY <1>5, <2>1, <3>1
    <2> QED BY <1>10, <2>2, <2>3
  <1>24. Outs(txf', a, e, X, (T + f) - X)
    <2>1. T - X \in Nat /\ X + (T - X) = T /\ (T - X) + f = (T + f) - X BY <1>5
    <2>2. PICK t \in Nat, r \in Nat : /\ t = x.tlen /\ t = a + e[T] /\ r = x.rlen /\ r <= t
                                      /\ buf = Bytes(l, r)
      <3>1. e[R] <= e[T] BY <1>5, <1>6
      <3> QED BY <1>5, <1>12, <3>1
    <2>3. t + (f * W) <= l
      <3>1. e[T + f] <= e[N] BY <1>6, <1>14
      <3>2. e[T + f] \in Nat BY <1>5, <1>14
      <3> QED BY <1>5, <1>12, <1>14, <2>2, <3>1, <3>2
    <2>4. \A j \in 0 .. f : e[T + j] = e[T] + (j * W)
      <3> TAKE j \in 0 .. f
      <3>1. j \in Nat /\ T > 0 BY <1>5
      <3> QED BY <1>4, <3>1, EndsAdd
    <2>5. Outs(Words(t, f), a, e, T, f) BY <1>5, <2>2, <2>3, <2>4, WordsOut
    <2> DEFINE w == Words(t, f)
    <2>6. Outs(w, a, e, X + (T - X), f) BY <2>1, <2>5
    <2> HIDE DEF w
    <2>7. Outs(Joined(txf, w), a, e, X, (T - X) + f) BY <1>5, <2>1, <2>6, OutsConcat
    <2>8. Row(Joined(txf, w), (T - X) + f) BY <2>7 DEF Outs
    <2>9. (T - X) + f \in Nat BY <2>1
    <2>10. Fit(Joined(txf, w)) = Joined(txf, w) BY <1>23, <2>8, <2>9, RowFit
    <2>11. txf' = Fit(Joined(txf, w)) BY <1>16, <2>2 DEF Joined, w
    <2> QED BY <2>1, <2>7, <2>10, <2>11
  <1>25. Counts(a, N, T + f, X, R + p)'
    <2>1. T + f > 0 /\ X <= T + f /\ R + p # 0 BY <1>5, <1>10, <1>12
    <2> QED BY <1>4, <1>5, <1>12, <1>14, <1>19, <1>23, <2>1 DEF Counts
  <1>26. Burst(a, T + f, X, R + p)'
    BY <1>4, <1>5, <1>16, <1>19, <1>21, <1>22, <1>24 DEF Burst
  <1>27. Phase(N, X, R + p)'
    <2>1. Rest(N, X)' BY <1>3, <1>8, <1>16, <1>19 DEF Rest
    <2>2. R + p = N => Ended(N, X) /\ ~tc BY <1>8, <1>9 DEF Moving
    <2>3. tc => Ended(N, X) BY <1>8 DEF Complete
    <2>4. Ended(N, X)' <=> Ended(N, X) BY <1>3, <1>16, <1>19 DEF Ended
    <2>5. R + p <= N BY <1>5, <1>12
    <2>6. Complete(N, X, R + p)' BY <1>12, <1>16, <2>2, <2>3, <2>4, <2>5 DEF Complete
    <2> QED BY <1>8, <1>16, <2>1, <2>2, <2>4, <2>6 DEF Phase
  <1>28. BurstInv' BY <1>12, <1>14, <1>25, <1>26, <1>27 DEF BurstInv
  <1>29. Numbers' BY <1>1, <1>16, <1>20 DEF Numbers
  <1> QED BY <1>8, <1>16, <1>28, <1>29 DEF Sound

LEMMA IsrReadStep ==
  ASSUME Sound, IsrRead
  PROVE  Sound'
  <1>1. BurstInv /\ Numbers BY DEF Sound, Numbers, Clean, Between, IsrRead
  <1>2. PICK a, N, T, X, R \in Nat : Counts(a, N, T, X, R) /\ Burst(a, T, X, R) /\ Phase(N, X, R)
    BY <1>1 DEF BurstInv
  <1>3. /\ isr = "away" /\ inten /\ (tc \/ Len(rxf) > RxMark) /\ isr' = "move"
        /\ cnt' = (IF tc THEN Len(rxf) ELSE RxMark) /\ tc' = FALSE
        /\ pc' = pc /\ x' = x /\ buf' = buf /\ pulse' = pulse /\ inten' = inten
        /\ txf' = txf /\ rxf' = rxf /\ xch' = xch /\ left' = left /\ sent' = sent
    BY DEF IsrRead
  <1>4. R <= X /\ X <= T /\ T <= N BY <1>2 DEF Counts
  <1>5. Len(rxf) = X - R BY <1>2, <1>4, Lengths
  <1>6. /\ pc \in {"start", "wait"} /\ Rest(N, X) /\ Complete(N, X, R)
        /\ pulse = 0 /\ R < N
    BY <1>2, <1>3 DEF Phase
  <1>7. RxMark \in Nat /\ RxMark > 0 BY SizeAssumption DEF RxMark
  <1>8. Ended(N, X)' <=> Ended(N, X) BY <1>3 DEF Ended
  <1>9. Moving(N, X, R)' /\ cnt' \in Nat
    <2>1. CASE tc
      <3>1. X = N /\ Ended(N, X) BY <1>6, <2>1 DEF Complete, Ended
      <3>2. cnt' = X - R BY <1>3, <1>5, <2>1
      <3>3. cnt' \in 1 .. X - R /\ cnt' \in Nat BY <1>4, <1>6, <3>1, <3>2
      <3> QED BY <1>3, <1>8, <3>1, <3>3 DEF Moving
    <2>2. CASE ~tc
      <3>1. cnt' = RxMark /\ RxMark < X - R BY <1>3, <1>4, <1>5, <1>7, <2>2
      <3>2. cnt' \in 1 .. X - R /\ R + cnt' # N BY <1>4, <1>7, <3>1
      <3>3. RxMark' = RxMark BY DEF RxMark
      <3> QED BY <1>7, <3>1, <3>2, <3>3 DEF Moving
    <2> QED BY <2>1, <2>2
  <1>10. Phase(N, X, R)'
    <2>1. Rest(N, X)' BY <1>3, <1>6 DEF Rest
    <2>2. Complete(N, X, R)' BY <1>3 DEF Complete
    <2> QED BY <1>3, <1>6, <1>9, <2>1, <2>2 DEF Phase
  <1>11. Counts(a, N, T, X, R)' BY <1>2, <1>3 DEF Counts
  <1>12. Burst(a, T, X, R)' BY <1>2, <1>3 DEF Burst
  <1>13. BurstInv' BY <1>10, <1>11, <1>12 DEF BurstInv
  <1>14. Numbers' BY <1>1, <1>3, <1>9 DEF Numbers
  <1> QED BY <1>3, <1>6, <1>13, <1>14 DEF Sound

\* XCH is set: the rest of the burst is exchanged, or of one of the same length.
LEMMA ExchangeStep ==
  ASSUME Numbers, NEW a \in Nat, NEW N \in Nat, NEW T \in Nat, NEW X \in Nat, NEW R \in Nat,
         Counts(a, N, T, X, R), Rest(N, X), Exchange, UNCHANGED <<x, tc>>
  PROVE  /\ Rest(N, X)' /\ (Ended(N, X) => Ended(N, X)')
         /\ left' \in Nat /\ xch' \in BOOLEAN /\ (xch' => left' > 0)
  <1>1. PICK n \in Nat : n = x.bxlen BY DEF Numbers, Transfer
  <1> DEFINE e == Ends(n)
  <1>2. e \in [Nat -> Nat] /\ e[0] = 0 /\ e[N] = n /\ N > 0 /\ e[0] < e[N]
    <2>1. e \in [Nat -> Nat] /\ e[0] = 0 /\ \A j, k \in Nat : j < k => e[j] < e[k] BY EndsIs
    <2>2. e[N] = n /\ N > 0 BY <1>1 DEF Counts
    <2> QED BY <2>1, <2>2
  <1> HIDE DEF e
  <1>3. n > 0 BY <1>2
  <1>4. xch' \in BOOLEAN /\ left' = IF left = 0 /\ xch' THEN n ELSE left
    BY <1>1 DEF Exchange, Exchanges, Numbers
  <1>5. left \in Nat /\ (xch => left > 0) BY DEF Numbers
  <1>6. left' \in Nat /\ (xch' => left' > 0) BY <1>3, <1>4, <1>5
  <1>7. Rest(N, X)'
    <2> SUFFICES ASSUME X < N PROVE left' >= n - e[X] \/ (X = 0 /\ left' = 0)
      BY <1>1 DEF Rest, e
    <2>1. left >= n - e[X] \/ (X = 0 /\ left = 0) BY <1>1 DEF Rest, e
    <2>2. e[X] \in Nat BY <1>2
    <2> QED BY <1>2, <1>4, <1>5, <2>1, <2>2
  <1>8. Ended(N, X) => Ended(N, X)' BY <1>1, <1>4 DEF Ended
  <1> QED BY <1>4, <1>6, <1>7, <1>8

LEMMA IsrEndStep ==
  ASSUME Sound, IsrEnd
  PROVE  Sound'
  <1>1. BurstInv /\ Numbers BY DEF Sound, Numbers, Clean, Between, IsrEnd
  <1>2. PICK a, N, T, X, R \in Nat : Counts(a, N, T, X, R) /\ Burst(a, T, X, R) /\ Phase(N, X, R)
    BY <1>1 DEF BurstInv
  <1>3. /\ isr = "end" /\ isr' = "away"
        /\ IF BurstDone(x.brlen, x.rlen)
           THEN inten' = FALSE /\ pulse' = pulse + 1 /\ xch' = xch /\ left' = left
           ELSE Exchange /\ pulse' = pulse /\ inten' = inten
        /\ cnt' = cnt /\ tc' = tc /\ pc' = pc /\ x' = x /\ buf' = buf
        /\ txf' = txf /\ rxf' = rxf /\ sent' = sent
    BY DEF IsrEnd
  <1>4. PICK n \in Nat, l \in Nat : n = x.bxlen /\ l = x.xlen BY <1>1 DEF Numbers, Transfer
  <1>5. /\ pc \in {"start", "wait"} /\ Rest(N, X) /\ Complete(N, X, R)
        /\ inten /\ pulse = 0 /\ (R = N => Ended(N, X))
    BY <1>2, <1>3 DEF Phase
  <1>6. BurstDone(x.brlen, x.rlen) <=> R = N
    <2> DEFINE e == Ends(n)
    <2>1. e \in [Nat -> Nat] /\ \A j, k \in Nat : j < k => e[j] < e[k] BY EndsIs
    <2>2. R <= N /\ e[N] = n /\ x.brlen = e[R] /\ x.rlen = a + e[R] /\ a + n <= l
      BY <1>2, <1>4 DEF Counts
    <2> HIDE DEF e
    <2>3. R < N => e[R] < n BY <2>1, <2>2
    <2>4. e[R] \in Nat BY <2>1
    <2>5. BurstDone(x.brlen, x.rlen) <=> e[R] >= n \/ a + e[R] >= l
      BY <1>4, <2>2 DEF BurstDone
    <2> QED BY <2>2, <2>3, <2>4, <2>5
  <1>7. ASSUME R = N PROVE Phase(N, X, R)' /\ Numbers'
    <2>1. inten' = FALSE /\ pulse' = 1 /\ xch' = xch /\ left' = left BY <1>3, <1>5, <1>6, <1>7
    <2>2. Rest(N, X)' /\ Ended(N, X)' BY <1>3, <1>5, <1>7, <2>1 DEF Rest, Ended
    <2>3. Complete(N, X, R)' BY <1>3, <1>5, <1>7 DEF Complete
    <2>4. Phase(N, X, R)' BY <1>3, <1>5, <1>7, <2>1, <2>2, <2>3 DEF Phase
    <2>5. Numbers' BY <1>1, <1>3, <2>1 DEF Numbers
    <2> QED BY <2>4, <2>5
  <1>8. ASSUME R # N PROVE Phase(N, X, R)' /\ Numbers'
    <2>1. R < N BY <1>2, <1>8 DEF Counts
    <2>2. Exchange /\ pulse' = pulse /\ inten' = inten BY <1>3, <1>6, <1>8
    <2>3. /\ Rest(N, X)' /\ (Ended(N, X) => Ended(N, X)')
          /\ left' \in Nat /\ xch' \in BOOLEAN /\ (xch' => left' > 0)
      BY <1>1, <1>2, <1>3, <1>5, <2>2, ExchangeStep
    <2>4. Complete(N, X, R)' BY <1>3, <1>5, <2>3 DEF Complete
    <2>5. Phase(N, X, R)' BY <1>3, <1>5, <2>1, <2>2, <2>3, <2>4 DEF Phase
    <2>6. Numbers' BY <1>1, <1>3, <2>2, <2>3 DEF Numbers
    <2> QED BY <2>5, <2>6
  <1>9. Phase(N, X, R)' /\ Numbers' BY <1>7, <1>8
  <1>10. Counts(a, N, T, X, R)' BY <1>2, <1>3 DEF Counts
  <1>11. Burst(a, T, X, R)' BY <1>2, <1>3 DEF Burst
  <1>12. BurstInv' BY <1>9, <1>10, <1>11 DEF BurstInv
  <1> QED BY <1>3, <1>5, <1>9, <1>12 DEF Sound

LEMMA LoadStep ==
  ASSUME Sound, Load
  PROVE  Sound'
  <1>1. pc = "load" /\ Numbers /\ Between /\ x.rlen # x.xlen BY DEF Load, Sound, Between
  <1>2. PICK a \in Nat, l \in Nat, n \in Nat :
          /\ a = x.tlen /\ l = x.xlen /\ n = Least(l - a, BurstMax) /\ n > 0 /\ a + n <= l
          /\ n <= BurstMax /\ (a + n < l => n = BurstMax)
    <2>1. x.tlen \in Nat /\ x.xlen \in Nat /\ x.tlen < x.xlen
      BY <1>1 DEF Numbers, Transfer, Between
    <2>2. BurstMax \in Nat /\ BurstMax > 0 BY SizeAssumption
    <2>3. Least(x.xlen - x.tlen, BurstMax) \in Nat /\ Least(x.xlen - x.tlen, BurstMax) > 0
          /\ x.tlen + Least(x.xlen - x.tlen, BurstMax) <= x.xlen
          /\ Least(x.xlen - x.tlen, BurstMax) <= BurstMax
          /\ (x.tlen + Least(x.xlen - x.tlen, BurstMax) < x.xlen
                => Least(x.xlen - x.tlen, BurstMax) = BurstMax)
      BY <2>1, <2>2 DEF Least
    <2> QED BY <2>1, <2>3
  <1> DEFINE e == Ends(n)
             s == n % W
             h == IF s = 0 THEN 0 ELSE 1
             head == IF s = 0 THEN <<>> ELSE <<[b \in 1 .. s |-> buf[a + b]]>>
  <1>3. s \in 0 .. W - 1 /\ n \div W \in Nat /\ n = ((n \div W) * W) + s BY Division
  <1>4. e \in [Nat -> Nat] /\ e[0] = 0 /\ \A j, k \in Nat : j <= k => e[j] <= e[k] BY EndsIs
  <1>5. \A j \in Nat : e[h + j] = s + (j * W)
    <2>1. e[h] = s
      <3>1. s # 0 => e[1] = s BY <1>3, EndsFirst, WordSize DEF Pad
      <3> QED BY <1>4, <3>1
    <2>2. h \in Nat /\ (h > 0 \/ n % W = 0) OBVIOUS
    <2>3. \A j \in Nat : e[h + j] = e[h] + (j * W) BY <2>2, EndsAdd
    <2> QED BY <2>1, <2>3
  <1>6. (n - s) \div W = n \div W
    <2>1. PICK q \in Nat : q = n \div W BY <1>3
    <2>2. q * W \in Nat /\ n = (q * W) + s BY <1>3, <2>1, Times
    <2>3. n - s = q * W
      <3> HIDE DEF s
      <3> QED BY <1>3, <2>2
    <2>4. (q * W) \div W = q BY DivTimes
    <2> QED BY <2>1, <2>3, <2>4
  <1>7. e[h + (n \div W)] = n
    <2>1. PICK q \in Nat : q = n \div W BY <1>3
    <2>2. q * W \in Nat /\ n = (q * W) + s BY <1>3, <2>1, Times
    <2>3. e[h + q] = s + (q * W) BY <1>5
    <2> HIDE DEF s, e, h
    <2> QED BY <1>3, <2>1, <2>2, <2>3
  <1>8. PICK k \in Nat : /\ k = Least((n - s) \div W, FifoSize - h) /\ k <= n \div W
                         /\ h + k <= FifoSize /\ h + k > 0
    <2>1. FifoSize \in Nat /\ FifoSize > 1 BY SizeAssumption
    <2>2. s = 0 => n \div W > 0
      <3>1. (n \div W) = 0 => (n \div W) * W = 0 BY WordSize
      <3> QED BY <1>2, <1>3, <3>1
    <2>3. h \in {0, 1} /\ (h = 0 => s = 0) OBVIOUS
    <2> HIDE DEF h, s
    <2>4. Least(n \div W, FifoSize - h) \in Nat /\ Least(n \div W, FifoSize - h) <= n \div W
          /\ h + Least(n \div W, FifoSize - h) <= FifoSize
          /\ h + Least(n \div W, FifoSize - h) > 0
      BY <1>3, <2>1, <2>2, <2>3 DEF Least
    <2> QED BY <1>6, <2>4
  <1>9. Row(head, h) /\ Len(head) = h
    <2>1. CASE s = 0 BY <2>1 DEF Row
    <2>2. CASE s # 0 BY <2>2 DEF Row
    <2> QED BY <2>1, <2>2
  <1>10. IF s # 0 /\ x.dlen # 1
         THEN pc' = "fail" /\ inten' = FALSE /\ x' = x /\ txf' = txf
         ELSE /\ pc' = "start" /\ inten' = TRUE
              /\ txf' = Fit(txf \o head \o Words(a + s, k))
              /\ x' = [x EXCEPT !.tlen = a + s + k * W, !.bxlen = n, !.btlen = s + k * W,
                                !.brlen = 0, !.lsb = s]
    <2>1. k = Least((n - s) \div W, FifoSize - Len(head)) BY <1>8, <1>9
    <2> HIDE DEF h
    <2> QED BY <1>2, <2>1 DEF Load
  <1>11. /\ buf' = buf /\ pulse' = pulse /\ rxf' = rxf /\ xch' = xch /\ left' = left
         /\ tc' = tc /\ sent' = sent /\ isr' = isr /\ cnt' = cnt
         /\ left \in {0, BurstMax} /\ isr = "away"
    BY <1>1 DEF Load, Between, Clean
  <1>12. CASE s # 0 /\ x.dlen # 1
    <2>1. pc' = "fail" /\ inten' = FALSE /\ x' = x /\ txf' = txf BY <1>10, <1>12
    <2>2. Clean' BY <1>1, <1>11, <2>1 DEF Clean, Between
    <2>3. Numbers' BY <1>1, <1>11, <2>1 DEF Numbers
    <2> QED BY <2>1, <2>2, <2>3 DEF Sound
  <1>13. CASE ~(s # 0 /\ x.dlen # 1)
    <2>1. /\ pc' = "start" /\ inten' = TRUE /\ txf' = Fit(txf \o head \o Words(a + s, k))
          /\ x' = [x EXCEPT !.tlen = a + s + k * W, !.bxlen = n, !.btlen = s + k * W,
                            !.brlen = 0, !.lsb = s]
      BY <1>10, <1>13
    <2> DEFINE N == h + (n \div W)
               T == h + k
    <2>2. /\ h \in Nat /\ N \in Nat /\ T \in Nat /\ T <= N /\ T > 0 /\ T <= FifoSize
          /\ e[N] = n /\ e[T] = s + (k * W) /\ k * W \in Nat /\ e[T] <= n
      <3>1. h \in Nat /\ N \in Nat /\ T \in Nat /\ T <= N /\ T > 0 /\ T <= FifoSize
        BY <1>3, <1>8
      <3>2. e[T] = s + (k * W) /\ k * W \in Nat BY <1>5, Times
      <3>3. e[T] <= e[N] BY <1>4, <3>1
      <3> QED BY <1>7, <3>1, <3>2, <3>3
    <2>3. e = Ends(n) /\ s = n % W /\ s \in Nat BY <1>3
    <2>4. Row(head, h) BY <1>9
    <2>5. buf = Bytes(l, a) /\ txf = <<>> /\ rxf = <<>> /\ sent = OnWire(a)
          /\ x.rlen = a /\ pulse = 0 /\ ~tc
      BY <1>1, <1>2 DEF Between, Clean
    <2>6. Outs(head, a, e, 0, h)
      <3>1. CASE s = 0
        <4>1. head = <<>> /\ h = 0 BY <3>1
        <4> QED BY <4>1 DEF Outs, Row
      <3>2. CASE s # 0
        <4>1. head = <<[b \in 1 .. s |-> buf[a + b]]>> /\ h = 1 BY <3>2
        <4>2. e[1] = s
          <5>1. e[h + 0] = s + (0 * W) BY <1>5
          <5> QED BY <4>1, <5>1, <1>3, WordSize
        <4>3. a + s <= l
          <5>1. e[T] >= s BY <2>2, <2>3
          <5>2. e[T] \in Nat BY <1>4, <2>2
          <5> QED BY <1>2, <2>2, <2>3, <5>1, <5>2
        <4> HIDE DEF s, e, head, h
        <4>4. Outs(<<[b \in 1 .. s |-> buf[a + b]]>>, a, e, 0, 1)
          BY <1>4, <2>3, <2>5, <4>2, <4>3, ShortOut
        <4> QED BY <4>1, <4>4
      <3> QED BY <3>1, <3>2
    <2>7. \A j \in 0 .. k : e[h + j] = e[h] + (j * W)
      <3>1. e[h] = s
        <4>1. e[h + 0] = s + (0 * W) BY <1>5
        <4> QED BY <2>2, <2>3, <4>1, WordSize
      <3> QED BY <1>5, <3>1
    <2>8. e[h] = s
      <3>1. e[h + 0] = s + (0 * W) BY <1>5
      <3> QED BY <2>2, <2>3, <3>1, WordSize
    <2> HIDE DEF e, s, h, head, N
    <2>9. Outs(Words(a + s, k), a, e, h, k)
      <3>1. PICK t \in Nat : t = a + s BY <2>3
      <3>2. t = a + e[h] /\ a <= t /\ t + (k * W) <= l
        <4>1. e[T] \in Nat BY <1>4, <2>2
        <4> QED BY <1>2, <2>2, <2>3, <2>8, <3>1, <4>1
      <3>3. Outs(Words(t, k), a, e, h, k)
        BY <1>4, <2>2, <2>5, <2>7, <3>2, WordsOut
      <3> QED BY <3>1, <3>3
    <2> DEFINE w == Words(a + s, k)
    <2>10. Outs(w, a, e, 0 + h, k) BY <2>2, <2>9
    <2>11. txf' = Fit(Joined(head, w))
      <3>1. Joined(<<>>, head) = head
        <4>1. head \in Seq({head[j] : j \in 1 .. h}) BY <2>2, <2>4, RowSeq
        <4> QED BY <4>1 DEF Joined
      <3>2. (<<>> \o head) = head BY <3>1 DEF Joined
      <3> QED BY <2>1, <2>5, <3>2 DEF Joined
    <2> HIDE DEF w, T
    <2>12. Outs(Joined(head, w), a, e, 0, h + k) BY <2>2, <2>6, <2>10, OutsConcat
    <2>13. T = h + k BY DEF T
    <2>14. Outs(txf', a, e, 0, T)
      <3>1. Row(Joined(head, w), T) BY <2>12, <2>13 DEF Outs
      <3>2. Fit(Joined(head, w)) = Joined(head, w) BY <2>2, <3>1, RowFit
      <3> QED BY <2>11, <2>12, <2>13, <3>2
    <2>15. /\ x'.tlen = a + e[T] /\ x'.bxlen = n /\ x'.btlen = e[T] /\ x'.brlen = 0
           /\ x'.lsb = s /\ x'.rlen = a /\ x'.xlen = l /\ x' \in Transfer
      <3>1. x \in Transfer BY <1>1 DEF Numbers
      <3>2. a + s + k * W = a + e[T] /\ s + k * W = e[T] BY <2>2, <2>3
      <3>3. a + e[T] \in Nat /\ e[T] \in Nat BY <1>4, <2>2
      <3>4. x' = [x EXCEPT !.tlen = a + e[T], !.bxlen = n, !.btlen = e[T], !.brlen = 0, !.lsb = s]
        BY <2>1, <3>2
      <3> QED BY <1>2, <2>3, <2>5, <3>1, <3>3, <3>4 DEF Transfer
    <2>16. Counts(a, N, T, 0, 0)'
      <3>1. 0 <= T /\ T - 0 <= FifoSize BY <2>2
      <3>2. a + e[0] = a BY <1>4
      <3> QED BY <1>2, <1>4, <2>2, <2>3, <2>15, <3>1, <3>2 DEF Counts
    <2>17. Burst(a, T, 0, 0)'
      <3>1. T - 0 = T /\ 0 - 0 = 0 /\ a + e[0] = a BY <1>4, <2>2
      <3>2. Ins(rxf', a, e, 0, 0) BY <1>11, <2>5 DEF Ins, Row
      <3>3. sent' = OnWire(a + e[0]) /\ buf' = Bytes(l, a) BY <1>11, <2>5, <3>1
      <3>4. Outs(txf', a, e, 0, T - 0) BY <2>14, <3>1
      <3>5. Ins(rxf', a, e, 0, 0 - 0) BY <3>1, <3>2
      <3> QED BY <2>3, <2>15, <3>3, <3>4, <3>5 DEF Burst
    <2>18. Phase(N, 0, 0)'
      <3>1. left' = 0 \/ left' >= x'.bxlen - Ends(x'.bxlen)[0]
        <4>1. x'.bxlen = n /\ Ends(n)[0] = 0 BY <2>15, EndsFirst
        <4>2. n - 0 = n /\ BurstMax \in Nat BY SizeAssumption
        <4> QED BY <1>2, <1>11, <4>1, <4>2
      <3>2. Rest(N, 0)' BY <3>1 DEF Rest
      <3>3. Complete(N, 0, 0)' BY <1>11, <2>5 DEF Complete
      <3>4. 0 < N BY <2>2
      <3> QED BY <1>11, <2>1, <2>5, <3>2, <3>3, <3>4 DEF Phase
    <2>19. BurstInv' BY <2>2, <2>16, <2>17, <2>18 DEF BurstInv
    <2>20. Numbers' BY <1>1, <1>11, <2>1, <2>15 DEF Numbers
    <2> QED BY <2>1, <2>19, <2>20 DEF Sound
  <1> QED BY <1>12, <1>13

LEMMA StartStep ==
  ASSUME Sound, StartBurst
  PROVE  Sound'
  <1>1. /\ pc = "start" /\ pc' = "wait" /\ Exchange
        /\ x' = x /\ buf' = buf /\ pulse' = pulse /\ inten' = inten /\ isr' = isr /\ cnt' = cnt
        /\ txf' = txf /\ rxf' = rxf /\ tc' = tc /\ sent' = sent
    BY DEF StartBurst, intrVars
  <1>2. Numbers /\ BurstInv BY <1>1 DEF Sound
  <1>3. PICK a, N, T, X, R \in Nat : Counts(a, N, T, X, R) /\ Burst(a, T, X, R) /\ Phase(N, X, R)
    BY <1>2 DEF BurstInv
  <1>4. /\ Rest(N, X)' /\ (Ended(N, X) => Ended(N, X)')
        /\ left' \in Nat /\ xch' \in BOOLEAN /\ (xch' => left' > 0)
    BY <1>1, <1>2, <1>3, ExchangeStep DEF Phase
  <1>5. Complete(N, X, R)' BY <1>1, <1>3, <1>4 DEF Phase, Complete
  <1>6. isr = "move" => (Moving(N, X, R) => Moving(N, X, R)')
    <2>1. RxMark' = RxMark BY DEF RxMark
    <2> QED BY <1>1, <1>4, <2>1 DEF Moving
  <1>7. Phase(N, X, R)' BY <1>1, <1>3, <1>4, <1>5, <1>6 DEF Phase
  <1>8. Counts(a, N, T, X, R)' BY <1>1, <1>3 DEF Counts
  <1>9. Burst(a, T, X, R)' BY <1>1, <1>3 DEF Burst
  <1>10. BurstInv' BY <1>7, <1>8, <1>9 DEF BurstInv
  <1>11. Numbers' BY <1>1, <1>2, <1>4 DEF Numbers
  <1> QED BY <1>1, <1>10, <1>11 DEF Sound

LEMMA WaitStep ==
  ASSUME Sound, Wait
  PROVE  Sound'
  <1>1. /\ pc = "wait" /\ pulse > 0 /\ pulse' = pulse - 1 /\ Loop(x.rlen)
        /\ buf' = buf /\ txf' = txf /\ rxf' = rxf /\ xch' = xch /\ left' = left /\ tc' = tc
        /\ sent' = sent /\ isr' = isr /\ cnt' = cnt
    BY DEF Wait, hwVars
  <1>2. Numbers /\ BurstInv BY <1>1 DEF Sound
  <1>3. PICK a, N, T, X, R \in Nat : Counts(a, N, T, X, R) /\ Burst(a, T, X, R) /\ Phase(N, X, R)
    BY <1>2 DEF BurstInv
  <1>4. R = N /\ Ended(N, X) /\ ~tc /\ ~inten /\ isr = "away" /\ pulse = 1
    <2>1. pulse # 0 BY <1>1, <1>2 DEF Numbers
    <2> QED BY <1>3, <2>1 DEF Phase, Complete
  <1>5. PICK n \in Nat, l \in Nat : n = x.bxlen /\ l = x.xlen BY <1>2 DEF Numbers, Transfer
  <1>6. /\ X = N /\ T = N /\ Ends(n)[N] = n /\ x.rlen = a + n /\ x.tlen = a + n /\ a + n <= l
    BY <1>3, <1>4, <1>5 DEF Counts
  <1>7. txf = <<>> /\ rxf = <<>>
    <2>1. T - X = 0 /\ X - R = 0 BY <1>4, <1>6
    <2>2. Row(txf, 0) /\ Row(rxf, 0) BY <1>3, <2>1 DEF Burst, Outs, Ins
    <2> QED BY <2>2, RowEmpty
  <1>8. sent = OnWire(a + n) /\ buf = Bytes(l, a + n) BY <1>3, <1>5, <1>6 DEF Burst
  <1>9. x' = x
    <2>1. x \in Transfer /\ x' = [x EXCEPT !.rlen = x.rlen] BY <1>1, <1>2 DEF Loop, Numbers
    <2> QED BY <2>1 DEF Transfer
  <1>10. /\ inten' = inten \/ inten' = FALSE
         /\ IF a + n < l THEN pc' = "load" ELSE pc' = "done"
    BY <1>1, <1>5, <1>6 DEF Loop
  <1>11. ~inten' /\ pulse' = 0 BY <1>1, <1>4, <1>10
  <1>12. Clean' BY <1>1, <1>4, <1>7, <1>11 DEF Clean
  <1>13. x.rlen = x.xlen <=> pc' = "done"
    <2>1. CASE a + n < l
      <3>1. pc' = "load" /\ a + n # l BY <1>10, <2>1
      <3> QED BY <1>5, <1>6, <3>1
    <2>2. CASE ~(a + n < l)
      <3>1. pc' = "done" /\ a + n = l BY <1>6, <1>10, <2>2
      <3> QED BY <1>5, <1>6, <3>1
    <2> QED BY <2>1, <2>2
  <1>17. pc' = "load" => left' \in {0, BurstMax}
    <2> SUFFICES ASSUME pc' = "load" PROVE left \in {0, BurstMax} BY <1>1
    <2>1. a + n < l BY <1>10
    <2>2. n = BurstMax BY <1>3, <1>5, <2>1 DEF Counts
    <2> QED BY <1>4, <1>5, <2>2 DEF Ended
  <1>14. Between' BY <1>1, <1>5, <1>6, <1>8, <1>9, <1>12, <1>13, <1>17 DEF Between
  <1>15. Numbers'
    <2>1. pc' \in {"load", "done"} BY <1>10
    <2>2. inten' \in BOOLEAN BY <1>10, <1>2 DEF Numbers
    <2> QED BY <1>1, <1>2, <1>9, <1>11, <2>1, <2>2 DEF Numbers
  <1>16. pc' \in {"load", "done"} BY <1>10
  <1> QED BY <1>14, <1>15, <1>16 DEF Sound

LEMMA ReplyStep ==
  ASSUME Sound, Reply
  PROVE  Sound'
  <1>1. /\ pc' = "idle" /\ x' = Idle /\ pulse' = pulse /\ inten' = inten
        /\ isr' = isr /\ cnt' = cnt
        /\ txf' = txf /\ rxf' = rxf /\ xch' = xch /\ left' = left /\ tc' = tc
    BY DEF Reply, intrVars, hwVars
  <1>2. Numbers /\ Clean BY DEF Sound, Reply, Between
  <1>3. Clean' BY <1>1, <1>2 DEF Clean
  <1>4. Idle \in Transfer BY DEF Idle, Transfer
  <1>5. Numbers' BY <1>1, <1>2, <1>4 DEF Numbers
  <1> QED BY <1>1, <1>3, <1>5 DEF Sound

\* A message is refused or begins a transfer.
LEMMA BeginStep ==
  ASSUME Sound, pc = "idle", NEW c \in Client, NEW d \in Device \cup {NoDevice},
         NEW n \in Lens, NEW w \in {1, W}, Begin(c, d, n, w),
         UNCHANGED <<pulse, isr, cnt, txf, tc>>
  PROVE  Sound'
  <1>1. Numbers /\ Clean BY DEF Sound
  <1>2. n \in Nat /\ n > 0 /\ w \in Nat BY SizeAssumption
  <1>3. CASE d = NoDevice \/ n < w
    <2>1. UNCHANGED <<pc, x, inten, rxf, xch, left>> BY <1>3 DEF Begin
    <2>2. Clean' BY <1>1, <2>1 DEF Clean
    <2>3. Numbers' BY <1>1, <2>1 DEF Numbers
    <2>4. pc' = "idle" BY <2>1
    <2> QED BY <2>2, <2>3, <2>4 DEF Sound
  <1>4. CASE ~(d = NoDevice \/ n < w)
    <2>1. /\ x' = [Idle EXCEPT !.who = c, !.dev = d, !.xlen = n, !.dlen = w]
          /\ buf' = [i \in 1 .. n |-> Out(i)]
          /\ inten' = FALSE /\ rxf' = <<>> /\ sent' = <<>> /\ pc' = "load"
          /\ xch' = FALSE /\ left' = 0
      BY <1>4 DEF Begin
    <2>2. x' \in Transfer /\ x'.rlen = 0 /\ x'.tlen = 0 /\ x'.xlen = n
      BY <1>2, <2>1 DEF Idle, Transfer
    <2>3. Clean' BY <1>1, <2>1 DEF Clean
    <2>4. sent' = OnWire(0) BY <2>1 DEF OnWire
    <2>5. buf' = Bytes(n, 0)
      <3>1. \A i \in 1 .. n : ~(i <= 0) BY <1>2
      <3> QED BY <2>1, <3>1 DEF Bytes
    <2>6. Between' BY <1>2, <2>1, <2>2, <2>3, <2>4, <2>5 DEF Between
    <2>7. Numbers' BY <1>1, <2>1, <2>2 DEF Numbers
    <2> QED BY <2>1, <2>6, <2>7 DEF Sound
  <1> QED BY <1>3, <1>4

LEMMA ChipStep ==
  ASSUME ChipInv, [Next]_vars
  PROVE  ChipInv'
  <1>1. CASE UNCHANGED chip BY <1>1 DEF ChipInv
  <1>2. ASSUME NEW c \in Client, NEW d \in Device \cup {NoDevice}, chip' = [chip EXCEPT ![c] = d]
        PROVE  ChipInv'
    BY <1>2 DEF ChipInv
  <1>3. CASE UNCHANGED vars BY <1>1, <1>3 DEF vars, busVars
  <1>4. CASE Manager
    BY <1>1, <1>2, <1>4 DEF Manager, Open, Close, SetDefault, ReadWrite, Message
  <1>5. CASE Xfer BY <1>1, <1>5 DEF Xfer, Load, StartBurst, Wait, Reply, busVars
  <1>6. CASE TimeOut \/ Isr \/ Shift
    BY <1>1, <1>6 DEF TimeOut, Isr, IsrRead, IsrMove, IsrEnd, Shift, busVars
  <1> QED BY <1>3, <1>4, <1>5, <1>6 DEF Next

\* What is not of the transfer does not matter to it.
LEMMA OtherStep ==
  ASSUME Sound, UNCHANGED <<pc, x, buf, intrVars, hwVars>>
  PROVE  Sound'
  <1>1. /\ pc' = pc /\ x' = x /\ buf' = buf /\ pulse' = pulse /\ inten' = inten /\ txf' = txf
        /\ rxf' = rxf /\ xch' = xch /\ left' = left /\ tc' = tc /\ sent' = sent
        /\ isr' = isr /\ cnt' = cnt
    BY DEF intrVars, hwVars
  <1>2. Numbers' <=> Numbers BY <1>1 DEF Numbers
  <1>3. Clean' <=> Clean BY <1>1 DEF Clean
  <1>4. Between' <=> Between BY <1>1, <1>3 DEF Between
  <1>5. ASSUME NEW a \in Nat, NEW N \in Nat, NEW T \in Nat, NEW X \in Nat, NEW R \in Nat
        PROVE  /\ Counts(a, N, T, X, R)' <=> Counts(a, N, T, X, R)
               /\ Burst(a, T, X, R)' <=> Burst(a, T, X, R)
               /\ Phase(N, X, R)' <=> Phase(N, X, R)
    BY <1>1 DEF Counts, Burst, Phase, Rest, Complete, Moving, Ended
  <1>6. BurstInv => BurstInv'
    <2> SUFFICES ASSUME BurstInv PROVE BurstInv' OBVIOUS
    <2>1. PICK a, N, T, X, R \in Nat : Counts(a, N, T, X, R) /\ Burst(a, T, X, R) /\ Phase(N, X, R)
      BY DEF BurstInv
    <2>2. Counts(a, N, T, X, R)' /\ Burst(a, T, X, R)' /\ Phase(N, X, R)' BY <1>5, <2>1
    <2> QED BY <2>2 DEF BurstInv
  <1> QED BY <1>1, <1>2, <1>3, <1>4, <1>6 DEF Sound

-----------------------------------------------------------------------------
\* Every step before a transfer has timed out keeps the transfer sound.
LEMMA XferStep ==
  ASSUME XferInv, ChipInv, [Next]_vars
  PROVE  XferInv'
  <1> SUFFICES ASSUME ~late' PROVE Sound' BY DEF XferInv
  <1>1. ~late
    <2>1. CASE UNCHANGED vars BY <2>1 DEF vars
    <2>2. CASE Next
      <3>1. CASE Manager
        BY <3>1 DEF Manager, Open, Close, SetDefault, ReadWrite, Message
      <3>2. CASE Xfer BY <3>2 DEF Xfer, Load, StartBurst, Wait, Reply
      <3>3. CASE TimeOut BY <3>3 DEF TimeOut
      <3>4. CASE Isr BY <3>4 DEF Isr, IsrRead, IsrMove, IsrEnd
      <3>5. CASE Shift BY <3>5 DEF Shift
      <3> QED BY <2>2, <3>1, <3>2, <3>3, <3>4, <3>5 DEF Next
    <2> QED BY <2>1, <2>2
  <1>2. Sound BY <1>1 DEF XferInv
  <1>3. CASE UNCHANGED vars BY <1>2, <1>3, OtherStep DEF vars
  <1>4. CASE Manager
    <2>1. PICK c \in Client :
            \/ Open(c) \/ Close(c)
            \/ \E d \in Device : SetDefault(c, d)
            \/ \E n \in Lens, w \in {1, W} :
                 \/ ReadWrite(c, n, w)
                 \/ \E d \in Device \cup {NoDevice}, flag \in {"none", "lock", "unlock"} :
                      Message(c, d, flag, n, w)
      BY <1>4 DEF Manager
    <2>2. CASE Open(c) BY <1>2, <2>2, OtherStep DEF Open
    <2>3. CASE Close(c) BY <1>2, <2>3, OtherStep DEF Close
    <2>4. ASSUME NEW d \in Device, SetDefault(c, d) PROVE Sound'
      BY <1>2, <2>4, OtherStep DEF SetDefault
    <2>5. ASSUME NEW n \in Lens, NEW w \in {1, W}, ReadWrite(c, n, w) PROVE Sound'
      <3>1. pc = "idle" /\ Begin(c, chip[c], n, w) /\ UNCHANGED <<pulse, isr, cnt, txf, tc>>
        BY <2>5 DEF ReadWrite
      <3>2. chip[c] \in Device \cup {NoDevice} BY DEF ChipInv
      <3> QED BY <1>2, <3>1, <3>2, BeginStep
    <2>6. ASSUME NEW n \in Lens, NEW w \in {1, W}, NEW d \in Device \cup {NoDevice},
                 NEW flag \in {"none", "lock", "unlock"}, Message(c, d, flag, n, w)
          PROVE  Sound'
      <3>1. pc = "idle" /\ UNCHANGED <<pulse, isr, cnt, txf, tc>>
            /\ Begin(c, IF d = NoDevice THEN chip[c] ELSE d, n, w)
        BY <2>6 DEF Message
      <3>2. (IF d = NoDevice THEN chip[c] ELSE d) \in Device \cup {NoDevice} BY DEF ChipInv
      <3> QED BY <1>2, <3>1, <3>2, BeginStep
    <2> QED BY <2>1, <2>2, <2>3, <2>4, <2>5, <2>6
  <1>5. CASE Xfer BY <1>2, <1>5, LoadStep, StartStep, WaitStep, ReplyStep DEF Xfer
  <1>6. CASE TimeOut BY <1>6 DEF TimeOut
  <1>7. CASE Isr BY <1>2, <1>7, IsrReadStep, IsrMoveStep, IsrEndStep DEF Isr
  <1>8. CASE Shift BY <1>2, <1>8, ShiftStep
  <1> QED BY <1>3, <1>4, <1>5, <1>6, <1>7, <1>8 DEF Next

-----------------------------------------------------------------------------
(* The locks. *)

\* What a client may ask for once nobody else has the device: the locks stay one to a device.
LEMMA RequestStep ==
  ASSUME LockInv, NEW c \in Client, NEW d \in Device \cup {NoDevice}, NEW flag,
         c \in open, LockCheck(c, d, flag)
  PROVE  /\ locks' \subseteq [owner : Client, device : Device \cup {NoDevice}]
         /\ \A k, l \in locks' : k.device = l.device => k = l
         /\ \A l \in locks' : l.owner \in open
         /\ \A l \in locks' : l.device = d => l.owner = c
  <1> DEFINE new == [owner |-> c, device |-> d]
  <1>1. /\ locks \subseteq [owner : Client, device : Device \cup {NoDevice}]
        /\ \A k, l \in locks : k.device = l.device => k = l
        /\ \A l \in locks : l.owner \in open
    BY DEF LockInv, LockExcludes
  <1>2. \A l \in locks : l.device = d => l.owner = c BY DEF LockCheck, Granted
  <1>3. CASE locks' \subseteq locks BY <1>1, <1>2, <1>3
  <1>4. CASE locks' = locks \cup {new}
    <2>1. /\ new \in [owner : Client, device : Device \cup {NoDevice}]
          /\ new.owner = c /\ new.device = d
      OBVIOUS
    <2>2. \A l \in locks : l.device = d => l = new BY <1>1, <1>2
    <2> HIDE DEF new
    <2> QED BY <1>1, <1>2, <1>4, <2>1, <2>2
  <1> QED BY <1>3, <1>4 DEF LockCheck, Request

\* A transfer begins for the client that may use the device.
LEMMA LockBegin ==
  ASSUME LockInv, pc = "idle", open' = open,
         NEW c, NEW d, NEW n, NEW w, Begin(c, d, n, w),
         locks' \subseteq [owner : Client, device : Device \cup {NoDevice}],
         \A k, l \in locks' : k.device = l.device => k = l,
         \A l \in locks' : l.owner \in open,
         \A l \in locks' : l.device = d => l.owner = c
  PROVE  LockInv'
  <1>1. CASE UNCHANGED <<pc, x>> BY <1>1 DEF LockInv, LockExcludes
  <1>2. CASE x' = [Idle EXCEPT !.who = c, !.dev = d, !.xlen = n, !.dlen = w]
    <2>1. {"who", "dev"} \subseteq DOMAIN x' /\ x'.who = c /\ x'.dev = d BY <1>2 DEF Idle
    <2> QED BY <2>1 DEF LockInv, LockExcludes
  <1> QED BY <1>1, <1>2 DEF Begin

\* What the handler changes of the transfer.
LEMMA IsrChanges ==
  ASSUME Isr
  PROVE  \/ x' = x
         \/ \E r, b, s, t, bt : x' = [x EXCEPT !.rlen = r, !.brlen = b, !.lsb = s, !.tlen = t,
                                               !.btlen = bt]
  <1>1. CASE IsrRead BY <1>1 DEF IsrRead
  <1>2. CASE IsrEnd BY <1>2 DEF IsrEnd
  <1>3. CASE IsrMove BY <1>3 DEF IsrMove
  <1> QED BY <1>1, <1>2, <1>3 DEF Isr

LEMMA LockStep ==
  ASSUME NamesDevice, LockInv, ChipInv, [Next]_vars
  PROVE  LockInv'
  <1>1. ASSUME UNCHANGED busVars, pc # "idle", {"who", "dev"} \subseteq DOMAIN x',
               x'.who = x.who, x'.dev = x.dev
        PROVE  LockInv'
    BY <1>1 DEF LockInv, LockExcludes, busVars
  <1>2. CASE UNCHANGED vars BY <1>2 DEF vars, busVars, LockInv, LockExcludes
  <1>3. CASE Manager
    <2>1. PICK c \in Client :
            \/ Open(c) \/ Close(c)
            \/ \E d \in Device : SetDefault(c, d)
            \/ \E n \in Lens, w \in {1, W} :
                 \/ ReadWrite(c, n, w)
                 \/ \E d \in Device \cup {NoDevice}, flag \in {"none", "lock", "unlock"} :
                      Message(c, d, flag, n, w)
      BY <1>3 DEF Manager
    <2>2. CASE Open(c) BY <2>2 DEF Open, LockInv, LockExcludes
    <2>3. CASE Close(c)
      <3>1. \A l \in locks' : l \in locks /\ l.owner # c BY <2>3 DEF Close, Unlocked
      <3>2. open' = open \ {c} /\ pc' = pc /\ x' = x BY <2>3 DEF Close
      <3> QED BY <3>1, <3>2 DEF LockInv, LockExcludes
    <2>4. ASSUME NEW d \in Device, SetDefault(c, d) PROVE LockInv'
      BY <2>4 DEF SetDefault, LockInv, LockExcludes
    <2>5. ASSUME NEW n \in Lens, NEW w \in {1, W}, ReadWrite(c, n, w) PROVE LockInv'
      <3>1. /\ pc = "idle" /\ c \in open /\ LockCheck(c, chip[c], "none")
            /\ Begin(c, chip[c], n, w) /\ open' = open
        BY <2>5 DEF ReadWrite
      <3>2. chip[c] \in Device \cup {NoDevice} BY DEF ChipInv
      <3>3. /\ locks' \subseteq [owner : Client, device : Device \cup {NoDevice}]
            /\ \A k, l \in locks' : k.device = l.device => k = l
            /\ \A l \in locks' : l.owner \in open
            /\ \A l \in locks' : l.device = chip[c] => l.owner = c
        BY <3>1, <3>2, RequestStep
      <3> QED BY <3>1, <3>3, LockBegin
    <2>6. ASSUME NEW n \in Lens, NEW w \in {1, W}, NEW d \in Device \cup {NoDevice},
                 NEW flag \in {"none", "lock", "unlock"}, Message(c, d, flag, n, w)
          PROVE  LockInv'
      <3>1. /\ pc = "idle" /\ c \in open /\ LockCheck(c, d, flag)
            /\ Begin(c, d, n, w) /\ open' = open
        BY <2>6 DEF Message
      <3>2. /\ locks' \subseteq [owner : Client, device : Device \cup {NoDevice}]
            /\ \A k, l \in locks' : k.device = l.device => k = l
            /\ \A l \in locks' : l.owner \in open
            /\ \A l \in locks' : l.device = d => l.owner = c
        BY <3>1, RequestStep
      <3> QED BY <3>1, <3>2, LockBegin
    <2> QED BY <2>1, <2>2, <2>3, <2>4, <2>5, <2>6
  <1>4. CASE Load
    <2>1. UNCHANGED busVars /\ pc # "idle" /\ {"who", "dev"} \subseteq DOMAIN x
      BY <1>4 DEF Load, LockInv
    <2> DEFINE n     == Least(x.xlen - x.tlen, BurstMax)
               short == n % W
               head  == IF short = 0 THEN <<>> ELSE <<[b \in 1 .. short |-> buf[x.tlen + b]]>>
               k     == Least((n - short) \div W, FifoSize - Len(head))
    <2>2. \/ x' = x
          \/ x' = [x EXCEPT !.tlen = @ + short + k * W, !.bxlen = n, !.btlen = short + k * W,
                           !.brlen = 0, !.lsb = short]
      BY <1>4 DEF Load
    <2> HIDE DEF n, short, head, k
    <2>3. {"who", "dev"} \subseteq DOMAIN x' /\ x'.who = x.who /\ x'.dev = x.dev
      BY <2>1, <2>2
    <2> QED BY <1>1, <2>1, <2>3
  <1>5. CASE StartBurst \/ Shift
    <2>1. UNCHANGED <<busVars, pc, x>> \/ (UNCHANGED busVars /\ pc # "idle" /\ x' = x)
      BY <1>5 DEF StartBurst, Shift
    <2> QED BY <1>1, <2>1 DEF LockInv, LockExcludes, busVars
  <1>6. CASE Wait \/ TimeOut
    <2>1. UNCHANGED busVars /\ pc # "idle" /\ {"who", "dev"} \subseteq DOMAIN x
      BY <1>6 DEF Wait, TimeOut, LockInv
    <2>2. \E r : x' = [x EXCEPT !.rlen = r] BY <1>6 DEF Wait, TimeOut, Loop
    <2>3. {"who", "dev"} \subseteq DOMAIN x' /\ x'.who = x.who /\ x'.dev = x.dev
      BY <2>1, <2>2
    <2> QED BY <1>1, <2>1, <2>3
  <1>7. CASE Reply
    <2>1. UNCHANGED busVars /\ pc' = "idle" /\ x' = Idle BY <1>7 DEF Reply
    <2>2. {"who", "dev"} \subseteq DOMAIN x' BY <2>1 DEF Idle
    <2> QED BY <2>1, <2>2 DEF LockInv, LockExcludes, busVars
  <1>8. CASE Isr
    <2>1. UNCHANGED <<busVars, pc>> /\ {"who", "dev"} \subseteq DOMAIN x
      BY <1>8 DEF Isr, IsrRead, IsrMove, IsrEnd, LockInv
    <2>2. \/ x' = x
          \/ \E r, b, s, t, bt : x' = [x EXCEPT !.rlen = r, !.brlen = b, !.lsb = s, !.tlen = t,
                                                !.btlen = bt]
      BY <1>8, IsrChanges
    <2>3. {"who", "dev"} \subseteq DOMAIN x' /\ x'.who = x.who /\ x'.dev = x.dev
      BY <2>1, <2>2
    <2> QED BY <2>1, <2>3 DEF LockInv, LockExcludes, busVars
  <1> QED BY <1>2, <1>3, <1>4, <1>5, <1>6, <1>7, <1>8 DEF Next, Xfer

-----------------------------------------------------------------------------
\* If every message names its device, locks exclude: a device is locked by one client at a
\* time and no other client's transfer is done with it.
THEOREM LocksExclude ==
  ASSUME NamesDevice
  PROVE  Spec => []LockExcludes
  <1>1. Init => LockInv /\ ChipInv BY DEF Init, Idle, LockInv, LockExcludes, ChipInv
  <1>2. LockInv /\ ChipInv /\ [Next]_vars => LockInv' /\ ChipInv' BY LockStep, ChipStep
  <1>3. LockInv => LockExcludes BY DEF LockInv
  <1> QED BY <1>1, <1>2, <1>3, PTL DEF Spec

LEMMA Always == Spec => []XferInv
  <1>1. Init => XferInv /\ ChipInv
    <2> SUFFICES ASSUME Init PROVE XferInv /\ ChipInv OBVIOUS
    <2>1. Idle \in Transfer BY DEF Idle, Transfer
    <2>2. Numbers BY <2>1 DEF Init, Numbers
    <2>3. pc = "idle" /\ Clean BY DEF Init, Clean
    <2>4. ChipInv BY DEF Init, ChipInv
    <2> QED BY <2>2, <2>3, <2>4 DEF XferInv, Sound
  <1>2. XferInv /\ ChipInv /\ [Next]_vars => XferInv' /\ ChipInv' BY XferStep, ChipStep
  <1> QED BY <1>1, <1>2, PTL DEF Spec

\* Until a transfer has timed out the receive FIFO never runs over, however the handler and
\* the controller take turns: what is in the two FIFOs was loaded and has not been received.
THEOREM NothingLost == Spec => []NoOverrun
  <1>1. XferInv => NoOverrun
    <2> SUFFICES ASSUME XferInv, ~late PROVE Len(txf) + Len(rxf) <= FifoSize BY DEF NoOverrun
    <2>1. Sound BY DEF XferInv
    <2>2. CASE Clean
      <3>1. Len(txf) = 0 /\ Len(rxf) = 0 BY <2>2 DEF Clean
      <3> QED BY <3>1, SizeAssumption
    <2>3. CASE BurstInv
      <3>1. PICK a, N, T, X, R \in Nat : Counts(a, N, T, X, R) /\ Burst(a, T, X, R)
        BY <2>3 DEF BurstInv
      <3>2. R <= X /\ X <= T /\ T - R <= FifoSize BY <3>1 DEF Counts
      <3>3. Len(txf) = T - X /\ Len(rxf) = X - R BY <3>1, <3>2, Lengths
      <3>4. FifoSize \in Nat BY SizeAssumption
      <3> QED BY <3>2, <3>3, <3>4
    <2> QED BY <2>1, <2>2, <2>3 DEF Sound, Numbers, Between
  <1> QED BY <1>1, Always, PTL

\* Until a transfer has timed out the handler reads no more words than have been received, and
\* never none, so that its count (intr.c:61-63, 99-101) does not pass zero.
THEOREM CountsDown == Spec => []ReadsReceived
  <1>1. XferInv => ReadsReceived
    <2> SUFFICES ASSUME XferInv, ~late, isr = "move" PROVE cnt \in 1 .. Len(rxf)
      BY DEF ReadsReceived
    <2>1. Sound /\ BurstInv BY DEF XferInv, Sound, Numbers, Between, Clean
    <2>2. PICK a, N, T, X, R \in Nat :
            Counts(a, N, T, X, R) /\ Burst(a, T, X, R) /\ Phase(N, X, R)
      BY <2>1 DEF BurstInv
    <2>3. Len(rxf) = X - R BY <2>2, Lengths DEF Counts
    <2> QED BY <2>2, <2>3 DEF Phase, Moving
  <1> QED BY <1>1, Always, PTL

\* Until a transfer has timed out each one ends complete, with every byte sent and replaced
\* by the one that came back, and leaves no pulse behind.
THEOREM TransfersComplete == Spec => []Exchanged
  <1>1. XferInv => Exchanged
    <2> SUFFICES ASSUME XferInv, pc = "done", ~late
                 PROVE  /\ pulse = 0
                        /\ x.rlen = x.xlen
                        /\ \A i \in 1 .. x.xlen : buf[i] = In(i)
                        /\ sent = [i \in 1 .. x.xlen |-> Out(i)]
      BY DEF Exchanged
    <2>1. Between /\ Numbers BY DEF XferInv, Sound
    <2>2. pulse = 0 /\ x.rlen = x.xlen BY <2>1 DEF Between, Clean
    <2>3. PICK l \in Nat : l = x.xlen BY <2>1 DEF Numbers, Transfer
    <2>4. buf = Bytes(l, l) /\ sent = OnWire(l) BY <2>1, <2>2, <2>3 DEF Between
    <2>5. \A i \in 1 .. l : buf[i] = In(i) BY <2>4 DEF Bytes
    <2> QED BY <2>2, <2>3, <2>4, <2>5 DEF OnWire
  <1> QED BY <1>1, Always, PTL

-----------------------------------------------------------------------------
(* The promise: SpiBus. *)

\* A transfer in progress is with a device.
BusyInv ==
  /\ {"who", "dev", "xlen"} \subseteq DOMAIN x
  /\ pc # "idle" => x.dev # NoDevice
  /\ late \in BOOLEAN

\* The driver does not change whom the transfer is for.
LEMMA DriverKeeps ==
  ASSUME BusyInv, Load \/ StartBurst \/ Wait \/ TimeOut \/ Isr \/ Shift
  PROVE  /\ {"who", "dev", "xlen"} \subseteq DOMAIN x'
         /\ x'.who = x.who /\ x'.dev = x.dev /\ x'.xlen = x.xlen
         /\ pc = "idle" <=> pc' = "idle"
         /\ UNCHANGED busVars
  <1>1. CASE Load
    <2> DEFINE n     == Least(x.xlen - x.tlen, BurstMax)
               short == n % W
               head  == IF short = 0 THEN <<>> ELSE <<[b \in 1 .. short |-> buf[x.tlen + b]]>>
               k     == Least((n - short) \div W, FifoSize - Len(head))
    <2>1. /\ \/ x' = x
             \/ x' = [x EXCEPT !.tlen = @ + short + k * W, !.bxlen = n, !.btlen = short + k * W,
                              !.brlen = 0, !.lsb = short]
          /\ pc = "load" /\ pc' \in {"start", "fail"} /\ UNCHANGED busVars
      BY <1>1 DEF Load
    <2> HIDE DEF n, short, head, k
    <2> QED BY <2>1 DEF BusyInv
  <1>2. CASE StartBurst BY <1>2 DEF StartBurst, BusyInv
  <1>3. CASE Shift BY <1>3 DEF Shift, BusyInv
  <1>4. CASE Wait \/ TimeOut
    <2>1. \E r : x' = [x EXCEPT !.rlen = r] BY <1>4 DEF Wait, TimeOut, Loop
    <2>2. pc = "wait" /\ pc' \in {"load", "done"} /\ UNCHANGED busVars
      BY <1>4 DEF Wait, TimeOut, Loop
    <2> QED BY <2>1, <2>2 DEF BusyInv
  <1>5. CASE Isr
    <2>1. \/ x' = x
          \/ \E r, b, s, t, bt : x' = [x EXCEPT !.rlen = r, !.brlen = b, !.lsb = s, !.tlen = t,
                                                !.btlen = bt]
      BY <1>5, IsrChanges
    <2>2. UNCHANGED <<busVars, pc>> BY <1>5 DEF Isr, IsrRead, IsrMove, IsrEnd
    <2> QED BY <2>1, <2>2 DEF BusyInv
  <1> QED BY <1>1, <1>2, <1>3, <1>4, <1>5

\* A message is refused or begins a transfer with a device.
LEMMA BeginIs ==
  ASSUME NEW c, NEW d, NEW n \in Lens, NEW w \in {1, W}, Begin(c, d, n, w)
  PROVE  \/ UNCHANGED <<pc, x, buf, sent>>
         \/ /\ d # NoDevice /\ pc' = "load"
            /\ {"who", "dev", "xlen"} \subseteq DOMAIN x'
            /\ x'.who = c /\ x'.dev = d /\ x'.xlen = n
  BY DEF Begin, Idle

LEMMA LateStep == ASSUME [Next]_vars PROVE late' = late \/ late' = TRUE
  <1>1. CASE Manager BY <1>1 DEF Manager, Open, Close, SetDefault, ReadWrite, Message
  <1>2. CASE Xfer BY <1>2 DEF Xfer, Load, StartBurst, Wait, Reply
  <1>3. CASE TimeOut \/ Isr \/ Shift
    BY <1>3 DEF TimeOut, Isr, IsrRead, IsrMove, IsrEnd, Shift
  <1>4. CASE UNCHANGED vars BY <1>4 DEF vars
  <1> QED BY <1>1, <1>2, <1>3, <1>4 DEF Next

LEMMA BusyStep ==
  ASSUME BusyInv, [Next]_vars
  PROVE  BusyInv'
  <1>1. late' \in BOOLEAN BY LateStep DEF BusyInv
  <1>2. CASE UNCHANGED <<pc, x>> BY <1>1, <1>2 DEF BusyInv
  <1>3. CASE Manager
    <2>1. PICK c \in Client :
            \/ Open(c) \/ Close(c)
            \/ \E d \in Device : SetDefault(c, d)
            \/ \E n \in Lens, w \in {1, W} :
                 \/ ReadWrite(c, n, w)
                 \/ \E d \in Device \cup {NoDevice}, flag \in {"none", "lock", "unlock"} :
                      Message(c, d, flag, n, w)
      BY <1>3 DEF Manager
    <2>2. ASSUME NEW d, NEW n \in Lens, NEW w \in {1, W}, Begin(c, d, n, w) PROVE BusyInv'
      BY <1>1, <1>2, <2>2, BeginIs DEF BusyInv
    <2>3. CASE Open(c) \/ Close(c) \/ \E d \in Device : SetDefault(c, d)
      BY <1>2, <2>3 DEF Open, Close, SetDefault
    <2> QED BY <2>1, <2>2, <2>3 DEF ReadWrite, Message
  <1>4. CASE Reply BY <1>1, <1>4 DEF Reply, Idle, BusyInv
  <1>5. CASE Load \/ StartBurst \/ Wait \/ TimeOut \/ Isr \/ Shift
    <2>1. pc # "idle" => pc' # "idle" BY <1>5, DriverKeeps
    <2> QED BY <1>1, <1>5, DriverKeeps DEF BusyInv
  <1>6. CASE UNCHANGED vars BY <1>2, <1>6 DEF vars
  <1> QED BY <1>3, <1>4, <1>5, <1>6 DEF Next, Xfer

\* A transfer that is begun, or a message that is refused, is a use of the device.
LEMMA UseStep ==
  ASSUME BusyInv, pc = "idle", late' = late, open' = open,
         NEW c \in Client, NEW d \in Device, NEW n \in Lens, NEW w \in {1, W},
         c \in open, Granted(c, d), Begin(c, d, n, w),
         locks' \in {locks, locks \cup {[owner |-> c, device |-> d]},
                     locks \ {[owner |-> c, device |-> d]}}
  PROVE  Bus!Next
  <1>1. CurXfer = Bus!Free /\ Wire = <<>> /\ Got = <<>> BY DEF CurXfer, Wire, Got, Bus!Free
  <1>2. /\ CurXfer' \in {Bus!Free, [who |-> c, dev |-> d, len |-> n]}
        /\ Wire' = <<>> /\ Got' = <<>>
    BY BeginIs DEF CurXfer, Wire, Got, Bus!Free
  <1>3. Bus!Use(c, d, n) BY <1>1, <1>2 DEF Bus!Use, Granted
  <1> QED BY <1>3 DEF Bus!Next, Bus!Step

LEMMA BusStep ==
  ASSUME NamesDevice, LockInv, ChipInv, BusyInv, XferInv, XferInv', [Next]_vars
  PROVE  [Bus!Next]_(Bus!vars)
  <1>1. late' \in BOOLEAN /\ (late' = late \/ late' = TRUE) BY LateStep DEF BusyInv
  <1>2. CASE late' = TRUE BY <1>2 DEF Bus!Next
  <1>3. CASE ~late'
    <2>1. late' = late /\ ~late /\ Sound /\ Sound' BY <1>1, <1>3 DEF XferInv
    <2>2. CASE UNCHANGED <<open, locks, pc, x, buf, sent>>
      BY <2>1, <2>2 DEF Bus!vars, CurXfer, Wire, Got
    <2>3. CASE Manager
      <3>1. PICK c \in Client :
              \/ Open(c) \/ Close(c)
              \/ \E d \in Device : SetDefault(c, d)
              \/ \E n \in Lens, w \in {1, W} :
                   \/ ReadWrite(c, n, w)
                   \/ \E d \in Device \cup {NoDevice}, flag \in {"none", "lock", "unlock"} :
                        Message(c, d, flag, n, w)
        BY <2>3 DEF Manager
      <3>2. pc = "idle" => CurXfer = Bus!Free /\ Wire = <<>> /\ Got = <<>>
        BY DEF CurXfer, Wire, Got, Bus!Free
      <3>3. CASE Open(c)
        <4>1. pc = "idle" /\ pc' = "idle" BY <3>3 DEF Open
        <4>2. CurXfer' = CurXfer /\ Wire' = Wire /\ Got' = Got
          BY <4>1 DEF CurXfer, Wire, Got
        <4>3. Bus!Open(c) BY <3>2, <3>3, <4>1, <4>2 DEF Open, Bus!Open
        <4> QED BY <2>1, <4>3 DEF Bus!Next, Bus!Step
      <3>4. CASE Close(c)
        <4>1. pc = "idle" /\ pc' = "idle" BY <3>4 DEF Close
        <4>2. CurXfer' = CurXfer /\ Wire' = Wire /\ Got' = Got
          BY <4>1 DEF CurXfer, Wire, Got
        <4>3. Bus!Close(c) BY <3>2, <3>4, <4>1, <4>2 DEF Close, Unlocked, Bus!Close
        <4> QED BY <2>1, <4>3 DEF Bus!Next, Bus!Step
      <3>5. ASSUME NEW d \in Device, SetDefault(c, d) PROVE UNCHANGED <<open, locks, pc, x, buf, sent>>
        BY <3>5 DEF SetDefault, hwVars
      <3>6. ASSUME NEW n \in Lens, NEW w \in {1, W}, ReadWrite(c, n, w)
            PROVE  Bus!Next \/ UNCHANGED <<open, locks, pc, x, buf, sent>>
        <4>1. /\ pc = "idle" /\ c \in open /\ Granted(c, chip[c]) /\ locks' = locks
              /\ Begin(c, chip[c], n, w) /\ open' = open
          BY <3>6 DEF ReadWrite, LockCheck, Request
        <4>2. chip[c] \in Device \cup {NoDevice} BY DEF ChipInv
        <4>3. CASE chip[c] = NoDevice BY <4>1, <4>3 DEF Begin
        <4>4. CASE chip[c] \in Device BY <2>1, <4>1, <4>4, UseStep
        <4> QED BY <4>2, <4>3, <4>4
      <3>7. ASSUME NEW n \in Lens, NEW w \in {1, W}, NEW d \in Device \cup {NoDevice},
                   NEW flag \in {"none", "lock", "unlock"}, Message(c, d, flag, n, w)
            PROVE  Bus!Next
        <4>1. d \in Device BY <3>7 DEF Message
        <4>2. d # NoDevice BY <4>1, DeviceAssumption
        <4>3. /\ pc = "idle" /\ c \in open /\ Granted(c, d) /\ Request(c, d, flag)
              /\ Begin(c, d, n, w) /\ open' = open
          BY <3>7, <4>2 DEF Message, LockCheck
        <4>4. locks' \in {locks, locks \cup {[owner |-> c, device |-> d]},
                          locks \ {[owner |-> c, device |-> d]}}
          <5>1. ASSUME NEW l \in locks, l.owner = c, d \in {l.device, NoDevice}
                PROVE  l = [owner |-> c, device |-> d]
            <6>1. l \in [owner : Client, device : Device \cup {NoDevice}]
              BY <5>1 DEF LockInv
            <6> QED BY <4>2, <5>1, <6>1
          <5> QED BY <4>3, <5>1 DEF Request
        <4> QED BY <2>1, <4>1, <4>3, <4>4, UseStep
      <3> QED BY <2>2, <3>1, <3>3, <3>4, <3>5, <3>6, <3>7
    <2>4. CASE Load \/ StartBurst \/ Isr \/ Shift
      <3>1. /\ x'.who = x.who /\ x'.dev = x.dev /\ x'.xlen = x.xlen
            /\ pc = "idle" <=> pc' = "idle"
            /\ open' = open /\ locks' = locks
        BY <2>4, DriverKeeps DEF busVars
      <3>2. CurXfer' = CurXfer BY <3>1 DEF CurXfer
      <3>3. pc # "done"
        <4>1. pc = "done" => isr = "away" /\ ~inten /\ txf = <<>>
          BY <2>1 DEF Sound, Between, Clean
        <4> QED BY <2>4, <4>1 DEF Load, StartBurst, Isr, IsrRead, IsrMove, IsrEnd, Shift
      <3>4. pc' # "done"
        BY <2>4, <3>3 DEF Load, StartBurst, Isr, IsrRead, IsrMove, IsrEnd, Shift
      <3>5. Wire' = Wire /\ Got' = Got BY <3>3, <3>4 DEF Wire, Got
      <3> QED BY <2>1, <3>1, <3>2, <3>5 DEF Bus!vars
    <2>5. CASE Wait
      <3>1. /\ x'.who = x.who /\ x'.dev = x.dev /\ x'.xlen = x.xlen
            /\ open' = open /\ locks' = locks
        BY <2>5, DriverKeeps DEF busVars
      <3>2. pc = "wait" /\ pc' \in {"load", "done"} BY <2>5 DEF Wait, Loop
      <3>3. CurXfer' = CurXfer /\ CurXfer # Bus!Free /\ Wire = <<>> /\ Got = <<>>
        BY <3>1, <3>2 DEF CurXfer, Wire, Got, Bus!Free, BusyInv
      <3>4. CASE pc' = "load"
        <4>1. Wire' = <<>> /\ Got' = <<>> BY <3>4 DEF Wire, Got
        <4> QED BY <2>1, <3>1, <3>3, <4>1 DEF Bus!vars
      <3>5. CASE pc' = "done"
        <4>1. PICK l : l = x'.xlen OBVIOUS
        <4>2. sent' = OnWire(l) /\ buf' = Bytes(l, l) /\ l \in Nat
          BY <2>1, <3>5, <4>1 DEF Sound, Between, Numbers, Transfer
        <4>3. CurXfer.len = l BY <3>1, <3>2, <4>1 DEF CurXfer
        <4>4. Wire' = [i \in 1 .. l |-> Bus!Out(i)]
          BY <3>5, <4>2 DEF Wire, OnWire, Out, Bus!Out
        <4>5. Got' = [i \in 1 .. l |-> Bus!In(i)]
          <5>1. \A i \in 1 .. l : i <= l BY <4>2
          <5> QED BY <3>5, <4>2, <5>1 DEF Got, Bytes, In, Bus!In
        <4>6. Bus!Exchange BY <3>1, <3>3, <4>3, <4>4, <4>5 DEF Bus!Exchange
        <4> QED BY <2>1, <4>6 DEF Bus!Next, Bus!Step
      <3> QED BY <3>2, <3>4, <3>5
    <2>6. CASE Reply
      <3>1. pc \in {"done", "fail"} /\ pc' = "idle" /\ open' = open /\ locks' = locks
        BY <2>6 DEF Reply, busVars
      <3>2. CurXfer # Bus!Free BY <3>1 DEF CurXfer, Bus!Free, BusyInv
      <3>3. CurXfer' = Bus!Free /\ Wire' = <<>> /\ Got' = <<>>
        BY <3>1 DEF CurXfer, Wire, Got, Bus!Free
      <3>4. Bus!Answer BY <3>1, <3>2, <3>3 DEF Bus!Answer
      <3> QED BY <2>1, <3>4 DEF Bus!Next, Bus!Step
    <2>7. CASE TimeOut BY <1>3, <2>7 DEF TimeOut
    <2>8. CASE UNCHANGED vars BY <2>2, <2>8 DEF vars, busVars, hwVars
    <2> QED BY <2>3, <2>4, <2>5, <2>6, <2>7, <2>8 DEF Next, Xfer
  <1> QED BY <1>1, <1>2, <1>3

\* The manager and the driver keep the promise of SpiBus (ImplementsBus, of _spi_devlock.c,
\* mx51_xfer and spi_intr): to its client a transfer is exchanged at once, with a device
\* nobody else has locked, until one has timed out and if every message names its device.
THEOREM Implements ==
  ASSUME NamesDevice
  PROVE  Spec => ImplementsBus
  <1>1. Init => Bus!Init
    BY DEF Init, Bus!Init, CurXfer, Wire, Got, Bus!Free
  <1>2. Init => LockInv /\ ChipInv /\ BusyInv
    BY DEF Init, Idle, LockInv, LockExcludes, ChipInv, BusyInv
  <1>3. LockInv /\ ChipInv /\ BusyInv /\ [Next]_vars => LockInv' /\ ChipInv' /\ BusyInv'
    BY LockStep, ChipStep, BusyStep
  <1>4. LockInv /\ ChipInv /\ BusyInv /\ XferInv /\ XferInv' /\ [Next]_vars
          => [Bus!Next]_(Bus!vars)
    BY BusStep
  <1> QED BY <1>1, <1>2, <1>3, <1>4, Always, PTL DEF Spec, ImplementsBus, Bus!Spec
===============================================================================
