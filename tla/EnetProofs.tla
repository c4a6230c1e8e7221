------------------------------- MODULE EnetProofs -------------------------------
(***************************************************************************)
(* Proofs about the Ethernet driver, for every size of its rings, number   *)
(* of fragments and number of frames.                                      *)
(*                                                                         *)
(* Of the transmit ring: the count of descriptors in use fits the indices; *)
(* with an interface that is stopped only when it is idle, the descriptors *)
(* a frame is put in are free, the frames leave in the order they were     *)
(* queued, and the buffers of no frame but the one the controller is       *)
(* sending are freed while it owns a descriptor of it.                     *)
(*                                                                         *)
(* Of the receive side: who is in charge of the receive interrupt, that a  *)
(* queue with frames in it is worked on, and that frames are put together  *)
(* one at a time and reach the stack in the order they arrived.            *)
(***************************************************************************)
EXTENDS EnetTx, EnetRx, FiniteSetTheorems, SequenceTheorems, TLAPS

-----------------------------------------------------------------------------
(* The transmit ring. *)

Desc == [r : BOOLEAN, l : BOOLEAN, bdu : BOOLEAN, f : Nat]

\* A ring whose count fits its indices.
RingOK(s) ==
  /\ s \in [bd : [Ring -> Desc], pkt : [Ring -> Nat], pidx : Ring, cidx : Ring, inuse : Ring]
  /\ s.pidx = After(s.cidx, s.inuse)

\* The first and the last descriptor a process fills are in the ring.
CurOK == cur \in [Process -> Ring \X Ring]

CountInv == RingOK(q) /\ CurOK /\ taken \in Nat

-----------------------------------------------------------------------------
(* Places in the ring *)

LEMMA AfterType == ASSUME NEW i \in Ring, NEW k \in 0 .. N PROVE After(i, k) \in Ring
  BY RingAssumption DEF Ring, After

LEMMA DistType == ASSUME NEW i \in Ring, NEW j \in Ring PROVE Dist(i, j) \in Ring
  BY RingAssumption DEF Ring, Dist

LEMMA DistAfter == ASSUME NEW i \in Ring, NEW k \in Ring PROVE Dist(i, After(i, k)) = k
  BY RingAssumption DEF Ring, Dist, After

LEMMA AfterAfter ==
  ASSUME NEW i \in Ring, NEW j \in Ring, NEW k \in Ring, j + k < N
  PROVE  After(After(i, j), k) = After(i, j + k)
  BY RingAssumption DEF Ring, After

LEMMA AfterSame == ASSUME NEW i \in Ring, NEW k \in Ring, After(i, k) = i PROVE k = 0
  BY RingAssumption DEF Ring, After

\* No more descriptors are reaped than are in use (mx6q_transmit_complete).
LEMMA ReapableInUse == ASSUME NEW s, RingOK(s) PROVE Reapable(s) \in 0 .. s.inuse
<1> DEFINE S == {k \in 1 .. Dist(s.cidx, s.pidx) :
                  \A j \in 0 .. k - 1 : Done(s.bd[After(s.cidx, j)])}
<1>1. Dist(s.cidx, s.pidx) = s.inuse /\ s.inuse \in Nat
  BY DistAfter DEF RingOK, Ring
<1>2. IsFiniteSet(1 .. s.inuse) /\ Cardinality(1 .. s.inuse) = s.inuse
  BY <1>1, FS_Interval
<1>3. S \in SUBSET (1 .. s.inuse)
  BY <1>1
<1>4. IsFiniteSet(S) /\ Cardinality(S) <= s.inuse
  BY <1>2, <1>3, FS_Subset
<1>5. Cardinality(S) \in Nat
  BY <1>4, FS_CardinalityType
<1>6. Reapable(s) = Cardinality(S)
  BY DEF Reapable
<1>7. QED
  BY <1>1, <1>4, <1>5, <1>6

-----------------------------------------------------------------------------
(* The operations on the ring *)

LEMMA CleanType == Clean \in Desc
  BY DEF Clean, Desc

\* Reaping moves the consumer index as far as the count goes down.
LEMMA ReapOK == ASSUME NEW s, RingOK(s) PROVE RingOK(Reap(s))
<1> DEFINE n == Reapable(s)
<1>1. n \in 0 .. s.inuse /\ s.inuse \in Ring /\ s.cidx \in Ring /\ s.pidx \in Ring
  BY ReapableInUse DEF RingOK
<1> HIDE DEF n
<1>2. n \in Ring /\ n \in 0 .. N /\ s.inuse - n \in Ring /\ n + (s.inuse - n) = s.inuse /\ s.inuse < N
  BY <1>1, RingAssumption DEF Ring
<1>7. After(s.cidx, n) \in Ring
  BY <1>1, <1>2, AfterType
<1>3. s.pidx = After(After(s.cidx, n), s.inuse - n)
  <2>1. After(After(s.cidx, n), s.inuse - n) = After(s.cidx, n + (s.inuse - n))
    BY <1>1, <1>2, AfterAfter
  <2>2. s.pidx = After(s.cidx, s.inuse)
    BY DEF RingOK
  <2>3. QED
    BY <1>2, <2>1, <2>2
<1>4. [i \in Ring |-> IF Window(s, i) THEN Clean ELSE s.bd[i]] \in [Ring -> Desc]
  BY CleanType DEF RingOK
<1>5. [i \in Ring |-> IF Window(s, i) THEN 0 ELSE s.pkt[i]] \in [Ring -> Nat]
  BY DEF RingOK
<1>6. QED
  BY <1>1, <1>2, <1>7, <1>3, <1>4, <1>5 DEF RingOK, Reap, n

\* A frame that fits moves the producer index as far as the count goes up.
LEMMA FillType ==
  ASSUME NEW s, RingOK(s), NEW f \in Nat, NEW m PROVE Fill(s, f, m) \in [Ring -> Desc]
<1>1. \A i \in Ring : [s.bd[i] EXCEPT !.f = f, !.r = (i # s.pidx)] \in Desc
  BY DEF RingOK, Desc
<1>2. QED
  BY <1>1 DEF Fill, RingOK

LEMMA LoadOK ==
  ASSUME NEW s, RingOK(s), NEW f \in Nat, NEW n \in 1 .. MaxFrags, ~Short(s)
  PROVE  RingOK(Load(s, f, n))
<1>1. s.inuse \in Ring /\ s.cidx \in Ring /\ s.pidx \in Ring /\ n \in Ring /\ s.inuse + n < N
  BY RingAssumption DEF RingOK, Short, Ring
<1>2. n \in 0 .. N /\ s.inuse + n \in Ring
  BY <1>1, RingAssumption DEF Ring
<1>6. After(s.pidx, n) \in Ring
  BY <1>1, <1>2, AfterType
<1>3. After(s.pidx, n) = After(s.cidx, s.inuse + n)
  <2>1. After(After(s.cidx, s.inuse), n) = After(s.cidx, s.inuse + n)
    BY <1>1, AfterAfter
  <2>2. s.pidx = After(s.cidx, s.inuse)
    BY DEF RingOK
  <2>3. QED
    BY <2>1, <2>2
<1>4. Fill(s, f, n) \in [Ring -> Desc]
  BY FillType
<1>5. QED
  BY <1>1, <1>2, <1>6, <1>3, <1>4 DEF RingOK, Load

LEMMA MarkReadyOK ==
  ASSUME NEW s, RingOK(s), NEW c \in Ring \X Ring PROVE RingOK(MarkReady(s, c))
<1>1. [s.bd EXCEPT ![c[2]].l = TRUE] \in [Ring -> Desc]
  BY DEF RingOK, Desc
<1>2. [[s.bd EXCEPT ![c[2]].l = TRUE] EXCEPT ![c[1]].r = TRUE] \in [Ring -> Desc]
  BY <1>1 DEF Desc
<1>3. MarkReady(s, c) = [s EXCEPT !.bd = [[s.bd EXCEPT ![c[2]].l = TRUE] EXCEPT ![c[1]].r = TRUE]]
  BY DEF MarkReady, RingOK
<1>4. QED
  BY <1>2, <1>3 DEF RingOK
-----------------------------------------------------------------------------
\* The driver starts with an empty ring (mx6q_init).
LEMMA CountInit == Init => CountInv
<1> SUFFICES ASSUME Init PROVE CountInv
  OBVIOUS
<1>1. 0 \in Ring /\ After(0, 0) = 0
  BY RingAssumption DEF Ring, After
<1>2. RingOK(q)
  BY <1>1, CleanType DEF Init, RingOK
<1>3. QED
  BY <1>1, <1>2 DEF Init, CountInv, CurOK

\* The ring at the top of mx6q_start's loop.
LEMMA LookedOK == ASSUME RingOK(q) PROVE RingOK(Looked)
  BY ReapOK DEF Looked

LEMMA TakeFrameCount == ASSUME CountInv, NEW p \in Process, TakeFrame(p) PROVE CountInv'
<1>1. RingOK(Looked) /\ ~Short(Looked) /\ taken + 1 \in Nat /\ taken' = taken + 1
  BY LookedOK DEF CountInv, TakeFrame
<1>2. PICK n \in 1 .. MaxFrags :
        LET k == Hit(Looked, n)
        IN IF k = n
           THEN /\ q' = Load(Looked, taken + 1, n)
                /\ cur' = [cur EXCEPT ![p] = <<Looked.pidx, After(Looked.pidx, n - 1)>>]
           ELSE /\ q' = [Looked EXCEPT !.bd = Fill(Looked, taken + 1, k)]
                /\ cur' = cur
  BY DEF TakeFrame
<1>3. CASE Hit(Looked, n) = n
  <2>1. RingOK(q')
    BY <1>1, <1>2, <1>3, LoadOK
  <2>2. Looked.pidx \in Ring /\ n - 1 \in 0 .. N
    BY <1>1, RingAssumption DEF RingOK
  <2>3. After(Looked.pidx, n - 1) \in Ring
    BY <2>2, AfterType
  <2>4. CurOK'
    BY <1>2, <1>3, <2>2, <2>3 DEF CountInv, CurOK
  <2>5. QED
    BY <1>1, <2>1, <2>4 DEF CountInv
<1>4. CASE Hit(Looked, n) # n
  <2>1. Fill(Looked, taken + 1, Hit(Looked, n)) \in [Ring -> Desc]
    BY <1>1, FillType
  <2>2. RingOK(q')
    BY <1>1, <1>2, <1>4, <2>1 DEF RingOK
  <2>3. QED
    BY <1>1, <1>2, <1>4, <2>2 DEF CountInv, CurOK
<1>5. QED
  BY <1>3, <1>4

LEMMA StopCount == ASSUME CountInv, Stop PROVE CountInv'
<1> DEFINE s == Reap(q)
           taken_back == [i \in Ring |-> IF s.pkt[i] = 0 THEN s.bd[i]
                                         ELSE [s.bd[i] EXCEPT !.r = FALSE, !.l = FALSE]]
<1>1. RingOK(s)
  BY ReapOK DEF CountInv
<1>2. q' = [bd |-> taken_back, pkt |-> [i \in Ring |-> 0], pidx |-> s.cidx, cidx |-> s.cidx,
            inuse |-> 0]
  BY DEF Stop
<1> HIDE DEF s
<1>3. taken_back \in [Ring -> Desc]
  BY <1>1 DEF RingOK, Desc
<1>4. s.cidx \in Ring /\ 0 \in Ring /\ After(s.cidx, 0) = s.cidx
  BY <1>1, RingAssumption DEF RingOK, Ring, After
<1>5. RingOK(q')
  BY <1>2, <1>3, <1>4 DEF RingOK
<1>6. QED
  BY <1>5 DEF Stop, CountInv, CurOK

LEMMA TransmitCount == ASSUME CountInv, Transmit PROVE CountInv'
<1>1. PICK k : /\ q' = [q EXCEPT !.bd = [i \in Ring |->
                         IF Dist(eng.i, i) < k
                         THEN [q.bd[i] EXCEPT !.r = FALSE,
                                 !.bdu = (q.bd[i].bdu \/ Dist(eng.i, i) = FrameLen(eng.i) - 1)]
                         ELSE q.bd[i]]]
               /\ UNCHANGED <<cur, taken>>
  BY DEF Transmit
<1>2. \A i \in Ring : [q.bd[i] EXCEPT !.r = FALSE,
                         !.bdu = (q.bd[i].bdu \/ Dist(eng.i, i) = FrameLen(eng.i) - 1)] \in Desc
  BY DEF CountInv, RingOK, Desc
<1>3. q'.bd \in [Ring -> Desc]
  BY <1>1, <1>2 DEF CountInv, RingOK
<1>4. RingOK(q')
  BY <1>1, <1>3 DEF CountInv, RingOK
<1>5. QED
  BY <1>1, <1>4 DEF CountInv, CurOK

\* Whoever else reaps the ring keeps its count, and nobody else changes it.
LEMMA OtherCount ==
  ASSUME CountInv, q' \in {q, Reap(q), Looked}, UNCHANGED <<cur, taken>> PROVE CountInv'
<1>1. RingOK(q')
  BY ReapOK, LookedOK DEF CountInv
<1>2. QED
  BY <1>1 DEF CountInv, CurOK

LEMMA CountStep == CountInv /\ [Next]_vars => CountInv'
<1> SUFFICES ASSUME CountInv, [Next]_vars PROVE CountInv'
  OBVIOUS
<1>1. CASE UNCHANGED vars
  BY <1>1, OtherCount DEF vars, swVars
<1>2. CASE SendFrame \/ Isr \/ MonitorBegin \/ MiiWrite \/ Restart \/ Fetch \/ LookAhead
  BY <1>2, OtherCount DEF SendFrame, Isr, MonitorBegin, MiiWrite, Restart, Fetch, LookAhead, swVars
<1>3. CASE Intr \/ MonitorReap
  BY <1>3, OtherCount DEF Intr, IntrRead, IntrStart, IntrKick, IntrEnable, MonitorReap
<1>4. ASSUME NEW p \in Process, Start(p) PROVE CountInv'
  <2>1. CASE OutOfDescriptors(p) \/ QueueEmpty(p) \/ DropFrame(p) \/ Kick(p)
    BY <2>1, OtherCount DEF OutOfDescriptors, QueueEmpty, DropFrame, Kick
  <2>2. CASE FrameReady(p)
    <3>1. cur[p] \in Ring \X Ring /\ RingOK(q)
      BY DEF CountInv, CurOK
    <3>2. RingOK(q') /\ UNCHANGED <<cur, taken>>
      BY <2>2, <3>1, MarkReadyOK DEF FrameReady
    <3>3. QED
      BY <3>2 DEF CountInv, CurOK
  <2>3. QED
    BY <1>4, <2>1, <2>2, TakeFrameCount DEF Start
<1>5. QED
  BY <1>1, <1>2, <1>3, <1>4, StopCount, TransmitCount DEF Next, Monitor, Process

LEMMA CountAlways == Spec => []CountInv
  BY CountInit, CountStep, PTL DEF Spec

\* tx_descr_inuse is the number of descriptors between the indices and never all of them,
\* for every ring, number of fragments and controller (mx6q_tx, mx6q_transmit_complete and
\* mx6q_stop).
THEOREM Counts == Spec => []InuseCounts
<1>1. CountInv => InuseCounts
  BY RingAssumption DEF CountInv, RingOK, InuseCounts, Ring
<1>2. QED
  BY <1>1, CountAlways, PTL
-----------------------------------------------------------------------------
(* Which descriptors may be READY *)

\* Only descriptors in use are.
ReadyOK(s) == \A i \in Ring : s.bd[i].r => Dist(s.cidx, i) < s.inuse

Places == {"away", "loop", "ready", "kick", "i_read", "i_lock", "i_enable", "m_write", "m_reap"}

\* A process in mx6q_start has if_snd_ex; what it is about to mark READY is in use.
HoldsInv ==
  /\ pc \in [Process -> Places]
  /\ \A p \in Process : /\ pc[p] \in {"loop", "ready", "kick"} => lock = p
                        /\ pc[p] = "ready" => Dist(q.cidx, cur[p][1]) < q.inuse

ReadyInv == CountInv /\ ReadyOK(q) /\ HoldsInv

LEMMA DistMoves ==
  ASSUME NEW i \in Ring, NEW j \in Ring, NEW k \in Ring, k <= Dist(i, j)
  PROVE  Dist(After(i, k), j) = Dist(i, j) - k
  BY RingAssumption DEF Ring, Dist, After

LEMMA DistBeyond ==
  ASSUME NEW i \in Ring, NEW j \in Ring, NEW k \in Ring, k + Dist(After(i, k), j) < N
  PROVE  Dist(i, j) = k + Dist(After(i, k), j)
  BY RingAssumption DEF Ring, Dist, After

\* Reaping leaves the descriptors READY that were, and those are still in use.
LEMMA ReapReady == ASSUME NEW s, RingOK(s), ReadyOK(s) PROVE ReadyOK(Reap(s))
<1> DEFINE n == Reapable(s)
<1>1. n \in 0 .. s.inuse /\ s.inuse \in Ring /\ s.cidx \in Ring
  BY ReapableInUse DEF RingOK
<1>2. ASSUME NEW i \in Ring, Reap(s).bd[i].r
      PROVE  Dist(Reap(s).cidx, i) < Reap(s).inuse
  <2>1. ~Window(s, i) /\ s.bd[i].r
    BY <1>2 DEF Reap, Clean
  <2>2. ~(Dist(s.cidx, i) < n)
    BY <2>1 DEF Window
  <2>3. Dist(s.cidx, i) < s.inuse /\ Dist(s.cidx, i) \in Ring
    BY <1>1, <2>1, DistType DEF ReadyOK
  <2>4. Reap(s).cidx = After(s.cidx, n) /\ Reap(s).inuse = s.inuse - n
    BY DEF Reap
  <2> HIDE DEF n
  <2>5. n \in Ring /\ n <= Dist(s.cidx, i)
    BY <1>1, <2>2, <2>3, RingAssumption DEF Ring
  <2>6. Dist(After(s.cidx, n), i) = Dist(s.cidx, i) - n
    BY <1>1, <2>5, DistMoves
  <2>7. QED
    BY <1>1, <2>3, <2>4, <2>5, <2>6 DEF Ring
<1>3. QED
  BY <1>2 DEF ReadyOK

\* Where mx6q_start finds descriptors enough, those after the producer index are free.
LEMMA FreeAfter ==
  ASSUME NEW s, RingOK(s), ReadyOK(s), ~Short(s), NEW k \in 0 .. MaxFrags - 1
  PROVE  ~s.bd[After(s.pidx, k)].r
<1>1. s.inuse \in Ring /\ s.cidx \in Ring /\ k \in Ring /\ s.inuse + k \in Ring /\ s.inuse + k < N
  BY RingAssumption DEF RingOK, Short, Ring
<1>2. After(s.pidx, k) = After(s.cidx, s.inuse + k)
  <2>1. After(After(s.cidx, s.inuse), k) = After(s.cidx, s.inuse + k)
    BY <1>1, AfterAfter
  <2>2. QED
    BY <2>1 DEF RingOK
<1>3. After(s.cidx, s.inuse + k) \in Ring
  <2>1. s.inuse + k \in 0 .. N
    BY <1>1, RingAssumption DEF Ring
  <2>2. QED
    BY <1>1, <2>1, AfterType
<1>4. Dist(s.cidx, After(s.cidx, s.inuse + k)) = s.inuse + k
  BY <1>1, DistAfter
<1>5. QED
  BY <1>1, <1>2, <1>3, <1>4 DEF ReadyOK, Ring

\* So mx6q_tx does not hit the end of the ring.
LEMMA HitNever ==
  ASSUME NEW s, RingOK(s), ReadyOK(s), ~Short(s), NEW n \in 1 .. MaxFrags
  PROVE  Hit(s, n) = n
<1> DEFINE P(k) == /\ \A j \in 0 .. k - 1 : ~s.bd[After(s.pidx, j)].r
                   /\ k < n => s.bd[After(s.pidx, k)].r
<1>1. \A j \in 0 .. n - 1 : ~s.bd[After(s.pidx, j)].r
  <2>1. \A j \in 0 .. n - 1 : j \in 0 .. MaxFrags - 1
    BY RingAssumption
  <2>2. QED
    BY <2>1, FreeAfter
<1>2. n \in 0 .. n /\ P(n)
  BY <1>1
<1>3. \A k \in 0 .. n : P(k) => k = n
  <2> TAKE k \in 0 .. n
  <2>1. k < n => k \in 0 .. n - 1
    OBVIOUS
  <2>2. k < n => ~P(k)
    BY <1>1, <2>1
  <2>3. QED
    BY <2>2
<1>4. Hit(s, n) = CHOOSE k \in 0 .. n : P(k)
  BY DEF Hit
<1> HIDE DEF P
<1>5. QED
  BY <1>2, <1>3, <1>4

\* A frame that is put in the ring is in use.
LEMMA LoadReady ==
  ASSUME NEW s, RingOK(s), ReadyOK(s), ~Short(s), NEW f \in Nat, NEW n \in 1 .. MaxFrags
  PROVE  ReadyOK(Load(s, f, n)) /\ Dist(s.cidx, s.pidx) < s.inuse + n
<1>1. s.inuse \in Ring /\ s.cidx \in Ring /\ s.pidx \in Ring /\ s.inuse + n < N
  BY RingAssumption DEF RingOK, Short, Ring
<1>2. Dist(s.cidx, s.pidx) = s.inuse
  BY <1>1, DistAfter DEF RingOK
<1>3. Load(s, f, n).cidx = s.cidx /\ Load(s, f, n).inuse = s.inuse + n
      /\ Load(s, f, n).bd = Fill(s, f, n)
  BY DEF Load, RingOK
<1>4. ASSUME NEW i \in Ring, Fill(s, f, n)[i].r PROVE Dist(s.cidx, i) < s.inuse + n
  <2>1. CASE Dist(s.pidx, i) < n
    <3>0. s.pidx = After(s.cidx, s.inuse)
      BY DEF RingOK
    <3>1. Dist(s.pidx, i) \in Ring
      BY <1>1, DistType
    <3>2. s.inuse + Dist(s.pidx, i) < N
      BY <1>1, <2>1, <3>1, RingAssumption DEF Ring
    <3>3. Dist(s.cidx, i) = s.inuse + Dist(s.pidx, i)
      BY <1>1, <3>0, <3>2, DistBeyond
    <3>4. QED
      BY <1>1, <2>1, <3>1, <3>3 DEF Ring
  <2>2. CASE ~(Dist(s.pidx, i) < n)
    <3>1. s.bd[i].r
      BY <1>4, <2>2 DEF Fill
    <3>2. Dist(s.cidx, i) < s.inuse /\ Dist(s.cidx, i) \in Ring
      BY <1>1, <3>1, DistType DEF ReadyOK
    <3>3. QED
      BY <1>1, <3>2 DEF Ring
  <2>3. QED
    BY <2>1, <2>2
<1>5. QED
  BY <1>1, <1>2, <1>3, <1>4 DEF ReadyOK, Ring
LEMMA MarkReadyReady ==
  ASSUME NEW s, RingOK(s), ReadyOK(s), NEW c \in Ring \X Ring, Dist(s.cidx, c[1]) < s.inuse
  PROVE  ReadyOK(MarkReady(s, c))
<1>1. \A i \in Ring : MarkReady(s, c).bd[i].r => s.bd[i].r \/ i = c[1]
  BY DEF MarkReady, RingOK, Desc
<1>2. MarkReady(s, c).cidx = s.cidx /\ MarkReady(s, c).inuse = s.inuse
  BY DEF MarkReady, RingOK
<1>3. QED
  BY <1>1, <1>2 DEF ReadyOK

LEMMA LookedReady == ASSUME RingOK(q), ReadyOK(q) PROVE ReadyOK(Looked)
  BY ReapReady DEF Looked

-----------------------------------------------------------------------------
(* The steps, with an interface that is stopped when it is idle *)

\* The ring is looked at, a frame is put in it, and the first descriptor is marked READY last
\* (mx6q_start).
LEMMA StartReady == ASSUME ReadyInv, CountInv', NEW p \in Process, Start(p) PROVE ReadyInv'
<1> USE DEF Process, Places
<1>1. RingOK(q) /\ ReadyOK(q) /\ RingOK(Looked) /\ ReadyOK(Looked)
  BY LookedOK, LookedReady DEF ReadyInv, CountInv
<1>2. pc[p] \in {"loop", "ready", "kick"} /\ lock = p
  BY DEF Start, OutOfDescriptors, QueueEmpty, DropFrame, TakeFrame, FrameReady, Kick, Goto, ReadyInv, HoldsInv
<1>3. \A r \in Process \ {p} : pc[r] \notin {"loop", "ready", "kick"}
  BY <1>2 DEF ReadyInv, HoldsInv
<1>4. CASE OutOfDescriptors(p) \/ QueueEmpty(p) \/ DropFrame(p) \/ Kick(p)
  <2>1. /\ q' \in {q, Looked} /\ pc' \in [Process -> Places]
        /\ pc'[p] \in {"away", "i_read", "loop"} /\ (pc'[p] = "loop" => lock' = p)
        /\ \A r \in Process \ {p} : pc'[r] = pc[r]
    BY <1>2, <1>4 DEF OutOfDescriptors, QueueEmpty, DropFrame, Kick, Goto, Home, ReadyInv, HoldsInv
  <2>2. QED
    BY <1>1, <1>3, <2>1 DEF ReadyInv, HoldsInv
<1>5. CASE TakeFrame(p)
  <2>1. PICK n \in 1 .. MaxFrags :
          Hit(Looked, n) = n =>
            /\ q' = Load(Looked, taken + 1, n)
            /\ cur' = [cur EXCEPT ![p] = <<Looked.pidx, After(Looked.pidx, n - 1)>>]
            /\ pc' = [pc EXCEPT ![p] = "ready"] /\ UNCHANGED lock
    BY <1>5 DEF TakeFrame
  <2>2. ~Short(Looked) /\ taken + 1 \in Nat
    BY <1>5 DEF TakeFrame, ReadyInv, CountInv
  <2>3. Hit(Looked, n) = n
    BY <1>1, <2>2, HitNever
  <2>4. ReadyOK(q') /\ Dist(Looked.cidx, Looked.pidx) < Looked.inuse + n
    BY <1>1, <2>1, <2>2, <2>3, LoadReady
  <2>5. q'.cidx = Looked.cidx /\ q'.inuse = Looked.inuse + n
    BY <1>1, <2>1, <2>3 DEF Load, RingOK
  <2>6. /\ cur'[p][1] = Looked.pidx
        /\ pc' \in [Process -> Places] /\ pc'[p] = "ready" /\ lock' = p
        /\ \A r \in Process \ {p} : pc'[r] = pc[r]
    BY <1>2, <2>1, <2>3 DEF ReadyInv, CountInv, CurOK, HoldsInv
  <2>7. HoldsInv'
    BY <1>3, <2>4, <2>5, <2>6 DEF HoldsInv
  <2>8. QED
    BY <2>4, <2>7 DEF ReadyInv
<1>6. CASE FrameReady(p)
  <2>1. cur[p] \in Ring \X Ring /\ Dist(q.cidx, cur[p][1]) < q.inuse
    BY <1>6 DEF FrameReady, Goto, ReadyInv, CountInv, CurOK, HoldsInv
  <2>2. ReadyOK(q')
    BY <1>1, <1>6, <2>1, MarkReadyReady DEF FrameReady
  <2>3. /\ pc' \in [Process -> Places] /\ pc'[p] = "kick" /\ lock' = lock
        /\ \A r \in Process \ {p} : pc'[r] = pc[r]
    BY <1>6 DEF FrameReady, Goto, ReadyInv, HoldsInv
  <2>4. QED
    BY <1>2, <1>3, <2>2, <2>3 DEF ReadyInv, HoldsInv
<1>7. QED
  BY <1>4, <1>5, <1>6 DEF Start

\* Reaping under the lock, and stopping an idle interface, leave nothing to be marked.
LEMMA MonitorReady == ASSUME ReadyInv, CountInv', MonitorReap PROVE ReadyInv'
<1> USE DEF Process, Places
<1>1. /\ q' = q \/ (q' = Reap(q) /\ lock = Nobody)
      /\ lock' = lock /\ cur' = cur /\ pc["stack"] = "m_reap" /\ pc' = [pc EXCEPT !["stack"] = "away"]
  BY DEF MonitorReap, Goto
<1>2. ReadyOK(q')
  BY <1>1, ReapReady DEF ReadyInv, CountInv
<1>3. lock = Nobody => \A p \in Process : pc[p] \notin {"loop", "ready", "kick"}
  BY DEF ReadyInv, HoldsInv, Nobody
<1>4. QED
  BY <1>1, <1>2, <1>3 DEF ReadyInv, HoldsInv

LEMMA StopReady == ASSUME ~StopsBusy, ReadyInv, CountInv', Stop PROVE ReadyInv'
<1> DEFINE s == Reap(q)
<1>1. RingOK(s) /\ ReadyOK(s)
  BY ReapOK, ReapReady DEF ReadyInv, CountInv
<1>2. s.pidx = s.cidx /\ lock = Nobody /\ UNCHANGED <<lock, pc, cur>>
      /\ q'.bd = [i \in Ring |-> IF s.pkt[i] = 0 THEN s.bd[i]
                                 ELSE [s.bd[i] EXCEPT !.r = FALSE, !.l = FALSE]]
  BY DEF Stop
<1> HIDE DEF s
<1>3. s.pidx = After(s.cidx, s.inuse) /\ s.cidx \in Ring /\ s.inuse \in Ring /\ s.bd \in [Ring -> Desc]
  BY <1>1 DEF RingOK
<1>4. s.inuse = 0
  BY <1>2, <1>3, AfterSame
<1>5. \A i \in Ring : ~q'.bd[i].r
  <2> SUFFICES ASSUME NEW i \in Ring PROVE ~q'.bd[i].r
    OBVIOUS
  <2>1. ~(Dist(s.cidx, i) < 0)
    <3>1. Dist(s.cidx, i) \in Ring
      BY <1>3, DistType
    <3>2. QED
      BY <3>1, RingAssumption DEF Ring
  <2>2. ~s.bd[i].r
    BY <1>1, <1>4, <2>1 DEF ReadyOK
  <2>3. s.bd[i] \in Desc
    BY <1>3
  <2>4. QED
    BY <1>2, <2>2, <2>3 DEF Desc
<1>6. \A p \in Process : pc[p] \notin {"loop", "ready", "kick"}
  BY <1>2 DEF ReadyInv, HoldsInv, Nobody, Process
<1>7. QED
  BY <1>2, <1>5, <1>6 DEF ReadyInv, ReadyOK, HoldsInv

\* The controller marks no descriptor READY.
LEMMA TransmitReady == ASSUME ReadyInv, CountInv', Transmit PROVE ReadyInv'
<1>1. PICK k : q' = [q EXCEPT !.bd = [i \in Ring |->
                      IF Dist(eng.i, i) < k
                      THEN [q.bd[i] EXCEPT !.r = FALSE,
                              !.bdu = (q.bd[i].bdu \/ Dist(eng.i, i) = FrameLen(eng.i) - 1)]
                      ELSE q.bd[i]]]
  BY DEF Transmit
<1>2. RingOK(q)
  BY DEF ReadyInv, CountInv
<1>3. /\ q'.cidx = q.cidx /\ q'.inuse = q.inuse
      /\ \A i \in Ring : q'.bd[i].r => q.bd[i].r
  BY <1>1, <1>2 DEF RingOK, Desc
<1>4. UNCHANGED <<lock, pc, cur>>
  BY DEF Transmit
<1>5. QED
  BY <1>3, <1>4 DEF ReadyInv, ReadyOK, HoldsInv

\* The other steps leave the ring alone, and the lock is taken by who comes into mx6q_start.
LEMMA LockReady ==
  ASSUME ReadyInv, CountInv',
         \/ SendFrame \/ Isr \/ Intr \/ MonitorBegin \/ MiiWrite \/ Restart \/ Fetch \/ LookAhead
  PROVE  ReadyInv'
<1> USE DEF Process, Places, Nobody
<1>1. UNCHANGED <<q, cur>>
  BY DEF SendFrame, Isr, Intr, IntrRead, IntrStart, IntrKick, IntrEnable, MonitorBegin,
         MiiWrite, Restart, Fetch, LookAhead, swVars
<1>2. HoldsInv'
  <2> USE <1>1 DEF ReadyInv, HoldsInv
  <2>1. CASE SendFrame
    BY <2>1 DEF SendFrame
  <2>2. CASE Isr
    BY <2>2 DEF Isr, Goto
  <2>3. CASE IntrRead \/ IntrKick \/ IntrEnable
    BY <2>3 DEF IntrRead, IntrKick, IntrEnable, Goto
  <2>4. CASE IntrStart
    BY <2>4 DEF IntrStart, Goto
  <2>5. CASE MonitorBegin \/ MiiWrite
    BY <2>5 DEF MonitorBegin, MiiWrite, Goto
  <2>6. CASE Restart \/ Fetch \/ LookAhead
    BY <2>6 DEF Restart, Fetch, LookAhead, swVars
  <2>7. QED
    BY <2>1, <2>2, <2>3, <2>4, <2>5, <2>6 DEF Intr
<1>3. QED
  BY <1>1, <1>2 DEF ReadyInv

LEMMA ReadyInit == Init => ReadyInv
<1> SUFFICES ASSUME Init PROVE ReadyInv
  OBVIOUS
<1>1. ReadyOK(q)
  BY DEF Init, ReadyOK, Clean
<1>2. QED
  BY <1>1, CountInit DEF Init, ReadyInv, HoldsInv, Places

LEMMA ReadyStep == ASSUME ~StopsBusy PROVE ReadyInv /\ [Next]_vars => ReadyInv'
<1> SUFFICES ASSUME ReadyInv, [Next]_vars PROVE ReadyInv'
  OBVIOUS
<1>1. CountInv'
  BY CountStep DEF ReadyInv
<1>2. CASE UNCHANGED vars
  BY <1>2, <1>1 DEF vars, swVars, ReadyInv, ReadyOK, HoldsInv
<1>3. QED
  BY <1>1, <1>2, StartReady, MonitorReady, StopReady, TransmitReady, LockReady
     DEF Next, Monitor, Process

\* "this should NEVER happen": mx6q_start never finds a READY descriptor where it puts a
\* frame, for every ring and number of fragments, if the interface is stopped when nothing is
\* pending (mx6q_tx).
THEOREM NeverEnd == ASSUME ~StopsBusy PROVE Spec => []NeverHitsEnd
<1>1. Init => ReadyInv
  BY ReadyInit
<1>2. ReadyInv /\ [Next]_vars => ReadyInv'
  BY ReadyStep
<1>3. ReadyInv => NeverHitsEnd
  BY FreeAfter DEF ReadyInv, CountInv, NeverHitsEnd
<1>4. QED
  BY <1>1, <1>2, <1>3, PTL DEF Spec

-----------------------------------------------------------------------------
(* The frames the controller has yet to send *)

\* The descriptors of ring s that are in use, counted from place a.
Pend(s, a)  == Dist(a, s.pidx)
Ahead(s, a) == [k \in 0 .. Pend(s, a) - 1 |-> s.bd[After(a, k)]]

\* The frames in the P descriptors d follow each other, from frame u + 1 to frame w; only a
\* LAST descriptor stands between two of them.
ChainOK(d, P, u, w) ==
  /\ P = 0 => u = w
  /\ P > 0 => d[0].f = u + 1 /\ d[P - 1].f = w
  /\ \A k \in 1 .. P - 1 : d[k].f = d[k - 1].f + (IF d[k - 1].l THEN 1 ELSE 0)
  /\ \A j, k \in 0 .. P - 1 :
       j < k => d[j].f <= d[k].f /\ (d[j].f = d[k].f \/ \E m \in j .. k - 1 : d[m].l)

\* The frame of descriptor k has been given to the controller, up to a LAST descriptor.
Complete(d, P, k) ==
  d[k].r /\ \E m \in k .. P - 1 : d[m].l /\ \A j \in k .. m - 1 : ~d[j].l

Filled(d, P) == \A k \in 0 .. P - 1 : Complete(d, P, k)

\* The last frame begins in place x; its first descriptor is not READY yet, and none is LAST.
Filling(d, P, x, w) ==
  /\ x \in 0 .. P - 1 /\ ~d[x].r
  /\ \A k \in 0 .. x - 1 : Complete(d, P, k) /\ d[k].f # w
  /\ \A k \in x .. P - 1 : d[k].f = w /\ ~d[k].l /\ (d[k].r \/ k = x)

\* The first frame ends with descriptor m.
EndsAt(d, P, m) ==
  /\ m \in 0 .. P - 1 /\ d[m].l /\ \A j \in 0 .. m - 1 : ~d[j].l
  /\ \A j \in 0 .. m : d[j].r /\ d[j].f = d[0].f

\* A frame is put behind the others (mx6q_tx).
LEMMA ChainLoad ==
  ASSUME NEW P \in Nat, NEW n \in Nat \ {0}, NEW u \in Nat, NEW w \in Nat,
         NEW d \in [0 .. P - 1 -> Desc], NEW e \in [0 .. P + n - 1 -> Desc],
         ChainOK(d, P, u, w), Filled(d, P),
         \A k \in 0 .. P - 1 : e[k] = d[k],
         \A k \in P .. P + n - 1 : e[k].f = w + 1 /\ ~e[k].l /\ (e[k].r \/ k = P),
         ~e[P].r
  PROVE  ChainOK(e, P + n, u, w + 1) /\ Filling(e, P + n, P, w + 1)
<1>1. \A k \in 0 .. P - 1 : d[k].f \in Nat /\ d[k].f <= w
  <2> TAKE k \in 0 .. P - 1
  <2>1. d[k].f \in Nat
    BY DEF Desc
  <2>2. d[P - 1].f = w
    BY DEF ChainOK
  <2>3. k < P - 1 => d[k].f <= d[P - 1].f
    BY DEF ChainOK
  <2>4. QED
    BY <2>1, <2>2, <2>3
<1>2. P > 0 => d[P - 1].l /\ d[P - 1].f = w
  <2> SUFFICES ASSUME P > 0 PROVE d[P - 1].l /\ d[P - 1].f = w
    OBVIOUS
  <2>1. Complete(d, P, P - 1)
    BY DEF Filled
  <2>2. PICK m \in P - 1 .. P - 1 : d[m].l
    BY <2>1 DEF Complete
  <2>3. QED
    BY <2>2 DEF ChainOK
<1>3. \A k \in 0 .. P + n - 1 : k \in 0 .. P - 1 \/ k \in P .. P + n - 1
  OBVIOUS
<1>4. /\ P + n = 0 => u = w + 1
      /\ P + n > 0 => e[0].f = u + 1 /\ e[P + n - 1].f = w + 1
  BY DEF ChainOK
<1>5. \A k \in 1 .. P + n - 1 : e[k].f = e[k - 1].f + (IF e[k - 1].l THEN 1 ELSE 0)
  <2> TAKE k \in 1 .. P + n - 1
  <2>1. CASE k < P
    <3>1. k \in 1 .. P - 1 /\ k - 1 \in 0 .. P - 1 /\ k \in 0 .. P - 1
      BY <2>1
    <3>2. d[k].f = d[k - 1].f + (IF d[k - 1].l THEN 1 ELSE 0)
      BY <3>1 DEF ChainOK
    <3>3. QED
      BY <3>1, <3>2
  <2>2. CASE k = P
    <3>1. P > 0 /\ P - 1 \in 0 .. P - 1
      BY <2>2
    <3>2. e[P - 1].l /\ e[P - 1].f = w
      BY <1>2, <3>1
    <3>3. e[P].f = w + 1
      OBVIOUS
    <3>4. QED
      BY <2>2, <3>2, <3>3
  <2>3. CASE k > P
    <3>1. e[k].f = w + 1 /\ e[k - 1].f = w + 1 /\ ~e[k - 1].l
      BY <2>3
    <3>2. QED
      BY <3>1
  <2>4. QED
    BY <2>1, <2>2, <2>3
<1>6. ASSUME NEW j \in 0 .. P + n - 1, NEW k \in 0 .. P + n - 1, j < k
      PROVE  e[j].f <= e[k].f /\ (e[j].f = e[k].f \/ \E m \in j .. k - 1 : e[m].l)
  <2>1. CASE k < P
    <3>1. j \in 0 .. P - 1 /\ k \in 0 .. P - 1
      BY <1>6, <2>1
    <3>2. d[j].f <= d[k].f /\ (d[j].f = d[k].f \/ \E m \in j .. k - 1 : d[m].l)
      BY <1>6, <3>1 DEF ChainOK
    <3>3. \A m \in j .. k - 1 : e[m] = d[m]
      BY <3>1
    <3>4. QED
      BY <3>1, <3>2, <3>3
  <2>2. CASE ~(k < P) /\ j < P
    <3>1. j \in 0 .. P - 1 /\ P - 1 \in j .. k - 1 /\ P > 0 /\ P - 1 \in 0 .. P - 1
      BY <2>2
    <3>2. e[P - 1].l /\ e[k].f = w + 1
      BY <1>2, <2>2, <3>1
    <3>3. e[j].f <= w /\ e[j].f \in Nat
      BY <1>1, <3>1
    <3>4. QED
      BY <3>1, <3>2, <3>3
  <2>3. CASE ~(k < P) /\ ~(j < P)
    BY <1>6, <2>3
  <2>4. QED
    BY <2>1, <2>2, <2>3
<1>7. ChainOK(e, P + n, u, w + 1)
  BY <1>4, <1>5, <1>6 DEF ChainOK
<1>8. \A k \in 0 .. P - 1 : Complete(e, P + n, k) /\ e[k].f # w + 1
  <2> TAKE k \in 0 .. P - 1
  <2>1. Complete(d, P, k)
    BY DEF Filled
  <2>2. PICK m \in k .. P - 1 : d[m].l /\ \A j \in k .. m - 1 : ~d[j].l
    BY <2>1 DEF Complete
  <2>3. m \in k .. P + n - 1 /\ e[m] = d[m] /\ \A j \in k .. m - 1 : e[j] = d[j]
    BY <2>2
  <2>4. e[k].r /\ e[m].l /\ \A j \in k .. m - 1 : ~e[j].l
    BY <2>1, <2>2, <2>3 DEF Complete
  <2>5. Complete(e, P + n, k)
    BY <2>3, <2>4 DEF Complete
  <2>6. QED
    BY <1>1, <2>5
<1>9. QED
  BY <1>7, <1>8 DEF Filling

\* The frame that is filled is given to the controller.
LEMMA ChainMark ==
  ASSUME NEW P \in Nat, NEW x \in Nat, NEW u \in Nat, NEW w \in Nat,
         NEW d \in [0 .. P - 1 -> Desc], NEW e \in [0 .. P - 1 -> Desc],
         ChainOK(d, P, u, w), Filling(d, P, x, w),
         \A k \in 0 .. P - 1 : /\ e[k].f = d[k].f
                               /\ k # P - 1 => e[k].l = d[k].l
                               /\ k # x => e[k].r = d[k].r,
         e[P - 1].l, e[x].r
  PROVE  ChainOK(e, P, u, w) /\ Filled(e, P)
<1>1. x \in 0 .. P - 1 /\ P > 0 /\ P - 1 \in 0 .. P - 1
  BY DEF Filling
<1>2. \A k \in 1 .. P - 1 : e[k].f = e[k - 1].f + (IF e[k - 1].l THEN 1 ELSE 0)
  <2> TAKE k \in 1 .. P - 1
  <2>1. k - 1 \in 0 .. P - 1 /\ k - 1 # P - 1 /\ k \in 0 .. P - 1
    OBVIOUS
  <2>2. d[k].f = d[k - 1].f + (IF d[k - 1].l THEN 1 ELSE 0)
    BY DEF ChainOK
  <2>3. e[k].f = d[k].f /\ e[k - 1].f = d[k - 1].f /\ e[k - 1].l = d[k - 1].l
    BY <2>1
  <2>4. QED
    BY <2>2, <2>3
<1>3. ASSUME NEW j \in 0 .. P - 1, NEW k \in 0 .. P - 1, j < k
      PROVE  e[j].f <= e[k].f /\ (e[j].f = e[k].f \/ \E m \in j .. k - 1 : e[m].l)
  <2>1. d[j].f <= d[k].f /\ (d[j].f = d[k].f \/ \E m \in j .. k - 1 : d[m].l)
    BY <1>3 DEF ChainOK
  <2>2. \A m \in j .. k - 1 : m \in 0 .. P - 1 /\ m # P - 1
    OBVIOUS
  <2>3. \A m \in j .. k - 1 : d[m].l => e[m].l
    BY <2>2
  <2>4. QED
    BY <2>1, <2>3
<1>4. ChainOK(e, P, u, w)
  BY <1>1, <1>2, <1>3 DEF ChainOK
<1>5. ASSUME NEW k \in 0 .. P - 1 PROVE Complete(e, P, k)
  <2>1. CASE k < x
    <3>1. Complete(d, P, k)
      BY <2>1 DEF Filling
    <3>2. PICK m \in k .. P - 1 : d[m].l /\ \A j \in k .. m - 1 : ~d[j].l
      BY <3>1 DEF Complete
    <3>3. e[m].l
      <4>1. CASE m = P - 1
        BY <4>1
      <4>2. CASE m # P - 1
        <5>1. m \in 0 .. P - 1
          OBVIOUS
        <5>2. e[m].l = d[m].l
          BY <4>2, <5>1
        <5>3. QED
          BY <3>2, <5>2
      <4>3. QED
        BY <4>1, <4>2
    <3>4. \A j \in k .. m - 1 : j \in 0 .. P - 1 /\ j # P - 1
      OBVIOUS
    <3>5. \A j \in k .. m - 1 : ~e[j].l
      BY <3>2, <3>4
    <3>6. e[k].r
      BY <2>1, <3>1 DEF Complete
    <3>7. QED
      BY <3>3, <3>5, <3>6 DEF Complete
  <2>2. CASE ~(k < x)
    <3>1. e[k].r
      BY <2>2 DEF Filling
    <3>2. \A j \in k .. P - 1 - 1 : j \in x .. P - 1 /\ j # P - 1 /\ j \in 0 .. P - 1
      BY <2>2, <1>1
    <3>3. \A j \in k .. P - 1 - 1 : ~d[j].l
      BY <3>2 DEF Filling
    <3>4. \A j \in k .. P - 1 - 1 : ~e[j].l
      BY <3>2, <3>3
    <3>5. P - 1 \in k .. P - 1
      BY <1>1
    <3>6. QED
      BY <3>1, <3>4, <3>5 DEF Complete
  <2>3. QED
    BY <2>1, <2>2
<1>6. QED
  BY <1>4, <1>5 DEF Filled

\* The frame that is first in the chain, and given to the controller, has an end.
LEMMA FrameEnds ==
  ASSUME NEW P \in Nat \ {0}, NEW u \in Nat, NEW w \in Nat, NEW x \in Nat,
         NEW d \in [0 .. P - 1 -> Desc], ChainOK(d, P, u, w), d[0].r,
         Filled(d, P) \/ Filling(d, P, x, w)
  PROVE  \E m \in 0 .. P - 1 : EndsAt(d, P, m) /\ (Filling(d, P, x, w) => m < x)
<1>1. Complete(d, P, 0) /\ (Filling(d, P, x, w) => 0 < x /\ d[0].f # w)
  BY DEF Filled, Filling
<1>2. PICK m \in 0 .. P - 1 : d[m].l /\ \A j \in 0 .. m - 1 : ~d[j].l
  BY <1>1 DEF Complete
<1>3. \A j \in 0 .. m : d[j].f = d[0].f
  <2> TAKE j \in 0 .. m
  <2>1. CASE j = 0
    BY <2>1
  <2>2. CASE j > 0
    <3>1. d[0].f = d[j].f \/ \E i \in 0 .. j - 1 : d[i].l
      <4>1. 0 \in 0 .. P - 1 /\ j \in 0 .. P - 1 /\ 0 < j
        BY <2>2
      <4>2. QED
        BY <4>1 DEF ChainOK
    <3>2. \A i \in 0 .. j - 1 : ~d[i].l
      BY <1>2
    <3>3. QED
      BY <3>1, <3>2
  <2>3. QED
    BY <2>1, <2>2
<1>4. CASE Filled(d, P)
  <2>1. \A j \in 0 .. m : d[j].r
    <3>1. \A j \in 0 .. m : j \in 0 .. P - 1
      OBVIOUS
    <3>2. QED
      BY <1>4, <3>1 DEF Filled, Complete
  <2>2. ~Filling(d, P, x, w)
    <3>1. x \in 0 .. P - 1 => d[x].r
      BY <1>4 DEF Filled, Complete
    <3>2. QED
      BY <3>1 DEF Filling
  <2>3. QED
    BY <1>2, <1>3, <2>1, <2>2 DEF EndsAt
<1>5. CASE Filling(d, P, x, w)
  <2>1. x \in 0 .. P - 1 /\ \A k \in x .. P - 1 : ~d[k].l
    BY <1>5 DEF Filling
  <2>2. m < x
    BY <1>2, <2>1
  <2>3. \A j \in 0 .. m : j \in 0 .. x - 1
    BY <2>1, <2>2
  <2>4. \A j \in 0 .. m : d[j].r
    BY <1>5, <2>3 DEF Filling, Complete
  <2>5. QED
    BY <1>2, <1>3, <2>2, <2>4 DEF EndsAt
<1>6. QED
  BY <1>4, <1>5

\* Descriptors of the first frame are handed back, k of them: the frame is sent with the last.
LEMMA ChainDrop ==
  ASSUME NEW P \in Nat, NEW u \in Nat, NEW w \in Nat, NEW m \in 0 .. P - 1, NEW k \in 1 .. m + 1,
         NEW d \in [0 .. P - 1 -> Desc], NEW e \in [0 .. P - k - 1 -> Desc],
         ChainOK(d, P, u, w), EndsAt(d, P, m),
         \A j \in 0 .. P - k - 1 : e[j] = d[j + k]
  PROVE  /\ ChainOK(e, P - k, IF k = m + 1 THEN u + 1 ELSE u, w)
         /\ Filled(d, P) => Filled(e, P - k)
         /\ \A x \in m + 1 .. P - 1 : Filling(d, P, x, w) => Filling(e, P - k, x - k, w)
<1> DEFINE R == P - k
           v == IF k = m + 1 THEN u + 1 ELSE u
<1>1. R \in Nat /\ v \in Nat /\ P > 0 /\ k \in Nat /\ m \in Nat /\ R = P - k
  OBVIOUS
<1>2. \A j \in 0 .. R - 1 : j + k \in 0 .. P - 1 /\ e[j] = d[j + k]
  OBVIOUS
<1>3. d[m].f = u + 1 /\ d[m].l /\ \A j \in 0 .. m : d[j].f = u + 1
  BY <1>1 DEF EndsAt, ChainOK
<1> HIDE DEF R
<1>4. R = 0 => v = w
  <2> SUFFICES ASSUME R = 0 PROVE v = w
    OBVIOUS
  <2>1. k = m + 1 /\ m = P - 1
    BY <1>1
  <2>2. d[P - 1].f = w
    BY <1>1 DEF ChainOK
  <2>3. QED
    BY <1>3, <2>1, <2>2
<1>5. R > 0 => e[0].f = v + 1 /\ e[R - 1].f = w
  <2> SUFFICES ASSUME R > 0 PROVE e[0].f = v + 1 /\ e[R - 1].f = w
    OBVIOUS
  <2>1. e[0] = d[k] /\ e[R - 1] = d[P - 1]
    <3>1. 0 \in 0 .. R - 1 /\ R - 1 \in 0 .. R - 1 /\ 0 + k = k /\ (R - 1) + k = P - 1
      BY <1>1
    <3>2. QED
      BY <1>2, <3>1
  <2>2. d[P - 1].f = w
    BY <1>1 DEF ChainOK
  <2>3. d[k].f = v + 1
    <3>1. CASE k = m + 1
      <4>1. k \in 1 .. P - 1 /\ k - 1 = m
        BY <1>1, <3>1
      <4>2. d[k].f = d[k - 1].f + (IF d[k - 1].l THEN 1 ELSE 0)
        BY <4>1 DEF ChainOK
      <4>3. QED
        BY <1>1, <1>3, <3>1, <4>1, <4>2
    <3>2. CASE k # m + 1
      <4>1. k \in 0 .. m
        BY <1>1, <3>2
      <4>2. QED
        BY <1>3, <3>2, <4>1
    <3>3. QED
      BY <3>1, <3>2
  <2>4. QED
    BY <2>1, <2>2, <2>3
<1>6. \A j \in 1 .. R - 1 : e[j].f = e[j - 1].f + (IF e[j - 1].l THEN 1 ELSE 0)
  <2> TAKE j \in 1 .. R - 1
  <2>1. j + k \in 1 .. P - 1 /\ (j - 1) + k = (j + k) - 1 /\ j \in 0 .. R - 1 /\ j - 1 \in 0 .. R - 1
    BY <1>1
  <2>2. d[j + k].f = d[(j + k) - 1].f + (IF d[(j + k) - 1].l THEN 1 ELSE 0)
    BY <2>1 DEF ChainOK
  <2>3. e[j] = d[j + k] /\ e[j - 1] = d[(j + k) - 1]
    BY <1>2, <2>1
  <2>4. QED
    BY <2>2, <2>3
<1>7. ASSUME NEW i \in 0 .. R - 1, NEW j \in 0 .. R - 1, i < j
      PROVE  e[i].f <= e[j].f /\ (e[i].f = e[j].f \/ \E y \in i .. j - 1 : e[y].l)
  <2>1. i + k \in 0 .. P - 1 /\ j + k \in 0 .. P - 1 /\ i + k < j + k
    BY <1>1, <1>7
  <2>2. d[i + k].f <= d[j + k].f
        /\ (d[i + k].f = d[j + k].f \/ \E y \in i + k .. (j + k) - 1 : d[y].l)
    BY <2>1 DEF ChainOK
  <2>3. ASSUME NEW y \in i + k .. (j + k) - 1, d[y].l PROVE \E z \in i .. j - 1 : e[z].l
    <3>1. y - k \in i .. j - 1 /\ y - k \in 0 .. R - 1 /\ (y - k) + k = y
      BY <1>1
    <3>2. e[y - k] = d[y]
      BY <1>2, <3>1
    <3>3. QED
      BY <2>3, <3>1, <3>2
  <2>4. e[i] = d[i + k] /\ e[j] = d[j + k]
    BY <1>2
  <2>5. QED
    BY <2>2, <2>3, <2>4
<1> HIDE DEF v
<1>8. ChainOK(e, R, v, w)
  BY <1>4, <1>5, <1>6, <1>7 DEF ChainOK
<1>9. ASSUME NEW j \in 0 .. R - 1, Complete(d, P, j + k) PROVE Complete(e, R, j)
  <2>1. PICK y \in j + k .. P - 1 : d[y].l /\ \A i \in j + k .. y - 1 : ~d[i].l
    BY <1>9 DEF Complete
  <2>2. y - k \in j .. R - 1 /\ y - k \in 0 .. R - 1 /\ (y - k) + k = y
    BY <1>1
  <2>3. e[y - k].l
    BY <1>2, <2>1, <2>2
  <2>4. \A i \in j .. (y - k) - 1 : i \in 0 .. R - 1 /\ i + k \in j + k .. y - 1
    BY <1>1, <2>2
  <2>5. \A i \in j .. (y - k) - 1 : ~e[i].l
    BY <1>2, <2>1, <2>4
  <2>6. e[j].r
    BY <1>2, <1>9 DEF Complete
  <2>7. QED
    BY <2>2, <2>3, <2>5, <2>6 DEF Complete
<1>10. Filled(d, P) => Filled(e, R)
  BY <1>2, <1>9 DEF Filled
<1>11. ASSUME NEW x \in m + 1 .. P - 1, Filling(d, P, x, w) PROVE Filling(e, R, x - k, w)
  <2>1. x - k \in 0 .. R - 1 /\ (x - k) + k = x
    BY <1>1
  <2>2. ~e[x - k].r
    BY <1>2, <1>11, <2>1 DEF Filling
  <2>3. \A j \in 0 .. (x - k) - 1 : Complete(e, R, j) /\ e[j].f # w
    <3> TAKE j \in 0 .. (x - k) - 1
    <3>1. j \in 0 .. R - 1 /\ j + k \in 0 .. x - 1
      BY <1>1, <2>1
    <3>2. Complete(d, P, j + k) /\ d[j + k].f # w
      BY <1>11, <3>1 DEF Filling
    <3>3. QED
      BY <1>2, <1>9, <3>1, <3>2
  <2>4. \A j \in x - k .. R - 1 : e[j].f = w /\ ~e[j].l /\ (e[j].r \/ j = x - k)
    <3> TAKE j \in x - k .. R - 1
    <3>1. j \in 0 .. R - 1 /\ j + k \in x .. P - 1 /\ (j + k = x => j = x - k)
      BY <1>1, <2>1
    <3>2. d[j + k].f = w /\ ~d[j + k].l /\ (d[j + k].r \/ j + k = x)
      BY <1>11, <3>1 DEF Filling
    <3>3. QED
      BY <1>2, <3>1, <3>2
  <2>5. QED
    BY <2>1, <2>2, <2>3, <2>4 DEF Filling
<1>12. QED
  BY <1>8, <1>10, <1>11 DEF R, v

-----------------------------------------------------------------------------
(* The frames ahead and the operations on the ring *)

\* Place a is between the two indices of ring s; nothing before it is READY, and nothing that
\* is not in use is LAST.
PlaceOK(s, a) ==
  /\ Dist(s.cidx, a) <= s.inuse
  /\ \A i \in Ring : Dist(s.cidx, i) < Dist(s.cidx, a) => ~s.bd[i].r
  /\ \A i \in Ring : Dist(s.cidx, i) >= s.inuse => ~s.bd[i].l

\* The places of the descriptors ahead.
LEMMA AheadPlaces ==
  ASSUME NEW s, RingOK(s), NEW a \in Ring, PlaceOK(s, a)
  PROVE  /\ Pend(s, a) \in Nat /\ Pend(s, a) \in Ring /\ Dist(s.cidx, a) \in Nat
         /\ Pend(s, a) = s.inuse - Dist(s.cidx, a)
         /\ \A k \in 0 .. Pend(s, a) - 1 :
              /\ After(a, k) \in Ring /\ Dist(a, After(a, k)) = k
              /\ Dist(s.cidx, After(a, k)) = Dist(s.cidx, a) + k
         /\ \A i \in Ring : Dist(s.cidx, a) <= Dist(s.cidx, i) /\ Dist(s.cidx, i) < s.inuse
              => Dist(a, i) \in 0 .. Pend(s, a) - 1 /\ After(a, Dist(a, i)) = i
<1> DEFINE c == s.cidx
           n == s.inuse
<1>1. c \in Ring /\ n \in Ring /\ s.pidx = After(c, n) /\ Dist(c, a) <= n
  BY DEF RingOK, PlaceOK
<1> HIDE DEF c, n
<1>2. Dist(a, After(c, n)) = n - Dist(c, a) /\ Dist(c, a) \in 0 .. N - 1
  BY <1>1, RingAssumption DEF Ring, Dist, After
<1>3. \A k \in 0 .. n - Dist(c, a) - 1 :
        After(a, k) \in Ring /\ Dist(a, After(a, k)) = k /\ Dist(c, After(a, k)) = Dist(c, a) + k
  BY <1>1, RingAssumption DEF Ring, Dist, After
<1>4. \A i \in Ring : Dist(c, a) <= Dist(c, i) /\ Dist(c, i) < n
        => Dist(a, i) \in 0 .. n - Dist(c, a) - 1 /\ After(a, Dist(a, i)) = i
  BY <1>1, RingAssumption DEF Ring, Dist, After
<1>5. Pend(s, a) = n - Dist(c, a)
  BY <1>1, <1>2 DEF Pend
<1>6. Pend(s, a) \in Nat /\ Pend(s, a) \in Ring
  BY <1>1, <1>2, <1>5, RingAssumption DEF Ring
<1>7. QED
  BY <1>2, <1>3, <1>4, <1>5, <1>6 DEF c, n

LEMMA AfterDist == ASSUME NEW a \in Ring, NEW i \in Ring PROVE After(a, Dist(a, i)) = i
  BY RingAssumption DEF Ring, Dist, After

LEMMA AheadType ==
  ASSUME NEW s, RingOK(s), NEW a \in Ring, PlaceOK(s, a)
  PROVE  /\ Ahead(s, a) \in [0 .. Pend(s, a) - 1 -> Desc]
         /\ \A k \in 0 .. Pend(s, a) - 1 : Ahead(s, a)[k] = s.bd[After(a, k)]
<1>1. \A k \in 0 .. Pend(s, a) - 1 : s.bd[After(a, k)] \in Desc
  BY AheadPlaces DEF RingOK
<1>2. QED
  BY <1>1 DEF Ahead

\* A reaping takes nothing that the controller has not handed back, as long as all frames
\* ahead of it have been given to it (mx6q_transmit_complete).
LEMMA ReapBehind ==
  ASSUME NEW s, RingOK(s), NEW a \in Ring, PlaceOK(s, a), Filled(Ahead(s, a), Pend(s, a))
  PROVE  Reapable(s) \in Nat /\ Reapable(s) <= Dist(s.cidx, a)
<1> DEFINE e == Dist(s.cidx, a)
           S == {k \in 1 .. Dist(s.cidx, s.pidx) :
                  \A j \in 0 .. k - 1 : Done(s.bd[After(s.cidx, j)])}
<1>1. Reapable(s) \in 0 .. s.inuse /\ s.inuse \in Nat
  BY ReapableInUse DEF RingOK, Ring
<1>2. e \in Nat /\ e <= s.inuse /\ Pend(s, a) = s.inuse - e /\ Pend(s, a) \in Nat
      /\ s.cidx \in Ring
  BY AheadPlaces DEF PlaceOK, RingOK
<1>3. After(s.cidx, e) = a
  BY <1>2, RingAssumption DEF Ring, Dist, After
<1>4. CASE e = s.inuse
  BY <1>1, <1>2, <1>4
<1>5. CASE e # s.inuse
  <2>1. 0 \in 0 .. Pend(s, a) - 1
    BY <1>1, <1>2, <1>5
  <2>2. s.bd[After(a, 0)].r
    BY <2>1, AheadType DEF Filled, Complete
  <2>3. After(a, 0) = a
    BY RingAssumption DEF Ring, After
  <2>4. ~Done(s.bd[After(s.cidx, e)])
    BY <1>3, <2>2, <2>3 DEF Done
  <2>5. Dist(s.cidx, s.pidx) = s.inuse
    BY DistAfter DEF RingOK
  <2>6. \A k \in S : k \in 1 .. e
    <3> TAKE k \in S
    <3>1. k \in 1 .. s.inuse /\ \A j \in 0 .. k - 1 : Done(s.bd[After(s.cidx, j)])
      BY <2>5
    <3> HIDE DEF S, e
    <3>2. ~(e \in 0 .. k - 1)
      BY <2>4, <3>1
    <3>3. QED
      BY <1>2, <3>1, <3>2
  <2>7. IsFiniteSet(1 .. e) /\ Cardinality(1 .. e) = e
    BY <1>2, FS_Interval
  <2>8. S \in SUBSET (1 .. e)
    BY <2>6
  <2>9. Cardinality(S) <= e
    BY <2>7, <2>8, FS_Subset
  <2>10. QED
    BY <1>1, <2>9 DEF Reapable
<1>6. QED
  BY <1>4, <1>5

LEMMA ReapOrder ==
  ASSUME NEW s, RingOK(s), NEW a \in Ring, PlaceOK(s, a), Filled(Ahead(s, a), Pend(s, a))
  PROVE  /\ PlaceOK(Reap(s), a) /\ Pend(Reap(s), a) = Pend(s, a)
         /\ Ahead(Reap(s), a) = Ahead(s, a)
         /\ Dist(Reap(s).cidx, a) = Dist(s.cidx, a) - Reapable(s)
         /\ \A i \in Ring : ~Window(s, i) =>
              Reap(s).bd[i] = s.bd[i] /\ Dist(Reap(s).cidx, i) = Dist(s.cidx, i) - Reapable(s)
<1> DEFINE n == Reapable(s)
           e == Dist(s.cidx, a)
<1>1. /\ n \in Nat /\ n <= e /\ n \in Ring /\ s.cidx \in Ring /\ s.pidx \in Ring /\ e \in Ring
      /\ s.inuse \in Ring /\ e <= s.inuse
  <2>1. n \in Nat /\ n <= e
    BY ReapBehind
  <2>2. s.cidx \in Ring /\ s.pidx \in Ring /\ s.inuse \in Ring /\ e <= s.inuse
    BY DEF RingOK, PlaceOK
  <2>3. e \in Ring
    BY <2>2, DistType
  <2> HIDE DEF n, e
  <2>4. n \in Ring
    BY <2>1, <2>3, RingAssumption DEF Ring
  <2>5. QED
    BY <2>1, <2>2, <2>3, <2>4
<1>2. /\ Reap(s).cidx = After(s.cidx, n) /\ Reap(s).inuse = s.inuse - n /\ Reap(s).pidx = s.pidx
      /\ \A i \in Ring : Reap(s).bd[i] = IF Dist(s.cidx, i) < n THEN Clean ELSE s.bd[i]
  BY DEF Reap, Window
<1>3. Pend(Reap(s), a) = Pend(s, a)
  BY <1>2 DEF Pend
<1>4. \A i \in Ring : ~(Dist(s.cidx, i) < n) => Dist(After(s.cidx, n), i) = Dist(s.cidx, i) - n
  <2> SUFFICES ASSUME NEW i \in Ring, ~(Dist(s.cidx, i) < n)
               PROVE  Dist(After(s.cidx, n), i) = Dist(s.cidx, i) - n
    OBVIOUS
  <2> HIDE DEF n
  <2>1. Dist(s.cidx, i) \in Ring /\ n <= Dist(s.cidx, i)
    <3>1. Dist(s.cidx, i) \in Ring
      BY <1>1, DistType
    <3>2. QED
      BY <1>1, <3>1 DEF Ring
  <2>2. QED
    BY <1>1, <2>1, DistMoves
<1>5. Dist(After(s.cidx, n), a) = e - n
  BY <1>1, DistMoves
<1> HIDE DEF n, e
<1>6. \A k \in 0 .. Pend(s, a) - 1 : Reap(s).bd[After(a, k)] = s.bd[After(a, k)]
  <2> TAKE k \in 0 .. Pend(s, a) - 1
  <2>1. After(a, k) \in Ring /\ Dist(s.cidx, After(a, k)) = e + k
    BY AheadPlaces DEF e
  <2>2. ~(e + k < n)
    BY <1>1 DEF Ring
  <2>3. QED
    BY <1>2, <2>1, <2>2
<1>7. Ahead(Reap(s), a) = Ahead(s, a)
  BY <1>3, <1>6 DEF Ahead
<1>8. PlaceOK(Reap(s), a)
  <2>1. Dist(Reap(s).cidx, a) <= Reap(s).inuse
    BY <1>1, <1>2, <1>5 DEF Ring
  <2>2. ASSUME NEW i \in Ring, Dist(Reap(s).cidx, i) < Dist(Reap(s).cidx, a) PROVE ~Reap(s).bd[i].r
    <3>1. CASE Dist(s.cidx, i) < n
      BY <1>2, <3>1 DEF Clean
    <3>2. CASE ~(Dist(s.cidx, i) < n)
      <4>1. Dist(s.cidx, i) - n < e - n /\ Dist(s.cidx, i) \in Ring
        BY <1>1, <1>2, <1>4, <1>5, <2>2, <3>2, DistType
      <4>2. Dist(s.cidx, i) < e
        BY <1>1, <4>1 DEF Ring
      <4>3. ~s.bd[i].r
        BY <4>2 DEF PlaceOK, e
      <4>4. QED
        BY <1>2, <3>2, <4>3
    <3>3. QED
      BY <3>1, <3>2
  <2>3. ASSUME NEW i \in Ring, Dist(Reap(s).cidx, i) >= Reap(s).inuse PROVE ~Reap(s).bd[i].l
    <3>1. CASE Dist(s.cidx, i) < n
      BY <1>2, <3>1 DEF Clean
    <3>2. CASE ~(Dist(s.cidx, i) < n)
      <4>1. Dist(s.cidx, i) - n >= s.inuse - n /\ Dist(s.cidx, i) \in Ring
        BY <1>1, <1>2, <1>4, <2>3, <3>2, DistType
      <4>2. Dist(s.cidx, i) >= s.inuse
        BY <1>1, <4>1 DEF Ring
      <4>3. ~s.bd[i].l
        BY <4>2 DEF PlaceOK
      <4>4. QED
        BY <1>2, <3>2, <4>3
    <3>3. QED
      BY <3>1, <3>2
  <2>4. QED
    BY <2>1, <2>2, <2>3 DEF PlaceOK
<1>9. QED
  BY <1>2, <1>3, <1>4, <1>5, <1>7, <1>8 DEF n, e, Window

LEMMA DistBack ==
  ASSUME NEW c \in Ring, NEW m \in Ring, NEW n \in Nat, m + n < N, NEW i \in Ring, Dist(c, i) < m
  PROVE  ~(Dist(After(c, m), i) < n)
  BY RingAssumption DEF Ring, Dist, After

\* A frame is put behind those ahead of the controller (mx6q_tx).
LEMMA LoadOrder ==
  ASSUME NEW s, RingOK(s), NEW a \in Ring, PlaceOK(s, a), ~Short(s), NEW f \in Nat,
         NEW n \in 1 .. MaxFrags
  PROVE  LET t == Load(s, f, n)
             P == Pend(s, a)
         IN  /\ PlaceOK(t, a) /\ Pend(t, a) = P + n /\ s.pidx = After(a, P) /\ Dist(a, s.pidx) = P
             /\ After(s.pidx, n - 1) = After(a, P + n - 1)
             /\ \A k \in 0 .. P - 1 : Ahead(t, a)[k] = Ahead(s, a)[k]
             /\ \A k \in P .. P + n - 1 : /\ Ahead(t, a)[k].f = f /\ ~Ahead(t, a)[k].l
                                          /\ Ahead(t, a)[k].r \/ k = P
             /\ ~Ahead(t, a)[P].r
<1> DEFINE t == Load(s, f, n)
           P == Pend(s, a)
           e == Dist(s.cidx, a)
<1>1. /\ s.inuse \in Ring /\ s.cidx \in Ring /\ s.pidx \in Ring /\ n \in Ring /\ s.inuse + n < N
      /\ s.pidx = After(s.cidx, s.inuse) /\ s.bd \in [Ring -> Desc]
  BY RingAssumption DEF RingOK, Short, Ring
<1>2. P \in Nat /\ P \in Ring /\ e \in Nat /\ P = s.inuse - e /\ n \in Nat /\ P + n < N
      /\ s.inuse \in Nat
  <2>1. P \in Nat /\ P \in Ring /\ e \in Nat /\ P = s.inuse - e
    BY AheadPlaces
  <2> HIDE DEF P, e
  <2>2. QED
    BY <1>1, <2>1, RingAssumption DEF Ring
<1>3. t.cidx = s.cidx /\ t.inuse = s.inuse + n /\ t.bd = Fill(s, f, n) /\ t.pidx = After(s.pidx, n)
  BY DEF Load, RingOK
<1>4. s.pidx = After(a, P) /\ Dist(a, s.pidx) = P
  BY <1>1, AfterDist DEF Pend
<1>5. RingOK(t)
  BY LoadOK
<1> HIDE DEF t, P, e
<1>6. Dist(a, After(After(a, P), n)) = P + n /\ After(After(a, P), n - 1) = After(a, P + n - 1)
  <2>1. n - 1 \in Ring /\ P + n \in Ring /\ P + (n - 1) < N /\ P + (n - 1) = P + n - 1
    BY <1>1, <1>2, RingAssumption DEF Ring
  <2>2. After(After(a, P), n) = After(a, P + n) /\ After(After(a, P), n - 1) = After(a, P + (n - 1))
    BY <1>1, <1>2, <2>1, AfterAfter
  <2>3. Dist(a, After(a, P + n)) = P + n
    BY <2>1, DistAfter
  <2>4. QED
    BY <2>1, <2>2, <2>3
<1>7. Pend(t, a) = P + n
  BY <1>3, <1>4, <1>6 DEF Pend
<1>8. \A i \in Ring : t.bd[i] = IF Dist(s.pidx, i) < n
                                THEN [s.bd[i] EXCEPT !.f = f, !.r = (i # s.pidx)] ELSE s.bd[i]
  BY <1>3 DEF Fill
<1>9. \A i \in Ring : Dist(s.cidx, i) < s.inuse => ~(Dist(s.pidx, i) < n)
  BY <1>1, <1>2, DistBack
<1>10. PlaceOK(t, a)
  <2>1. Dist(t.cidx, a) <= t.inuse
    BY <1>1, <1>2, <1>3 DEF PlaceOK, e
  <2>2. ASSUME NEW i \in Ring, Dist(t.cidx, i) < Dist(t.cidx, a) PROVE ~t.bd[i].r
    <3>1. Dist(s.cidx, i) < e /\ Dist(s.cidx, i) \in Ring
      BY <1>1, <1>3, <2>2, DistType DEF e
    <3>2. Dist(s.cidx, i) < s.inuse
      BY <1>2, <3>1 DEF Ring
    <3>3. ~s.bd[i].r
      BY <3>1 DEF PlaceOK, e
    <3>4. QED
      BY <1>8, <1>9, <3>2, <3>3
  <2>3. ASSUME NEW i \in Ring, Dist(t.cidx, i) >= t.inuse PROVE ~t.bd[i].l
    <3>1. Dist(s.cidx, i) >= s.inuse + n /\ Dist(s.cidx, i) \in Ring
      BY <1>1, <1>3, <2>3, DistType
    <3>2. Dist(s.cidx, i) >= s.inuse
      BY <1>2, <3>1 DEF Ring
    <3>3. ~s.bd[i].l /\ s.bd[i] \in Desc
      BY <1>1, <3>2 DEF PlaceOK
    <3>4. QED
      BY <1>8, <3>3 DEF Desc
  <2>4. QED
    BY <2>1, <2>2, <2>3 DEF PlaceOK
<1>11. \A k \in 0 .. P + n - 1 : Ahead(t, a)[k] = t.bd[After(a, k)] /\ After(a, k) \in Ring
  <2>1. \A k \in 0 .. Pend(t, a) - 1 : Ahead(t, a)[k] = t.bd[After(a, k)]
    BY <1>5, <1>10, AheadType
  <2>2. \A k \in 0 .. Pend(t, a) - 1 : After(a, k) \in Ring
    BY <1>5, <1>10, AheadPlaces
  <2>3. QED
    BY <1>2, <1>7, <2>1, <2>2
<1>12. \A k \in 0 .. P - 1 : Ahead(t, a)[k] = Ahead(s, a)[k]
  <2> TAKE k \in 0 .. P - 1
  <2>1. k \in 0 .. P + n - 1
    BY <1>2
  <2>2. Dist(s.cidx, After(a, k)) = e + k /\ Ahead(s, a)[k] = s.bd[After(a, k)]
    BY AheadPlaces, AheadType DEF P, e
  <2>3. e + k < s.inuse
    BY <1>2
  <2>4. QED
    BY <1>8, <1>9, <1>11, <2>1, <2>2, <2>3
<1>13. ASSUME NEW k \in P .. P + n - 1
       PROVE  /\ Ahead(t, a)[k].f = f /\ ~Ahead(t, a)[k].l
              /\ Ahead(t, a)[k].r \/ k = P
              /\ k = P => ~Ahead(t, a)[k].r
  <2>1. k \in 0 .. P + n - 1 /\ k \in Nat
    BY <1>2
  <2>2. Dist(s.pidx, After(a, k)) = k - P /\ (k # P => After(a, k) # s.pidx)
    <3>1. k \in Ring /\ k - P \in Ring /\ P + (k - P) = k /\ P + (k - P) < N
      BY <1>2, RingAssumption DEF Ring
    <3>2. After(a, k) = After(After(a, P), k - P)
      BY <1>2, <3>1, AfterAfter
    <3>3. Dist(After(a, P), After(After(a, P), k - P)) = k - P
      BY <1>1, <1>4, <3>1, DistAfter
    <3>4. Dist(a, After(a, k)) = k
      BY <3>1, DistAfter
    <3>5. QED
      BY <1>4, <3>2, <3>3, <3>4
  <2>3. k - P < n
    BY <1>2
  <2>4. t.bd[After(a, k)] = [s.bd[After(a, k)] EXCEPT !.f = f, !.r = (After(a, k) # s.pidx)]
    BY <1>8, <1>11, <2>1, <2>2, <2>3
  <2>5. Dist(s.cidx, After(a, k)) = e + k
    <3>1. Dist(t.cidx, After(a, k)) = Dist(t.cidx, a) + k
      <4>1. \A j \in 0 .. Pend(t, a) - 1 : Dist(t.cidx, After(a, j)) = Dist(t.cidx, a) + j
        BY <1>5, <1>10, AheadPlaces
      <4>2. QED
        BY <1>2, <1>7, <2>1, <4>1
    <3>2. QED
      BY <1>3, <3>1 DEF e
  <2>6. e + k >= s.inuse
    BY <1>2
  <2>7. ~s.bd[After(a, k)].l /\ s.bd[After(a, k)] \in Desc
    BY <1>1, <1>11, <2>1, <2>5, <2>6 DEF PlaceOK
  <2>8. Ahead(t, a)[k] = t.bd[After(a, k)]
    BY <1>11, <2>1
  <2>9. QED
    BY <1>4, <2>2, <2>4, <2>7, <2>8 DEF Desc
<1>14. P \in P .. P + n - 1
  BY <1>2
<1>15. QED
  BY <1>4, <1>6, <1>7, <1>10, <1>12, <1>13, <1>14 DEF t, P

\* The first descriptor of a frame is given to the controller, the last one is marked LAST.
LEMMA MarkOrder ==
  ASSUME NEW s, RingOK(s), NEW a \in Ring, PlaceOK(s, a), NEW c \in Ring \X Ring,
         Dist(a, c[1]) \in 0 .. Pend(s, a) - 1, c[2] = After(a, Pend(s, a) - 1)
  PROVE  LET t == MarkReady(s, c)
             P == Pend(s, a)
             x == Dist(a, c[1])
         IN  /\ PlaceOK(t, a) /\ Pend(t, a) = P
             /\ \A k \in 0 .. P - 1 : /\ Ahead(t, a)[k].f = Ahead(s, a)[k].f
                                      /\ k # P - 1 => Ahead(t, a)[k].l = Ahead(s, a)[k].l
                                      /\ k # x => Ahead(t, a)[k].r = Ahead(s, a)[k].r
             /\ Ahead(t, a)[P - 1].l /\ Ahead(t, a)[x].r
<1> DEFINE t == MarkReady(s, c)
           P == Pend(s, a)
           x == Dist(a, c[1])
           e == Dist(s.cidx, a)
<1>1. /\ RingOK(t) /\ t.cidx = s.cidx /\ t.inuse = s.inuse /\ t.pidx = s.pidx
      /\ s.bd \in [Ring -> Desc] /\ c[1] \in Ring /\ c[2] \in Ring
  BY MarkReadyOK DEF MarkReady, RingOK
<1>2. \A i \in Ring : /\ t.bd[i].f = s.bd[i].f
                      /\ i # c[2] => t.bd[i].l = s.bd[i].l
                      /\ i # c[1] => t.bd[i].r = s.bd[i].r
                      /\ i = c[2] => t.bd[i].l
                      /\ i = c[1] => t.bd[i].r
  <2> DEFINE u == [s.bd EXCEPT ![c[2]].l = TRUE]
  <2>1. /\ u \in [Ring -> Desc]
        /\ \A i \in Ring : /\ u[i].f = s.bd[i].f
                           /\ u[i].r = s.bd[i].r
                           /\ i # c[2] => u[i].l = s.bd[i].l
                           /\ i = c[2] => u[i].l
    BY <1>1 DEF Desc
  <2>2. t.bd = [u EXCEPT ![c[1]].r = TRUE]
    BY DEF MarkReady, RingOK
  <2> HIDE DEF u, t
  <2>3. \A i \in Ring : i # c[1] => t.bd[i] = u[i]
    BY <2>1, <2>2
  <2>4. t.bd[c[1]] = [u[c[1]] EXCEPT !.r = TRUE] /\ u[c[1]] \in Desc
    BY <1>1, <2>1, <2>2
  <2>5. t.bd[c[1]].r = TRUE /\ t.bd[c[1]].l = u[c[1]].l /\ t.bd[c[1]].f = u[c[1]].f
    BY <2>4 DEF Desc
  <2>6. ASSUME NEW i \in Ring
        PROVE  t.bd[i].f = u[i].f /\ t.bd[i].l = u[i].l /\ (i # c[1] => t.bd[i].r = u[i].r)
               /\ (i = c[1] => t.bd[i].r)
    <3>1. CASE i = c[1]
      BY <2>5, <3>1
    <3>2. CASE i # c[1]
      BY <2>3, <3>2
    <3>3. QED
      BY <3>1, <3>2
  <2> HIDE DEF t
  <2>7. QED
    BY <2>1, <2>6
<1>3. t.bd[c[2]].l /\ t.bd[c[1]].r
  BY <1>1, <1>2
<1>4. /\ P \in Nat /\ e \in Nat /\ s.inuse = e + P /\ s.inuse \in Ring
      /\ \A k \in 0 .. P - 1 :
           /\ After(a, k) \in Ring /\ Dist(a, After(a, k)) = k
           /\ Dist(s.cidx, After(a, k)) = e + k
  <2>1. s.inuse \in Ring
    BY DEF RingOK
  <2>2. /\ P \in Nat /\ e \in Nat /\ P = s.inuse - e
        /\ \A k \in 0 .. P - 1 :
             /\ After(a, k) \in Ring /\ Dist(a, After(a, k)) = k
             /\ Dist(s.cidx, After(a, k)) = e + k
    BY AheadPlaces
  <2> HIDE DEF P, e
  <2>3. s.inuse \in Nat
    BY <2>1, RingAssumption DEF Ring
  <2>4. QED
    BY <2>1, <2>2, <2>3
<1>5. x \in 0 .. P - 1 /\ c[1] = After(a, x) /\ c[2] = After(a, P - 1) /\ P - 1 \in 0 .. P - 1
  BY <1>1, <1>4, AfterDist
<1>6. Pend(t, a) = P
  BY <1>1 DEF Pend
<1> HIDE DEF t, P, x, e
<1>7. PlaceOK(t, a)
  <2>1. Dist(t.cidx, a) <= t.inuse
    BY <1>1 DEF PlaceOK
  <2>2. ASSUME NEW i \in Ring, Dist(t.cidx, i) < Dist(t.cidx, a) PROVE ~t.bd[i].r
    <3>1. Dist(s.cidx, i) < e
      BY <1>1, <2>2 DEF e
    <3>2. Dist(s.cidx, c[1]) = e + x
      BY <1>4, <1>5
    <3>3. i # c[1]
      BY <1>4, <1>5, <3>1, <3>2
    <3>4. ~s.bd[i].r
      BY <3>1 DEF PlaceOK, e
    <3>5. QED
      BY <1>2, <3>3, <3>4
  <2>3. ASSUME NEW i \in Ring, Dist(t.cidx, i) >= t.inuse PROVE ~t.bd[i].l
    <3>1. Dist(s.cidx, i) >= s.inuse
      BY <1>1, <2>3
    <3>2. Dist(s.cidx, c[2]) = e + (P - 1)
      BY <1>4, <1>5
    <3>3. i # c[2]
      BY <1>4, <1>5, <3>1, <3>2
    <3>4. ~s.bd[i].l
      BY <3>1 DEF PlaceOK
    <3>5. QED
      BY <1>2, <3>3, <3>4
  <2>4. QED
    BY <2>1, <2>2, <2>3 DEF PlaceOK
<1>8. \A k \in 0 .. P - 1 : Ahead(t, a)[k] = t.bd[After(a, k)]
  BY <1>1, <1>6, <1>7, AheadType
<1>9. \A k \in 0 .. P - 1 : Ahead(s, a)[k] = s.bd[After(a, k)]
  BY AheadType DEF P
<1>10. \A k \in 0 .. P - 1 : /\ k # P - 1 => After(a, k) # c[2]
                             /\ k # x => After(a, k) # c[1]
  BY <1>4, <1>5
<1>11. QED
  BY <1>2, <1>3, <1>4, <1>5, <1>6, <1>7, <1>8, <1>9, <1>10 DEF t, P, x

\* Ring t is ring s with k descriptors from place a on handed back.
HandedBack(s, t, a, k) ==
  /\ RingOK(t) /\ t.cidx = s.cidx /\ t.pidx = s.pidx /\ t.inuse = s.inuse
  /\ \A i \in Ring : /\ Dist(a, i) < k => ~t.bd[i].r /\ t.bd[i].l = s.bd[i].l
                     /\ ~(Dist(a, i) < k) => t.bd[i] = s.bd[i]

\* The controller hands k descriptors back and goes on behind them.
LEMMA HandBackOrder ==
  ASSUME NEW s, RingOK(s), NEW a \in Ring, PlaceOK(s, a), NEW k \in 1 .. Pend(s, a),
         NEW t, HandedBack(s, t, a, k)
  PROVE  LET b == After(a, k)
         IN  /\ b \in Ring /\ PlaceOK(t, b) /\ Pend(t, b) = Pend(s, a) - k
             /\ Dist(s.cidx, b) = Dist(s.cidx, a) + k
             /\ \A j \in 0 .. Pend(s, a) - k - 1 : Ahead(t, b)[j] = Ahead(s, a)[j + k]
<1> DEFINE P == Pend(s, a)
           e == Dist(s.cidx, a)
           b == After(a, k)
<1>0. /\ RingOK(t) /\ t.cidx = s.cidx /\ t.pidx = s.pidx /\ t.inuse = s.inuse
      /\ \A i \in Ring : /\ Dist(a, i) < k => ~t.bd[i].r /\ t.bd[i].l = s.bd[i].l
                         /\ ~(Dist(a, i) < k) => t.bd[i] = s.bd[i]
  BY DEF HandedBack
<1> USE <1>0
<1>1. s.cidx \in Ring /\ s.pidx \in Ring /\ s.inuse \in Ring /\ s.pidx = After(s.cidx, s.inuse)
  BY DEF RingOK
<1>2. P \in Nat /\ e \in Nat /\ P = s.inuse - e
  BY AheadPlaces
<1>3. a = After(s.cidx, e)
  BY <1>1, AfterDist
<1> HIDE DEF P, e
<1>4. /\ k \in Ring /\ k \in Nat /\ k <= P /\ P \in Ring /\ P - k \in Ring /\ P - k \in Nat
      /\ e \in Ring /\ e + k \in Ring /\ e + k < N /\ e + k <= s.inuse
  BY <1>1, <1>2, RingAssumption DEF Ring, P
<1>5. b = After(s.cidx, e + k) /\ b \in Ring
  <2>1. After(s.cidx, e + k) = After(After(s.cidx, e), k)
    BY <1>1, <1>4, AfterAfter
  <2>2. k \in 0 .. N
    BY <1>4, RingAssumption DEF Ring
  <2>3. QED
    BY <1>3, <2>1, <2>2, AfterType
<1>6. Dist(s.cidx, b) = e + k
  BY <1>1, <1>4, <1>5, DistAfter
<1>7. Pend(t, b) = P - k
  <2>1. Dist(a, s.pidx) = P
    BY DEF Pend, P
  <2>2. Dist(After(a, k), s.pidx) = Dist(a, s.pidx) - k
    BY <1>1, <1>4, <2>1, DistMoves
  <2>3. QED
    BY <2>1, <2>2 DEF Pend
<1> HIDE DEF b
<1>8. PlaceOK(t, b)
  <2>1. Dist(t.cidx, b) <= t.inuse
    BY <1>4, <1>6
  <2>2. ASSUME NEW i \in Ring, Dist(t.cidx, i) < Dist(t.cidx, b) PROVE ~t.bd[i].r
    <3>1. Dist(s.cidx, i) < e + k /\ Dist(s.cidx, i) \in Nat
      <4>1. Dist(s.cidx, i) \in Ring
        BY <1>1, DistType
      <4>2. QED
        BY <1>6, <2>2, <4>1, RingAssumption DEF Ring
    <3>2. CASE Dist(a, i) < k
      BY <3>2
    <3>3. CASE ~(Dist(a, i) < k)
      <4>1. Dist(s.cidx, i) < e
        <5>1. SUFFICES ASSUME ~(Dist(s.cidx, i) < e) PROVE FALSE
          OBVIOUS
        <5>2. e <= Dist(s.cidx, i) /\ Dist(s.cidx, i) < s.inuse
          BY <1>1, <1>2, <1>4, <3>1, <5>1, RingAssumption DEF Ring
        <5>3. Dist(a, i) \in 0 .. P - 1 /\ After(a, Dist(a, i)) = i
          BY <5>2, AheadPlaces DEF P, e
        <5>4. Dist(s.cidx, After(a, Dist(a, i))) = e + Dist(a, i)
          BY <5>3, AheadPlaces DEF P, e
        <5>5. QED
          BY <1>2, <1>4, <3>1, <3>3, <5>3, <5>4
      <4>2. ~s.bd[i].r
        BY <4>1 DEF PlaceOK, e
      <4>3. QED
        BY <3>3, <4>2
    <3>4. QED
      BY <3>2, <3>3
  <2>3. ASSUME NEW i \in Ring, Dist(t.cidx, i) >= t.inuse PROVE ~t.bd[i].l
    <3>1. ~s.bd[i].l
      BY <2>3 DEF PlaceOK
    <3>2. t.bd[i].l = s.bd[i].l
      OBVIOUS
    <3>3. QED
      BY <3>1, <3>2
  <2>4. QED
    BY <2>1, <2>2, <2>3 DEF PlaceOK
<1>9. ASSUME NEW j \in 0 .. P - k - 1 PROVE Ahead(t, b)[j] = Ahead(s, a)[j + k]
  <2>1. j \in 0 .. Pend(t, b) - 1 /\ j + k \in 0 .. P - 1
    BY <1>4, <1>7
  <2>2. Ahead(t, b)[j] = t.bd[After(b, j)]
    BY <1>5, <1>8, <2>1, AheadType
  <2>3. Ahead(s, a)[j + k] = s.bd[After(a, j + k)]
    BY <2>1, AheadType DEF P
  <2>4. After(a, j + k) \in Ring /\ Dist(a, After(a, j + k)) = j + k
    BY <2>1, AheadPlaces DEF P
  <2>5. After(b, j) = After(a, j + k)
    <3>1. j \in Ring /\ k + j < N /\ k + j = j + k
      BY <1>1, <1>2, <1>4, RingAssumption DEF Ring
    <3>2. After(After(a, k), j) = After(a, k + j)
      BY <1>4, <3>1, AfterAfter
    <3>3. QED
      BY <3>1, <3>2 DEF b
  <2>6. ~(j + k < k)
    BY <1>4
  <2>7. QED
    BY <2>2, <2>3, <2>4, <2>5, <2>6
<1>10. QED
  BY <1>5, <1>6, <1>7, <1>8, <1>9 DEF P, e, b

\* What the controller takes for a frame is one.
LEMMA FrameLenIs ==
  ASSUME RingOK(q), eng.i \in Ring, PlaceOK(q, eng.i), NEW m,
         EndsAt(Ahead(q, eng.i), Pend(q, eng.i), m)
  PROVE  FrameLen(eng.i) = m + 1
<1> DEFINE a == eng.i
           P == Pend(q, a)
           Good(n) == /\ \A k \in 0 .. n - 2 : ~q.bd[After(a, k)].l /\ q.bd[After(a, k + 1)].r
                      /\ q.bd[After(a, n - 1)].l \/ n = N \/ ~q.bd[After(a, n)].r
<1>1. P \in Nat /\ P < N /\ N \in Nat
  BY AheadPlaces, RingAssumption DEF Ring
<1>2. m \in 0 .. P - 1
  BY DEF EndsAt
<1>3. \A k \in 0 .. P - 1 : Ahead(q, a)[k] = q.bd[After(a, k)]
  BY AheadType
<1>4. FrameLen(a) = CHOOSE n \in 1 .. N : Good(n)
  BY DEF FrameLen
<1> HIDE DEF P, a
<1>5. q.bd[After(a, m)].l /\ \A j \in 0 .. m - 1 : ~q.bd[After(a, j)].l
  <2>1. \A j \in 0 .. m - 1 : j \in 0 .. P - 1
    BY <1>1, <1>2
  <2>2. QED
    BY <1>2, <1>3, <2>1 DEF EndsAt, P, a
<1>6. \A j \in 0 .. m : q.bd[After(a, j)].r
  <2>1. \A j \in 0 .. m : j \in 0 .. P - 1
    BY <1>1, <1>2
  <2>2. QED
    BY <1>3, <2>1 DEF EndsAt, P, a
<1>7. m + 1 \in 1 .. N /\ Good(m + 1)
  <2>1. m + 1 \in 1 .. N /\ (m + 1) - 1 = m
    BY <1>1, <1>2
  <2>2. \A k \in 0 .. (m + 1) - 2 : k \in 0 .. m - 1 /\ k + 1 \in 0 .. m
    BY <1>1, <1>2
  <2>3. QED
    BY <1>5, <1>6, <2>1, <2>2
<1>8. \A n \in 1 .. N : Good(n) => n = m + 1
  <2> SUFFICES ASSUME NEW n \in 1 .. N, Good(n) PROVE n = m + 1
    OBVIOUS
  <2>1. ~(n > m + 1)
    <3>1. n > m + 1 => m \in 0 .. n - 2
      BY <1>1, <1>2
    <3>2. QED
      BY <1>5, <3>1
  <2>2. ~(n < m + 1)
    <3>1. n < m + 1 => n - 1 \in 0 .. m - 1 /\ n \in 0 .. m /\ n # N
      BY <1>1, <1>2
    <3>2. QED
      BY <1>5, <1>6, <3>1
  <2>3. QED
    BY <1>1, <1>2, <2>1, <2>2
<1> HIDE DEF Good
<1>9. QED
  BY <1>4, <1>7, <1>8 DEF a

-----------------------------------------------------------------------------
(* The order of the frames, step by step *)

SentOK == sent \in Seq(Nat) /\ \A k \in 1 .. Len(sent) : sent[k] = k

EngOK == eng \in [i : Ring, busy : BOOLEAN, missed : BOOLEAN]

\* The frames ahead of the controller are those after the last that was sent, and given to it
\* but for the one that a process is about to mark READY.
ChainInv ==
  LET d == Ahead(q, eng.i)
      P == Pend(q, eng.i)
  IN  /\ ChainOK(d, P, Len(sent), taken)
      /\ \A p \in Process : pc[p] = "ready" =>
           Filling(d, P, Dist(eng.i, cur[p][1]), taken) /\ cur[p][2] = After(eng.i, P - 1)
      /\ (\A p \in Process : pc[p] # "ready") => Filled(d, P)

\* The controller is sending a frame it has found READY.
BusyInv == eng.busy => q.bd[eng.i].r

OrderInv == ReadyInv /\ SentOK /\ EngOK /\ PlaceOK(q, eng.i) /\ ChainInv /\ BusyInv

\* The numbers and places the invariant is about.
LEMMA OrderTypes ==
  ASSUME OrderInv
  PROVE  /\ RingOK(q) /\ ReadyOK(q) /\ CurOK /\ eng.i \in Ring /\ taken \in Nat /\ Len(sent) \in Nat
         /\ Pend(q, eng.i) \in Nat
         /\ Ahead(q, eng.i) \in [0 .. Pend(q, eng.i) - 1 -> Desc]
<1>1. RingOK(q) /\ ReadyOK(q) /\ CurOK /\ eng.i \in Ring /\ taken \in Nat
  BY DEF OrderInv, ReadyInv, CountInv, EngOK
<1>2. Len(sent) \in Nat
  BY LenProperties DEF OrderInv, SentOK
<1>3. QED
  BY <1>1, <1>2, AheadPlaces, AheadType DEF OrderInv

\* Whoever is not about to mark a frame READY but holds if_snd_ex, or finds it free, finds
\* every frame given to the controller.
LEMMA NobodyFills ==
  ASSUME OrderInv, NEW p \in Process, lock = Nobody \/ (lock = p /\ pc[p] # "ready")
  PROVE  /\ \A r \in Process : pc[r] # "ready"
         /\ Filled(Ahead(q, eng.i), Pend(q, eng.i))
<1>1. \A r \in Process : pc[r] # "ready"
  BY DEF OrderInv, ReadyInv, HoldsInv, Process, Nobody
<1>2. QED
  BY <1>1 DEF OrderInv, ChainInv

\* The steps that leave the ring and the place of the controller in it alone.
LEMMA SameOrder ==
  ASSUME OrderInv, ReadyInv', UNCHANGED <<q, cur, sent, taken>>, eng'.i = eng.i, EngOK', BusyInv',
         \A p \in Process : pc'[p] = "ready" <=> pc[p] = "ready"
  PROVE  OrderInv'
<1>1. SentOK' /\ PlaceOK(q, eng.i)'
  BY DEF OrderInv, SentOK
<1>2. ChainInv'
  BY DEF OrderInv, ChainInv
<1>3. QED
  BY <1>1, <1>2 DEF OrderInv

\* The steps that reap a ring all of whose frames are given to the controller, or leave it.
LEMMA ReapStepOrder ==
  ASSUME OrderInv, ReadyInv', q' = q \/ q' = Reap(q), UNCHANGED <<eng, sent, taken>>,
         Filled(Ahead(q, eng.i), Pend(q, eng.i)), \A p \in Process : pc'[p] # "ready"
  PROVE  OrderInv'
<1>1. /\ PlaceOK(q', eng.i) /\ Pend(q', eng.i) = Pend(q, eng.i) /\ Ahead(q', eng.i) = Ahead(q, eng.i)
  BY OrderTypes, ReapOrder DEF OrderInv
<1>2. PlaceOK(q, eng.i)' /\ Pend(q, eng.i)' = Pend(q, eng.i) /\ Ahead(q, eng.i)' = Ahead(q, eng.i)
  BY <1>1
<1>3. SentOK' /\ EngOK'
  BY DEF OrderInv, SentOK, EngOK
<1>4. ChainInv'
  BY <1>2 DEF OrderInv, ChainInv
<1>5. BusyInv'
  <2> SUFFICES ASSUME eng.busy, q' = Reap(q) PROVE q'.bd[eng.i].r
    BY DEF OrderInv, BusyInv
  <2>1. q.bd[eng.i].r /\ eng.i \in Ring /\ RingOK(q)
    BY OrderTypes DEF OrderInv, BusyInv
  <2>2. Dist(q.cidx, eng.i) \in Nat /\ Reapable(q) \in Nat /\ Reapable(q) <= Dist(q.cidx, eng.i)
    BY <2>1, ReapBehind, AheadPlaces DEF OrderInv
  <2>3. ~Window(q, eng.i)
    BY <2>2 DEF Window
  <2>4. QED
    BY <2>1, <2>3 DEF Reap
<1>6. QED
  BY <1>2, <1>3, <1>4, <1>5 DEF OrderInv

\* A frame is taken from the queue and put in the ring (mx6q_start, mx6q_tx).
LEMMA TakeOrder ==
  ASSUME OrderInv, ReadyInv', NEW p \in Process, TakeFrame(p)
  PROVE  OrderInv'
<1> DEFINE s == Looked
           a == eng.i
           P == Pend(q, a)
           f == taken + 1
<1>1. pc[p] = "loop" /\ lock = p
  BY DEF TakeFrame, OrderInv, ReadyInv, HoldsInv
<1>2. (\A r \in Process : pc[r] # "ready") /\ Filled(Ahead(q, a), P)
  BY <1>1, NobodyFills
<1>3. RingOK(q) /\ ReadyOK(q) /\ a \in Ring /\ taken \in Nat /\ f \in Nat /\ Len(sent) \in Nat /\ P \in Nat
  BY OrderTypes
<1>4. RingOK(s) /\ ReadyOK(s) /\ ~Short(s)
  BY <1>3, LookedOK, LookedReady DEF TakeFrame
<1>5. PlaceOK(s, a) /\ Pend(s, a) = P /\ Ahead(s, a) = Ahead(q, a)
  BY <1>2, <1>3, ReapOrder DEF OrderInv, Looked
<1>6. PICK n \in 1 .. MaxFrags :
        Hit(s, n) = n =>
          /\ q' = Load(s, f, n)
          /\ cur' = [cur EXCEPT ![p] = <<s.pidx, After(s.pidx, n - 1)>>]
          /\ pc' = [pc EXCEPT ![p] = "ready"]
  BY DEF TakeFrame
<1>7. taken' = f /\ UNCHANGED <<eng, sent>>
  BY DEF TakeFrame, hwVars
<1>8. Hit(s, n) = n
  BY <1>4, HitNever
<1>9. /\ q' = Load(s, f, n) /\ pc'[p] = "ready" /\ \A r \in Process \ {p} : pc'[r] # "ready"
      /\ cur'[p] = <<s.pidx, After(s.pidx, n - 1)>>
  BY <1>2, <1>6, <1>8 DEF OrderInv, ReadyInv, HoldsInv, CountInv, CurOK
<1> HIDE DEF s
<1>10. /\ PlaceOK(q', a) /\ Pend(q', a) = P + n /\ Dist(a, s.pidx) = P
       /\ After(s.pidx, n - 1) = After(a, P + n - 1)
       /\ \A k \in 0 .. P - 1 : Ahead(q', a)[k] = Ahead(q, a)[k]
       /\ \A k \in P .. P + n - 1 : /\ Ahead(q', a)[k].f = f /\ ~Ahead(q', a)[k].l
                                    /\ Ahead(q', a)[k].r \/ k = P
       /\ ~Ahead(q', a)[P].r
  <2> DEFINE t == Load(s, f, n)
             M == Pend(s, a)
  <2>1. f \in Nat /\ a \in Ring
    BY <1>3
  <2> HIDE DEF f, a
  <2>2. /\ PlaceOK(t, a) /\ Pend(t, a) = M + n /\ Dist(a, s.pidx) = M
        /\ After(s.pidx, n - 1) = After(a, M + n - 1)
        /\ \A k \in 0 .. M - 1 : Ahead(t, a)[k] = Ahead(s, a)[k]
        /\ \A k \in M .. M + n - 1 : /\ Ahead(t, a)[k].f = f /\ ~Ahead(t, a)[k].l
                                     /\ Ahead(t, a)[k].r \/ k = M
        /\ ~Ahead(t, a)[M].r
    BY <1>4, <1>5, <2>1, LoadOrder
  <2>3. q' = t /\ M = P /\ Ahead(s, a) = Ahead(q, a)
    BY <1>5, <1>9
  <2> HIDE DEF t, M, P
  <2>4. QED
    BY <2>2, <2>3
<1>11. RingOK(q')
  BY DEF ReadyInv, CountInv
<1>12. Ahead(q', a) \in [0 .. P + n - 1 -> Desc] /\ Ahead(q, a) \in [0 .. P - 1 -> Desc]
  BY <1>3, <1>10, <1>11, AheadType, OrderTypes
<1>13. ChainOK(Ahead(q, a), P, Len(sent), taken)
  BY DEF OrderInv, ChainInv
<1>14. ChainOK(Ahead(q', a), P + n, Len(sent), f) /\ Filling(Ahead(q', a), P + n, P, f)
  <2>1. n \in Nat \ {0}
    OBVIOUS
  <2> HIDE DEF P, a
  <2>2. QED
    BY <1>2, <1>3, <1>10, <1>12, <1>13, <2>1, ChainLoad
<1>15. ChainInv'
  <2>1. cur'[p][1] = s.pidx /\ cur'[p][2] = After(s.pidx, n - 1)
    BY <1>9
  <2>2. QED
    <3>1. Dist(a, cur'[p][1]) = P /\ cur'[p][2] = After(a, Pend(q', a) - 1)
      <4>1. Dist(a, s.pidx) = P /\ After(s.pidx, n - 1) = After(a, P + n - 1) /\ Pend(q', a) = P + n
        BY <1>10
      <4>2. QED
        BY <1>3, <2>1, <4>1
    <3>2. \A r \in Process : pc'[r] = "ready" <=> r = p
      BY <1>9
    <3>3. ChainOK(Ahead(q', a), Pend(q', a), Len(sent), f)
          /\ Filling(Ahead(q', a), Pend(q', a), Dist(a, cur'[p][1]), f)
      BY <1>10, <1>14, <3>1
    <3>4. QED
      BY <1>7, <3>1, <3>2, <3>3 DEF ChainInv
<1>16. SentOK' /\ EngOK' /\ PlaceOK(q, eng.i)'
  BY <1>7, <1>10 DEF OrderInv, SentOK, EngOK
<1>17. BusyInv'
  <2> SUFFICES ASSUME eng.busy PROVE q'.bd[a].r
    BY <1>7 DEF BusyInv
  <2>1. q.bd[a].r /\ After(a, 0) = a
    BY <1>3, RingAssumption DEF OrderInv, BusyInv, Ring, After
  <2>2. Dist(q.cidx, a) < q.inuse
    BY <1>3, <2>1 DEF ReadyOK
  <2>3. P > 0
    <3>1. P = q.inuse - Dist(q.cidx, a) /\ q.inuse \in Ring /\ Dist(q.cidx, a) \in Nat
      BY <1>3, AheadPlaces DEF OrderInv, RingOK
    <3>2. QED
      BY <2>2, <3>1, RingAssumption DEF Ring
  <2>4. Ahead(q, a)[0] = q.bd[After(a, 0)]
    BY <1>3, <2>3, AheadType DEF OrderInv
  <2>5. Ahead(q', a)[0] = q'.bd[After(a, 0)]
    <3>1. 0 \in 0 .. Pend(q', a) - 1
      BY <1>3, <1>10
    <3>2. QED
      BY <1>3, <1>10, <1>11, <3>1, AheadType
  <2>6. Ahead(q', a)[0] = Ahead(q, a)[0]
    BY <1>3, <1>10, <2>3
  <2>7. QED
    BY <2>1, <2>4, <2>5, <2>6
<1>18. QED
  BY <1>15, <1>16, <1>17 DEF OrderInv

\* The frame that was put in the ring is marked READY.
LEMMA FrameReadyOrder ==
  ASSUME OrderInv, ReadyInv', NEW p \in Process, FrameReady(p)
  PROVE  OrderInv'
<1> DEFINE a == eng.i
           P == Pend(q, a)
           x == Dist(a, cur[p][1])
<1>1. /\ pc[p] = "ready" /\ lock = p /\ pc' = [pc EXCEPT ![p] = "kick"] /\ q' = MarkReady(q, cur[p])
      /\ UNCHANGED <<cur, taken, eng, sent>>
  BY DEF FrameReady, Goto, hwVars, OrderInv, ReadyInv, HoldsInv
<1>2. \A r \in Process : pc'[r] # "ready"
  BY <1>1 DEF OrderInv, ReadyInv, HoldsInv, Process
<1>3. /\ RingOK(q) /\ a \in Ring /\ cur[p] \in Ring \X Ring /\ taken \in Nat /\ Len(sent) \in Nat
      /\ P \in Nat /\ Ahead(q, a) \in [0 .. P - 1 -> Desc]
  BY OrderTypes DEF CurOK
<1>4. Filling(Ahead(q, a), P, x, taken) /\ cur[p][2] = After(a, P - 1)
      /\ ChainOK(Ahead(q, a), P, Len(sent), taken)
  BY <1>1 DEF OrderInv, ChainInv
<1>5. x \in 0 .. P - 1 /\ x \in Nat
  BY <1>4 DEF Filling
<1>6. /\ PlaceOK(q', a) /\ Pend(q', a) = P
      /\ \A k \in 0 .. P - 1 : /\ Ahead(q', a)[k].f = Ahead(q, a)[k].f
                               /\ k # P - 1 => Ahead(q', a)[k].l = Ahead(q, a)[k].l
                               /\ k # x => Ahead(q', a)[k].r = Ahead(q, a)[k].r
      /\ Ahead(q', a)[P - 1].l /\ Ahead(q', a)[x].r
  BY <1>1, <1>3, <1>4, <1>5, MarkOrder DEF OrderInv
<1>7. Ahead(q', a) \in [0 .. P - 1 -> Desc]
  <2>1. RingOK(q')
    BY DEF ReadyInv, CountInv
  <2>2. QED
    BY <1>3, <1>6, <2>1, AheadType
<1>8. ChainOK(Ahead(q', a), P, Len(sent), taken) /\ Filled(Ahead(q', a), P)
  <2> HIDE DEF a, P, x
  <2>1. QED
    BY <1>3, <1>4, <1>5, <1>6, <1>7, ChainMark
<1>9. ChainInv'
  BY <1>1, <1>2, <1>6, <1>8 DEF ChainInv
<1>10. SentOK' /\ EngOK' /\ PlaceOK(q, eng.i)'
  BY <1>1, <1>6 DEF OrderInv, SentOK, EngOK
<1>11. BusyInv'
  <2> SUFFICES ASSUME eng.busy PROVE q'.bd[a].r
    BY <1>1 DEF BusyInv
  <2>1. q.bd[a].r
    BY DEF OrderInv, BusyInv
  <2>2. \A i \in Ring : q.bd[i].r => q'.bd[i].r
    <3>1. [q.bd EXCEPT ![cur[p][2]].l = TRUE] \in [Ring -> Desc]
          /\ \A i \in Ring : [q.bd EXCEPT ![cur[p][2]].l = TRUE][i].r = q.bd[i].r
      <4>1. q.bd \in [Ring -> Desc]
        BY <1>3 DEF RingOK
      <4>2. QED
        BY <1>3, <4>1 DEF Desc
    <3>2. q'.bd = [[q.bd EXCEPT ![cur[p][2]].l = TRUE] EXCEPT ![cur[p][1]].r = TRUE]
      BY <1>1, <1>3 DEF MarkReady, RingOK
    <3>3. QED
      BY <3>1, <3>2 DEF Desc
  <2>3. QED
    BY <1>3, <2>1, <2>2
<1>12. QED
  BY <1>9, <1>10, <1>11 DEF OrderInv

\* The frame the controller is sending has an end, before the one a process is filling.
LEMMA FirstFrame ==
  ASSUME OrderInv, eng.busy
  PROVE  /\ Pend(q, eng.i) > 0 /\ Ahead(q, eng.i)[0].r
         /\ \E m \in 0 .. Pend(q, eng.i) - 1 :
              /\ EndsAt(Ahead(q, eng.i), Pend(q, eng.i), m)
              /\ \A p \in Process : pc[p] = "ready" => m < Dist(eng.i, cur[p][1])
<1> DEFINE a == eng.i
           d == Ahead(q, a)
           P == Pend(q, a)
<1>1. /\ RingOK(q) /\ ReadyOK(q) /\ a \in Ring /\ taken \in Nat /\ Len(sent) \in Nat /\ P \in Nat
      /\ d \in [0 .. P - 1 -> Desc] /\ PlaceOK(q, a) /\ ChainOK(d, P, Len(sent), taken)
  BY OrderTypes DEF OrderInv, ChainInv
<1>2. P > 0 /\ d[0].r
  <2>1. q.bd[a].r /\ After(a, 0) = a
    <3>2. After(a, 0) = a
      BY <1>1, RingAssumption DEF Ring, After
    <3>3. QED
      BY <3>2 DEF OrderInv, BusyInv
  <2>2. Dist(q.cidx, a) < q.inuse
    BY <1>1, <2>1 DEF ReadyOK
  <2>3. P = q.inuse - Dist(q.cidx, a) /\ q.inuse \in Ring /\ Dist(q.cidx, a) \in Nat
    BY <1>1, AheadPlaces DEF RingOK
  <2>4. P > 0
    BY <2>2, <2>3, RingAssumption DEF Ring
  <2>5. d[0] = q.bd[After(a, 0)]
    BY <1>1, <2>4, AheadType
  <2>6. QED
    BY <2>1, <2>4, <2>5
<1>3. \E m \in 0 .. P - 1 :
        /\ EndsAt(d, P, m)
        /\ \A p \in Process : pc[p] = "ready" => m < Dist(a, cur[p][1])
  <2>1. CASE \A p \in Process : pc[p] # "ready"
    <3>1. Filled(d, P)
      BY <2>1 DEF OrderInv, ChainInv
    <3>2. \E m \in 0 .. P - 1 : EndsAt(d, P, m)
      <4> HIDE DEF d, P
      <4>1. P \in Nat \ {0} /\ 0 \in Nat
        BY <1>1, <1>2
      <4>2. QED
        BY <1>1, <1>2, <3>1, <4>1, FrameEnds
    <3>3. QED
      BY <2>1, <3>2
  <2>2. CASE \E p \in Process : pc[p] = "ready"
    <3>1. PICK p \in Process : pc[p] = "ready"
      BY <2>2
    <3>2. \A r \in Process : pc[r] = "ready" => r = p
      BY <3>1 DEF OrderInv, ReadyInv, HoldsInv
    <3>3. Filling(d, P, Dist(a, cur[p][1]), taken)
      BY <3>1 DEF OrderInv, ChainInv
    <3>4. Dist(a, cur[p][1]) \in Nat
      BY <3>3 DEF Filling
    <3>5. \E m \in 0 .. P - 1 : EndsAt(d, P, m) /\ m < Dist(a, cur[p][1])
      <4> DEFINE x == Dist(a, cur[p][1])
      <4> HIDE DEF d, P, x
      <4>1. x \in Nat /\ Filling(d, P, x, taken)
        BY <3>3, <3>4 DEF x
      <4>4. P \in Nat \ {0}
        BY <1>1, <1>2
      <4>2. \E m \in 0 .. P - 1 : EndsAt(d, P, m) /\ m < x
        BY <1>1, <1>2, <4>1, <4>4, FrameEnds
      <4>3. QED
        BY <4>2 DEF x
    <3>6. QED
      BY <3>2, <3>5
  <2>3. QED
    BY <2>1, <2>2
<1>4. QED
  BY <1>2, <1>3

\* The controller hands descriptors back; with the last of a frame the frame is sent.
LEMMA TransmitOrder ==
  ASSUME OrderInv, ReadyInv', Transmit
  PROVE  /\ OrderInv'
         /\ \E m \in Nat : \E k \in 1 .. m + 1 :
              /\ EndsAt(Ahead(q, eng.i), Pend(q, eng.i), m)
              /\ Dist(q.cidx, eng'.i) = Dist(q.cidx, eng.i) + k
              /\ Len(sent') = (IF k = m + 1 THEN Len(sent) + 1 ELSE Len(sent))
              /\ eng'.busy <=> k < m + 1
              /\ \A i \in Ring : q'.bd[i].f = q.bd[i].f
              /\ UNCHANGED <<q.pkt, q.cidx, q.inuse, freed>>
<1> DEFINE a == eng.i
           d == Ahead(q, a)
           P == Pend(q, a)
           n == FrameLen(a)
           last == q.bd[After(a, n - 1)]
           handed(i, k) == [q.bd[i] EXCEPT !.r = FALSE, !.bdu = (q.bd[i].bdu \/ Dist(a, i) = n - 1)]
<1>1. /\ RingOK(q) /\ ReadyOK(q) /\ a \in Ring /\ taken \in Nat /\ Len(sent) \in Nat /\ P \in Nat
      /\ d \in [0 .. P - 1 -> Desc] /\ q.bd \in [Ring -> Desc] /\ sent \in Seq(Nat)
      /\ PlaceOK(q, a) /\ ChainOK(d, P, Len(sent), taken)
  BY OrderTypes DEF RingOK, OrderInv, SentOK, ChainInv
<1>2. P > 0 /\ d[0].r
  BY FirstFrame DEF Transmit
<1>3. PICK m \in 0 .. P - 1 :
        /\ EndsAt(d, P, m)
        /\ \A p \in Process : pc[p] = "ready" => m < Dist(a, cur[p][1])
  BY FirstFrame DEF Transmit
<1>4. n = m + 1
  BY <1>1, <1>3, FrameLenIs
<1> HIDE DEF n
<1>5. PICK k \in 1 .. n :
        /\ q' = [q EXCEPT !.bd = [i \in Ring |-> IF Dist(a, i) < k THEN handed(i, k) ELSE q.bd[i]]]
        /\ eng' = [i |-> After(a, k), busy |-> k < n, missed |-> k < n /\ eng.missed]
        /\ sent' = IF k < n THEN sent ELSE Append(sent, IF last.l THEN last.f ELSE 0)
  <2>1. n \in 1 .. n
    BY <1>1, <1>3, <1>4
  <2>2. QED
    BY <2>1 DEF Transmit, n
<1>6. k \in 1 .. m + 1 /\ k \in 1 .. P /\ n = m + 1 /\ m \in Nat
  <2>1. k \in 1 .. n
    BY <1>5
  <2>2. QED
    BY <1>1, <1>3, <1>4, <2>1
<1>7. /\ RingOK(q') /\ q'.cidx = q.cidx /\ q'.pidx = q.pidx /\ q'.inuse = q.inuse /\ q'.pkt = q.pkt
      /\ \A i \in Ring : q'.bd[i] = IF Dist(a, i) < k THEN handed(i, k) ELSE q.bd[i]
  BY <1>1, <1>5 DEF RingOK, ReadyInv, CountInv
<1>8. \A i \in Ring : /\ Dist(a, i) < k => ~q'.bd[i].r /\ q'.bd[i].l = q.bd[i].l
                      /\ ~(Dist(a, i) < k) => q'.bd[i] = q.bd[i]
                      /\ q'.bd[i].f = q.bd[i].f
  <2> TAKE i \in Ring
  <2>1. q.bd[i] \in Desc
    BY <1>1
  <2>2. ~handed(i, k).r /\ handed(i, k).l = q.bd[i].l /\ handed(i, k).f = q.bd[i].f
    BY <2>1 DEF Desc
  <2> HIDE DEF handed
  <2>3. CASE Dist(a, i) < k
    BY <1>7, <2>2, <2>3
  <2>4. CASE ~(Dist(a, i) < k)
    BY <1>7, <2>4
  <2>5. QED
    BY <2>3, <2>4
<1> DEFINE b == After(a, k)
           g == Ahead(q', b)
           u == IF k = m + 1 THEN Len(sent) + 1 ELSE Len(sent)
<1>9. /\ b \in Ring /\ PlaceOK(q', b) /\ Pend(q', b) = P - k
      /\ Dist(q.cidx, b) = Dist(q.cidx, a) + k
      /\ \A j \in 0 .. P - k - 1 : g[j] = d[j + k]
  <2>1. RingOK(q) /\ a \in Ring /\ PlaceOK(q, a) /\ k \in 1 .. Pend(q, a)
    BY <1>1, <1>6
  <2>2. \A i \in Ring : /\ Dist(a, i) < k => ~q'.bd[i].r /\ q'.bd[i].l = q.bd[i].l
                        /\ ~(Dist(a, i) < k) => q'.bd[i] = q.bd[i]
    BY <1>8
  <2>3. RingOK(q') /\ q'.cidx = q.cidx /\ q'.pidx = q.pidx /\ q'.inuse = q.inuse
    BY <1>7
  <2> HIDE DEF a
  <2>4. HandedBack(q, q', a, k)
    BY <2>2, <2>3 DEF HandedBack
  <2>5. QED
    BY <2>1, <2>4, HandBackOrder
<1>10. g \in [0 .. P - k - 1 -> Desc]
  BY <1>7, <1>9, AheadType
<1>11. eng'.i = b /\ EngOK' /\ (eng'.busy <=> k < m + 1)
  <2>1. eng' = [i |-> b, busy |-> k < n, missed |-> k < n /\ eng.missed]
    BY <1>5
  <2>2. (k < n) \in BOOLEAN /\ (k < n /\ eng.missed) \in BOOLEAN
    OBVIOUS
  <2>3. EngOK'
    BY <1>9, <2>1, <2>2, Zenon DEF EngOK
  <2>4. n = m + 1
    BY <1>6
  <2>5. QED
    BY <2>1, <2>3, <2>4
<1>12. sent' \in Seq(Nat) /\ Len(sent') = u /\ SentOK'
  <2>1. CASE k # m + 1
    <3>1. sent' = sent
      <4>1. k < n
        BY <1>6, <2>1
      <4>2. sent' = IF k < n THEN sent ELSE Append(sent, IF last.l THEN last.f ELSE 0)
        BY <1>5
      <4>3. QED
        BY <4>1, <4>2
    <3>2. QED
      BY <1>1, <2>1, <3>1 DEF OrderInv, SentOK
  <2>2. CASE k = m + 1
    <3>1. sent' = Append(sent, IF last.l THEN last.f ELSE 0) /\ n - 1 = m
      <4>1. ~(k < n) /\ n - 1 = m
        BY <1>6, <2>2
      <4>2. sent' = IF k < n THEN sent ELSE Append(sent, IF last.l THEN last.f ELSE 0)
        BY <1>5
      <4>3. QED
        BY <4>1, <4>2
    <3>2. d[m].l /\ d[m].f = Len(sent) + 1
      BY <1>1, <1>2, <1>3 DEF EndsAt, ChainOK
    <3>3. d[m] = last
      BY <1>1, <1>3, <3>1, AheadType
    <3>4. sent' = Append(sent, Len(sent) + 1)
      BY <3>1, <3>2, <3>3
    <3>5. /\ sent' \in Seq(Nat) /\ Len(sent') = Len(sent) + 1
          /\ \A j \in 1 .. Len(sent) : sent'[j] = sent[j]
          /\ sent'[Len(sent) + 1] = Len(sent) + 1
      BY <1>1, <3>4, AppendProperties
    <3>6. \A j \in 1 .. Len(sent') : sent'[j] = j
      <4>1. \A j \in 1 .. Len(sent) : sent[j] = j
        BY DEF OrderInv, SentOK
      <4>2. QED
        <5> DEFINE l == Len(sent)
        <5> HIDE DEF l
        <5>1. l \in Nat /\ Len(sent') = l + 1 /\ sent'[l + 1] = l + 1 /\ \A j \in 1 .. l : sent'[j] = j
          BY <1>1, <3>5, <4>1 DEF l
        <5>2. QED
          BY <5>1
    <3>7. QED
      BY <2>2, <3>5, <3>6 DEF SentOK
  <2>3. QED
    BY <2>1, <2>2
<1>13. /\ ChainOK(g, P - k, u, taken) /\ (Filled(d, P) => Filled(g, P - k))
       /\ \A x \in m + 1 .. P - 1 : Filling(d, P, x, taken) => Filling(g, P - k, x - k, taken)
  <2> HIDE DEF a, b, d, g, P
  <2>1. QED
    BY <1>1, <1>3, <1>6, <1>9, <1>10, ChainDrop
<1>14. UNCHANGED <<pc, cur, taken, freed>>
  BY DEF Transmit
<1>15. ASSUME NEW p \in Process, pc[p] = "ready"
       PROVE  /\ Filling(g, P - k, Dist(b, cur[p][1]), taken)
              /\ cur[p][2] = After(b, P - k - 1)
  <2>1. Filling(d, P, Dist(a, cur[p][1]), taken) /\ cur[p][2] = After(a, P - 1)
        /\ m < Dist(a, cur[p][1]) /\ cur[p] \in Ring \X Ring
    BY <1>3, <1>15, OrderTypes DEF OrderInv, ChainInv, CurOK
  <2>2. Dist(a, cur[p][1]) \in m + 1 .. P - 1
    BY <1>1, <1>3, <2>1 DEF Filling
  <2>3. Filling(g, P - k, Dist(a, cur[p][1]) - k, taken)
    <3> DEFINE x == Dist(a, cur[p][1])
    <3> HIDE DEF a, b, d, g, P, x
    <3>1. x \in m + 1 .. P - 1 /\ Filling(d, P, x, taken)
      BY <2>1, <2>2 DEF x
    <3>2. Filling(g, P - k, x - k, taken)
      BY <1>13, <3>1
    <3>3. QED
      BY <3>2 DEF x
  <2>4. k \in Ring /\ k <= Dist(a, cur[p][1]) /\ P - 1 - k \in Ring /\ k + (P - 1 - k) < N
        /\ k + (P - 1 - k) = P - 1 /\ P - 1 - k = P - k - 1
    <3>1. P \in Ring
      BY <1>1, AheadPlaces
    <3> HIDE DEF a, P
    <3>2. k >= 1 /\ k <= m + 1 /\ m + 1 <= P - 1 /\ m + 1 <= Dist(a, cur[p][1])
          /\ Dist(a, cur[p][1]) \in Nat
      <4> DEFINE y == Dist(eng.i, cur[p][1])
      <4> HIDE DEF y
      <4>1. y \in m + 1 .. P - 1
        BY <2>2 DEF y, a
      <4>2. k >= 1 /\ k <= m + 1 /\ m + 1 <= P - 1 /\ m + 1 <= y /\ y \in Nat
        BY <1>6, <3>1, <4>1, RingAssumption DEF Ring
      <4>3. QED
        BY <4>2 DEF y, a
    <3>3. QED
      BY <1>6, <3>1, <3>2, RingAssumption DEF Ring
  <2>5. Dist(After(a, k), cur[p][1]) = Dist(a, cur[p][1]) - k
    BY <1>1, <2>1, <2>4, DistMoves
  <2>6. After(After(a, k), P - 1 - k) = After(a, k + (P - 1 - k))
    BY <1>1, <2>4, AfterAfter
  <2>7. QED
    BY <2>1, <2>3, <2>4, <2>5, <2>6
<1>16. ChainInv'
  BY <1>9, <1>11, <1>12, <1>13, <1>14, <1>15 DEF OrderInv, ChainInv
<1>17. BusyInv'
  <2> SUFFICES ASSUME k < m + 1 PROVE q'.bd[b].r
    BY <1>11 DEF BusyInv
  <2>1. k \in 0 .. m /\ 0 \in 0 .. P - k - 1 /\ 0 + k = k
    BY <1>1, <1>3, <1>6
  <2>2. d[k].r
    BY <1>3, <2>1 DEF EndsAt
  <2>3. g[0] = d[k]
    BY <1>9, <2>1
  <2>4. g[0] = q'.bd[After(b, 0)] /\ After(b, 0) = b
    <3>1. 0 \in 0 .. Pend(q', b) - 1
      BY <1>9, <2>1
    <3>2. After(b, 0) = b
      BY <1>9, RingAssumption DEF Ring, After
    <3>3. QED
      BY <1>7, <1>9, <3>1, <3>2, AheadType
  <2>5. QED
    BY <2>2, <2>3, <2>4
<1>18. OrderInv'
  BY <1>9, <1>11, <1>12, <1>16, <1>17 DEF OrderInv
<1>19. QED
  BY <1>3, <1>6, <1>7, <1>8, <1>9, <1>11, <1>12, <1>14, <1>18

\* An idle interface is stopped: nothing is ahead of the controller (mx6q_stop).
LEMMA StopOrder ==
  ASSUME ~StopsBusy, OrderInv, ReadyInv', Stop
  PROVE  OrderInv' /\ Dist(q.cidx, eng.i) = q.inuse /\ taken = Len(sent)
<1> DEFINE s == Reap(q)
           a == eng.i
<1>1. /\ lock = Nobody /\ ~eng.busy /\ s.pidx = s.cidx /\ UNCHANGED <<pc, cur, taken, eng, sent>>
      /\ q' = [bd    |-> [i \in Ring |-> IF s.pkt[i] = 0 THEN s.bd[i]
                                         ELSE [s.bd[i] EXCEPT !.r = FALSE, !.l = FALSE]],
               pkt   |-> [i \in Ring |-> 0],
               pidx  |-> s.cidx, cidx |-> s.cidx, inuse |-> 0]
  BY DEF Stop
<1>2. (\A p \in Process : pc[p] # "ready") /\ Filled(Ahead(q, a), Pend(q, a))
  BY <1>1, NobodyFills DEF Process
<1>3. RingOK(q) /\ a \in Ring /\ taken \in Nat /\ Len(sent) \in Nat
  BY OrderTypes
<1>4. /\ PlaceOK(s, a) /\ Pend(s, a) = Pend(q, a) /\ RingOK(s)
      /\ Dist(s.cidx, a) = Dist(q.cidx, a) - Reapable(q)
  BY <1>2, <1>3, ReapOrder, ReapOK DEF OrderInv
<1>5. Pend(q, a) = q.inuse - Dist(q.cidx, a) /\ Pend(s, a) = s.inuse - Dist(s.cidx, a)
      /\ Dist(s.cidx, a) \in Nat /\ Dist(q.cidx, a) \in Nat /\ q.inuse \in Ring
  BY <1>3, <1>4, AheadPlaces DEF OrderInv, RingOK
<1> HIDE DEF s
<1>6. /\ s.cidx \in Ring /\ s.bd \in [Ring -> Desc] /\ s.inuse = 0
  BY <1>1, <1>4, AfterSame DEF RingOK
<1>7. Dist(s.cidx, a) = 0 /\ Pend(q, a) = 0
  BY <1>4, <1>5, <1>6 DEF PlaceOK
<1>8. a = s.cidx
  BY <1>3, <1>6, <1>7, RingAssumption DEF Ring, Dist
<1>9. taken = Len(sent)
  BY <1>7 DEF OrderInv, ChainInv, ChainOK
<1>10. Dist(q.cidx, a) = q.inuse
  BY <1>5, <1>7, RingAssumption DEF Ring
<1>11. /\ q'.cidx = a /\ q'.pidx = a /\ q'.inuse = 0 /\ Dist(a, a) = 0
  <2>1. Dist(a, a) = 0
    BY <1>3, RingAssumption DEF Ring, Dist
  <2>2. q'.cidx = s.cidx /\ q'.pidx = s.cidx /\ q'.inuse = 0
    BY <1>1
  <2>3. QED
    BY <1>8, <2>1, <2>2
<1>12. ASSUME NEW i \in Ring PROVE ~q'.bd[i].l
  <2>1. Dist(s.cidx, i) >= 0
    <3>1. Dist(s.cidx, i) \in Ring
      BY <1>6, DistType
    <3>2. QED
      BY <3>1, RingAssumption DEF Ring
  <2>2. ~s.bd[i].l /\ s.bd[i] \in Desc
    BY <1>4, <1>6, <2>1 DEF PlaceOK
  <2>3. q'.bd[i] = IF s.pkt[i] = 0 THEN s.bd[i] ELSE [s.bd[i] EXCEPT !.r = FALSE, !.l = FALSE]
    BY <1>1
  <2>4. QED
    BY <2>2, <2>3 DEF Desc
<1>13. PlaceOK(q', a)
  <2>1. \A i \in Ring : Dist(a, i) \in Nat
    <3>1. \A i \in Ring : Dist(a, i) \in Ring
      BY <1>3, DistType
    <3>2. QED
      BY <3>1, RingAssumption DEF Ring
  <2>2. QED
    BY <1>11, <1>12, <2>1 DEF PlaceOK
<1>14. Pend(q', a) = 0
  BY <1>11 DEF Pend
<1>15. ChainInv'
  <2>1. ChainOK(Ahead(q', a), 0, Len(sent), taken)
    BY <1>9 DEF ChainOK
  <2>2. Filled(Ahead(q', a), 0)
    BY DEF Filled
  <2>3. QED
    BY <1>1, <1>2, <1>14, <2>1, <2>2 DEF ChainInv
<1>16. SentOK' /\ EngOK' /\ BusyInv' /\ PlaceOK(q, eng.i)'
  BY <1>1, <1>13 DEF OrderInv, SentOK, EngOK, BusyInv
<1>17. QED
  BY <1>9, <1>10, <1>15, <1>16 DEF OrderInv

\* The steps that leave the ring alone.
LEMMA LockOrder ==
  ASSUME OrderInv, ReadyInv',
         \/ SendFrame \/ Isr \/ Intr \/ MonitorBegin \/ MiiWrite \/ Restart \/ Fetch \/ LookAhead
         \/ \E p \in {"send", "intr"} : Kick(p)
  PROVE  /\ OrderInv' /\ UNCHANGED <<q, sent, freed>>
         /\ eng'.i = eng.i /\ (eng.busy => eng'.busy)
<1>1. UNCHANGED <<q, cur, sent, taken, freed>>
  BY DEF SendFrame, Isr, Intr, IntrRead, IntrStart, IntrKick, IntrEnable, MonitorBegin,
         MiiWrite, Restart, Fetch, LookAhead, Kick, swVars, hwVars
<1>2. eng.i \in Ring /\ eng = [i |-> eng.i, busy |-> eng.busy, missed |-> eng.missed]
      /\ eng.busy \in BOOLEAN /\ eng.missed \in BOOLEAN
  BY DEF OrderInv, EngOK
<1>3. EngOK' /\ BusyInv' /\ eng'.i = eng.i /\ (eng.busy => eng'.busy)
  <2>1. CASE UNCHANGED eng
    BY <1>1, <2>1 DEF OrderInv, EngOK, BusyInv
  <2>2. CASE eng' = [eng EXCEPT !.busy = TRUE] /\ q.bd[eng.i].r
    <3>1. eng' = [i |-> eng.i, busy |-> TRUE, missed |-> eng.missed]
      BY <1>2, <2>2
    <3>2. QED
      BY <1>1, <1>2, <2>2, <3>1 DEF EngOK, BusyInv
  <2>3. CASE eng' = [eng EXCEPT !.missed = TRUE] /\ eng.busy
    <3>1. eng' = [i |-> eng.i, busy |-> eng.busy, missed |-> TRUE]
      BY <1>2, <2>3
    <3>2. QED
      BY <1>1, <1>2, <2>3, <3>1 DEF OrderInv, EngOK, BusyInv
  <2>4. QED
    BY <2>1, <2>2, <2>3
       DEF SendFrame, Isr, Intr, IntrRead, IntrStart, IntrKick, IntrEnable, MonitorBegin,
           MiiWrite, Restart, Fetch, LookAhead, Kick, hwVars
<1>4. pc \in [Process -> Places]
  BY DEF OrderInv, ReadyInv, HoldsInv
<1>5. ASSUME NEW p \in Process PROVE pc'[p] = "ready" <=> pc[p] = "ready"
  <2> USE <1>4 DEF Process
  <2>1. CASE SendFrame \/ Isr
    BY <2>1 DEF SendFrame, Isr, Goto
  <2>2. CASE Intr
    BY <2>2 DEF Intr, IntrRead, IntrStart, IntrKick, IntrEnable, Goto
  <2>3. CASE MonitorBegin \/ MiiWrite \/ \E r \in {"send", "intr"} : Kick(r)
    BY <2>3 DEF MonitorBegin, MiiWrite, Kick, Goto
  <2>4. CASE Restart \/ Fetch \/ LookAhead
    BY <2>4 DEF Restart, Fetch, LookAhead, swVars
  <2>5. QED
    BY <2>1, <2>2, <2>3, <2>4
<1>6. QED
  BY <1>1, <1>3, <1>5, SameOrder

\* The steps that reap the ring with if_snd_ex held, and the monitor that leaves it alone.
LEMMA ReapersOrder ==
  ASSUME OrderInv, ReadyInv',
         \/ MonitorReap
         \/ \E p \in {"send", "intr"} : OutOfDescriptors(p) \/ QueueEmpty(p) \/ DropFrame(p)
  PROVE  /\ OrderInv' /\ UNCHANGED <<eng, sent>>
         /\ \/ UNCHANGED <<q, freed>>
            \/ /\ q' = Reap(q) /\ freed' = freed \cup Frees(q)
               /\ Filled(Ahead(q, eng.i), Pend(q, eng.i))
<1>1. pc \in [Process -> Places] /\ UNCHANGED <<cur, taken, eng, sent>>
  BY DEF MonitorReap, OutOfDescriptors, QueueEmpty, DropFrame, hwVars, OrderInv, ReadyInv, HoldsInv
<1>2. CASE MonitorReap /\ reaped
  <2>1. UNCHANGED <<q, freed>> /\ \A p \in Process : pc'[p] = "ready" <=> pc[p] = "ready"
    BY <1>1, <1>2 DEF MonitorReap, Goto, Process
  <2>2. EngOK' /\ BusyInv'
    BY <1>1, <2>1 DEF OrderInv, EngOK, BusyInv
  <2>3. OrderInv'
    BY <1>1, <2>1, <2>2, SameOrder
  <2>4. QED
    BY <1>1, <2>1, <2>3
<1>3. ASSUME NEW p \in Process, lock = Nobody \/ (lock = p /\ pc[p] # "ready"),
             \/ UNCHANGED <<q, freed>>
             \/ q' = Reap(q) /\ freed' = freed \cup Frees(q),
             \A r \in Process : pc[r] # "ready" => pc'[r] # "ready"
      PROVE  /\ OrderInv'
             /\ \/ UNCHANGED <<q, freed>>
                \/ /\ q' = Reap(q) /\ freed' = freed \cup Frees(q)
                   /\ Filled(Ahead(q, eng.i), Pend(q, eng.i))
  <2>1. Filled(Ahead(q, eng.i), Pend(q, eng.i)) /\ \A r \in Process : pc'[r] # "ready"
    BY <1>3, NobodyFills
  <2>2. OrderInv'
    BY <1>1, <1>3, <2>1, ReapStepOrder
  <2>3. QED
    BY <1>3, <2>1, <2>2
<1>4. CASE MonitorReap /\ ~reaped
  <2>1. lock = Nobody /\ q' = Reap(q) /\ freed' = freed \cup Frees(q)
    BY <1>4 DEF MonitorReap
  <2>2. \A r \in Process : pc[r] # "ready" => pc'[r] # "ready"
    BY <1>1, <1>4 DEF MonitorReap, Goto, Process
  <2>3. "stack" \in Process
    BY DEF Process
  <2>4. QED
    BY <1>1, <1>3, <2>1, <2>2, <2>3
<1>5. ASSUME NEW p \in {"send", "intr"}, OutOfDescriptors(p) \/ QueueEmpty(p) \/ DropFrame(p)
      PROVE  /\ OrderInv'
             /\ \/ UNCHANGED <<q, freed>>
                \/ /\ q' = Reap(q) /\ freed' = freed \cup Frees(q)
                   /\ Filled(Ahead(q, eng.i), Pend(q, eng.i))
  <2>1. p \in Process /\ pc[p] = "loop" /\ lock = p
    BY <1>5 DEF OutOfDescriptors, QueueEmpty, DropFrame, Goto, Process, OrderInv, ReadyInv, HoldsInv
  <2>2. \/ UNCHANGED <<q, freed>>
        \/ q' = Reap(q) /\ freed' = freed \cup Frees(q)
    <3>1. q' = Looked /\ freed' = freed \cup IF Short(q) THEN Frees(q) ELSE {}
      BY <1>5 DEF OutOfDescriptors, QueueEmpty, DropFrame, LookAtRing
    <3>2. QED
      BY <3>1 DEF Looked
  <2>3. \A r \in Process : pc[r] # "ready" => pc'[r] # "ready"
    BY <1>1, <1>5 DEF OutOfDescriptors, QueueEmpty, DropFrame, Goto, Home, Process
  <2>4. QED
    BY <1>3, <2>1, <2>2, <2>3
<1>6. QED
  BY <1>1, <1>2, <1>4, <1>5

LEMMA OrderInit == Init => OrderInv
<1> SUFFICES ASSUME Init PROVE OrderInv
  OBVIOUS
<1>1. 0 \in Ring /\ Dist(0, 0) = 0 /\ \A i \in Ring : Dist(0, i) \in Nat
  BY RingAssumption DEF Ring, Dist
<1>2. /\ q.cidx = 0 /\ q.pidx = 0 /\ q.inuse = 0 /\ \A i \in Ring : ~q.bd[i].r /\ ~q.bd[i].l
  BY DEF Init, Clean
<1>3. eng = [i |-> 0, busy |-> FALSE, missed |-> FALSE] /\ sent = <<>> /\ taken = 0
      /\ \A p \in Process : pc[p] # "ready"
  BY DEF Init
<1>4. SentOK /\ EngOK /\ BusyInv
  BY <1>1, <1>3 DEF SentOK, EngOK, BusyInv
<1>5. PlaceOK(q, eng.i) /\ Pend(q, eng.i) = 0
  BY <1>1, <1>2, <1>3 DEF PlaceOK, Pend
<1>6. ChainInv
  <2>1. Len(sent) = 0
    BY <1>3
  <2>2. ChainOK(Ahead(q, eng.i), 0, 0, 0) /\ Filled(Ahead(q, eng.i), 0)
    BY DEF ChainOK, Filled
  <2>3. QED
    BY <1>3, <1>5, <2>1, <2>2 DEF ChainInv
<1>7. QED
  BY <1>4, <1>5, <1>6, ReadyInit DEF OrderInv

LEMMA OrderStep == ASSUME ~StopsBusy PROVE OrderInv /\ [Next]_vars => OrderInv'
<1> SUFFICES ASSUME OrderInv, [Next]_vars PROVE OrderInv'
  OBVIOUS
<1>1. ReadyInv'
  BY ReadyStep DEF OrderInv
<1>2. CASE UNCHANGED vars
  <2>1. UNCHANGED <<q, cur, sent, taken, eng, pc>>
    BY <1>2 DEF vars, swVars, hwVars
  <2>2. EngOK' /\ BusyInv'
    BY <2>1 DEF OrderInv, EngOK, BusyInv
  <2>3. QED
    BY <1>1, <2>1, <2>2, SameOrder
<1>3. CASE \E p \in {"send", "intr"} : TakeFrame(p) \/ FrameReady(p)
  BY <1>1, <1>3, TakeOrder, FrameReadyOrder DEF Process
<1>4. QED
  BY <1>1, <1>2, <1>3, ReapersOrder, LockOrder, StopOrder, TransmitOrder DEF Next, Start, Monitor

\* Frames leave whole, in the order the stack queued them, each once, for every ring, number
\* of fragments and number of frames, whatever kicks the controller ignores and however it
\* hands descriptors back, if the interface is stopped when nothing is pending (mx6q_start,
\* mx6q_tx, mx6q_transmit_complete).
THEOREM FramesInOrder == ASSUME ~StopsBusy PROVE Spec => []SentInOrder
<1>1. Init => OrderInv
  BY OrderInit
<1>2. OrderInv /\ [Next]_vars => OrderInv'
  BY OrderStep
<1>3. OrderInv => SentInOrder
  <2> SUFFICES ASSUME OrderInv PROVE SentInOrder
    OBVIOUS
  <2>1. sent \in Seq(Nat) /\ \A k \in 1 .. Len(sent) : sent[k] = k
    BY DEF OrderInv, SentOK
  <2>2. DOMAIN sent = 1 .. Len(sent)
    BY <2>1, LenProperties
  <2>3. QED
    BY <2>1, <2>2 DEF SentInOrder
<1>4. QED
  BY <1>1, <1>2, <1>3, PTL DEF Spec

-----------------------------------------------------------------------------
(* The buffers of the frames *)

\* A buffer is kept with the first descriptor of its frame while that is in use, and the
\* frames in the descriptors before place a are among the first u.
BuffersOK(s, a, u) ==
  /\ \A i \in Ring : s.pkt[i] \in {0, s.bd[i].f}
  /\ \A i \in Ring : Dist(s.cidx, i) >= s.inuse => s.pkt[i] = 0
  /\ \A i \in Ring : Dist(s.cidx, i) < Dist(s.cidx, a) => s.bd[i].f <= u

\* The frames that have been sent, and the one the controller is sending.
Underway == IF eng.busy THEN Len(sent) + 1 ELSE Len(sent)

\* Only the buffers of those frames are freed.
FreedInv ==
  OrderInv /\ BuffersOK(q, eng.i, Underway) /\ \A f \in freed : f \in Nat /\ f <= Underway

\* What holds with u holds with more.
LEMMA BuffersMore ==
  ASSUME NEW s, RingOK(s), NEW a \in Ring, NEW u \in Nat, NEW w \in Nat, u <= w,
         BuffersOK(s, a, u)
  PROVE  BuffersOK(s, a, w)
<1>1. ASSUME NEW i \in Ring, s.bd[i].f <= u PROVE s.bd[i].f <= w
  <2>1. s.bd[i].f \in Nat
    BY DEF RingOK, Desc
  <2>2. QED
    BY <1>1, <2>1
<1>2. QED
  BY <1>1 DEF BuffersOK

\* A reaping frees the buffers of frames that have been sent (mx6q_transmit_complete).
LEMMA ReapBuffers ==
  ASSUME NEW s, RingOK(s), NEW a \in Ring, PlaceOK(s, a), Filled(Ahead(s, a), Pend(s, a)),
         NEW u \in Nat, BuffersOK(s, a, u)
  PROVE  BuffersOK(Reap(s), a, u) /\ \A f \in Frees(s) : f \in Nat /\ f <= u
<1> DEFINE t == Reap(s)
           n == Reapable(s)
<1>1. n \in Nat /\ n <= Dist(s.cidx, a)
  BY ReapBehind
<1>2. /\ Dist(t.cidx, a) = Dist(s.cidx, a) - n
      /\ \A i \in Ring : ~Window(s, i) =>
           t.bd[i] = s.bd[i] /\ Dist(t.cidx, i) = Dist(s.cidx, i) - n
  BY ReapOrder
<1>3. t.inuse = s.inuse - n /\ s.inuse \in Nat
  BY DEF Reap, RingOK, Ring
<1>4. \A i \in Ring : Dist(s.cidx, i) \in Nat /\ Dist(t.cidx, i) \in Nat
  <2>1. s.cidx \in Ring /\ t.cidx \in Ring
    BY ReapOK DEF RingOK
  <2>2. \A i \in Ring : Dist(s.cidx, i) \in Ring /\ Dist(t.cidx, i) \in Ring
    BY <2>1, DistType
  <2>3. QED
    BY <2>2 DEF Ring
<1>5. \A i \in Ring : /\ Window(s, i) => t.bd[i].f = 0 /\ t.pkt[i] = 0
                      /\ ~Window(s, i) => t.pkt[i] = s.pkt[i]
  BY DEF Reap, Clean
<1>6. \A i \in Ring : Window(s, i) <=> Dist(s.cidx, i) < n
  BY DEF Window
<1> HIDE DEF t, n
<1>7. ASSUME NEW i \in Ring PROVE t.pkt[i] \in {0, t.bd[i].f}
  BY <1>2, <1>5 DEF BuffersOK
<1>8. ASSUME NEW i \in Ring, Dist(t.cidx, i) >= t.inuse PROVE t.pkt[i] = 0
  <2>1. CASE Window(s, i)
    BY <1>5, <2>1
  <2>2. CASE ~Window(s, i)
    <3>1. Dist(s.cidx, i) >= s.inuse
      BY <1>1, <1>2, <1>3, <1>4, <1>8, <2>2
    <3>2. QED
      BY <1>5, <2>2, <3>1 DEF BuffersOK
  <2>3. QED
    BY <2>1, <2>2
<1>9. ASSUME NEW i \in Ring, Dist(t.cidx, i) < Dist(t.cidx, a) PROVE t.bd[i].f <= u
  <2>1. CASE Window(s, i)
    BY <1>5, <2>1
  <2>2. CASE ~Window(s, i)
    <3>1. Dist(s.cidx, i) < Dist(s.cidx, a)
      BY <1>1, <1>2, <1>4, <1>9, <2>2
    <3>2. QED
      BY <1>2, <2>2, <3>1 DEF BuffersOK
  <2>3. QED
    BY <2>1, <2>2
<1>10. ASSUME NEW f \in Frees(s) PROVE f \in Nat /\ f <= u
  <2>1. PICK i \in Ring : Window(s, i) /\ f = s.pkt[i] /\ f # 0
    BY <1>10 DEF Frees
  <2>2. Dist(s.cidx, i) < Dist(s.cidx, a)
    BY <1>1, <1>4, <1>6, <2>1
  <2>3. s.bd[i].f <= u /\ f = s.bd[i].f
    BY <2>1, <2>2 DEF BuffersOK
  <2>4. s.pkt[i] \in Nat
    BY DEF RingOK
  <2>5. QED
    BY <2>1, <2>3, <2>4
<1>11. QED
  BY <1>7, <1>8, <1>9, <1>10 DEF BuffersOK, t

\* A frame that is put in the ring keeps its buffer with its first descriptor (mx6q_tx).
LEMMA LoadBuffers ==
  ASSUME NEW s, RingOK(s), NEW a \in Ring, PlaceOK(s, a), ~Short(s), NEW f \in Nat,
         NEW n \in 1 .. MaxFrags, NEW u \in Nat, BuffersOK(s, a, u)
  PROVE  BuffersOK(Load(s, f, n), a, u)
<1> DEFINE t == Load(s, f, n)
<1>1. /\ s.cidx \in Ring /\ s.pidx \in Ring /\ s.inuse \in Ring /\ s.pidx = After(s.cidx, s.inuse)
      /\ s.inuse + n < N /\ n \in Nat /\ s.inuse \in Nat
  BY RingAssumption DEF RingOK, Short, Ring
<1>2. t.cidx = s.cidx /\ t.inuse = s.inuse + n /\ t.pkt = [s.pkt EXCEPT ![s.pidx] = f]
      /\ t.bd = Fill(s, f, n) /\ s.pkt \in [Ring -> Nat] /\ s.bd \in [Ring -> Desc]
  BY DEF Load, RingOK
<1>3. ASSUME NEW i \in Ring
      PROVE  /\ Dist(s.pidx, i) < n => t.bd[i].f = f
             /\ ~(Dist(s.pidx, i) < n) => t.bd[i] = s.bd[i]
  <2>1. s.bd[i] \in Desc
    BY <1>2
  <2>2. [s.bd[i] EXCEPT !.f = f, !.r = (i # s.pidx)].f = f
    BY <2>1 DEF Desc
  <2>3. QED
    BY <1>2, <2>2 DEF Fill
<1> HIDE DEF t
<1>4. \A i \in Ring : Dist(s.cidx, i) \in Nat
  <2>1. \A i \in Ring : Dist(s.cidx, i) \in Ring
    BY <1>1, DistType
  <2>2. QED
    BY <2>1 DEF Ring
<1>5. ASSUME NEW i \in Ring, Dist(s.pidx, i) < n PROVE Dist(s.cidx, i) >= s.inuse
  <2>1. Dist(s.cidx, i) < s.inuse => ~(Dist(s.pidx, i) < n)
    BY <1>1, DistBack
  <2>2. QED
    BY <1>1, <1>4, <1>5, <2>1
<1>6. Dist(s.cidx, s.pidx) = s.inuse /\ Dist(s.pidx, s.pidx) < n
  <2>1. Dist(s.pidx, s.pidx) = 0
    BY <1>1, RingAssumption DEF Ring, Dist
  <2>2. QED
    BY <1>1, <2>1, DistAfter
<1>7. ASSUME NEW i \in Ring PROVE t.pkt[i] \in {0, t.bd[i].f}
  <2>1. CASE i = s.pidx
    BY <1>1, <1>2, <1>3, <1>6, <2>1
  <2>2. CASE i # s.pidx
    <3>1. t.pkt[i] = s.pkt[i]
      BY <1>2, <2>2
    <3>2. CASE Dist(s.pidx, i) < n
      BY <1>5, <3>1, <3>2 DEF BuffersOK
    <3>3. CASE ~(Dist(s.pidx, i) < n)
      BY <1>3, <3>1, <3>3 DEF BuffersOK
    <3>4. QED
      BY <3>2, <3>3
  <2>3. QED
    BY <2>1, <2>2
<1>8. ASSUME NEW i \in Ring, Dist(t.cidx, i) >= t.inuse PROVE t.pkt[i] = 0
  <2>1. Dist(s.cidx, i) >= s.inuse + n
    BY <1>2, <1>8
  <2>2. i # s.pidx /\ Dist(s.cidx, i) >= s.inuse
    BY <1>1, <1>4, <1>6, <2>1
  <2>3. t.pkt[i] = s.pkt[i]
    BY <1>2, <2>2
  <2>4. QED
    BY <2>2, <2>3 DEF BuffersOK
<1>9. ASSUME NEW i \in Ring, Dist(t.cidx, i) < Dist(t.cidx, a) PROVE t.bd[i].f <= u
  <2>1. Dist(s.cidx, i) < Dist(s.cidx, a) /\ Dist(s.cidx, a) <= s.inuse
    BY <1>2, <1>9 DEF PlaceOK
  <2>2. ~(Dist(s.cidx, i) >= s.inuse)
    BY <1>1, <1>4, <2>1
  <2>3. t.bd[i] = s.bd[i]
    BY <1>3, <1>5, <2>2
  <2>4. QED
    BY <2>1, <2>3 DEF BuffersOK
<1>10. QED
  BY <1>7, <1>8, <1>9 DEF BuffersOK, t

\* The ring is looked at and a frame is put in it, or the frame that was is marked READY.
LEMMA TakeBuffers ==
  ASSUME FreedInv, OrderInv', NEW p \in Process, TakeFrame(p)
  PROVE  FreedInv'
<1> DEFINE s == Looked
           a == eng.i
           u == Underway
<1>1. pc[p] = "loop" /\ lock = p /\ OrderInv
  BY DEF TakeFrame, FreedInv, OrderInv, ReadyInv, HoldsInv
<1>2. Filled(Ahead(q, a), Pend(q, a))
  BY <1>1, NobodyFills
<1>3. RingOK(q) /\ ReadyOK(q) /\ PlaceOK(q, a) /\ a \in Ring /\ taken + 1 \in Nat /\ u \in Nat
  BY <1>1, OrderTypes DEF OrderInv, Underway
<1>4. RingOK(s) /\ ReadyOK(s) /\ ~Short(s)
  BY <1>3, LookedOK, LookedReady DEF TakeFrame
<1>5. PlaceOK(s, a)
  BY <1>2, <1>3, ReapOrder DEF Looked
<1>6. BuffersOK(s, a, u) /\ \A f \in Frees(q) : f \in Nat /\ f <= u
  BY <1>2, <1>3, ReapBuffers DEF FreedInv, Looked
<1>7. PICK n \in 1 .. MaxFrags :
        Hit(s, n) = n =>
          /\ q' = Load(s, taken + 1, n)
          /\ freed' = freed \cup IF Short(q) THEN Frees(q) ELSE {}
  BY DEF TakeFrame
<1>8. Hit(s, n) = n
  BY <1>4, HitNever
<1>9. UNCHANGED <<eng, sent>>
  BY DEF TakeFrame, hwVars
<1> HIDE DEF s
<1>10. BuffersOK(q', a, u)
  BY <1>3, <1>4, <1>5, <1>6, <1>7, <1>8, LoadBuffers
<1>11. \A f \in freed' : f \in Nat /\ f <= u
  BY <1>6, <1>7, <1>8 DEF FreedInv
<1>12. QED
  BY <1>9, <1>10, <1>11 DEF FreedInv, Underway

LEMMA FrameReadyBuffers ==
  ASSUME FreedInv, OrderInv', NEW p \in Process, FrameReady(p)
  PROVE  FreedInv'
<1>1. q' = MarkReady(q, cur[p]) /\ UNCHANGED <<eng, sent, freed>>
  BY DEF FrameReady, hwVars
<1>2. RingOK(q) /\ cur[p] \in Ring \X Ring
  BY OrderTypes DEF FreedInv, CurOK
<1>3. q'.cidx = q.cidx /\ q'.inuse = q.inuse /\ q'.pkt = q.pkt
  BY <1>1, <1>2 DEF MarkReady, RingOK
<1>4. \A i \in Ring : q'.bd[i].f = q.bd[i].f
  <2>1. q.bd \in [Ring -> Desc]
    BY <1>2 DEF RingOK
  <2>2. q'.bd = [[q.bd EXCEPT ![cur[p][2]].l = TRUE] EXCEPT ![cur[p][1]].r = TRUE]
    BY <1>1, <1>2 DEF MarkReady, RingOK
  <2>3. [q.bd EXCEPT ![cur[p][2]].l = TRUE] \in [Ring -> Desc]
        /\ \A i \in Ring : [q.bd EXCEPT ![cur[p][2]].l = TRUE][i].f = q.bd[i].f
    BY <2>1 DEF Desc
  <2>4. QED
    BY <2>2, <2>3 DEF Desc
<1>5. QED
  BY <1>1, <1>3, <1>4 DEF FreedInv, BuffersOK, Underway

\* The descriptors the controller hands back are of the frame it is sending.
LEMMA TransmitBuffers ==
  ASSUME FreedInv, ReadyInv', Transmit
  PROVE  FreedInv'
<1> DEFINE a == eng.i
           d == Ahead(q, a)
           P == Pend(q, a)
           u == Len(sent)
<1>1. OrderInv /\ RingOK(q) /\ a \in Ring /\ u \in Nat /\ P \in Nat /\ PlaceOK(q, a)
      /\ ChainOK(d, P, u, taken) /\ q.inuse \in Nat /\ q.cidx \in Ring
  <2>1. OrderInv
    BY DEF FreedInv
  <2>2. QED
    BY <2>1, OrderTypes DEF OrderInv, ChainInv, RingOK, Ring
<1>2. PICK m \in Nat : \E k \in 1 .. m + 1 :
        /\ OrderInv' /\ EndsAt(d, P, m)
        /\ Dist(q.cidx, eng'.i) = Dist(q.cidx, a) + k
        /\ Len(sent') = (IF k = m + 1 THEN u + 1 ELSE u)
        /\ eng'.busy <=> k < m + 1
        /\ \A i \in Ring : q'.bd[i].f = q.bd[i].f
        /\ UNCHANGED <<q.pkt, q.cidx, q.inuse, freed>>
  BY <1>1, TransmitOrder
<1> HIDE DEF a, d, P
<1>3. PICK k \in 1 .. m + 1 :
        /\ OrderInv' /\ EndsAt(d, P, m)
        /\ Dist(q.cidx, eng'.i) = Dist(q.cidx, a) + k
        /\ Len(sent') = (IF k = m + 1 THEN u + 1 ELSE u)
        /\ eng'.busy <=> k < m + 1
        /\ \A i \in Ring : q'.bd[i].f = q.bd[i].f
        /\ UNCHANGED <<q.pkt, q.cidx, q.inuse, freed>>
  BY <1>2
<1>4. Underway = u + 1 /\ Underway' = u + 1
  <2>1. Underway = u + 1
    BY DEF Underway, Transmit
  <2>2. CASE k = m + 1
    <3>1. ~eng'.busy /\ Len(sent') = u + 1
      BY <1>3, <2>2
    <3>2. QED
      BY <2>1, <3>1 DEF Underway
  <2>3. CASE k # m + 1
    <3>1. eng'.busy /\ Len(sent') = u
      BY <1>3, <2>3
    <3>2. QED
      BY <2>1, <3>1 DEF Underway
  <2>4. QED
    BY <2>2, <2>3
<1>5. \A i \in Ring : Dist(q.cidx, i) \in Nat
  <2>1. \A i \in Ring : Dist(q.cidx, i) \in Ring
    BY <1>1, DistType
  <2>2. QED
    BY <2>1 DEF Ring
<1>6. ASSUME NEW i \in Ring, Dist(q.cidx, i) < Dist(q.cidx, a) + k PROVE q.bd[i].f <= u + 1
  <2>1. q.bd[i].f \in Nat
    BY <1>1 DEF RingOK, Desc
  <2>2. CASE Dist(q.cidx, i) < Dist(q.cidx, a)
    BY <1>4, <2>2 DEF FreedInv, BuffersOK, a
  <2>3. CASE ~(Dist(q.cidx, i) < Dist(q.cidx, a))
    <3>1. /\ P = q.inuse - Dist(q.cidx, a) /\ m < P /\ Dist(q.cidx, a) \in Nat
          /\ \A j \in 0 .. P - 1 : Dist(q.cidx, After(a, j)) = Dist(q.cidx, a) + j
      BY <1>1, <1>3, AheadPlaces DEF EndsAt, P
    <3>2. Dist(q.cidx, a) <= Dist(q.cidx, i) /\ Dist(q.cidx, i) < q.inuse
      BY <1>1, <1>5, <1>6, <2>3, <3>1
    <3>3. Dist(a, i) \in 0 .. P - 1 /\ After(a, Dist(a, i)) = i
      BY <1>1, <3>2, AheadPlaces DEF P
    <3>4. Dist(q.cidx, i) = Dist(q.cidx, a) + Dist(a, i)
      BY <3>1, <3>3
    <3>5. Dist(a, i) \in 0 .. m
      BY <1>1, <1>5, <1>6, <3>1, <3>3, <3>4
    <3>6. d[Dist(a, i)] = q.bd[i]
      BY <1>1, <3>3, AheadType DEF d, P
    <3>7. d[Dist(a, i)].f = d[0].f /\ d[0].f = u + 1
      BY <1>1, <1>3, <3>1, <3>5 DEF EndsAt, ChainOK
    <3>8. QED
      BY <1>1, <3>6, <3>7
  <2>4. QED
    BY <2>2, <2>3
<1>7. BuffersOK(q', eng'.i, u + 1)
  BY <1>3, <1>6 DEF FreedInv, BuffersOK
<1>8. \A f \in freed' : f \in Nat /\ f <= u + 1
  BY <1>3, <1>4 DEF FreedInv
<1>9. QED
  BY <1>3, <1>4, <1>7, <1>8 DEF FreedInv

\* What is left of the buffers when an idle interface is stopped is of frames that were sent.
LEMMA StopBuffers ==
  ASSUME ~StopsBusy, FreedInv, ReadyInv', Stop
  PROVE  FreedInv'
<1>1. OrderInv /\ OrderInv' /\ Dist(q.cidx, eng.i) = q.inuse /\ taken = Len(sent)
  BY StopOrder DEF FreedInv
<1>2. /\ UNCHANGED <<eng, sent>> /\ Underway = Len(sent) /\ Underway' = Len(sent) /\ q'.inuse = 0 /\ q'.pkt = [i \in Ring |-> 0]
      /\ freed' = freed \cup ({q.pkt[i] : i \in Ring} \ {0})
  BY DEF Stop, Underway
<1>3. RingOK(q) /\ RingOK(q') /\ eng.i \in Ring /\ PlaceOK(q', eng.i)
  BY <1>1, <1>2, OrderTypes DEF OrderInv, ReadyInv, CountInv
<1>4. \A i \in Ring : Dist(q.cidx, i) \in Nat /\ Dist(q'.cidx, i) \in Nat
  <2>1. q.cidx \in Ring /\ q'.cidx \in Ring
    BY <1>3 DEF RingOK
  <2>2. \A i \in Ring : Dist(q.cidx, i) \in Ring /\ Dist(q'.cidx, i) \in Ring
    BY <2>1, DistType
  <2>3. QED
    BY <2>2 DEF Ring
<1>5. BuffersOK(q', eng.i, Len(sent))
  <2>1. Dist(q'.cidx, eng.i) <= 0
    BY <1>2, <1>3 DEF PlaceOK
  <2>2. \A i \in Ring : ~(Dist(q'.cidx, i) < Dist(q'.cidx, eng.i))
    BY <1>3, <1>4, <2>1
  <2>3. QED
    BY <1>2, <2>2 DEF BuffersOK
<1>6. ASSUME NEW i \in Ring, q.pkt[i] # 0 PROVE q.pkt[i] \in Nat /\ q.pkt[i] <= Len(sent)
  <2>1. q.inuse \in Nat /\ q.pkt[i] \in Nat
    <3>1. q.inuse \in Ring /\ q.pkt \in [Ring -> Nat]
      BY <1>3 DEF RingOK
    <3>2. QED
      BY <3>1, RingAssumption DEF Ring
  <2>2. Dist(q.cidx, i) < q.inuse
    BY <1>4, <1>6, <2>1 DEF FreedInv, BuffersOK
  <2>3. q.bd[i].f <= Len(sent) /\ q.pkt[i] = q.bd[i].f
    BY <1>1, <1>2, <1>6, <2>2 DEF FreedInv, BuffersOK
  <2>4. QED
    BY <2>1, <2>3
<1>7. \A f \in freed' : f \in Nat /\ f <= Len(sent)
  BY <1>2, <1>6 DEF FreedInv
<1>8. QED
  BY <1>1, <1>2, <1>5, <1>7 DEF FreedInv

\* The steps that change neither what was sent nor the controller's place.
LEMMA ReapStepBuffers ==
  ASSUME FreedInv, OrderInv', UNCHANGED sent, eng'.i = eng.i, eng.busy => eng'.busy,
         \/ UNCHANGED <<q, freed>>
         \/ /\ q' = Reap(q) /\ freed' = freed \cup Frees(q)
            /\ Filled(Ahead(q, eng.i), Pend(q, eng.i))
  PROVE  FreedInv'
<1>1. /\ RingOK(q) /\ RingOK(q') /\ PlaceOK(q, eng.i) /\ eng.i \in Ring
      /\ Underway \in Nat /\ Underway' \in Nat /\ Underway <= Underway'
  <2>1. OrderInv /\ Len(sent) \in Nat
    BY OrderTypes DEF FreedInv
  <2>2. Underway \in Nat /\ Underway' \in Nat /\ Underway <= Underway'
    BY <2>1 DEF Underway
  <2>3. QED
    BY <2>1, <2>2, OrderTypes DEF OrderInv, ReadyInv, CountInv
<1>2. /\ BuffersOK(q', eng.i, Underway)
      /\ \A f \in freed' : f \in Nat /\ f <= Underway
  <2>1. CASE UNCHANGED <<q, freed>>
    BY <2>1 DEF FreedInv, BuffersOK
  <2>2. CASE /\ q' = Reap(q) /\ freed' = freed \cup Frees(q)
             /\ Filled(Ahead(q, eng.i), Pend(q, eng.i))
    <3>1. BuffersOK(q', eng.i, Underway) /\ \A f \in Frees(q) : f \in Nat /\ f <= Underway
      BY <1>1, <2>2, ReapBuffers DEF FreedInv
    <3>2. QED
      BY <2>2, <3>1 DEF FreedInv
  <2>3. QED
    BY <2>1, <2>2
<1>3. BuffersOK(q', eng.i, Underway')
  BY <1>1, <1>2, BuffersMore
<1>4. \A f \in freed' : f \in Nat /\ f <= Underway'
  BY <1>1, <1>2
<1>5. QED
  BY <1>3, <1>4 DEF FreedInv

LEMMA FreedStep ==
  ASSUME ~StopsBusy PROVE FreedInv /\ [Next]_vars => FreedInv'
<1> SUFFICES ASSUME FreedInv, [Next]_vars PROVE FreedInv'
  OBVIOUS
<1>1. OrderInv /\ OrderInv' /\ ReadyInv'
  BY OrderStep DEF FreedInv, OrderInv
<1>2. CASE UNCHANGED vars
  BY <1>1, <1>2, ReapStepBuffers DEF vars, swVars, hwVars
<1>3. CASE \E p \in {"send", "intr"} : TakeFrame(p) \/ FrameReady(p)
  BY <1>1, <1>3, TakeBuffers, FrameReadyBuffers DEF Process
<1>4. CASE \/ SendFrame \/ Isr \/ Intr \/ MonitorBegin \/ MiiWrite \/ Restart \/ Fetch \/ LookAhead
           \/ \E p \in {"send", "intr"} : Kick(p)
  <2>1. UNCHANGED <<q, sent, freed>> /\ eng'.i = eng.i /\ (eng.busy => eng'.busy)
    BY <1>1, <1>4, LockOrder
  <2>2. QED
    BY <1>1, <2>1, ReapStepBuffers
<1>5. CASE \/ MonitorReap
           \/ \E p \in {"send", "intr"} : OutOfDescriptors(p) \/ QueueEmpty(p) \/ DropFrame(p)
  <2>1. /\ UNCHANGED <<eng, sent>>
        /\ \/ UNCHANGED <<q, freed>>
           \/ /\ q' = Reap(q) /\ freed' = freed \cup Frees(q)
              /\ Filled(Ahead(q, eng.i), Pend(q, eng.i))
    BY <1>1, <1>5, ReapersOrder
  <2>2. QED
    BY <1>1, <2>1, ReapStepBuffers
<1>6. QED
  BY <1>1, <1>2, <1>3, <1>4, <1>5, StopBuffers, TransmitBuffers DEF Next, Start, Monitor

\* Of the descriptors the controller owns only those of the frame it is sending may have their
\* buffers freed, for every ring, number of fragments and number of frames, however it hands
\* descriptors back, if the interface is stopped when nothing is pending
\* (mx6q_transmit_complete, mx6q_tx, mx6q_stop).
THEOREM LiveBuffers == ASSUME ~StopsBusy PROVE Spec => []FreedIsUnderway
<1>1. Init => FreedInv
  <2> SUFFICES ASSUME Init PROVE FreedInv
    OBVIOUS
  <2>1. OrderInv
    BY OrderInit
  <2>2. freed = {} /\ \A i \in Ring : q.pkt[i] = 0 /\ q.bd[i].f = 0
    BY DEF Init, Clean
  <2>3. Len(sent) \in Nat
    BY <2>1, OrderTypes
  <2>4. QED
    BY <2>1, <2>2, <2>3 DEF FreedInv, BuffersOK, Underway, Init
<1>2. FreedInv /\ [Next]_vars => FreedInv'
  BY FreedStep
<1>3. FreedInv => FreedIsUnderway
  <2> SUFFICES ASSUME FreedInv, NEW i \in Ring, q.bd[i].r, q.bd[i].f \in freed
               PROVE  eng.busy /\ Dist(eng.i, i) < FrameLen(eng.i)
    BY DEF FreedIsUnderway
  <2> DEFINE a == eng.i
             d == Ahead(q, a)
             P == Pend(q, a)
  <2>1. OrderInv
    BY DEF FreedInv
  <2>2. RingOK(q) /\ ReadyOK(q) /\ a \in Ring /\ Len(sent) \in Nat /\ P \in Nat /\ PlaceOK(q, a)
        /\ ChainOK(d, P, Len(sent), taken) /\ d \in [0 .. P - 1 -> Desc]
    BY <2>1, OrderTypes DEF OrderInv, ChainInv
  <2>3. Dist(q.cidx, i) < q.inuse /\ ~(Dist(q.cidx, i) < Dist(q.cidx, a))
    BY <2>2 DEF ReadyOK, PlaceOK
  <2>4. Dist(q.cidx, i) \in Ring /\ Dist(q.cidx, a) \in Ring
    BY <2>2, DistType DEF RingOK
  <2>5. Dist(a, i) \in 0 .. P - 1 /\ After(a, Dist(a, i)) = i
    <3>1. Dist(q.cidx, a) <= Dist(q.cidx, i)
      BY <2>3, <2>4, RingAssumption DEF Ring
    <3>2. QED
      BY <2>2, <2>3, <3>1, AheadPlaces
  <2>6. d[Dist(a, i)] = q.bd[i]
    BY <2>2, <2>5, AheadType
  <2> DEFINE k == Dist(a, i)
  <2> HIDE DEF d, P, k
  <2>7. d[0].f = Len(sent) + 1 /\ d[0].f <= d[k].f
    <3>1. k \in 0 .. P - 1
      BY <2>5 DEF k
    <3>2. d[0].f = Len(sent) + 1
      BY <2>2, <3>1 DEF ChainOK
    <3>3. k > 0 => d[0].f <= d[k].f
      BY <2>2, <3>1 DEF ChainOK
    <3>4. QED
      BY <2>2, <3>1, <3>2, <3>3
  <2>8. eng.busy /\ d[k].f = Len(sent) + 1
    <3>1. q.bd[i].f \in Nat /\ q.bd[i].f <= Underway
      BY <2>2 DEF RingOK, Desc, FreedInv
    <3>2. d[k].f = q.bd[i].f
      BY <2>6 DEF k
    <3>3. Underway > Len(sent)
      BY <2>2, <2>7, <3>1, <3>2 DEF Underway
    <3>4. eng.busy /\ Underway = Len(sent) + 1
      BY <2>2, <3>3 DEF Underway
    <3>5. QED
      BY <2>2, <2>7, <3>1, <3>2, <3>4
  <2>9. PICK m \in 0 .. P - 1 : EndsAt(d, P, m)
    BY <2>1, <2>8, FirstFrame DEF d, P
  <2>10. FrameLen(a) = m + 1
    BY <2>2, <2>9, FrameLenIs DEF d, P
  <2>11. k <= m
    <3> SUFFICES ASSUME k > m PROVE FALSE
      BY <2>2, <2>5 DEF k
    <3>1. k \in 0 .. P - 1 /\ m + 1 \in 1 .. P - 1 /\ (m + 1) - 1 = m /\ m + 1 <= k
      BY <2>2, <2>5 DEF k
    <3>2. d[m].l /\ d[m].f = Len(sent) + 1
      BY <2>2, <2>7, <2>9, <3>1 DEF EndsAt, ChainOK
    <3>3. d[m + 1].f = d[m].f + 1
      BY <2>2, <3>1, <3>2 DEF ChainOK
    <3>4. d[m + 1].f <= d[k].f
      <4>1. CASE m + 1 = k
        BY <2>2, <3>2, <3>3, <4>1
      <4>2. CASE m + 1 < k
        BY <2>2, <3>1, <4>2 DEF ChainOK
      <4>3. QED
        BY <3>1, <4>1, <4>2
    <3>5. QED
      BY <2>2, <2>8, <3>2, <3>3, <3>4
  <2>12. QED
    BY <2>5, <2>8, <2>10, <2>11 DEF k
<1>4. QED
  BY <1>1, <1>2, <1>3, PTL DEF Spec

-----------------------------------------------------------------------------
(* The receive side. *)

\* A frame that is put in the queue has a first fragment.
PutInv == rx = "put" => rpkt # <<>>

Typed == RxTypeOK /\ PutInv

\* The work on the queue that has found it empty keeps rx_mutex, and nobody else does.
MutexInv == /\ mutex = "work" <=> work = "enable"
            /\ work = "enable" => rxq = <<>>

\* The work on a full queue is in charge alone (OneInCharge says it of the other two).
FullInv == full => ~pulse /\ rx = "wait"

ChargeInv == Typed /\ MutexInv /\ QueueIsWorked /\ OneInCharge /\ FullInv

-----------------------------------------------------------------------------
\* The consumer index stays in the ring (NEXT_RX).
LEMMA NextRxType == ASSUME NEW i \in RxRing PROVE NextRx(i) \in RxRing
  BY RxAssumption DEF RxRing, NextRx

\* The controller's index stays in the ring.
LEMMA WrapType == ASSUME NEW i \in RxRing PROVE Wrap(i) \in RxRing
  BY RxAssumption DEF RxRing, Wrap

\* A descriptor that is given back to the controller is one of the ring's (mx6q_add_pkt).
LEMMA EmptyType == Empty \in Fragment
  BY RxAssumption DEF Empty, Fragment, RxFrame

\* The driver starts with an empty ring, its interrupt unmasked (mx6q_attach).
LEMMA ChargeInit == RxInit => ChargeInv
<1> SUFFICES ASSUME RxInit PROVE ChargeInv
  OBVIOUS
<1>1. 0 \in RxRing /\ 0 \in RxFrame /\ 0 \in 0 .. RxMaxFrags - 1
  BY RxAssumption DEF RxRing, RxFrame
<1>2. RxTypeOK
  BY <1>1, EmptyType DEF RxInit, RxTypeOK, RxNobody
<1>3. QED
  BY <1>2 DEF RxInit, ChargeInv, Typed, PutInv, MutexInv, QueueIsWorked, OneInCharge, FullInv, RxNobody

-----------------------------------------------------------------------------
\* The controller writes into a descriptor it owns and changes nothing of who is in charge.
LEMMA ArriveStep == ASSUME ChargeInv, Arrive PROVE ChargeInv'
<1>1. PICK last \in BOOLEAN, err \in BOOLEAN :
        /\ ~last => frag + 1 < RxMaxFrags
        /\ bd' = [bd EXCEPT ![nidx] = [f |-> arrived + 1, k |-> frag + 1, last |-> last, err |-> err]]
        /\ arrived' = IF last THEN arrived + 1 ELSE arrived
        /\ frag' = IF last THEN 0 ELSE frag + 1
        /\ rfint' = (rfint \/ last)
  BY DEF Arrive
<1>2. nidx' \in RxRing
  BY WrapType DEF Arrive, ChargeInv, Typed, RxTypeOK
<1>3. /\ [f |-> arrived + 1, k |-> frag + 1, last |-> last, err |-> err] \in Fragment
      /\ arrived' \in RxFrame /\ frag' \in 0 .. RxMaxFrags - 1
  BY <1>1, RxAssumption DEF Arrive, ChargeInv, Typed, RxTypeOK, Fragment, RxFrame
<1>4. bd' \in [RxRing -> Fragment]
  BY <1>1, <1>3 DEF ChargeInv, Typed, RxTypeOK
<1>5. rfint' \in BOOLEAN
  BY <1>1 DEF ChargeInv, Typed, RxTypeOK
<1>6. UNCHANGED <<rxVars, qVars, pulse, work, flow, up, rxSeen, rdar, rfien, rxMishap>>
  BY DEF Arrive
<1>7. RxTypeOK'
  BY <1>2, <1>3, <1>4, <1>5, <1>6 DEF ChargeInv, Typed, RxTypeOK, rxVars, qVars
<1>8. QED
  BY <1>6, <1>7 DEF ChargeInv, Typed, PutInv, MutexInv, QueueIsWorked, OneInCharge, FullInv,
                    rxVars, qVars

\* The controller stops, and mii.c reads and writes back the events: none of it is about the
\* interrupt mask.
LEMMA OutsideStep == ASSUME ChargeInv, NicStops \/ RxMiiRead \/ RxMiiWrite PROVE ChargeInv'
<1>1. /\ UNCHANGED <<bd, rxVars, qVars, pulse, work, flow, up, nicVars, rfien>>
      /\ {rxSeen', rdar', rfint'} \subseteq BOOLEAN /\ rxMishap' \subseteq {"event", "flow"}
  BY DEF NicStops, RxMiiRead, RxMiiWrite, ChargeInv, Typed, RxTypeOK
<1>2. RxTypeOK'
  BY <1>1 DEF ChargeInv, Typed, RxTypeOK, rxVars, qVars, nicVars
<1>3. QED
  BY <1>1, <1>2 DEF ChargeInv, Typed, PutInv, MutexInv, QueueIsWorked, OneInCharge, FullInv,
                    rxVars, qVars, nicVars

\* The handler masks the interrupt and leaves a pulse, the receive thread takes it: each
\* hands the charge on.
LEMMA PulseStep == ASSUME ChargeInv, RxIsr \/ TakePulse PROVE ChargeInv'
<1>1. /\ UNCHANGED <<bd, cidx, rpkt, qVars, work, flow, up, rxSeen, nicVars, rdar, rxMishap>>
      /\ {pulse', rfint', rfien'} \subseteq BOOLEAN /\ rx' \in {rx, "look"}
  BY DEF RxIsr, TakePulse, RxGoto, ChargeInv, Typed, RxTypeOK, rxVars
<1>2. Typed'
  BY <1>1 DEF ChargeInv, Typed, PutInv, RxTypeOK, qVars, nicVars
<1>3. MutexInv' /\ QueueIsWorked'
  BY <1>1 DEF ChargeInv, MutexInv, QueueIsWorked, qVars
<1>4. OneInCharge' /\ FullInv'
  BY DEF RxIsr, TakePulse, RxGoto, ChargeInv, Typed, RxTypeOK, OneInCharge, FullInv, rxVars, qVars
<1>5. QED
  BY <1>2, <1>3, <1>4 DEF ChargeInv

-----------------------------------------------------------------------------
\* What the receive thread takes from the ring leaves the interrupt masked and the thread in
\* charge; a frame is complete only with a fragment (mx6q_receive).
LEMMA FragmentStep == ASSUME ChargeInv, Discard \/ TakeFragment PROVE ChargeInv'
<1>1. cidx' \in RxRing
  BY NextRxType DEF Discard, TakeFragment, ChargeInv, Typed, RxTypeOK
<1>2. bd[cidx] \in Fragment /\ bd' \in [RxRing -> Fragment]
  BY EmptyType DEF Discard, TakeFragment, ChargeInv, Typed, RxTypeOK
<1>3. /\ rx = "look" /\ rx' \in {"look", "put"} /\ (Discard => rx' = "look")
      /\ UNCHANGED <<qVars, pulse, work, flow, up, rxSeen, nicVars, rdar, rfint, rfien, rxMishap>>
  BY DEF Discard, TakeFragment, RxGoto
<1>4. rpkt' \in Seq(Fragment) /\ (rx' = "put" => rpkt' # <<>>)
  <2>1. CASE Discard
    BY <2>1, <1>3, EmptySeq DEF Discard, Dropped
  <2>2. CASE TakeFragment
    <3>1. rpkt \in Seq(Fragment) /\ rpkt' = Append(rpkt, bd[cidx])
      BY <2>2 DEF TakeFragment, ChargeInv, Typed, RxTypeOK
    <3>2. QED
      BY <1>2, <3>1, AppendProperties
  <2>3. QED
    BY <2>1, <2>2
<1>5. Typed'
  BY <1>1, <1>2, <1>3, <1>4 DEF ChargeInv, Typed, PutInv, RxTypeOK, qVars, nicVars
<1>6. QED
  BY <1>3, <1>5 DEF ChargeInv, MutexInv, QueueIsWorked, OneInCharge, FullInv, qVars

\* A frame is queued under rx_mutex, and the work is scheduled if it was not; with flow
\* control the work on the nearly full queue takes the charge over, and there is such work.
LEMMA PutStep == ASSUME ChargeInv, PutFrame PROVE ChargeInv'
<1> DEFINE fits   == Len(rxq) < QMax
           queued == IF Len(rxq) >= QMax THEN rxq ELSE Append(rxq, Packet)
           stops  == flow /\ Len(queued) >= QMax - 1
           Queued == [f : RxFrame, whole : BOOLEAN]
<1>1. Packet \in Queued
  <2>1. rpkt \in Seq(Fragment) /\ rpkt # <<>>
    BY DEF PutFrame, ChargeInv, Typed, RxTypeOK, PutInv
  <2>2. rpkt[1] \in Fragment
    BY <2>1, EmptySeq, ElementOfSeq, LenProperties
  <2>3. QED
    BY <2>2 DEF Packet, Fragment
<1>2. queued \in Seq(Queued)
  <2>1. rxq \in Seq(Queued)
    BY DEF ChargeInv, Typed, RxTypeOK
  <2>2. Append(rxq, Packet) \in Seq(Queued)
    <3> HIDE DEF Queued
    <3> QED  BY <1>1, <2>1, AppendProperties
  <2>3. QED
    BY <2>1, <2>2
<1>3. /\ rx = "put" /\ mutex = RxNobody /\ rxq' = queued /\ rpkt' = <<>>
      /\ running' = (running \/ fits)
      /\ work' = IF ~running /\ fits THEN "run" ELSE work
      /\ full' = (full \/ stops)
      /\ rx' = IF stops THEN "wait" ELSE "look"
      /\ rxMishap' = rxMishap \cup IF stops THEN {"flow"} ELSE {}
      /\ UNCHANGED <<bd, cidx, mutex, pulse, flow, up, rxSeen, nicVars, rdar, rfint, rfien>>
  BY DEF PutFrame
<1>4. Len(rxq) \in Nat /\ (~fits => rxq # <<>>)
  BY RxAssumption DEF ChargeInv, Typed, RxTypeOK
<1>5. /\ work # "enable" /\ ~pulse /\ ~full /\ ~rfien
      /\ (rxq # <<>> => work = "run") /\ (running <=> work # "idle")
      /\ work \in {"idle", "run", "enable"} /\ running \in BOOLEAN
  BY <1>3 DEF ChargeInv, Typed, RxTypeOK, MutexInv, QueueIsWorked, OneInCharge, FullInv, RxNobody
<1>6. running' /\ work' = "run"
  BY <1>3, <1>4, <1>5
<1>7. Typed'
  <2>1. full' \in BOOLEAN /\ rxMishap' \subseteq {"event", "flow"} /\ rx' \in {"wait", "look"}
    BY <1>3, <1>5 DEF ChargeInv, Typed, RxTypeOK
  <2>2. QED
    BY <1>2, <1>3, <1>6, <2>1 DEF ChargeInv, Typed, RxTypeOK, PutInv, nicVars
<1>8. MutexInv' /\ QueueIsWorked'
  BY <1>3, <1>6 DEF MutexInv, QueueIsWorked, RxNobody
<1>9. OneInCharge' /\ FullInv'
  BY <1>3, <1>5, <1>6 DEF OneInCharge, FullInv
<1>10. QED
  BY <1>7, <1>8, <1>9 DEF ChargeInv

\* The receive thread keeps the charge until it has unmasked the interrupt
\* (mx6q_rx_thread).
LEMMA EnableStep == ASSUME ChargeInv, RingEmpty \/ EnableRx PROVE ChargeInv'
<1>1. /\ UNCHANGED <<bd, cidx, rpkt, qVars, pulse, work, flow, up, rxSeen, nicVars, rfint, rxMishap>>
      /\ {rdar', rfien'} \subseteq BOOLEAN /\ rx' \in {"wait", "enable"}
  BY DEF RingEmpty, EnableRx, RxGoto, ChargeInv, Typed, RxTypeOK
<1>2. Typed'
  BY <1>1 DEF ChargeInv, Typed, PutInv, RxTypeOK, qVars, nicVars
<1>3. MutexInv' /\ QueueIsWorked'
  BY <1>1 DEF ChargeInv, MutexInv, QueueIsWorked, qVars
<1>4. OneInCharge' /\ FullInv'
  BY DEF RingEmpty, EnableRx, RxGoto, ChargeInv, Typed, RxTypeOK, OneInCharge, FullInv, qVars
<1>5. QED
  BY <1>2, <1>3, <1>4 DEF ChargeInv

-----------------------------------------------------------------------------
\* The work passes frames up, keeps rx_mutex when it finds the queue empty, and on its end
\* takes back the interrupt from a queue that was full (mx6q_process_queue,
\* mx6q_enable_queue).
LEMMA WorkStep == ASSUME ChargeInv, Work PROVE ChargeInv'
<1>1. CASE PassUp
  <2> DEFINE Queued == [f : RxFrame, whole : BOOLEAN]
  <2>0. rxq \in Seq(Queued) /\ rxq # <<>>
    BY <1>1 DEF PassUp, ChargeInv, Typed, RxTypeOK
  <2>1. Tail(rxq) \in Seq(Queued) /\ Head(rxq).f \in RxFrame
    <3>1. Tail(rxq) \in Seq(Queued) /\ Head(rxq) \in Queued
      <4> HIDE DEF Queued
      <4> QED  BY <2>0, HeadTailProperties
    <3>2. QED
      BY <3>1
  <2>2. Typed'
    BY <1>1, <2>1 DEF PassUp, ChargeInv, Typed, PutInv, RxTypeOK, rxVars, nicVars
  <2>3. QED
    BY <1>1, <2>2 DEF PassUp, ChargeInv, MutexInv, QueueIsWorked, OneInCharge, FullInv, rxVars
<1>2. CASE RxQueueEmpty
  <2>1. Typed'
    BY <1>2 DEF RxQueueEmpty, ChargeInv, Typed, PutInv, RxTypeOK, rxVars, nicVars
  <2>2. QED
    BY <1>2, <2>1 DEF RxQueueEmpty, ChargeInv, MutexInv, QueueIsWorked, OneInCharge, FullInv, rxVars
<1>3. CASE EnableQueue
  <2>1. Typed'
    BY <1>3 DEF EnableQueue, ChargeInv, Typed, PutInv, RxTypeOK, rxVars, nicVars, RxNobody
  <2>2. rxq' = <<>>
    BY <1>3 DEF EnableQueue, ChargeInv, MutexInv
  <2>3. MutexInv' /\ QueueIsWorked'
    BY <1>3, <2>2 DEF EnableQueue, MutexInv, QueueIsWorked, RxNobody
  <2>4. OneInCharge' /\ FullInv'
    BY <1>3 DEF EnableQueue, ChargeInv, Typed, RxTypeOK, OneInCharge, FullInv, rxVars
  <2>5. QED
    BY <2>1, <2>3, <2>4 DEF ChargeInv
<1>4. QED
  BY <1>1, <1>2, <1>3 DEF Work

\* Every step keeps the invariant.
LEMMA ChargeStep == ChargeInv /\ [RxNext]_allVars => ChargeInv'
<1> SUFFICES ASSUME ChargeInv, [RxNext]_allVars PROVE ChargeInv'
  OBVIOUS
<1>1. CASE UNCHANGED allVars
  BY <1>1 DEF allVars, rxVars, qVars, nicVars, ChargeInv, Typed, RxTypeOK, PutInv, MutexInv,
              QueueIsWorked, OneInCharge, FullInv
<1>2. CASE RxNext
  BY <1>2, ArriveStep, OutsideStep, PulseStep, FragmentStep, PutStep, EnableStep, WorkStep
     DEF RxNext, Receive
<1>3. QED
  BY <1>1, <1>2

LEMMA ChargeAlways == RxSpec => []ChargeInv
  BY ChargeInit, ChargeStep, PTL DEF RxSpec

-----------------------------------------------------------------------------
(* Order: the fragments in the ring, in the frame put together and in the queue *)

\* The descriptor k places after i.
RxAfter(i, k) == IF i + k >= RxN THEN i + k - RxN ELSE i + k

\* The fragment that arrives next, whatever else it turns out to be.
Coming == [f |-> arrived + 1, k |-> frag + 1, last |-> FALSE, err |-> FALSE]

\* Of m fragments in the ring the k-th from the consumer index on, and then the coming one.
Nth(m, k) == IF k < m THEN bd[RxAfter(cidx, k)] ELSE Coming

\* Fragment b is the next after a; and any fragment b after a.
Follows(a, b)  == IF a.last THEN b.f = a.f + 1 /\ b.k = 1 ELSE b.f = a.f /\ b.k = a.k + 1
Precedes(a, b) == a.f <= b.f /\ (a.last => a.f < b.f)

\* The m fragments in the ring lie between the two indices, without a gap and in order.
RingInv(m) ==
  /\ nidx = RxAfter(cidx, m)
  /\ \A k \in 0 .. RxN - 1 : bd[RxAfter(cidx, k)] # Empty <=> k < m
  /\ \A k \in 0 .. m - 1 : Follows(Nth(m, k), Nth(m, k + 1))
  /\ \A j, k \in 0 .. m : j < k => Precedes(Nth(m, j), Nth(m, k))

\* The fragments taken are of one frame, which goes on in the ring unless it is complete.
PartInv(m) ==
  rpkt # <<>> =>
    /\ OneFrame
    /\ \A j \in 1 .. Len(rpkt) : rpkt[j].f = rpkt[1].f
    /\ rx # "put" => /\ ~rpkt[Len(rpkt)].last
                     /\ Follows(rpkt[Len(rpkt)], Nth(m, 0))
    /\ \A k \in 0 .. m : /\ rpkt[1].f <= Nth(m, k).f
                         /\ rx = "put" => rpkt[1].f < Nth(m, k).f

\* What is passed up or queued is older than all that is not.
GoneInv(m) ==
  /\ \A j \in 1 .. Len(rxq) :
       /\ up < rxq[j].f
       /\ \A i \in 1 .. j - 1 : rxq[i].f < rxq[j].f
       /\ rpkt # <<>> => rxq[j].f < rpkt[1].f
       /\ \A k \in 0 .. m : rxq[j].f < Nth(m, k).f
  /\ rpkt # <<>> => up < rpkt[1].f
  /\ \A k \in 0 .. m : up < Nth(m, k).f

RxOrderInv == \E m \in 0 .. RxN : RingInv(m) /\ PartInv(m) /\ GoneInv(m)

LEMMA RxAfterType == ASSUME NEW i \in RxRing, NEW k \in 0 .. RxN PROVE RxAfter(i, k) \in RxRing
  BY RxAssumption DEF RxRing, RxAfter

LEMMA AfterZero == ASSUME NEW i \in RxRing PROVE RxAfter(i, 0) = i
  BY RxAssumption DEF RxRing, RxAfter

\* The controller's wrap is a step from place to place, and so is the driver's.
LEMMA AfterWrap ==
  ASSUME NEW i \in RxRing, NEW k \in 0 .. RxN - 1
  PROVE  RxAfter(Wrap(i), k) = RxAfter(i, k + 1) /\ Wrap(RxAfter(i, k)) = RxAfter(i, k + 1)
  BY RxAssumption DEF RxRing, RxAfter, Wrap

LEMMA NextRxWraps == ASSUME NEW i \in RxRing PROVE NextRx(i) = Wrap(i)
  BY RxAssumption DEF RxRing, NextRx, Wrap

LEMMA AfterOneToOne ==
  ASSUME NEW i \in RxRing, NEW j \in 0 .. RxN - 1, NEW k \in 0 .. RxN - 1, RxAfter(i, j) = RxAfter(i, k)
  PROVE  j = k
  BY RxAssumption DEF RxRing, RxAfter

LEMMA AfterOnto ==
  ASSUME NEW i \in RxRing, NEW j \in RxRing PROVE \E k \in 0 .. RxN - 1 : j = RxAfter(i, k)
<1>1. CASE i <= j
  <2>1. j - i \in 0 .. RxN - 1 /\ j = RxAfter(i, j - i)
    BY <1>1, RxAssumption DEF RxRing, RxAfter
  <2>2. QED
    BY <2>1
<1>2. CASE j < i
  <2>1. RxN + j - i \in 0 .. RxN - 1 /\ j = RxAfter(i, RxN + j - i)
    BY <1>2, RxAssumption DEF RxRing, RxAfter
  <2>2. QED
    BY <2>1
<1>3. QED
  BY <1>1, <1>2 DEF RxRing

\* A fragment has a frame's and its own number; the coming one is not of the past.
LEMMA NthType ==
  ASSUME RxTypeOK, NEW m \in 0 .. RxN, NEW k \in 0 .. m
  PROVE  /\ Nth(m, k).f \in Nat /\ Nth(m, k).k \in Nat /\ Nth(m, k).last \in BOOLEAN
         /\ arrived \in Nat /\ frag \in Nat
<1>1. arrived \in Nat /\ frag \in Nat
  BY RxAssumption DEF RxTypeOK, RxFrame
<1>2. CASE k < m
  <2>1. RxAfter(cidx, k) \in RxRing
    BY RxAfterType, RxAssumption DEF RxTypeOK
  <2>2. bd[RxAfter(cidx, k)] \in Fragment
    BY <2>1 DEF RxTypeOK
  <2>3. QED
    BY <1>1, <1>2, <2>2 DEF Nth, Fragment, RxFrame
<1>3. CASE k = m
  <2>1. Nth(m, k) = Coming
    BY <1>3, RxAssumption DEF Nth
  <2>2. Coming.f \in Nat /\ Coming.k \in Nat
    BY <1>1 DEF Coming
  <2>3. Coming.last \in BOOLEAN
    BY DEF Coming
  <2>4. QED
    BY <1>1, <2>1, <2>2, <2>3
<1>4. QED
  BY <1>2, <1>3

\* What has been taken, queued and passed up are fragments and frames of this run.
LEMMA RpktType ==
  ASSUME RxTypeOK
  PROVE  /\ rpkt # <<>> => Len(rpkt) \in Nat \ {0}
         /\ \A j \in 1 .. Len(rpkt) :
              rpkt[j].f \in Nat /\ rpkt[j].k \in Nat /\ rpkt[j].last \in BOOLEAN
<1>1. rpkt \in Seq(Fragment)
  BY DEF RxTypeOK
<1>2. \A j \in 1 .. Len(rpkt) : rpkt[j] \in Fragment
  BY <1>1, ElementOfSeq
<1>3. rpkt # <<>> => Len(rpkt) \in Nat \ {0}
  BY <1>1, EmptySeq
<1>4. QED
  BY <1>2, <1>3, RxAssumption DEF Fragment, RxFrame

LEMMA RxqType ==
  ASSUME RxTypeOK
  PROVE  up \in Nat /\ Len(rxq) \in Nat /\ \A j \in 1 .. Len(rxq) : rxq[j].f \in Nat
<1> DEFINE Queued == [f : RxFrame, whole : BOOLEAN]
<1>1. rxq \in Seq(Queued) /\ up \in Nat
  BY RxAssumption DEF RxTypeOK, RxFrame
<1>2. Len(rxq) \in Nat /\ \A j \in 1 .. Len(rxq) : rxq[j] \in Queued
  <2> HIDE DEF Queued
  <2> QED  BY <1>1, ElementOfSeq, LenProperties
<1>3. QED
  BY <1>1, <1>2, RxAssumption DEF RxFrame

\* Putting a frame into the queue, and taking the first one out.
LEMMA RxqAppends ==
  ASSUME RxTypeOK, NEW p
  PROVE  /\ Len(rxq) \in Nat /\ Len(Append(rxq, p)) = Len(rxq) + 1
         /\ Append(rxq, p)[Len(rxq) + 1] = p
         /\ \A j \in 1 .. Len(rxq) : Append(rxq, p)[j] = rxq[j]
<1> DEFINE Item == [f : RxFrame, whole : BOOLEAN] \cup {p}
<1>1. rxq \in Seq(Item) /\ p \in Item
  <2>1. rxq \in Seq([f : RxFrame, whole : BOOLEAN])
    BY DEF RxTypeOK
  <2>2. QED
    BY <2>1, SeqMonotonic
<1>2. QED
  <2> HIDE DEF Item
  <2> QED  BY <1>1, AppendProperties, LenProperties

LEMMA RxqTail ==
  ASSUME RxTypeOK, rxq # <<>>
  PROVE  /\ Len(rxq) \in Nat \ {0} /\ Len(Tail(rxq)) = Len(rxq) - 1
         /\ Head(rxq) = rxq[1]
         /\ \A j \in 1 .. Len(rxq) - 1 : Tail(rxq)[j] = rxq[j + 1]
<1> DEFINE Item == [f : RxFrame, whole : BOOLEAN]
<1>1. rxq \in Seq(Item)
  BY DEF RxTypeOK
<1>2. QED
  <2> HIDE DEF Item
  <2> QED  BY <1>1, HeadTailProperties, EmptySeq

\* The first fragment in the ring, or the coming one, is among those that count.
LEMMA NthZero == \A m \in 0 .. RxN : 0 \in 0 .. m
  BY RxAssumption

LEMMA RxOrderInit == RxInit => RxOrderInv
<1> SUFFICES ASSUME RxInit PROVE RxOrderInv
  OBVIOUS
<1>1. 0 \in RxRing /\ 0 \in 0 .. RxN
  BY RxAssumption DEF RxRing
<1>2. \A k \in 0 .. RxN - 1 : bd[RxAfter(cidx, k)] = Empty
  BY <1>1, RxAfterType, RxAssumption DEF RxInit
<1>3. RingInv(0)
  BY <1>1, <1>2, AfterZero DEF RxInit, RingInv
<1>4. PartInv(0)
  BY DEF RxInit, PartInv
<1>5. GoneInv(0)
  BY DEF RxInit, GoneInv, Nth, Coming
<1>6. QED
  BY <1>1, <1>3, <1>4, <1>5 DEF RxOrderInv

-----------------------------------------------------------------------------
\* A fragment is written at the end of those in the ring: the coming one is there, and
\* what comes then is later still.
LEMMA OrderArrive == ASSUME ChargeInv, RxOrderInv, Arrive PROVE RxOrderInv'
<1>0. RxTypeOK
  BY DEF ChargeInv, Typed
<1>1. PICK last \in BOOLEAN, err \in BOOLEAN :
        /\ bd' = [bd EXCEPT ![nidx] = [f |-> arrived + 1, k |-> frag + 1, last |-> last, err |-> err]]
        /\ arrived' = IF last THEN arrived + 1 ELSE arrived
        /\ frag' = IF last THEN 0 ELSE frag + 1
  BY DEF Arrive
<1>2. PICK m \in 0 .. RxN : RingInv(m) /\ PartInv(m) /\ GoneInv(m)
  BY DEF RxOrderInv
<1>3. UNCHANGED <<cidx, rpkt, rx, rxq, up>> /\ nidx' = Wrap(nidx) /\ bd[nidx] = Empty
  BY DEF Arrive, rxVars, qVars
<1> DEFINE new == [f |-> arrived + 1, k |-> frag + 1, last |-> last, err |-> err]
<1>4. m \in 0 .. RxN - 1 /\ cidx \in RxRing
  <2>1. cidx \in RxRing
    BY <1>0 DEF RxTypeOK
  <2>2. RxAfter(cidx, RxN) = cidx /\ RxAfter(cidx, 0) = cidx /\ RxN - 1 \in Nat
    BY <2>1, RxAssumption DEF RxAfter, RxRing
  <2>3. m # RxN
    BY <1>2, <1>3, <2>2, RxAssumption DEF RingInv
  <2>4. QED
    BY <2>1, <2>3, RxAssumption
<1>5. m + 1 \in 0 .. RxN
  BY <1>4, RxAssumption
<1>6. \A k \in 0 .. RxN - 1 :
        RxAfter(cidx, k) \in RxRing /\ bd'[RxAfter(cidx, k)] = IF k = m THEN new ELSE bd[RxAfter(cidx, k)]
  BY <1>0, <1>1, <1>2, <1>4, RxAfterType, AfterOneToOne, RxAssumption DEF RxTypeOK, RingInv
<1>7. arrived \in Nat /\ frag \in Nat /\ new # Empty
  BY <1>0, RxAssumption DEF RxTypeOK, RxFrame, Empty
<1>8. \A k \in 0 .. m : Nth(m + 1, k)' = IF k = m THEN new ELSE Nth(m, k)
  BY <1>3, <1>4, <1>6, RxAssumption DEF Nth
<1>9. Nth(m + 1, m + 1)' = Coming'
  BY <1>4 DEF Nth
<1>10. Nth(m, m) = Coming
  BY <1>4 DEF Nth
<1>11. \A k \in 0 .. m : Nth(m, k).f \in Nat /\ Nth(m, k).k \in Nat /\ Nth(m, k).last \in BOOLEAN
  BY <1>0, NthType
<1>12. /\ Coming.f = arrived + 1 /\ Coming.k = frag + 1
       /\ Coming'.f = arrived' + 1 /\ Coming'.k = frag' + 1
       /\ new.f = arrived + 1 /\ new.k = frag + 1 /\ new.last = last
  BY DEF Coming
<1> HIDE DEF new
<1>13. Follows(new, Coming') /\ Precedes(new, Coming')
  BY <1>1, <1>7, <1>12 DEF Follows, Precedes
<1>14. \A k \in 0 .. m - 1 : Precedes(Nth(m, k), new) /\ Precedes(Nth(m, k), Coming')
  <2> TAKE k \in 0 .. m - 1
  <2>1. Precedes(Nth(m, k), Coming)
    BY <1>2, <1>4, <1>10 DEF RingInv
  <2>2. k \in 0 .. m
    BY <1>4
  <2>3. QED
    BY <1>1, <1>7, <1>11, <1>12, <2>1, <2>2 DEF Precedes
<1>15. RingInv(m + 1)'
  <2>1. nidx' = RxAfter(cidx', m + 1)
    BY <1>2, <1>3, <1>4, AfterWrap DEF RingInv
  <2>2. \A k \in 0 .. RxN - 1 : bd'[RxAfter(cidx', k)] # Empty <=> k < m + 1
    BY <1>2, <1>3, <1>4, <1>6, <1>7 DEF RingInv
  <2>3. ASSUME NEW k \in 0 .. m PROVE Follows(Nth(m + 1, k)', Nth(m + 1, k + 1)')
    <3>1. CASE k = m
      BY <1>4, <1>8, <1>9, <1>13, <3>1
    <3>2. CASE k < m
      <4>1. Follows(Nth(m, k), Nth(m, k + 1)) /\ k + 1 \in 0 .. m /\ k \in 0 .. m - 1
        BY <1>2, <1>4, <3>2 DEF RingInv
      <4>2. CASE k + 1 = m
        BY <1>4, <1>8, <1>10, <1>12, <3>2, <4>1, <4>2 DEF Follows
      <4>3. CASE k + 1 # m
        BY <1>4, <1>8, <3>2, <4>1, <4>3
      <4>4. QED
        BY <4>2, <4>3
    <3>3. QED
      BY <1>4, <3>1, <3>2
  <2>4. ASSUME NEW j \in 0 .. m + 1, NEW k \in 0 .. m + 1, j < k
        PROVE  Precedes(Nth(m + 1, j)', Nth(m + 1, k)')
    <3>1. CASE k = m + 1 /\ j = m
      BY <1>4, <1>8, <1>9, <1>13, <3>1
    <3>2. CASE k = m + 1 /\ j # m
      <4>1. j \in 0 .. m - 1 /\ j \in 0 .. m /\ j # m
        BY <1>4, <2>4, <3>2
      <4>2. QED
        BY <1>8, <1>9, <1>14, <3>2, <4>1
    <3>3. CASE k = m
      <4>1. j \in 0 .. m - 1 /\ j \in 0 .. m /\ j # m /\ m \in 0 .. m
        BY <1>4, <2>4, <3>3
      <4>2. QED
        BY <1>8, <1>14, <3>3, <4>1
    <3>4. CASE k < m
      <4>1. j \in 0 .. m /\ k \in 0 .. m /\ j # m /\ k # m
        BY <1>4, <2>4, <3>4
      <4>2. QED
        BY <1>2, <1>8, <2>4, <4>1 DEF RingInv
    <3>5. QED
      BY <1>4, <3>1, <3>2, <3>3, <3>4
  <2>5. QED
    BY <1>4, <2>1, <2>2, <2>3, <2>4 DEF RingInv
<1>16. \A k \in 0 .. m + 1 : \E j \in 0 .. m : Nth(m, j).f <= Nth(m + 1, k)'.f
  <2> TAKE k \in 0 .. m + 1
  <2>1. CASE k < m
    BY <1>4, <1>8, <1>11, <2>1
  <2>2. CASE k = m
    <3>1. m \in 0 .. m /\ Nth(m + 1, k)' = new
      BY <1>4, <1>8, <2>2
    <3>2. QED
      BY <1>7, <1>10, <1>12, <3>1
  <2>3. CASE k = m + 1
    <3>1. m \in 0 .. m
      BY <1>4
    <3>2. QED
      BY <1>1, <1>7, <1>9, <1>10, <1>12, <2>3, <3>1
  <2>4. QED
    BY <1>4, <2>1, <2>2, <2>3
<1>17. /\ Nth(m + 1, 0)'.f = Nth(m, 0).f /\ Nth(m + 1, 0)'.k = Nth(m, 0).k
       /\ \A k \in 0 .. m + 1 : Nth(m + 1, k)'.f \in Nat
  <2>1. 0 \in 0 .. m
    BY <1>4
  <2>2. Nth(m + 1, 0)'.f = Nth(m, 0).f /\ Nth(m + 1, 0)'.k = Nth(m, 0).k
    BY <1>8, <1>10, <1>12, <2>1
  <2>3. ASSUME NEW k \in 0 .. m + 1 PROVE Nth(m + 1, k)'.f \in Nat
    BY <1>1, <1>4, <1>7, <1>8, <1>9, <1>11, <1>12, <2>3
  <2>4. QED
    BY <2>2, <2>3
<1>18. /\ \A x \in Nat : (\A k \in 0 .. m : x <= Nth(m, k).f) => \A k \in 0 .. m + 1 : x <= Nth(m + 1, k)'.f
       /\ \A x \in Nat : (\A k \in 0 .. m : x < Nth(m, k).f) => \A k \in 0 .. m + 1 : x < Nth(m + 1, k)'.f
  BY <1>11, <1>16, <1>17
<1>19. PartInv(m + 1)'
  <2> SUFFICES ASSUME rpkt # <<>> PROVE PartInv(m + 1)'
    BY <1>3 DEF PartInv
  <2>1. Len(rpkt) \in Nat \ {0} /\ \A i \in 1 .. Len(rpkt) : rpkt[i].f \in Nat
    BY <1>0, RpktType
  <2>2. \A k \in 0 .. m + 1 : /\ rpkt[1].f <= Nth(m + 1, k)'.f
                              /\ rx = "put" => rpkt[1].f < Nth(m + 1, k)'.f
    <3>1. rpkt[1].f \in Nat
      BY <2>1
    <3>2. \A k \in 0 .. m : rpkt[1].f <= Nth(m, k).f /\ (rx = "put" => rpkt[1].f < Nth(m, k).f)
      BY <1>2 DEF PartInv
    <3>3. QED
      BY <1>18, <3>1, <3>2
  <2>3. rx # "put" => /\ ~rpkt[Len(rpkt)].last
                      /\ Follows(rpkt[Len(rpkt)], Nth(m + 1, 0)')
    BY <1>2, <1>17 DEF PartInv, Follows
  <2>4. OneFrame' /\ \A i \in 1 .. Len(rpkt) : rpkt[i].f = rpkt[1].f
    BY <1>2, <1>3 DEF PartInv, OneFrame
  <2>5. QED
    BY <1>3, <2>2, <2>3, <2>4 DEF PartInv
<1>20. GoneInv(m + 1)'
  <2>1. up \in Nat /\ \A i \in 1 .. Len(rxq) : rxq[i].f \in Nat
    BY <1>0, RxqType
  <2>2. /\ \A i \in 1 .. Len(rxq) : \A k \in 0 .. m + 1 : rxq[i].f < Nth(m + 1, k)'.f
        /\ \A k \in 0 .. m + 1 : up < Nth(m + 1, k)'.f
    BY <1>2, <1>18, <2>1 DEF GoneInv
  <2>3. QED
    BY <1>2, <1>3, <2>2 DEF GoneInv
<1>21. QED
  BY <1>5, <1>15, <1>19, <1>20 DEF RxOrderInv

\* The first fragment in the ring is taken away, whatever becomes of it: the others move up.
LEMMA RingTaken ==
  ASSUME RxTypeOK, NEW m \in 0 .. RxN, RingInv(m), bd[cidx] # Empty,
         bd' = [bd EXCEPT ![cidx] = Empty], cidx' = NextRx(cidx), UNCHANGED nicVars
  PROVE  /\ m - 1 \in 0 .. RxN /\ m \in 1 .. RxN
         /\ Nth(m, 0) = bd[cidx]
         /\ \A k \in 0 .. m - 1 : Nth(m - 1, k)' = Nth(m, k + 1)
         /\ RingInv(m - 1)'
<1>1. cidx \in RxRing /\ 0 \in 0 .. RxN - 1 /\ RxN - 1 \in 0 .. RxN - 1
  BY RxAssumption DEF RxTypeOK
<1>2. RxAfter(cidx, 0) = cidx
  BY <1>1, AfterZero
<1>3. m - 1 \in 0 .. RxN /\ m \in 1 .. RxN
  BY <1>1, <1>2, RxAssumption DEF RingInv
<1>4. Nth(m, 0) = bd[cidx]
  BY <1>2, <1>3, RxAssumption DEF Nth
<1>5. cidx' = Wrap(cidx) /\ \A k \in 0 .. RxN - 1 : RxAfter(cidx', k) = RxAfter(cidx, k + 1)
  BY <1>1, NextRxWraps, AfterWrap
<1>6. /\ \A k \in 0 .. RxN - 2 : bd'[RxAfter(cidx', k)] = bd[RxAfter(cidx, k + 1)]
      /\ bd'[RxAfter(cidx', RxN - 1)] = Empty
  <2>1. ASSUME NEW k \in 0 .. RxN - 2 PROVE bd'[RxAfter(cidx', k)] = bd[RxAfter(cidx, k + 1)]
    <3>1. k + 1 \in 0 .. RxN - 1 /\ k + 1 # 0 /\ k \in 0 .. RxN - 1
      BY RxAssumption
    <3>2. RxAfter(cidx, k + 1) # cidx /\ RxAfter(cidx, k + 1) \in RxRing
      BY <1>1, <1>2, <3>1, AfterOneToOne, RxAfterType, RxAssumption
    <3>3. QED
      BY <1>5, <3>1, <3>2 DEF RxTypeOK
  <2>2. RxAfter(cidx', RxN - 1) = cidx
    <3>1. RxAfter(cidx, RxN - 1 + 1) = cidx
      BY <1>1, RxAssumption DEF RxAfter, RxRing
    <3>2. QED
      BY <1>1, <1>5, <3>1
  <2>3. QED
    BY <1>1, <2>1, <2>2 DEF RxTypeOK
<1>7. \A k \in 0 .. m - 1 : Nth(m - 1, k)' = Nth(m, k + 1)
  <2> TAKE k \in 0 .. m - 1
  <2>1. CASE k = m - 1
    BY <1>3, <2>1, RxAssumption DEF Nth, Coming, nicVars
  <2>2. CASE k # m - 1
    <3>1. k \in 0 .. RxN - 2 /\ k < m - 1 /\ k + 1 < m
      BY <1>3, <2>2, RxAssumption
    <3>2. QED
      BY <1>6, <3>1 DEF Nth
  <2>3. QED
    BY <2>1, <2>2
<1>8. nidx' = RxAfter(cidx', m - 1)
  <2>1. m - 1 \in 0 .. RxN - 1 /\ m - 1 + 1 = m
    BY <1>3, RxAssumption
  <2>2. QED
    BY <1>5, <2>1 DEF RingInv, nicVars
<1>9. \A k \in 0 .. RxN - 1 : bd'[RxAfter(cidx', k)] # Empty <=> k < m - 1
  <2> TAKE k \in 0 .. RxN - 1
  <2>1. CASE k = RxN - 1
    BY <1>3, <1>6, <2>1, RxAssumption
  <2>2. CASE k # RxN - 1
    <3>1. k \in 0 .. RxN - 2 /\ k + 1 \in 0 .. RxN - 1 /\ (k + 1 < m <=> k < m - 1)
      BY <1>3, <2>2, RxAssumption
    <3>2. QED
      BY <1>6, <3>1 DEF RingInv
  <2>3. QED
    BY <2>1, <2>2
<1>10. \A k \in 0 .. m - 2 : Follows(Nth(m - 1, k)', Nth(m - 1, k + 1)')
  <2> TAKE k \in 0 .. m - 2
  <2>1. k \in 0 .. m - 1 /\ k + 1 \in 0 .. m - 1
    BY <1>3, RxAssumption
  <2>2. QED
    BY <1>7, <2>1 DEF RingInv
<1>11. \A j, k \in 0 .. m - 1 : j < k => Precedes(Nth(m - 1, j)', Nth(m - 1, k)')
  <2> TAKE j, k \in 0 .. m - 1
  <2>1. j + 1 \in 0 .. m /\ k + 1 \in 0 .. m /\ (j < k => j + 1 < k + 1)
    BY <1>3, RxAssumption
  <2>2. QED
    BY <1>7, <2>1 DEF RingInv
<1>12. RingInv(m - 1)'
  <2>1. m - 1 - 1 = m - 2
    BY <1>3, RxAssumption
  <2>2. QED
    BY <1>8, <1>9, <1>10, <1>11, <2>1 DEF RingInv
<1>13. QED
  BY <1>3, <1>4, <1>7, <1>12

\* Of what is queued nothing is as young as what stays in the ring.
LEMMA GoneTaken ==
  ASSUME NEW m \in Nat \ {0}, GoneInv(m), \A k \in 0 .. m - 1 : Nth(m - 1, k)' = Nth(m, k + 1),
         UNCHANGED <<rxq, up>>,
         rpkt' # <<>> => up < rpkt'[1].f /\ \A j \in 1 .. Len(rxq) : rxq[j].f < rpkt'[1].f
  PROVE  GoneInv(m - 1)'
<1>1. \A k \in 0 .. m - 1 : k + 1 \in 0 .. m
  OBVIOUS
<1>2. /\ \A j \in 1 .. Len(rxq) : \A k \in 0 .. m - 1 : rxq[j].f < Nth(m - 1, k)'.f
      /\ \A k \in 0 .. m - 1 : up < Nth(m - 1, k)'.f
  BY <1>1 DEF GoneInv
<1>3. QED
  BY <1>2 DEF GoneInv

\* Half of a frame may be thrown away, never its middle (mx6q_receive).
LEMMA OrderDiscard == ASSUME ChargeInv, RxOrderInv, Discard PROVE RxOrderInv'
<1>1. PICK m \in 0 .. RxN : RingInv(m) /\ PartInv(m) /\ GoneInv(m)
  BY DEF RxOrderInv
<1>2. /\ m - 1 \in 0 .. RxN /\ m \in Nat \ {0}
      /\ \A k \in 0 .. m - 1 : Nth(m - 1, k)' = Nth(m, k + 1)
      /\ RingInv(m - 1)'
  <2>1. RxTypeOK /\ m \in 0 .. RxN /\ RingInv(m) /\ bd[cidx] # Empty
    BY <1>1 DEF Discard, ChargeInv, Typed
  <2>2. bd' = [bd EXCEPT ![cidx] = Empty] /\ cidx' = NextRx(cidx) /\ UNCHANGED nicVars
    BY DEF Discard
  <2>3. QED
    BY <2>1, <2>2, RingTaken, RxAssumption
<1>3. rpkt' = <<>> /\ UNCHANGED <<rxq, up>>
  BY DEF Discard, Dropped, qVars
<1>4. PartInv(m - 1)'
  BY <1>3 DEF PartInv
<1>5. GoneInv(m - 1)'
  BY <1>1, <1>2, <1>3, GoneTaken
<1>6. QED
  BY <1>2, <1>4, <1>5 DEF RxOrderInv

\* The fragment taken is the one that follows those taken before.
LEMMA OrderTake == ASSUME ChargeInv, RxOrderInv, TakeFragment PROVE RxOrderInv'
<1>0. RxTypeOK
  BY DEF ChargeInv, Typed
<1>1. PICK m \in 0 .. RxN : RingInv(m) /\ PartInv(m) /\ GoneInv(m)
  BY DEF RxOrderInv
<1>2. /\ m - 1 \in 0 .. RxN /\ m \in Nat \ {0}
      /\ Nth(m, 0) = bd[cidx]
      /\ \A k \in 0 .. m - 1 : Nth(m - 1, k)' = Nth(m, k + 1)
      /\ RingInv(m - 1)'
  <2>1. m \in 0 .. RxN /\ RingInv(m) /\ bd[cidx] # Empty
    BY <1>1 DEF TakeFragment
  <2>2. bd' = [bd EXCEPT ![cidx] = Empty] /\ cidx' = NextRx(cidx) /\ UNCHANGED nicVars
    BY DEF TakeFragment
  <2>3. QED
    BY <1>0, <2>1, <2>2, RingTaken, RxAssumption
<1> DEFINE b == bd[cidx]
           n == Len(rpkt)
<1>3. /\ rpkt' = Append(rpkt, b) /\ rx = "look" /\ UNCHANGED <<rxq, up>>
      /\ rx' = IF b.last THEN "put" ELSE "look"
  BY DEF TakeFragment, RxGoto, qVars
<1>4. /\ rpkt \in Seq(Fragment) /\ b \in Fragment /\ b.f \in Nat /\ b.k \in Nat /\ b.last \in BOOLEAN
  BY <1>0, RxAssumption DEF RxTypeOK, Fragment, RxFrame
<1>5. /\ n \in Nat /\ Len(rpkt') = n + 1 /\ rpkt'[n + 1] = b /\ rpkt' # <<>>
      /\ \A i \in 1 .. n : rpkt'[i] = rpkt[i]
      /\ rpkt = <<>> => n = 0
      /\ rpkt # <<>> => n \in 1 .. n /\ n > 0
  <2>1. rpkt' \in Seq(Fragment) /\ n \in Nat
    BY <1>3, <1>4, AppendProperties, LenProperties
  <2>2. Len(rpkt') = n + 1 /\ rpkt'[n + 1] = b /\ \A i \in 1 .. n : rpkt'[i] = rpkt[i]
    BY <1>3, <1>4, AppendProperties
  <2>3. (rpkt = <<>> => n = 0) /\ (rpkt # <<>> => n > 0)
    BY <1>0, <1>4, EmptySeq, RpktType
  <2>4. rpkt' # <<>>
    BY <1>3, <1>4, AppendProperties
  <2>5. QED
    BY <2>1, <2>2, <2>3, <2>4
<1>6. rpkt # <<>> => b.f = rpkt[n].f /\ b.k = rpkt[n].k + 1 /\ ~rpkt[n].last
  BY <1>1, <1>2, <1>3 DEF PartInv, Follows
<1>7. \A i \in 1 .. n + 1 : rpkt'[i].f = b.f
  <2>1. ASSUME NEW i \in 1 .. n PROVE rpkt[i].f = b.f
    <3>1. rpkt # <<>> /\ n \in 1 .. n
      BY <1>5
    <3>2. QED
      BY <1>1, <1>6, <3>1 DEF PartInv
  <2>2. QED
    BY <1>5, <2>1
<1>8. \A k \in 0 .. m - 1 : Precedes(b, Nth(m - 1, k)')
  <2> TAKE k \in 0 .. m - 1
  <2>1. 0 \in 0 .. m /\ k + 1 \in 0 .. m /\ 0 < k + 1
    BY <1>2
  <2>2. Precedes(Nth(m, 0), Nth(m, k + 1))
    BY <1>1, <2>1 DEF RingInv
  <2>3. QED
    BY <1>2, <2>2
<1>9. Follows(b, Nth(m - 1, 0)')
  <2>1. 0 \in 0 .. m - 1 /\ 0 + 1 = 1
    BY <1>2
  <2>2. Follows(Nth(m, 0), Nth(m, 0 + 1))
    BY <1>1, <2>1 DEF RingInv
  <2>3. QED
    BY <1>2, <2>1, <2>2
<1>10. OneFrame'
  <2>1. ASSUME NEW j \in 1 .. n
        PROVE  rpkt'[j + 1].f = rpkt'[j].f /\ rpkt'[j + 1].k = rpkt'[j].k + 1 /\ ~rpkt'[j].last
    <3>1. rpkt # <<>>
      BY <1>5
    <3>2. CASE j = n
      BY <1>5, <1>6, <3>1, <3>2
    <3>3. CASE j # n
      <4>1. j \in 1 .. n - 1 /\ j + 1 \in 1 .. n
        BY <1>5, <3>3
      <4>2. QED
        BY <1>1, <1>5, <3>1, <4>1 DEF PartInv, OneFrame
    <3>4. QED
      BY <3>2, <3>3
  <2>2. Len(rpkt') - 1 = n
    BY <1>5
  <2>3. QED
    BY <2>1, <2>2 DEF OneFrame
<1>11. rpkt'[1].f = b.f /\ 1 \in 1 .. n + 1
  BY <1>5, <1>7
<1>12. PartInv(m - 1)'
  <2>1. rx' # "put" => /\ ~rpkt'[Len(rpkt')].last
                       /\ Follows(rpkt'[Len(rpkt')], Nth(m - 1, 0)')
    BY <1>3, <1>5, <1>9
  <2>2. \A k \in 0 .. m - 1 : /\ rpkt'[1].f <= Nth(m - 1, k)'.f
                              /\ rx' = "put" => rpkt'[1].f < Nth(m - 1, k)'.f
    BY <1>3, <1>8, <1>11 DEF Precedes
  <2>3. \A j \in 1 .. Len(rpkt') : rpkt'[j].f = rpkt'[1].f
    BY <1>5, <1>7, <1>11
  <2>4. QED
    BY <1>10, <2>1, <2>2, <2>3 DEF PartInv
<1>13. up < b.f /\ \A j \in 1 .. Len(rxq) : rxq[j].f < b.f
  <2>1. 0 \in 0 .. m
    BY <1>2
  <2>2. QED
    BY <1>1, <1>2, <2>1 DEF GoneInv
<1>14. GoneInv(m - 1)'
  BY <1>1, <1>2, <1>3, <1>11, <1>13, GoneTaken
<1>15. QED
  BY <1>2, <1>12, <1>14 DEF RxOrderInv

\* A frame that is complete is queued, or dropped because the queue is full: it is younger
\* than what is queued and older than what is in the ring.
LEMMA OrderPut == ASSUME ChargeInv, RxOrderInv, PutFrame PROVE RxOrderInv'
<1>0. RxTypeOK /\ rpkt # <<>>
  BY DEF ChargeInv, Typed, PutInv, PutFrame
<1>1. PICK m \in 0 .. RxN : RingInv(m) /\ PartInv(m) /\ GoneInv(m)
  BY DEF RxOrderInv
<1>2. /\ rx = "put" /\ rpkt' = <<>> /\ rxq' \in {rxq, Append(rxq, Packet)}
      /\ UNCHANGED <<bd, cidx, up, nicVars>>
  BY DEF PutFrame
<1>3. \A k \in 0 .. m : Nth(m, k)' = Nth(m, k)
  BY <1>2 DEF Nth, Coming, nicVars
<1>4. RingInv(m)'
  <2>1. \A k \in 0 .. m - 1 : k \in 0 .. m /\ k + 1 \in 0 .. m
    BY RxAssumption
  <2>2. QED
    BY <1>1, <1>2, <1>3, <2>1 DEF RingInv, nicVars
<1>5. PartInv(m)'
  BY <1>2 DEF PartInv
<1>6. Packet.f = rpkt[1].f
  BY DEF Packet
<1>7. /\ up < Packet.f /\ \A k \in 0 .. m : Packet.f < Nth(m, k).f
      /\ \A j \in 1 .. Len(rxq) : rxq[j].f < Packet.f
  BY <1>0, <1>1, <1>2, <1>6 DEF PartInv, GoneInv
<1>8. GoneInv(m)'
  <2>1. CASE rxq' = rxq
    BY <1>1, <1>2, <1>3, <2>1 DEF GoneInv
  <2>2. CASE rxq' = Append(rxq, Packet)
    <3>1. /\ Len(rxq) \in Nat /\ Len(rxq') = Len(rxq) + 1 /\ rxq'[Len(rxq) + 1] = Packet
          /\ \A j \in 1 .. Len(rxq) : rxq'[j] = rxq[j]
      BY <1>0, <2>2, RxqAppends
    <3>2. ASSUME NEW j \in 1 .. Len(rxq')
          PROVE  /\ up < rxq'[j].f
                 /\ \A i \in 1 .. j - 1 : rxq'[i].f < rxq'[j].f
                 /\ \A k \in 0 .. m : rxq'[j].f < Nth(m, k).f
      <4>1. CASE j = Len(rxq) + 1
        BY <1>7, <3>1, <4>1
      <4>2. CASE j # Len(rxq) + 1
        <5>1. j \in 1 .. Len(rxq) /\ \A i \in 1 .. j - 1 : i \in 1 .. Len(rxq)
          BY <3>1, <4>2
        <5>2. QED
          BY <1>1, <3>1, <5>1 DEF GoneInv
      <4>3. QED
        BY <4>1, <4>2
    <3>3. QED
      BY <1>1, <1>2, <1>3, <3>2 DEF GoneInv
  <2>3. QED
    BY <1>2, <2>1, <2>2
<1>9. QED
  BY <1>4, <1>5, <1>8 DEF RxOrderInv

\* The oldest frame of the queue is passed up (mx6q_process_queue).
LEMMA OrderPass == ASSUME ChargeInv, RxOrderInv, PassUp PROVE RxOrderInv'
<1>0. RxTypeOK
  BY DEF ChargeInv, Typed
<1>1. PICK m \in 0 .. RxN : RingInv(m) /\ PartInv(m) /\ GoneInv(m)
  BY DEF RxOrderInv
<1>2. rxq # <<>> /\ rxq' = Tail(rxq) /\ up' = Head(rxq).f /\ UNCHANGED <<bd, rxVars, nicVars>>
  BY DEF PassUp
<1>3. \A k \in 0 .. m : Nth(m, k)' = Nth(m, k)
  BY <1>2 DEF Nth, Coming, nicVars, rxVars
<1>4. RingInv(m)'
  <2>1. \A k \in 0 .. m - 1 : k \in 0 .. m /\ k + 1 \in 0 .. m
    BY RxAssumption
  <2>2. QED
    BY <1>1, <1>2, <1>3, <2>1 DEF RingInv, nicVars, rxVars
<1>5. PartInv(m)'
  BY <1>1, <1>2, <1>3, NthZero DEF PartInv, OneFrame, rxVars
<1>6. /\ Len(rxq) \in Nat \ {0} /\ Len(rxq') = Len(rxq) - 1 /\ up' = rxq[1].f
      /\ \A j \in 1 .. Len(rxq') : rxq'[j] = rxq[j + 1]
  BY <1>0, <1>2, RxqTail
<1>7. 1 \in 1 .. Len(rxq)
  BY <1>6
<1>8. /\ \A k \in 0 .. m : up' < Nth(m, k).f
      /\ rpkt # <<>> => up' < rpkt[1].f
  BY <1>1, <1>6, <1>7 DEF GoneInv
<1>9. ASSUME NEW j \in 1 .. Len(rxq')
      PROVE  /\ up' < rxq'[j].f
             /\ \A i \in 1 .. j - 1 : rxq'[i].f < rxq'[j].f
             /\ rpkt # <<>> => rxq'[j].f < rpkt[1].f
             /\ \A k \in 0 .. m : rxq'[j].f < Nth(m, k).f
  <2>1. /\ j + 1 \in 1 .. Len(rxq) /\ 1 \in 1 .. (j + 1) - 1
        /\ \A i \in 1 .. j - 1 : i \in 1 .. Len(rxq') /\ i + 1 \in 1 .. (j + 1) - 1
    BY <1>6
  <2>2. rxq'[j] = rxq[j + 1] /\ \A i \in 1 .. j - 1 : rxq'[i] = rxq[i + 1]
    BY <1>6, <2>1
  <2>3. \A i \in 1 .. (j + 1) - 1 : rxq[i].f < rxq[j + 1].f
    BY <1>1, <2>1 DEF GoneInv
  <2>4. QED
    BY <1>1, <1>6, <2>1, <2>2, <2>3 DEF GoneInv
<1>10. GoneInv(m)'
  BY <1>2, <1>3, <1>8, <1>9 DEF GoneInv, rxVars
<1>11. QED
  BY <1>4, <1>5, <1>10 DEF RxOrderInv

\* Who waits, looks, masks or unmasks moves no fragment and no frame.
Elsewhere == NicStops \/ RxMiiRead \/ RxMiiWrite \/ RxIsr \/ TakePulse \/ RingEmpty \/ EnableRx
               \/ RxQueueEmpty \/ EnableQueue \/ UNCHANGED allVars

LEMMA OrderElsewhere == ASSUME ChargeInv, RxOrderInv, Elsewhere PROVE RxOrderInv'
<1>1. PICK m \in 0 .. RxN : RingInv(m) /\ PartInv(m) /\ GoneInv(m)
  BY DEF RxOrderInv
<1>2. /\ UNCHANGED <<bd, cidx, rpkt, rxq, up, nicVars>>
      /\ rx' = "put" <=> rx = "put"
  BY DEF Elsewhere, NicStops, RxMiiRead, RxMiiWrite, RxIsr, TakePulse, RingEmpty, EnableRx, RxQueueEmpty,
         EnableQueue, RxGoto, allVars, rxVars, qVars
<1>3. \A k \in 0 .. m : Nth(m, k)' = Nth(m, k)
  BY <1>2 DEF Nth, Coming, nicVars
<1>4. RingInv(m)'
  <2>1. \A k \in 0 .. m - 1 : k \in 0 .. m /\ k + 1 \in 0 .. m
    BY RxAssumption
  <2>2. QED
    BY <1>1, <1>2, <1>3, <2>1 DEF RingInv, nicVars
<1>5. PartInv(m)'
  BY <1>1, <1>2, <1>3, NthZero DEF PartInv, OneFrame
<1>6. GoneInv(m)'
  BY <1>1, <1>2, <1>3 DEF GoneInv
<1>7. QED
  BY <1>4, <1>5, <1>6 DEF RxOrderInv

LEMMA OrderAlways == RxSpec => []RxOrderInv
<1>1. ChargeInv /\ RxOrderInv /\ [RxNext]_allVars => RxOrderInv'
  BY OrderArrive, OrderDiscard, OrderTake, OrderPut, OrderPass, OrderElsewhere
     DEF RxNext, Receive, Work, Elsewhere
<1>2. QED
  BY <1>1, ChargeAlways, RxOrderInit, PTL DEF RxSpec

-----------------------------------------------------------------------------
\* The driver's and the controller's state keep their types, in particular both indices stay
\* in the ring (NEXT_RX).
THEOREM TypeCorrect == RxSpec => []RxTypeOK
<1>1. ChargeInv => RxTypeOK
  BY DEF ChargeInv, Typed
<1>2. QED
  BY <1>1, ChargeAlways, PTL

\* A queue with frames in it is worked on, for every size of the queue (rx_running in
\* mx6q_receive and mx6q_enable_queue).
THEOREM QueueWorked == RxSpec => []QueueIsWorked
<1>1. ChargeInv => QueueIsWorked
  BY DEF ChargeInv
<1>2. QED
  BY <1>1, ChargeAlways, PTL

\* The receive interrupt is unmasked exactly when neither the receive thread nor the work on
\* a full queue has to unmask it, for every ring, queue and number of frames (IMASK in
\* mx6q_isr, mx6q_rx_thread and mx6q_enable_queue).
THEOREM InCharge == RxSpec => []OneInCharge
<1>1. ChargeInv => OneInCharge
  BY DEF ChargeInv
<1>2. QED
  BY <1>1, ChargeAlways, PTL

\* Whatever is discarded in between, what is put together is of one frame and in one piece,
\* for every ring and every number of fragments ("Half way through a packet, discard it all"
\* in mx6q_receive).
THEOREM OneAtATime == RxSpec => []OneFrame
<1>1. RxOrderInv => OneFrame
  <2> SUFFICES ASSUME RxOrderInv PROVE OneFrame
    OBVIOUS
  <2>1. CASE rpkt = <<>>
    BY <2>1 DEF OneFrame
  <2>2. CASE rpkt # <<>>
    BY <2>2 DEF RxOrderInv, PartInv
  <2>3. QED
    BY <2>1, <2>2
<1>2. QED
  BY <1>1, OrderAlways, PTL

\* Frames go up in the order they arrived and each once, for every ring, queue and number
\* of frames (mx6q_receive and mx6q_process_queue).
THEOREM Ordered == RxSpec => []InOrder
<1>1. ChargeInv /\ RxOrderInv => InOrder
  <2> SUFFICES ASSUME ChargeInv, RxOrderInv PROVE InOrder
    OBVIOUS
  <2>0. RxTypeOK
    BY DEF ChargeInv, Typed
  <2>1. PICK m \in 0 .. RxN : RingInv(m) /\ PartInv(m) /\ GoneInv(m)
    BY DEF RxOrderInv
  <2>2. ASSUME NEW j \in 1 .. Len(rxq)
        PROVE  /\ up < rxq[j].f
               /\ j < Len(rxq) => rxq[j].f < rxq[j + 1].f
               /\ rpkt # <<>> => rxq[j].f < rpkt[1].f
    <3>1. j < Len(rxq) => j + 1 \in 1 .. Len(rxq) /\ j \in 1 .. (j + 1) - 1
      BY <2>0, RxqType
    <3>2. QED
      BY <2>1, <3>1 DEF GoneInv
  <2>3. ASSUME NEW i \in RxRing, bd[i].f # 0
        PROVE  up < bd[i].f /\ (rpkt # <<>> => rpkt[1].f <= bd[i].f)
    <3>1. PICK k \in 0 .. RxN - 1 : i = RxAfter(cidx, k)
      BY <2>0, AfterOnto DEF RxTypeOK
    <3>2. bd[i] # Empty
      BY <2>3 DEF Empty
    <3>3. k < m /\ k \in 0 .. m
      BY <2>1, <3>1, <3>2, RxAssumption DEF RingInv
    <3>4. Nth(m, k) = bd[i]
      BY <3>1, <3>3 DEF Nth
    <3>5. QED
      BY <2>1, <3>3, <3>4 DEF PartInv, GoneInv
  <2>4. QED
    BY <2>2, <2>3 DEF InOrder
<1>2. QED
  BY <1>1, ChargeAlways, OrderAlways, PTL

=============================================================================
