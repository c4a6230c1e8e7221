-------------------------------- MODULE Serial --------------------------------
(***************************************************************************)
(* One port of the serial driver.  io-char's thread calls tto for output,  *)
(* timeouts and control; with DMA two threads of top priority wait for the *)
(* ends of the transfers, without it the interrupt handler asks for more.  *)
(*                                                                         *)
(* Modelled code: hardware/devc/sermx1, tto.c, intr.c and dev_cleanup of   *)
(* main.c.  io-char, the SDMA channels and the UART are external.  Left    *)
(* out: input by interrupt, the line settings, the PIO timer, which init.c *)
(* calls a failsafe, and the flow-control characters that io-char puts     *)
(* before the output (OSW_PAGED_OVERRIDE).                                 *)
(***************************************************************************)
EXTENDS Integers, Sequences

CONSTANTS
  XferSize,  \* DMA_XFER_SIZE, in bytes of output
  FifoSize,  \* the transmit FIFO
  Timeout,   \* MAX_TIMEOUT, in ticks
  Room,      \* ibuf.size, in transfers of input
  Bytes,     \* bound: the bytes the clients ever write
  Chunks,    \* bound: the transfers of input that ever arrive
  Ctrls,     \* bound: the changes of BRK and RTS
  UserRts    \* may a client assert RTS by devctl, too?

ASSUME SizeAssumption  == {XferSize, FifoSize, Timeout, Room} \subseteq Nat \ {0}
ASSUME BoundAssumption == {Bytes, Chunks, Ctrls} \subseteq Nat
ASSUME KindAssumption  == UserRts \in BOOLEAN

VARIABLES
  usedma,   \* dev->usedma
  written,  \* the bytes written so far
  obuf,     \* io-char's output buffer
  buf,      \* what tto has put in tx_dma.buf, byte_cnt bytes
  active,   \* tx_xfer_active
  tmr,      \* tx_tmr
  calls,    \* the calls of tto io-char has to make: TTO_DATA, and EVENT_TTO
  paged,    \* OHW_PAGED or OSW_PAGED: the peer has stopped the output
  io,       \* where io-char's thread is
  cr1,      \* the bits of CR1: "trdy", "rrdy", "brk"
  ioCr1,    \* the value of CR1 the thread has read, or changed
  isr,      \* where the interrupt handler is
  isrCr1,   \* the value of CR1 it has read
  asked,    \* the control bits that were asked for last
  ctrls,    \* how many changes
  txh,      \* where mx53_tx_pulse_hdlr is, and where mx53_rx_pulse_hdlr is
  rxh,
  txPulse,  \* has its thread a pulse?
  gave,     \* history: has DMA been disabled?
  dma,      \* the bytes the transmit channel has yet to move
  fifo, wire,
  cur,      \* the half of rx_dma.buf the receive channel fills (buffer0)
  half,     \* the transfer each half holds
  rdma,     \* does the receive channel run?
  rxPulse,  \* has its thread a pulse?
  ipaged,   \* IHW_PAGED
  ibuf,     \* io-char's input buffer
  up,       \* the last transfer a client has read
  heard     \* the transfers that have arrived

outVars  == <<written, obuf, buf, active, tmr, gave>>
ioVars   == <<io, ioCr1, asked, ctrls>>
intrVars == <<isr, isrCr1, txh, rxh>>
wireVars == <<fifo, wire>>
rxVars   == <<cur, half, rdma, rxPulse, ipaged, ibuf, up, heard>>
vars     == <<usedma, outVars, calls, paged, ioVars, cr1, intrVars, txPulse, dma, wireVars, rxVars>>

Least(a, b) == IF a < b THEN a ELSE b
From(s, n)  == SubSeq(s, n + 1, Len(s))

Init ==
  /\ usedma \in BOOLEAN
  /\ written = 0 /\ obuf = <<>> /\ buf = <<>> /\ active = FALSE /\ tmr = 0
  /\ gave = FALSE
  /\ calls = {} /\ paged = FALSE
  /\ io = "idle" /\ ioCr1 = {} /\ ctrls = 0
  /\ cr1 = (IF usedma THEN {} ELSE {"rrdy"}) /\ asked = cr1
  /\ isr = "away" /\ isrCr1 = {} /\ txh = "away" /\ rxh = "away" /\ txPulse = FALSE
  /\ dma = <<>> /\ fifo = <<>> /\ wire = <<>>
  /\ cur = 0 /\ half = [h \in {0, 1} |-> 0] /\ rdma = usedma /\ rxPulse = FALSE
  /\ ipaged = FALSE /\ ibuf = <<>> /\ up = 0 /\ heard = 0

-----------------------------------------------------------------------------
(* io-char: external.  It has one thread, which calls tto; the handler and the threads that
   wait for a pulse run beside it, on the other processors. *)

Write ==
  /\ written < Bytes
  /\ written' = written + 1
  /\ obuf' = Append(obuf, written + 1)
  /\ calls' = calls \cup {"data"}
  /\ UNCHANGED <<usedma, buf, active, tmr, gave, paged, ioVars, cr1, intrVars, txPulse,
                 dma, wireVars, rxVars>>

\* The timer of io-char: tto is called when tx_tmr gets to zero.
Tick ==
  /\ io = "idle" /\ tmr > 0
  /\ tmr' = tmr - 1
  /\ calls' = calls \cup IF tmr = 1 THEN {"data"} ELSE {}
  /\ UNCHANGED <<usedma, written, obuf, buf, active, gave, paged, ioVars, cr1, intrVars, txPulse,
                 dma, wireVars, rxVars>>

PeerStops ==
  /\ ~paged
  /\ paged' = TRUE
  /\ UNCHANGED <<usedma, outVars, calls, ioVars, cr1, intrVars, txPulse, dma, wireVars, rxVars>>

PeerResumes ==
  /\ paged
  /\ paged' = FALSE
  /\ calls' = calls \cup {"event"}
  /\ UNCHANGED <<usedma, outVars, ioVars, cr1, intrVars, txPulse, dma, wireVars, rxVars>>

-----------------------------------------------------------------------------
(* tto, TTO_DATA and TTO_EVENT *)

Called(a) == io = "idle" /\ a \in calls /\ calls' = calls \ {a}

\* dev_cleanup: both channels are aborted and released, and their threads cancelled; one that
\* is at work with a pulse finishes it.
DevCleanup ==
  /\ dma' = <<>> /\ txPulse' = FALSE
  /\ rdma' = FALSE /\ rxPulse' = FALSE

\* tx_xfer_active is read before the timer; a transfer that runs has io-char call again.
TtoBusy(a) ==
  /\ Called(a) /\ usedma /\ active
  /\ io' = IF a = "data" THEN "busy" ELSE "idle"
  /\ UNCHANGED <<usedma, outVars, paged, ioCr1, asked, ctrls, cr1, intrVars, txPulse, dma,
                 wireVars, rxVars>>

TtoWait ==
  /\ io = "busy" /\ tmr > 0 /\ io' = "idle"
  /\ UNCHANGED <<usedma, outVars, calls, paged, ioCr1, asked, ctrls, cr1, intrVars, txPulse, dma,
                 wireVars, rxVars>>

\* A transfer whose time is up when tto is called with TTO_DATA ends the use of DMA.
TtoTimedOut ==
  /\ io = "busy" /\ tmr = 0 /\ io' = "pio"
  /\ usedma' = FALSE /\ active' = FALSE
  /\ DevCleanup
  /\ gave' = TRUE
  /\ UNCHANGED <<written, obuf, buf, tmr, calls, paged, ioCr1, asked, ctrls, cr1, intrVars,
                 wireVars, cur, half, ipaged, ibuf, up, heard>>

\* Mutated form of TtoFill: tx_xfer_active is not tested.
TtoFillAlways(a) ==
  LET n == IF paged THEN 0 ELSE Least(Len(obuf), XferSize - Len(buf)) IN
  /\ Called(a) /\ usedma
  /\ buf' = buf \o SubSeq(obuf, 1, n)
  /\ obuf' = From(obuf, n)
  /\ io' = "filled"
  /\ UNCHANGED <<usedma, written, active, tmr, gave, paged, ioCr1, asked, ctrls, cr1,
                 intrVars, txPulse, dma, wireVars, rxVars>>

\* The buffer is filled up; what an earlier call has left in it stays.
TtoFill(a) ==
  LET n == IF paged THEN 0 ELSE Least(Len(obuf), XferSize - Len(buf)) IN
  /\ Called(a) /\ usedma /\ ~active
  /\ buf' = buf \o SubSeq(obuf, 1, n)
  /\ obuf' = From(obuf, n)
  /\ io' = "filled"
  /\ UNCHANGED <<usedma, written, active, tmr, gave, paged, ioCr1, asked, ctrls, cr1,
                 intrVars, txPulse, dma, wireVars, rxVars>>

\* The transfer is started unless the output was stopped after the filling.
TtoStart ==
  /\ io = "filled"
  /\ io' = "idle"
  /\ IF buf # <<>> /\ ~paged
     THEN dma' = buf /\ buf' = <<>> /\ active' = TRUE /\ tmr' = Timeout
     ELSE UNCHANGED <<dma, buf, active, tmr>>
  /\ UNCHANGED <<usedma, written, obuf, gave, calls, paged, ioCr1, asked, ctrls, cr1, intrVars,
                 txPulse, wireVars, rxVars>>

\* Without DMA the FIFO is filled as long as TRDY is set; for the rest TRDYEN is.
Fill ==
  LET n == IF paged THEN 0 ELSE Least(Len(obuf), FifoSize - Len(fifo)) IN
  /\ fifo' = fifo \o SubSeq(obuf, 1, n)
  /\ obuf' = From(obuf, n)
  /\ io' = IF ~paged /\ n < Len(obuf) THEN "trdy" ELSE "idle"
  /\ UNCHANGED <<usedma, written, buf, active, tmr, gave, paged, ioCr1, asked, ctrls,
                 cr1, intrVars, txPulse, dma, wire, rxVars>>

TtoPio(a) == Called(a) /\ ~usedma /\ Fill

TtoPioNow == io = "pio" /\ Fill /\ UNCHANGED calls

IoOnly == UNCHANGED <<usedma, outVars, calls, paged, intrVars, txPulse, dma, wireVars, rxVars>>

TrdyRead ==
  /\ io = "trdy" /\ io' = "write"
  /\ ioCr1' = cr1 \cup {"trdy"}
  /\ IoOnly /\ UNCHANGED <<asked, ctrls, cr1>>

-----------------------------------------------------------------------------
(* tto, TTO_CTRL *)

\* BRK, and without DMA RTS, is a bit of CR1.
CtrlRead ==
  /\ io = "idle" /\ ctrls < Ctrls
  /\ \E b \in {"brk"} \cup IF usedma THEN {} ELSE {"rrdy"} :
       /\ asked' = IF b \in asked THEN asked \ {b} ELSE asked \cup {b}
       /\ ioCr1' = IF b \in asked THEN cr1 \ {b} ELSE cr1 \cup {b}
  /\ io' = "write" /\ ctrls' = ctrls + 1
  /\ IoOnly /\ UNCHANGED cr1

Cr1Write ==
  /\ io = "write" /\ io' = "idle"
  /\ cr1' = ioCr1
  /\ IoOnly /\ UNCHANGED <<ioCr1, asked, ctrls>>

\* Mutated form of Started: the same half again.
StartedSame == rdma' = TRUE /\ UNCHANGED cur

\* The other half is filled next.
Started == rdma' = TRUE /\ cur' = 1 - cur

\* With DMA, RTS passes the half up that found no room before.  io-char asserts RTS when
\* IHW_PAGED is set and there is room again.
RtsResume ==
  /\ io = "idle" /\ usedma /\ (ipaged \/ UserRts) /\ Len(ibuf) < Room
  /\ ipaged' = FALSE
  /\ ibuf' = Append(ibuf, half[cur])
  /\ Started
  /\ UNCHANGED <<usedma, outVars, calls, paged, ioVars, cr1, intrVars, txPulse, dma, wireVars,
                 half, rxPulse, up, heard>>

-----------------------------------------------------------------------------
(* tx_interrupt, mx53_tx_pulse_hdlr and mx53_rx_pulse_hdlr *)

IsrRead ==
  /\ ~usedma /\ "trdy" \in cr1 /\ Len(fifo) < FifoSize
  /\ isr = "away" /\ isr' = "write"
  /\ isrCr1' = cr1
  /\ UNCHANGED <<usedma, outVars, calls, paged, ioVars, cr1, txh, rxh, txPulse, dma, wireVars, rxVars>>

IsrWrite ==
  /\ isr = "write" /\ isr' = "away"
  /\ cr1' = isrCr1 \ {"trdy"}
  /\ calls' = calls \cup {"event"}
  /\ UNCHANGED <<usedma, outVars, paged, ioVars, isrCr1, txh, rxh, txPulse, dma, wireVars, rxVars>>

TxPulse ==
  /\ txPulse /\ txh = "away"
  /\ txPulse' = FALSE /\ txh' = "tmr"
  /\ active' = FALSE
  /\ UNCHANGED <<usedma, written, obuf, buf, tmr, gave, calls, paged, ioVars, cr1,
                 isr, isrCr1, rxh, dma, wireVars, rxVars>>

\* Mutated form of TxPulseTmr: tto is not called.
TxPulseTmrQuiet ==
  /\ txh = "tmr" /\ txh' = "away"
  /\ tmr' = 0
  /\ UNCHANGED <<usedma, written, obuf, buf, active, gave, calls, paged, ioVars, cr1,
                 isr, isrCr1, rxh, txPulse, dma, wireVars, rxVars>>

TxPulseTmr ==
  /\ txh = "tmr" /\ txh' = "away"
  /\ tmr' = 0
  /\ calls' = calls \cup {"event"}
  /\ UNCHANGED <<usedma, written, obuf, buf, active, gave, paged, ioVars, cr1,
                 isr, isrCr1, rxh, txPulse, dma, wireVars, rxVars>>

\* Mutated form of RxPulse: IHW_PAGED is not set.
RxPulseSilent ==
  /\ rxPulse /\ rxh = "away" /\ rxPulse' = FALSE
  /\ IF Len(ibuf) < Room THEN Started /\ rxh' = "up"
                         ELSE UNCHANGED <<rdma, cur, rxh>>
  /\ UNCHANGED <<usedma, outVars, calls, paged, ioVars, cr1, isr, isrCr1, txh, txPulse, dma,
                 wireVars, ipaged, ibuf, half, up, heard>>

\* "no enough spage in ibuf": the half is kept, and no transfer is started.
RxPulse ==
  /\ rxPulse /\ rxh = "away" /\ rxPulse' = FALSE
  /\ IF Len(ibuf) < Room THEN Started /\ rxh' = "up" /\ UNCHANGED ipaged
                         ELSE ipaged' = TRUE /\ UNCHANGED <<rdma, cur, rxh>>
  /\ UNCHANGED <<usedma, outVars, calls, paged, ioVars, cr1, isr, isrCr1, txh, txPulse, dma,
                 wireVars, ibuf, half, up, heard>>

\* The half that was full is passed up while the channel fills the other one.
RxPulseUp ==
  /\ rxh = "up" /\ rxh' = "away"
  /\ ibuf' = Append(ibuf, half[1 - cur])
  /\ UNCHANGED <<usedma, outVars, calls, paged, ioVars, cr1, isr, isrCr1, txh, txPulse, dma,
                 wireVars, cur, half, rdma, rxPulse, ipaged, up, heard>>

-----------------------------------------------------------------------------
(* The SDMA channels, the UART and the reading client: external *)

TxDma ==
  /\ dma # <<>> /\ Len(fifo) < FifoSize
  /\ fifo' = Append(fifo, Head(dma))
  /\ dma' = Tail(dma)
  /\ txPulse' = (Len(dma) = 1)
  /\ UNCHANGED <<usedma, outVars, calls, paged, ioVars, cr1, intrVars, wire, rxVars>>

Shift ==
  /\ fifo # <<>>
  /\ wire' = Append(wire, Head(fifo))
  /\ fifo' = Tail(fifo)
  /\ UNCHANGED <<usedma, outVars, calls, paged, ioVars, cr1, intrVars, txPulse, dma, rxVars>>

RxDma ==
  /\ rdma /\ heard < Chunks
  /\ rdma' = FALSE /\ rxPulse' = TRUE
  /\ heard' = heard + 1
  /\ half' = [half EXCEPT ![cur] = heard + 1]
  /\ UNCHANGED <<usedma, outVars, calls, paged, ioVars, cr1, intrVars, txPulse, dma, wireVars,
                 cur, ipaged, ibuf, up>>

Read ==
  /\ ibuf # <<>>
  /\ up' = Head(ibuf) /\ ibuf' = Tail(ibuf)
  /\ UNCHANGED <<usedma, outVars, calls, paged, ioVars, cr1, intrVars, txPulse, dma, wireVars,
                 cur, half, rdma, rxPulse, ipaged, heard>>

-----------------------------------------------------------------------------
Tto ==
  \/ \E a \in {"data", "event"} : TtoBusy(a) \/ TtoFill(a) \/ TtoPio(a)
  \/ TtoWait \/ TtoTimedOut \/ TtoStart \/ TtoPioNow \/ TrdyRead \/ Cr1Write

Handlers == IsrRead \/ IsrWrite \/ TxPulse \/ TxPulseTmr \/ RxPulse \/ RxPulseUp

Next ==
  \/ Write \/ Tick \/ PeerStops \/ PeerResumes
  \/ Tto \/ CtrlRead \/ RtsResume
  \/ Handlers
  \/ TxDma \/ Shift \/ RxDma \/ Read

Spec == Init /\ [][Next]_vars

\* Threads run, interrupts are served, the peer resumes, the client reads.
LiveSpec ==
  /\ Spec
  /\ SF_vars(Tto) /\ SF_vars(RtsResume) /\ WF_vars(Handlers)
  /\ WF_vars(PeerResumes) /\ WF_vars(TxDma) /\ WF_vars(Shift) /\ WF_vars(Read)

-----------------------------------------------------------------------------
Byte == 1 .. Bytes
Bit  == {"trdy", "rrdy", "brk"}

\* The values of the driver's and the port's state.
TypeOK ==
  /\ {usedma, active, paged, txPulse, gave, rdma, rxPulse, ipaged} \subseteq BOOLEAN
  /\ {obuf, buf, dma, fifo, wire} \subseteq Seq(Byte)
  /\ Len(buf) <= XferSize /\ Len(fifo) <= FifoSize /\ Len(ibuf) <= Room
  /\ written \in 0 .. Bytes /\ tmr \in 0 .. Timeout /\ ctrls \in 0 .. Ctrls
  /\ calls \subseteq {"data", "event"}
  /\ io \in {"idle", "busy", "filled", "pio", "trdy", "write"}
  /\ isr \in {"away", "write"} /\ txh \in {"away", "tmr"} /\ rxh \in {"away", "up"}
  /\ {cr1, ioCr1, isrCr1, asked} \subseteq SUBSET Bit
  /\ cur \in {0, 1} /\ half \in [{0, 1} -> 0 .. Chunks] /\ ibuf \in Seq(1 .. Chunks)
  /\ up \in 0 .. Chunks /\ heard \in 0 .. Chunks

\* Every byte written is in one place, in order, on its way to the wire; only the transfer
\* that runs when DMA is disabled is lost.
OutputInOrder ==
  LET all == wire \o fifo \o dma \o buf \o obuf IN
  /\ \A j \in 1 .. Len(all) - 1 : all[j] < all[j + 1]
  /\ ~gave => Len(all) = written

\* The input passes up in order, each transfer once, whichever of the handler and tto passes
\* it up.
InputInOrder == \A j \in DOMAIN ibuf : ibuf[j] = up + j

\* When the peer has resumed for good, no byte stays in the driver: with an event lost, a
\* client would wait for ever.
OutputSent == <>[]~paged => (obuf \o buf # <<>> ~> obuf \o buf = <<>>)

\* "This is okay because auto-cts is enabled and another transfer will get scheduled"
\* (intr.c:89): the receive channel, stopped when the input found no room, is started again.
InputResumes == usedma /\ ~rdma ~> rdma \/ ~usedma

\* "Enable/disable RX interrupts to assert/clear input HW flow control" (tto.c:100): CR1 has
\* the bits that were asked for, though the interrupt handler writes it as well.
CtrlKept == io = "idle" /\ isr = "away" => cr1 \cap {"rrdy", "brk"} = asked

\* "if the device has DRAINED, return 1" (tto.c, drain_check): with DMA.
Drained == obuf = <<>> /\ dma = <<>> /\ fifo = <<>>

DrainMeansSent == usedma /\ io = "idle" /\ Drained => Len(wire) = written

\* Input goes on when DMA is disabled.
InputGoesOn == gave => "rrdy" \in cr1
===============================================================================
