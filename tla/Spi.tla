---------------------------------- MODULE Spi ----------------------------------
(***************************************************************************)
(* The SPI resource manager and the driver of the enhanced controller: the *)
(* locks of the devices on the bus, and a transfer in place, burst after   *)
(* burst, that the interrupt handler moves through two FIFOs of words.     *)
(*                                                                         *)
(* Modelled code: hardware/spi/master (one thread handles the messages of  *)
(* an instance) and mx51ecspi in its default burst mode: mx51_xfer,        *)
(* spi_intr and mx51_wait.  The controller is external.                    *)
(***************************************************************************)
EXTENDS Integers, Sequences

CONSTANTS
  Client, Device, NoDevice,  \* NoDevice is SPI_DEV_ID_NONE
  W,           \* the bytes of a FIFO word
  FifoSize,    \* MX51_CSPI_FIFO_SIZE
  BurstMax,    \* MX51_CSPI_BURST_MAX, in bytes
  Lens,        \* the lengths of the transfers the clients ask for
  NamesDevice, \* does every message name its device?
  AfterLate    \* bound: is there a transfer after one that timed out?

RxMark == FifoSize \div 2

ASSUME DeviceAssumption == NoDevice \notin Device
ASSUME SizeAssumption   == /\ {W, FifoSize, BurstMax} \subseteq Nat \ {0} /\ FifoSize > 1
                           /\ BurstMax % W = 0 /\ Lens \subseteq Nat \ {0}
ASSUME KindAssumption   == {NamesDevice, AfterLate} \subseteq BOOLEAN

VARIABLES
  open,   \* the clients that have /dev/spi open
  chip,   \* chip[c]: the default device of c
  locks,  \* drvhdl->lock: who has locked which device
  pc,     \* where the thread of the instance is
  x,      \* the transfer: who, dev, xlen, dlen, tlen, rlen, bxlen, btlen, brlen, lsb
  buf,    \* the buffer, byte by byte: what is to be sent, or has been received
  pulse,  \* the pulses of the handler the thread has not received
  inten,  \* INTREG
  isr,    \* where the interrupt handler is
  cnt,    \* the words it takes from the receive FIFO
  txf, rxf,
  xch,    \* CONTROLREG_XCH: the controller exchanges words
  left,   \* the bytes of the burst to come
  tc,     \* STATREG_TC
  sent,   \* the bytes on the wire in this transfer
  late    \* history: has a transfer timed out?

busVars  == <<open, chip, locks>>
intrVars == <<pulse, inten, isr, cnt>>
hwVars   == <<txf, rxf, xch, left, tc, sent>>
vars     == <<busVars, pc, x, buf, intrVars, hwVars, late>>

Out(i)    == <<"out", i>>
In(i)     == <<"in", i>>
Least(a, b) == IF a < b THEN a ELSE b
Fit(s)    == SubSeq(s, 1, Least(Len(s), FifoSize))

Idle == [who |-> NoDevice, dev |-> NoDevice, xlen |-> 0, dlen |-> 1, tlen |-> 0, rlen |-> 0,
         bxlen |-> 0, btlen |-> 0, brlen |-> 0, lsb |-> 0]

Init ==
  /\ open = {} /\ chip = [c \in Client |-> NoDevice] /\ locks = {}
  /\ pc = "idle" /\ x = Idle /\ buf = <<>>
  /\ pulse = 0 /\ inten = FALSE /\ isr = "away" /\ cnt = 0
  /\ txf = <<>> /\ rxf = <<>> /\ xch = FALSE /\ left = 0 /\ tc = FALSE /\ sent = <<>>
  /\ late = FALSE

-----------------------------------------------------------------------------
(* The resource manager: _spi_devlock.c, _spi_devctl.c, _spi_close_ocb.c *)

Open(c) ==
  /\ pc = "idle" /\ c \notin open
  /\ open' = open \cup {c}
  /\ UNCHANGED <<chip, locks, pc, x, buf, intrVars, hwVars, late>>

\* _spi_unlock_dev with no device until it fails: every lock of c goes.
Unlocked(c) == {l \in locks : l.owner # c}

Close(c) ==
  /\ pc = "idle" /\ c \in open
  /\ open' = open \ {c}
  /\ chip' = [chip EXCEPT ![c] = NoDevice]
  /\ locks' = Unlocked(c)
  /\ UNCHANGED <<pc, x, buf, intrVars, hwVars, late>>

\* DCMD_SPI_SET_CONFIG with SPI_DEV_DEFAULT; locks are not looked at.
SetDefault(c, d) ==
  /\ pc = "idle" /\ c \in open
  /\ chip' = [chip EXCEPT ![c] = d]
  /\ UNCHANGED <<open, locks, pc, x, buf, intrVars, hwVars, late>>

\* _spi_islock, and EPERM: nobody else has locked d.
Granted(c, d) == \A l \in locks : l.device = d => l.owner = c

\* _spi_lock_dev, where c has not locked d yet; _spi_unlock_dev, where it has, or EINVAL.
\* An unlock of "no device" takes a lock of c, of whatever device.
Request(c, d, flag) ==
  \/ flag = "none" /\ UNCHANGED locks
  \/ flag = "lock" /\ locks' = locks \cup {[owner |-> c, device |-> d]}
  \/ /\ flag = "unlock" /\ [owner |-> c, device |-> d] \in locks
     /\ \E l \in locks : l.owner = c /\ d \in {l.device, NoDevice} /\ locks' = locks \ {l}

\* Mutated form of LockCheck: the owner is looked at for a lock or unlock only.
LockCheckAny(c, d, flag) == (flag = "none" \/ Granted(c, d)) /\ Request(c, d, flag)

LockCheck(c, d, flag) == Granted(c, d) /\ Request(c, d, flag)

\* mx51_xfer up to the first burst: the control register is written with no XCH, the receive
\* FIFO is emptied, the transmit FIFO is not.
\* A length below a word's, or no device, is an error before anything is done.
Begin(c, d, n, w) ==
  /\ late => AfterLate
  /\ IF d = NoDevice \/ n < w THEN UNCHANGED <<pc, x, buf, inten, rxf, xch, left, sent>>
     ELSE /\ x' = [Idle EXCEPT !.who = c, !.dev = d, !.xlen = n, !.dlen = w]
          /\ buf' = [i \in 1 .. n |-> Out(i)]
          /\ inten' = FALSE /\ xch' = FALSE /\ left' = 0 /\ rxf' = <<>> /\ sent' = <<>>
          /\ pc' = "load"

\* _spi_iomsg: the lock is looked up for the device the message names, and the transfer is
\* with the default device of the client if it names none.
Message(c, d, flag, n, w) ==
  /\ pc = "idle" /\ c \in open /\ LockCheck(c, d, flag)
  /\ d = NoDevice => ~NamesDevice
  /\ Begin(c, IF d = NoDevice THEN chip[c] ELSE d, n, w)
  /\ UNCHANGED <<open, chip, pulse, isr, cnt, txf, tc, late>>

\* _spi_read and _spi_write: always the default device.
ReadWrite(c, n, w) ==
  /\ pc = "idle" /\ c \in open /\ LockCheck(c, chip[c], "none")
  /\ Begin(c, chip[c], n, w)
  /\ UNCHANGED <<open, chip, pulse, isr, cnt, txf, tc, late>>

-----------------------------------------------------------------------------
(* mx51_xfer *)

\* Whether an exchange without a word to send waits for one or stops is the controller's
\* affair; the code allows for both, and sets XCH again when it has added words.
Exchanges(words) == xch' \in {TRUE, words # <<>>}

\* The bytes from tlen on as k words.
Words(t, k) == [j \in 1 .. k |-> [b \in 1 .. W |-> buf[t + (j - 1) * W + b]]]

\* The next burst: what is left of a word comes first, then words as far as the FIFO goes.
\* Only words of one byte may be split.
Load ==
  LET n     == Least(x.xlen - x.tlen, BurstMax)
      short == n % W
      head  == IF short = 0 THEN <<>> ELSE <<[b \in 1 .. short |-> buf[x.tlen + b]]>>
      k     == Least((n - short) \div W, FifoSize - Len(head))
  IN
  /\ pc = "load"
  /\ IF short # 0 /\ x.dlen # 1
     THEN /\ pc' = "fail" /\ inten' = FALSE /\ UNCHANGED <<x, txf>>
     ELSE /\ pc' = "start" /\ inten' = TRUE
          /\ txf' = Fit(txf \o head \o Words(x.tlen + short, k))
          /\ x' = [x EXCEPT !.tlen = @ + short + k * W, !.bxlen = n, !.btlen = short + k * W,
                            !.brlen = 0, !.lsb = short]
  /\ UNCHANGED <<busVars, buf, pulse, isr, cnt, rxf, xch, left, tc, sent, late>>

\* XCH: a controller whose burst is over starts one of the length that was set.
Exchange ==
  /\ IF xch THEN UNCHANGED xch ELSE Exchanges(txf)
  /\ left' = IF left = 0 /\ xch' THEN x.bxlen ELSE left

StartBurst ==
  /\ pc = "start" /\ pc' = "wait"
  /\ Exchange
  /\ UNCHANGED <<busVars, x, buf, intrVars, txf, rxf, tc, sent, late>>

\* Mutated form of Loop: the burst's length is taken for the transfer's.
LoopBurst(r) ==
  /\ x' = [x EXCEPT !.rlen = r]
  /\ IF r < x.bxlen /\ x.tlen < x.xlen THEN pc' = "load" /\ UNCHANGED inten
                                       ELSE pc' = "done" /\ inten' = FALSE

\* After a burst: the next one, or the end with interrupts disabled.
Loop(r) ==
  /\ x' = [x EXCEPT !.rlen = r]
  /\ IF r < x.xlen /\ x.tlen < x.xlen THEN pc' = "load" /\ UNCHANGED inten
                                      ELSE pc' = "done" /\ inten' = FALSE

Wait ==
  /\ pc = "wait" /\ pulse > 0
  /\ pulse' = pulse - 1
  /\ Loop(x.rlen)
  /\ UNCHANGED <<busVars, buf, isr, cnt, hwVars, late>>

TimeOut ==
  /\ pc = "wait" /\ pulse = 0
  /\ Loop(-1) /\ late' = TRUE
  /\ UNCHANGED <<busVars, buf, pulse, isr, cnt, hwVars>>

Reply ==
  /\ pc \in {"done", "fail"}
  /\ pc' = "idle" /\ x' = Idle /\ buf' = <<>>
  /\ UNCHANGED <<busVars, intrVars, hwVars, late>>

-----------------------------------------------------------------------------
(* spi_intr *)

\* Mutated form of Refill: the FIFO is filled up.
RefillAll == Least((x.bxlen - x.btlen) \div W, FifoSize)

\* The words the handler puts into the transmit FIFO: at most RXMARK of the burst.
Refill == Least((x.bxlen - x.btlen) \div W, RxMark)

\* Mutated form of BurstDone: off by one.
BurstDoneLate(b, r) == b > x.bxlen \/ r >= x.xlen

BurstDone(b, r) == b >= x.bxlen \/ r >= x.xlen

\* Mutated form of Received: the adjustment of the first word is not undone.
ReceivedWhole(n) == n * W

\* The bytes in n words of the receive FIFO, the first of which may be short.
Received(n) == n * W - IF x.lsb # 0 /\ n > 0 THEN W - x.lsb ELSE 0

\* The buffer with the first n words of the receive FIFO, each of them behind the one before,
\* from rlen on.
Filled(n) ==
  LET Place(i, j) == i - x.rlen - Received(j - 1)
      From(i)     == {j \in 1 .. n : Place(i, j) \in DOMAIN rxf[j]}
  IN [i \in DOMAIN buf |->
       IF From(i) = {} THEN buf[i]
       ELSE LET j == CHOOSE j \in From(i) : TRUE IN rxf[j][Place(i, j)]]

\* Mutated form of IsrRead: TC is not cleared.
IsrReadKept ==
  /\ isr = "away" /\ inten /\ (tc \/ Len(rxf) > RxMark)
  /\ isr' = "move"
  /\ cnt' = IF tc THEN Len(rxf) ELSE RxMark
  /\ UNCHANGED <<busVars, pc, x, buf, pulse, inten, hwVars, late>>

\* At the end of the burst all that was received is to be read, before it RXMARK words.
IsrRead ==
  /\ isr = "away" /\ inten /\ (tc \/ Len(rxf) > RxMark)
  /\ isr' = "move"
  /\ cnt' = IF tc THEN Len(rxf) ELSE RxMark
  /\ tc' = FALSE
  /\ UNCHANGED <<busVars, pc, x, buf, pulse, inten, txf, rxf, xch, left, sent, late>>

\* A word that is exchanged in the meantime goes behind the ones that are read.
IsrMove ==
  /\ isr = "move" /\ isr' = "end"
  /\ rxf' = SubSeq(rxf, cnt + 1, Len(rxf))
  /\ buf' = Filled(cnt)
  /\ txf' = Fit(txf \o Words(x.tlen, Refill))
  /\ x' = [x EXCEPT !.rlen = @ + Received(cnt), !.brlen = @ + Received(cnt),
                    !.lsb = IF cnt > 0 THEN 0 ELSE @,
                    !.tlen = @ + Refill * W, !.btlen = @ + Refill * W]
  /\ UNCHANGED <<busVars, pc, pulse, inten, cnt, xch, left, tc, sent, late>>

\* A burst that is not done goes on, or one starts whose words are not loaded yet.
IsrEnd ==
  /\ isr = "end" /\ isr' = "away"
  /\ IF BurstDone(x.brlen, x.rlen)
     THEN inten' = FALSE /\ pulse' = pulse + 1 /\ UNCHANGED <<xch, left>>
     ELSE Exchange /\ UNCHANGED <<pulse, inten>>
  /\ UNCHANGED <<busVars, pc, x, buf, cnt, txf, rxf, tc, sent, late>>

-----------------------------------------------------------------------------
(* The controller: external *)

\* A word is sent and one received; with the last one of the burst the exchange is complete.
Shift ==
  LET w == Head(txf) IN
  /\ xch /\ txf # <<>>
  /\ txf' = Tail(txf)
  /\ rxf' = Fit(Append(rxf, [b \in DOMAIN w |-> In(w[b][2])]))
  /\ sent' = sent \o w
  /\ left' = left - Least(left, Len(w))
  /\ IF left > Len(w) THEN Exchanges(Tail(txf)) ELSE xch' = FALSE
  /\ tc' = (tc \/ left <= Len(w))
  /\ UNCHANGED <<busVars, pc, x, buf, intrVars, late>>

-----------------------------------------------------------------------------
Xfer == Load \/ StartBurst \/ Wait \/ Reply

Manager ==
  \E c \in Client :
    \/ Open(c) \/ Close(c)
    \/ \E d \in Device : SetDefault(c, d)
    \/ \E n \in Lens, w \in {1, W} :
         \/ ReadWrite(c, n, w)
         \/ \E d \in Device \cup {NoDevice}, flag \in {"none", "lock", "unlock"} :
              Message(c, d, flag, n, w)

Isr == IsrRead \/ IsrMove \/ IsrEnd

Next == Manager \/ Xfer \/ TimeOut \/ Isr \/ Shift

Spec == Init /\ [][Next]_vars

\* The thread runs, interrupts are served, the controller exchanges words.
LiveSpec == Spec /\ WF_vars(Xfer) /\ WF_vars(Isr) /\ WF_vars(Shift)

-----------------------------------------------------------------------------
\* The values of the manager's and the driver's state.
TypeOK ==
  /\ open \subseteq Client
  /\ chip \in [Client -> Device \cup {NoDevice}]
  /\ locks \subseteq [owner : Client, device : Device \cup {NoDevice}]
  /\ pc \in {"idle", "load", "start", "wait", "done", "fail"}
  /\ x.who \in Client \cup {NoDevice} /\ x.dev \in Device \cup {NoDevice}
  /\ x.xlen \in Lens \cup {0} /\ x.dlen \in {1, W}
  /\ x.tlen \in 0 .. x.xlen /\ x.rlen >= -1
  /\ x.bxlen \in 0 .. BurstMax /\ x.btlen \in 0 .. x.bxlen /\ x.lsb \in 0 .. W - 1
  /\ DOMAIN buf = 1 .. x.xlen
  /\ pulse \in Nat /\ left \in 0 .. BurstMax
  /\ isr \in {"away", "move", "end"} /\ cnt \in 0 .. FifoSize
  /\ {inten, xch, tc, late} \subseteq BOOLEAN

\* A device is locked by one client at a time, whose locks end with its open file, and no
\* transfer of another client is done with it.
LockExcludes ==
  /\ \A k, l \in locks : k.device = l.device => k = l
  /\ \A l \in locks : l.owner \in open
  /\ \A l \in locks : pc # "idle" /\ l.device = x.dev => l.owner = x.who

\* The two FIFOs together never hold more words than one has room for, so that no word that
\* comes back is lost, though the handler refills one while it empties the other; until a
\* transfer has timed out.
NoOverrun == ~late => Len(txf) + Len(rxf) <= FifoSize

\* The handler reads only words that have been received, and never none: a count that is
\* taken below zero (intr.c:63) would have it read, and write to memory, without end.
ReadsReceived == isr = "move" /\ ~late => cnt \in 1 .. Len(rxf)

\* A transfer that ends is complete: every byte was sent, in order, and is replaced by the
\* one that came back for it, and no pulse is left for the next transfer to take for its
\* own; until a transfer has timed out.
Exchanged ==
  pc = "done" /\ ~late =>
    /\ pulse = 0
    /\ x.rlen = x.xlen
    /\ \A i \in 1 .. x.xlen : buf[i] = In(i)
    /\ sent = [i \in 1 .. x.xlen |-> Out(i)]

\* A transfer is in progress from its message to its answer; its exchange is what has been
\* put through when the driver is done.
CurXfer ==
  IF pc = "idle" THEN [who |-> NoDevice, dev |-> NoDevice, len |-> 0]
                 ELSE [who |-> x.who, dev |-> x.dev, len |-> x.xlen]

Wire == IF pc = "done" THEN sent ELSE <<>>
Got  == IF pc = "done" THEN buf ELSE <<>>

Bus == INSTANCE SpiBus WITH cur <- CurXfer, wire <- Wire, got <- Got

\* The locks, bursts and interrupts implement a bus on which transfers are exchanged at
\* once, each for a client that may use the device, until one has timed out.
ImplementsBus == Bus!Spec

\* A transfer comes to its end by itself: nothing waits for a pulse that is not sent, until
\* the timeout, of which no fairness is assumed, ends it; or until a burst finds the
\* controller with XCH set, and the length of the burst before, by its last handler.
XferReturns == pc = "load" /\ ~xch ~> (pc = "idle" \/ late \/ (pc = "load" /\ xch))

\* "dev->rlen = -1" (mxecspi.c, after the timeout): the handler writes inside the buffer.
WritesInside == inten => x.rlen >= 0
===============================================================================
