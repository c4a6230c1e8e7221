-------------------------------- MODULE EnetRx --------------------------------
(***************************************************************************)
(* The receive side of the Ethernet driver: the ring the controller fills, *)
(* the receive thread that puts fragments together and queues frames, the  *)
(* work that passes them up, and the interrupt mask they hand to and fro.  *)
(*                                                                         *)
(* Modelled code: hardware/devnp/mx6x, receive.c, event.c, the receive     *)
(* thread of detect.c and mii.c, for the one queue of the i.MX6Q.  The     *)
(* controller is external.  Names that the transmit ring has too begin     *)
(* with Rx: EnetProofs extends both.                                       *)
(***************************************************************************)
EXTENDS Naturals, Sequences

CONSTANTS
  RxN,         \* num_rx_descriptors
  QMax,        \* rx_queue.ifq_maxlen
  RxFrames,    \* bound: the frames that arrive
  RxMaxFrags,  \* the descriptors a frame may take
  MayFail      \* may a buffer not be allocated?

ASSUME RxAssumption == /\ {RxN, QMax, RxMaxFrags} \subseteq Nat \ {0} /\ RxFrames \in Nat
                       /\ MayFail \in BOOLEAN

VARIABLES
  bd,       \* bd[i]: the fragment in descriptor i, Empty if the controller owns it
  cidx,     \* rx_cidx
  rpkt,     \* the fragments of the frame being put together
  rxq,      \* rx_queue
  running,  \* rx_running
  full,     \* rx_full
  mutex,    \* rx_mutex: its holder
  rx,       \* where the receive thread is
  pulse,    \* has it a pulse?
  work,     \* where the work on rx_queue is
  flow,     \* is flow control negotiated?
  up,       \* the last frame passed up
  rxSeen,   \* the receive bit in the value mii.c has read from IEVENT
  nidx,     \* the controller's next descriptor
  rdar,     \* R_DES_ACTIVE
  arrived,  \* the frames that have arrived
  frag,     \* the fragments of the next one that have
  rfint,    \* RFINT in IEVENT
  rfien,    \* RFIEN in IMASK
  rxMishap  \* history: "event" cleared by mii.c, "flow" stopped with frames in the ring

rxVars  == <<cidx, rpkt, rx>>
qVars   == <<rxq, running, full, mutex>>
nicVars == <<nidx, arrived, frag>>
allVars == <<bd, rxVars, qVars, pulse, work, flow, up, rxSeen, nicVars, rdar, rfint, rfien,
             rxMishap>>

RxRing   == 0 .. RxN - 1
RxNobody == "nobody"
Empty    == [f |-> 0, k |-> 0, last |-> FALSE, err |-> FALSE]

\* The controller wraps after the last descriptor.
Wrap(i) == IF i + 1 = RxN THEN 0 ELSE i + 1

RxInit ==
  /\ bd = [i \in RxRing |-> Empty]
  /\ cidx = 0 /\ rpkt = <<>> /\ rx = "wait"
  /\ rxq = <<>> /\ running = FALSE /\ full = FALSE /\ mutex = RxNobody
  /\ pulse = FALSE
  /\ work = "idle"
  /\ flow \in BOOLEAN
  /\ up = 0
  /\ rxSeen = FALSE
  /\ nidx = 0 /\ rdar = TRUE /\ arrived = 0 /\ frag = 0
  /\ rfint = FALSE /\ rfien = TRUE
  /\ rxMishap = {}

-----------------------------------------------------------------------------
(* The controller: external *)

\* A fragment is written; with the last one the frame has arrived, perhaps damaged.
Arrive ==
  /\ rdar /\ arrived < RxFrames /\ bd[nidx] = Empty
  /\ \E last \in IF frag + 1 < RxMaxFrags THEN BOOLEAN ELSE {TRUE}, err \in BOOLEAN :
       /\ err => last
       /\ bd' = [bd EXCEPT ![nidx] = [f |-> arrived + 1, k |-> frag + 1, last |-> last, err |-> err]]
       /\ arrived' = IF last THEN arrived + 1 ELSE arrived
       /\ frag' = IF last THEN 0 ELSE frag + 1
       /\ rfint' = (rfint \/ last)
  /\ nidx' = Wrap(nidx)
  /\ UNCHANGED <<rxVars, qVars, pulse, work, flow, up, rxSeen, rdar, rfien, rxMishap>>

\* It stops at a descriptor it does not own.
NicStops ==
  /\ rdar /\ bd[nidx] # Empty
  /\ rdar' = FALSE
  /\ UNCHANGED <<bd, rxVars, qVars, pulse, work, flow, up, rxSeen, nicVars, rfint, rfien, rxMishap>>

-----------------------------------------------------------------------------
(* mx6q_isr, and mx6q_rx_thread up to mx6q_receive *)

\* Mutated form of RxIsr: the interrupt is not masked.
RxIsrOpen ==
  /\ rfint /\ rfien
  /\ pulse' = TRUE
  /\ UNCHANGED <<bd, rxVars, qVars, work, flow, up, rxSeen, nicVars, rdar, rfint, rfien, rxMishap>>

RxIsr ==
  /\ rfint /\ rfien
  /\ rfien' = FALSE /\ pulse' = TRUE
  /\ UNCHANGED <<bd, rxVars, qVars, work, flow, up, rxSeen, nicVars, rdar, rfint, rxMishap>>

RxGoto(from, to) == rx = from /\ rx' = to

\* The event is cleared before the ring is looked at.
TakePulse ==
  /\ pulse
  /\ RxGoto("wait", "look")
  /\ pulse' = FALSE /\ rfint' = FALSE
  /\ UNCHANGED <<bd, cidx, rpkt, qVars, work, flow, up, rxSeen, nicVars, rdar, rfien, rxMishap>>

-----------------------------------------------------------------------------
(* mx6q_receive *)

\* Mutated form of NextRx: off by one.
NextRxEarly(i) == (i + 1) % (RxN - 1)

NextRx(i) == (i + 1) % RxN

\* Mutated form of Dropped: the fragments so far are kept.
DroppedNot == rpkt

\* "Half way through a packet, discard it all"
Dropped == <<>>

\* A damaged frame, or one for which no buffer can be had: the descriptor goes back to the
\* controller with the buffer it has.
Discard ==
  /\ RxGoto("look", "look") /\ bd[cidx] # Empty
  /\ bd[cidx].err \/ MayFail
  /\ bd' = [bd EXCEPT ![cidx] = Empty]
  /\ cidx' = NextRx(cidx)
  /\ rpkt' = Dropped
  /\ UNCHANGED <<qVars, pulse, work, flow, up, rxSeen, nicVars, rdar, rfint, rfien, rxMishap>>

\* The fragment is taken and the descriptor goes back with a new buffer.
TakeFragment ==
  /\ RxGoto("look", IF bd[cidx].last THEN "put" ELSE "look")
  /\ bd[cidx] # Empty /\ ~bd[cidx].err
  /\ rpkt' = Append(rpkt, bd[cidx])
  /\ bd' = [bd EXCEPT ![cidx] = Empty]
  /\ cidx' = NextRx(cidx)
  /\ UNCHANGED <<qVars, pulse, work, flow, up, rxSeen, nicVars, rdar, rfint, rfien, rxMishap>>

\* What the frame is when it is passed up: whose it is, and is it all of it?
Packet == [f |-> rpkt[1].f, whole |-> rpkt[1].k = 1]

\* Under rx_mutex: a full queue drops the frame, a queue nobody works on is scheduled.  With
\* flow control a queue that is nearly full ends the reception, with the interrupt masked.
PutFrame ==
  /\ rx = "put" /\ mutex = RxNobody
  /\ LET queued == IF Len(rxq) >= QMax THEN rxq ELSE Append(rxq, Packet)
         stops  == flow /\ Len(queued) >= QMax - 1
     IN /\ rxq' = queued
        /\ running' = (running \/ Len(rxq) < QMax)
        /\ work' = IF ~running /\ Len(rxq) < QMax THEN "run" ELSE work
        /\ full' = (full \/ stops)
        /\ rx' = IF stops THEN "wait" ELSE "look"
        /\ rxMishap' = rxMishap \cup IF stops THEN {"flow"} ELSE {}
  /\ rpkt' = <<>>
  /\ UNCHANGED <<bd, cidx, mutex, pulse, flow, up, rxSeen, nicVars, rdar, rfint, rfien>>

\* The ring is empty: the controller is restarted and the interrupt unmasked.
RingEmpty ==
  /\ bd[cidx] = Empty
  /\ RxGoto("look", "enable")
  /\ rdar' = TRUE
  /\ UNCHANGED <<bd, cidx, rpkt, qVars, pulse, work, flow, up, rxSeen, nicVars, rfint, rfien,
                 rxMishap>>

\* Mutated form of EnableRx: the event is cleared here.
EnableRxClears ==
  /\ RxGoto("enable", "wait")
  /\ rfien' = TRUE /\ rfint' = FALSE
  /\ UNCHANGED <<bd, cidx, rpkt, qVars, pulse, work, flow, up, rxSeen, nicVars, rdar, rxMishap>>

EnableRx ==
  /\ RxGoto("enable", "wait")
  /\ rfien' = TRUE
  /\ UNCHANGED <<bd, cidx, rpkt, qVars, pulse, work, flow, up, rxSeen, nicVars, rdar, rfint,
                 rxMishap>>

-----------------------------------------------------------------------------
(* mx6q_process_queue and mx6q_enable_queue *)

PassUp ==
  /\ work = "run" /\ mutex = RxNobody /\ rxq # <<>>
  /\ rxq' = Tail(rxq)
  /\ up' = Head(rxq).f
  /\ UNCHANGED <<bd, rxVars, running, full, mutex, pulse, work, flow, rxSeen, nicVars,
                 rdar, rfint, rfien, rxMishap>>

\* Mutated form of RxQueueEmpty: the mutex is released.
RxQueueEmptyUnlocked ==
  /\ work = "run" /\ mutex = RxNobody /\ rxq = <<>>
  /\ work' = "enable"
  /\ UNCHANGED <<bd, rxVars, rxq, running, full, mutex, pulse, flow, up, rxSeen, nicVars,
                 rdar, rfint, rfien, rxMishap>>

\* "Leave mutex locked to prevent any enqueues, unlock in enable"
RxQueueEmpty ==
  /\ work = "run" /\ mutex = RxNobody /\ rxq = <<>>
  /\ mutex' = "work" /\ work' = "enable"
  /\ UNCHANGED <<bd, rxVars, rxq, running, full, pulse, flow, up, rxSeen, nicVars,
                 rdar, rfint, rfien, rxMishap>>

EnableQueue ==
  /\ work = "enable"
  /\ rfien' = (rfien \/ full) /\ rdar' = (rdar \/ full)
  /\ full' = FALSE /\ running' = FALSE /\ mutex' = RxNobody /\ work' = "idle"
  /\ UNCHANGED <<bd, rxVars, rxq, pulse, flow, up, rxSeen, nicVars, rfint, rxMishap>>

-----------------------------------------------------------------------------
(* mii.c sets a bit of IEVENT by reading and writing it back *)

RxMiiRead ==
  /\ rfint /\ ~rxSeen
  /\ rxSeen' = TRUE
  /\ UNCHANGED <<bd, rxVars, qVars, pulse, work, flow, up, nicVars, rdar, rfint, rfien, rxMishap>>

RxMiiWrite ==
  /\ rxSeen
  /\ rxSeen' = FALSE /\ rfint' = FALSE
  /\ rxMishap' = rxMishap \cup IF rfint THEN {"event"} ELSE {}
  /\ UNCHANGED <<bd, rxVars, qVars, pulse, work, flow, up, nicVars, rdar, rfien>>

-----------------------------------------------------------------------------
Receive == TakePulse \/ Discard \/ TakeFragment \/ PutFrame \/ RingEmpty \/ EnableRx

Work == PassUp \/ RxQueueEmpty \/ EnableQueue

RxNext == Arrive \/ NicStops \/ RxIsr \/ Receive \/ Work \/ RxMiiRead \/ RxMiiWrite

RxSpec == RxInit /\ [][RxNext]_allVars

\* Interrupts are served, and the two threads run and get rx_mutex in turn.
RxLiveSpec == RxSpec /\ WF_allVars(RxIsr) /\ SF_allVars(Receive) /\ SF_allVars(Work)

-----------------------------------------------------------------------------
RxFrame == 0 .. RxFrames

Fragment == [f : RxFrame, k : 0 .. RxMaxFrags, last : BOOLEAN, err : BOOLEAN]

\* The values of the driver's and the controller's state.
RxTypeOK ==
  /\ bd \in [RxRing -> Fragment]
  /\ cidx \in RxRing /\ nidx \in RxRing
  /\ rpkt \in Seq(Fragment) /\ rxq \in Seq([f : RxFrame, whole : BOOLEAN])
  /\ {running, full, pulse, flow, rxSeen, rdar, rfint, rfien} \subseteq BOOLEAN
  /\ mutex \in {RxNobody, "work"}
  /\ rx \in {"wait", "look", "put", "enable"} /\ work \in {"idle", "run", "enable"}
  /\ arrived \in RxFrame /\ up \in RxFrame /\ frag \in 0 .. RxMaxFrags - 1
  /\ rxMishap \subseteq {"event", "flow"}

\* A frame that is put together has the fragments of one frame, in their order and without
\* a gap, whatever has been discarded before.
OneFrame ==
  \A j \in 1 .. Len(rpkt) - 1 :
    rpkt[j + 1].f = rpkt[j].f /\ rpkt[j + 1].k = rpkt[j].k + 1 /\ ~rpkt[j].last

\* Frames go up in the order they arrived, each once.
InOrder ==
  LET inRing == {bd[i].f : i \in RxRing} \ {0} IN
  /\ \A j \in 1 .. Len(rxq) : /\ up < rxq[j].f
                              /\ j < Len(rxq) => rxq[j].f < rxq[j + 1].f
                              /\ rpkt # <<>> => rxq[j].f < rpkt[1].f
  /\ \A f \in inRing : up < f /\ (rpkt # <<>> => rpkt[1].f <= f)

\* A queue with frames in it is worked on, and the work is scheduled once.
QueueIsWorked == (rxq # <<>> => work = "run") /\ (running <=> work # "idle")

\* Only one of the interrupt handler, the receive thread and the work on a full queue is in
\* charge: the interrupt is unmasked exactly when neither of the others has to unmask it.
OneInCharge ==
  /\ rfien => ~pulse /\ rx = "wait" /\ ~full
  /\ ~rfien => (pulse \/ rx # "wait" \/ full) /\ ~(pulse /\ rx # "wait")
  /\ full => running

InRing == \E i \in RxRing : bd[i].last

\* A masked receive interrupt is unmasked again, and no frame stays in the ring until
\* another one arrives, unless flow control has stopped the reception or mii.c cleared the
\* event.
ReceptionGoesOn ==
  /\ ~rfien ~> rfien
  /\ InRing ~> (~InRing \/ rxMishap # {})

\* "Stop receiving and return 0 so the interrupt isn't enabled until the queue is drained"
\* (receive.c:235): what is in the ring then is received afterwards.
FlowResumes == InRing ~> (~InRing \/ "event" \in rxMishap)

\* "Half way through a packet, discard it all" (receive.c:132): no part of a frame goes up.
WholeFrames == \A j \in 1 .. Len(rxq) : rxq[j].whole
===============================================================================
