---------------------------------- MODULE Can ----------------------------------
(***************************************************************************)
(* The mailboxes of the FlexCAN driver: the interrupt handler can_intr,    *)
(* which runs on one processor while can_drvr_transmit runs on another,    *)
(* and the flag registers and message lists they share.                    *)
(*                                                                         *)
(* Modelled code: hardware/can/mx6x/canmx6x.c.  IFLAG1 and IFLAG2 are one  *)
(* set of mailboxes, told apart by RxBox and TxBox.  Messages are numbered *)
(* in the order they arrive at or are written to their mailbox.  The       *)
(* error interrupts at the head of the handler touch none of this.         *)
(***************************************************************************)
EXTENDS Naturals, Sequences

CONSTANTS
  RxBox,      \* the receive mailboxes in use: those below numrx
  TxBox,      \* the transmit mailboxes in use: numrx and above
  MaxQueue,   \* the capacity of a message list
  FullMsg,    \* the option INFO_FLAGS_RX_FULL_MSG: is the timer read with the frame?
  KeepsNew,   \* does a flag outlive a write if its event is newer than the last read?
  MaxFrames,  \* bound of the model: the frames that reach a receive mailbox
  MaxWrites   \* bound of the model: the messages written for a transmit mailbox

ASSUME BoxAssumption    == RxBox \subseteq Nat /\ TxBox \subseteq Nat /\ RxBox \cap TxBox = {}
ASSUME OptionAssumption == FullMsg \in BOOLEAN /\ KeepsNew \in BOOLEAN
ASSUME BoundAssumption  == MaxQueue \in Nat \ {0} /\ MaxFrames \in Nat /\ MaxWrites \in Nat

Box == RxBox \cup TxBox

VARIABLES
  flag,     \* the mailboxes whose bit is set in IFLAG1 or IFLAG2
  fresh,    \* those with a new event since the handler last read the registers
  count,    \* count[m]: the frames m has received, or the messages written to m
  air,      \* air[m]: the message transmit mailbox m is sending, 0 for none
  sent,     \* sent[m]: the last message m has sent
  queue,    \* queue[m]: the message list of m's device
  seen,     \* seen[m]: the last frame taken from m, or the last message acknowledged
  enabled,  \* CANDEV_RINGO_TX_ENABLED of the transmit devices
  isr,      \* the handler: where it is, irqsrc, iflag_rx, the mailbox, the message
  agreed,   \* was each transmit mailbox served so far in both reads of the flags?
  thread    \* thread[m]: the thread in can_drvr_transmit of m, and its txmsg

hwVars  == <<flag, fresh, count, air, sent>>
libVars == <<queue, seen, enabled>>
isrVars == <<isr, agreed>>
vars    == <<hwVars, libVars, isrVars, thread>>

Off  == [pc |-> "off", src |-> {}, rx |-> {}, box |-> 0, msg |-> 0]
Rest == [pc |-> "idle", msg |-> 0]

Init ==
  /\ flag = {} /\ fresh = {}
  /\ count = [m \in Box |-> 0] /\ seen = [m \in Box |-> 0]
  /\ queue = [m \in Box |-> <<>>]
  /\ air = [m \in TxBox |-> 0] /\ sent = [m \in TxBox |-> 0]
  /\ enabled = [m \in TxBox |-> FALSE]
  /\ isr = Off /\ agreed = TRUE
  /\ thread = [m \in TxBox |-> Rest]

Lowest(S) == CHOOSE m \in S : \A n \in S : m <= n

\* Writing S to a flag register clears its bits.  A comment of the handler adds "and no
\* new event of the same type occurs between the read and write action" (KeepsNew).
FlagsAfter(S) == flag \ (IF KeepsNew THEN S \ fresh ELSE S)

\* How many times more than once a frame may be listed.
Again == IF KeepsNew THEN 1 ELSE 0

Raise(m) == flag' = flag \cup {m} /\ fresh' = fresh \cup {m}

-----------------------------------------------------------------------------
(* The controller and the callers of the library: external *)

\* Reading its control word locks a receive mailbox and reading the timer unlocks it.
Locked(m) == isr.pc = "rx_clear" /\ isr.box = m /\ ~FullMsg

\* A frame reaches receive mailbox m; a frame nobody has read is overwritten.
Arrive(m) ==
  /\ count[m] < MaxFrames /\ ~Locked(m)
  /\ count' = [count EXCEPT ![m] = @ + 1]
  /\ Raise(m)
  /\ UNCHANGED <<air, sent, libVars, isrVars, thread>>

Transmitted(m) ==
  /\ air[m] # 0
  /\ sent' = [sent EXCEPT ![m] = air[m]]
  /\ air' = [air EXCEPT ![m] = 0]
  /\ Raise(m)
  /\ UNCHANGED <<count, libVars, isrVars, thread>>

\* A client takes the oldest frame from the list of m.
Read(m) ==
  /\ queue[m] # <<>>
  /\ queue' = [queue EXCEPT ![m] = Tail(@)]
  /\ UNCHANGED <<hwVars, seen, enabled, isrVars, thread>>

\* A client's message is put on the list of m, and libcan calls can_drvr_transmit.
Write(m) ==
  /\ thread[m].pc = "idle" /\ Len(queue[m]) < MaxQueue /\ count[m] < MaxWrites
  /\ count' = [count EXCEPT ![m] = @ + 1]
  /\ queue' = [queue EXCEPT ![m] = Append(@, count[m] + 1)]
  /\ thread' = [thread EXCEPT ![m].pc = "check"]
  /\ UNCHANGED <<flag, fresh, air, sent, seen, enabled, isrVars>>

-----------------------------------------------------------------------------
(* can_drvr_transmit *)

\* Mutated form of TransmitCheck: the flag is not looked at.
TransmitCheckNot(m) ==
  /\ thread[m].pc = "check"
  /\ thread' = [thread EXCEPT ![m] = IF queue[m] = <<>> THEN Rest
                                     ELSE [pc |-> "set", msg |-> Head(queue[m])]]
  /\ UNCHANGED <<hwVars, libVars, isrVars>>

TransmitCheck(m) ==
  /\ thread[m].pc = "check"
  /\ thread' = [thread EXCEPT ![m] = IF enabled[m] \/ queue[m] = <<>> THEN Rest
                                     ELSE [pc |-> "set", msg |-> Head(queue[m])]]
  /\ UNCHANGED <<hwVars, libVars, isrVars>>

TransmitSet(m) ==
  /\ thread[m].pc = "set"
  /\ enabled' = [enabled EXCEPT ![m] = TRUE]
  /\ thread' = [thread EXCEPT ![m].pc = "send"]
  /\ UNCHANGED <<hwVars, queue, seen, isrVars>>

\* can_ringo_tx polls the controller until it finds the bus idle, with no limit, and then
\* fills the mailbox: the step may never come.
TransmitSend(m) ==
  /\ thread[m].pc = "send"
  /\ air' = [air EXCEPT ![m] = thread[m].msg]
  /\ thread' = [thread EXCEPT ![m] = Rest]
  /\ UNCHANGED <<flag, fresh, count, sent, libVars, isrVars>>

-----------------------------------------------------------------------------
(* can_intr *)

At(l)   == isr.pc = l
GoTo(l) == isr' = [isr EXCEPT !.pc = l]

\* The end of a branch: irqsrc is all that is used from here on.
GoOn(l) == isr' = [Off EXCEPT !.pc = l, !.src = isr.src]

\* The interrupt is asserted as long as a flag is set.
IsrEnter ==
  /\ At("off") /\ flag # {}
  /\ GoTo("top")
  /\ UNCHANGED <<hwVars, libVars, agreed, thread>>

\* irqsrc1 and irqsrc2, and the end of the loop.
IsrTop ==
  /\ At("top")
  /\ isr' = IF flag = {} THEN Off ELSE [isr EXCEPT !.pc = "which", !.src = flag]
  /\ fresh' = {}
  /\ UNCHANGED <<flag, count, air, sent, libVars, agreed, thread>>

\* The registers are read again: a receive interrupt goes before a transmit interrupt,
\* and a low mailbox before a high one.
IsrWhich ==
  LET rx == flag \cap RxBox IN
  /\ At("which")
  /\ isr' = IF rx # {}
            THEN [isr EXCEPT !.pc = "rx", !.rx = rx, !.box = Lowest(rx)]
            ELSE [isr EXCEPT !.pc = "tx", !.box = Lowest(flag)]
  /\ agreed' = (agreed /\ (rx = {} => Lowest(flag) \in isr.src))
  /\ fresh' = {}
  /\ UNCHANGED <<flag, count, air, sent, libVars, thread>>

\* The frame is copied if the list has room for it, BUSY or not after 20 polls; a full list
\* leaves it where it is.
IsrRxCopy ==
  LET m == isr.box IN
  /\ At("rx")
  /\ isr' = IF Len(queue[m]) < MaxQueue
            THEN [isr EXCEPT !.pc = "rx_clear", !.msg = count[m]]
            ELSE [Off EXCEPT !.pc = "notify", !.src = isr.src]
  /\ seen' = [seen EXCEPT ![m] = count[m]]
  /\ UNCHANGED <<hwVars, queue, enabled, agreed, thread>>

\* Mutated form of IsrRxClear: the flags are left to the end of the loop.
IsrRxClearLate ==
  /\ At("rx_clear")
  /\ GoTo("rx_enqueue")
  /\ UNCHANGED <<hwVars, libVars, agreed, thread>>

\* The flags of all receive mailboxes are cleared, not the one of this mailbox only; the
\* mailbox is emptied and, by reading the timer, unlocked.
IsrRxClear ==
  /\ At("rx_clear")
  /\ flag' = FlagsAfter(isr.rx)
  /\ GoTo("rx_enqueue")
  /\ UNCHANGED <<fresh, count, air, sent, libVars, agreed, thread>>

IsrRxEnqueue ==
  /\ At("rx_enqueue")
  /\ queue' = [queue EXCEPT ![isr.box] = Append(@, isr.msg)]
  /\ GoOn("notify")
  /\ UNCHANGED <<hwVars, seen, enabled, agreed, thread>>

\* Mutated form of IsrTxClear: the flags are left to the end of the loop.
IsrTxClearLate ==
  /\ At("tx")
  /\ GoTo("tx_ack")
  /\ UNCHANGED <<hwVars, libVars, agreed, thread>>

\* The flags of all transmit mailboxes in irqsrc2 are cleared.
IsrTxClear ==
  /\ At("tx")
  /\ flag' = FlagsAfter(isr.src \cap TxBox)
  /\ GoTo("tx_ack")
  /\ UNCHANGED <<fresh, count, air, sent, libVars, agreed, thread>>

\* The message at the head of the list is acknowledged, and the list is looked at again.
IsrTxAck ==
  LET m == isr.box IN
  /\ At("tx_ack")
  /\ IF queue[m] = <<>>
     THEN GoOn("notify") /\ UNCHANGED <<queue, seen>>
     ELSE /\ queue' = [queue EXCEPT ![m] = Tail(@)]
          /\ seen' = [seen EXCEPT ![m] = Head(queue[m])]
          /\ isr' = IF Len(queue[m]) = 1 THEN [isr EXCEPT !.pc = "tx_end"]
                    ELSE [isr EXCEPT !.pc = "tx_next", !.msg = queue[m][2]]
  /\ UNCHANGED <<hwVars, enabled, agreed, thread>>

\* can_ringo_tx again, which polls in the handler too: this step may never come either.
IsrTxNext ==
  /\ At("tx_next")
  /\ air' = [air EXCEPT ![isr.box] = isr.msg]
  /\ GoOn("notify")
  /\ UNCHANGED <<flag, fresh, count, sent, libVars, agreed, thread>>

IsrTxEnd ==
  /\ At("tx_end")
  /\ enabled' = [enabled EXCEPT ![isr.box] = FALSE]
  /\ GoOn("notify")
  /\ UNCHANGED <<hwVars, queue, seen, agreed, thread>>

\* can_client_check: a client to be notified ends the handler at once.
IsrNotify ==
  /\ At("notify")
  /\ isr' = Off \/ GoTo("clear")
  /\ UNCHANGED <<hwVars, libVars, agreed, thread>>

\* Mutated form of IsrClear: the registers are not written at the end of the loop.
IsrClearSkipped ==
  /\ At("clear")
  /\ GoTo("top")
  /\ UNCHANGED <<hwVars, libVars, agreed, thread>>

\* All that was read at the top of the loop is cleared.
IsrClear ==
  /\ At("clear")
  /\ flag' = FlagsAfter(isr.src)
  /\ isr' = [Off EXCEPT !.pc = "top"]
  /\ UNCHANGED <<fresh, count, air, sent, libVars, agreed, thread>>

-----------------------------------------------------------------------------
HandlerRuns ==
  \/ IsrTop \/ IsrWhich
  \/ IsrRxCopy \/ IsrRxClear \/ IsrRxEnqueue
  \/ IsrTxClear \/ IsrTxAck \/ IsrTxEnd
  \/ IsrNotify \/ IsrClear

Handler == HandlerRuns \/ IsrTxNext

Transmit(m) == TransmitCheck(m) \/ TransmitSet(m) \/ TransmitSend(m)

Next ==
  \/ \E m \in RxBox : Arrive(m) \/ Read(m)
  \/ \E m \in TxBox : Transmitted(m) \/ Write(m) \/ Transmit(m)
  \/ IsrEnter \/ Handler

Spec == Init /\ [][Next]_vars

\* An interrupt handler that has been entered keeps running, except that nothing promises it
\* an idle bus.
LiveSpec == Spec /\ WF_vars(HandlerRuns)

-----------------------------------------------------------------------------
\* The values of the registers, the lists and the handler's variables (can_intr).
TypeOK ==
  /\ flag \subseteq Box /\ fresh \subseteq Box
  /\ count \in [Box -> Nat]
  /\ air \in [TxBox -> Nat]
  /\ sent \in [TxBox -> Nat]
  /\ queue \in [Box -> Seq(Nat)]
  /\ \A m \in Box : Len(queue[m]) <= MaxQueue
  /\ seen \in [Box -> Nat]
  /\ enabled \in [TxBox -> BOOLEAN]
  /\ agreed \in BOOLEAN
  /\ isr.src \subseteq Box /\ isr.rx \subseteq RxBox

\* The frames of a mailbox are listed in the order they came, each once, or, if a flag
\* outlives the write that answers an older event, twice at most (the receive branch of
\* can_intr, which reads, copies, clears and lists while frames arrive).
RxInOrder ==
  \A m \in RxBox : \A i, j \in DOMAIN queue[m] :
    /\ i < j => queue[m][i] <= queue[m][j]
    /\ i + Again < j => queue[m][i] < queue[m][j]

\* "Acknowledge message was transmitted": a message leaves the list of its device only when
\* the controller has sent it, as long as every transmit mailbox the handler served was in
\* both reads of the flags.
AckedWereSent == agreed => \A m \in TxBox : seen[m] <= sent[m]

\* "Make sure transmit isn't already in progress": so long, neither the thread nor the
\* handler writes to a mailbox that is sending.
TxNotOverwritten ==
  [][agreed => \A m \in TxBox : air[m] # 0 => air'[m] \in {0, air[m]}]_vars

\* "Indicate transmit is in progress": with nobody at work on the device, the flag says
\* that the mailbox is sending or that its completion waits for the handler.
EnabledInProgress ==
  At("off") => \A m \in TxBox :
    thread[m].pc = "idle" /\ enabled[m] => air[m] # 0 \/ m \in flag

\* "No more transmit messages, end transmission": with nobody at work on the device, a
\* transmission that has ended leaves no message behind.
EndedIsEmpty ==
  At("off") => \A m \in TxBox :
    thread[m].pc = "idle" /\ ~enabled[m] => queue[m] = <<>>

\* "Loop as long as the CAN controller shows interrupts": a frame is in its mailbox with
\* its flag cleared only if the handler has looked at it.
NoFrameForgotten ==
  At("off") => \A m \in RxBox : m \in flag \/ seen[m] = count[m]

\* Once frames stop coming the handler returns, with a full list and nobody to notify too:
\* nothing but the wait for an idle bus in can_ringo_tx keeps it.
WaitsForBusOnly == ~At("off") ~> At("off") \/ At("tx_next")
===============================================================================
