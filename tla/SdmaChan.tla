------------------------------- MODULE SdmaChan -------------------------------
(***************************************************************************)
(* The channels of the SDMA library: attach, start, stop and release in    *)
(* several threads, the controller's registers they read and write back,   *)
(* the interrupt handler, and the ISR callback that re-enables a channel's *)
(* descriptors.                                                            *)
(*                                                                         *)
(* Modelled code: lib/dma/sdma/api.c and irq.c.  The registers are EVTOVR, *)
(* HOSTOVR and one CHNENBL: all channels wait for the same DMA event.  The *)
(* descriptors are left out, and loading a context is SdmaCmd's subject.   *)
(***************************************************************************)
EXTENDS Naturals

CONSTANTS
  Process,     \* the processes linked with the library
  Thread,      \* the threads that use a channel, one at a time each
  ProcOf,      \* the process of each thread
  NoThread,    \* a free mutex, an unattached event
  Channel,     \* the channels of the resource manager, as numbers
  Driven,      \* the threads that attach with the option "eventnum"
  Regen,       \* the threads that attach with the option "regendescr"
  MayFail      \* may a channel's structures or its context fail to be created or loaded?

ASSUME ThreadAssumption  == NoThread \notin Thread /\ Driven \subseteq Thread /\ Regen \subseteq Thread
ASSUME ProcOfAssumption  == ProcOf \in [Thread -> Process]
ASSUME ChannelAssumption == Channel \subseteq Nat \ {0}
ASSUME FailAssumption    == MayFail \in BOOLEAN

VARIABLES
  pc,        \* pc[t]: where thread t is
  ch,        \* ch[t]: the channel of t's handle, 0 for none
  tmp,       \* tmp[t]: the register value t has read and not yet written back
  reserved,  \* the channels the resource manager has given out
  reg,       \* reg[r]: the channels whose bit is set in register r
  hstart,    \* the channels started by software and not complete
  intr,      \* SDMA_INTR
  regMutex,  \* register_mutex in the shared memory: its holder
  mask,      \* mask[p]: channel_mask of p
  event,     \* event[p][c]: the thread event_array[c] of p notifies
  callback,  \* callback[p]: the channels with a callback_array entry in p
  list,      \* list[p]: the channels with a chan_ptr_list entry in p
  isr        \* isr[p]: where irq_handler of p is, and the channel it has claimed

threadVars == <<pc, ch, tmp>>
hwVars     == <<reg, hstart, intr>>
irqVars    == <<mask, event, callback, list>>
vars       == <<threadVars, reserved, hwVars, regMutex, irqVars, isr>>

Register == {"evtovr", "hostovr", "chnenbl"}
Away     == [at |-> "off", ch |-> 0]

\* register_init: nothing is enabled and all channels are software triggered.
Init ==
  /\ pc = [t \in Thread |-> "out"]
  /\ ch = [t \in Thread |-> 0]
  /\ tmp = [t \in Thread |-> {}]
  /\ reserved = {}
  /\ reg = [r \in Register |-> IF r = "evtovr" THEN Channel ELSE {}]
  /\ hstart = {} /\ intr = {}
  /\ regMutex = NoThread
  /\ mask = [p \in Process |-> {}]
  /\ event = [p \in Process |-> [c \in Channel |-> NoThread]]
  /\ callback = [p \in Process |-> {}]
  /\ list = [p \in Process |-> {}]
  /\ isr = [p \in Process |-> Away]

Goto(t, from, to) == pc[t] = from /\ pc' = [pc EXCEPT ![t] = to]

\* in32 of register r, and out32 of what was read with the bit of t's channel set or clear.
ReadReg(t, r, from, to) ==
  /\ Goto(t, from, to)
  /\ tmp' = [tmp EXCEPT ![t] = reg[r]]
  /\ UNCHANGED <<ch, reserved, hwVars, regMutex, irqVars, isr>>

SetBit(t, r, from, to) ==
  /\ Goto(t, from, to)
  /\ reg' = [reg EXCEPT ![r] = tmp[t] \cup {ch[t]}]
  /\ tmp' = [tmp EXCEPT ![t] = {}]
  /\ UNCHANGED <<ch, reserved, hstart, intr, regMutex, irqVars, isr>>

ClearBit(t, r, from, to) ==
  /\ Goto(t, from, to)
  /\ reg' = [reg EXCEPT ![r] = tmp[t] \ {ch[t]}]
  /\ tmp' = [tmp EXCEPT ![t] = {}]
  /\ UNCHANGED <<ch, reserved, hstart, intr, regMutex, irqVars, isr>>

\* Mutated form of LockReg: the mutex is not taken.
LockRegNot(t, from, to) ==
  /\ Goto(t, from, to)
  /\ UNCHANGED <<ch, tmp, reserved, hwVars, regMutex, irqVars, isr>>

LockReg(t, from, to) ==
  /\ regMutex = NoThread
  /\ Goto(t, from, to)
  /\ regMutex' = t
  /\ UNCHANGED <<ch, tmp, reserved, hwVars, irqVars, isr>>

UnlockReg(t, from, to) ==
  /\ Goto(t, from, to)
  /\ regMutex' = NoThread
  /\ UNCHANGED <<ch, tmp, reserved, hwVars, irqVars, isr>>

-----------------------------------------------------------------------------
(* sdma_channel_attach *)

\* The resource manager gives t a free channel, whose old interrupt is cleared.
Reserve(t) ==
  /\ Goto(t, "out", "a_create")
  /\ \E c \in Channel \ reserved :
       /\ reserved' = reserved \cup {c}
       /\ ch' = [ch EXCEPT ![t] = c]
       /\ intr' = intr \ {c}
  /\ UNCHANGED <<tmp, reg, hstart, regMutex, irqVars, isr>>

\* fail1: no channel is free.
ReserveFails(t) ==
  /\ pc[t] = "out" /\ Channel \subseteq reserved
  /\ UNCHANGED vars

\* chan_create
ChanCreate(t) ==
  /\ Goto(t, "a_create", "a_load")
  /\ list' = [list EXCEPT ![ProcOf[t]] = @ \cup {ch[t]}]
  /\ UNCHANGED <<ch, tmp, reserved, hwVars, regMutex, mask, event, callback, isr>>

\* fail2 reads ch_num through the NULL that chan_create has returned, which ends the process.
\* The kernel detaches its handler and takes back its channels; a mutex it holds stays held.
ChanCreateFails(t) ==
  LET p  == ProcOf[t]
      Of == {u \in Thread : ProcOf[u] = p} IN
  /\ MayFail
  /\ pc[t] = "a_create"
  /\ pc' = [u \in Thread |-> IF u \in Of THEN "dead" ELSE pc[u]]
  /\ ch' = [u \in Thread |-> IF u \in Of THEN 0 ELSE ch[u]]
  /\ reserved' = reserved \ {ch[u] : u \in Of}
  /\ mask' = [mask EXCEPT ![p] = {}]
  /\ event' = [event EXCEPT ![p] = [c \in Channel |-> NoThread]]
  /\ callback' = [callback EXCEPT ![p] = {}]
  /\ list' = [list EXCEPT ![p] = {}]
  /\ isr' = [isr EXCEPT ![p] = Away]
  /\ UNCHANGED <<tmp, hwVars, regMutex>>

\* rsrcdbmgr_detach with a number read from freed memory: the thread's own channel, another
\* one, which may be in use, or none the manager knows.
GiveBackFreed(t) ==
  /\ reserved' \in {reserved} \cup {reserved \ {c} : c \in Channel}
  /\ ch' = [ch EXCEPT ![t] = 0]

\* sdmacmd_ctx_load; only an event driven channel has its event enabled.
CtxLoad(t) ==
  /\ Goto(t, "a_load", IF t \in Driven THEN "a_evt_read" ELSE "a_mask")
  /\ UNCHANGED <<ch, tmp, reserved, hwVars, regMutex, irqVars, isr>>

\* fail3: chan_destroy has freed the structure when fail2 reads the channel from it.
CtxLoadFails(t) ==
  /\ MayFail
  /\ Goto(t, "a_load", "out")
  /\ list' = [list EXCEPT ![ProcOf[t]] = @ \ {ch[t]}]
  /\ GiveBackFreed(t)
  /\ UNCHANGED <<tmp, hwVars, regMutex, mask, event, callback, isr>>

\* The registers are read and written back without register_mutex.
EnableEvent(t) ==
  \/ ReadReg(t, "evtovr", "a_evt_read", "a_evt_write")
  \/ ClearBit(t, "evtovr", "a_evt_write", "a_enbl_read")
  \/ ReadReg(t, "chnenbl", "a_enbl_read", "a_enbl_write")
  \/ SetBit(t, "chnenbl", "a_enbl_write", "a_mask")

EventAddMask(t) ==
  LET p == ProcOf[t] IN
  /\ Goto(t, "a_mask", "a_event")
  /\ mask' = [mask EXCEPT ![p] = @ \cup {ch[t]}]
  /\ UNCHANGED <<ch, tmp, reserved, hwVars, regMutex, event, callback, list, isr>>

EventAddEvent(t) ==
  /\ Goto(t, "a_event", "a_callback")
  /\ event' = [event EXCEPT ![ProcOf[t]][ch[t]] = t]
  /\ UNCHANGED <<ch, tmp, reserved, hwVars, regMutex, mask, callback, list, isr>>

CallbackAdd(t) ==
  LET p == ProcOf[t] IN
  /\ Goto(t, "a_callback", "held")
  /\ callback' = [callback EXCEPT ![p] = IF t \in Regen THEN @ \cup {ch[t]} ELSE @]
  /\ UNCHANGED <<ch, tmp, reserved, hwVars, regMutex, mask, event, list, isr>>

-----------------------------------------------------------------------------
(* sdma_xfer_start, and sdma_xfer_abort or sdma_xfer_complete *)

StartDriven(t) ==
  \/ t \in Driven /\ LockReg(t, "held", "s_read")
  \/ ReadReg(t, "hostovr", "s_read", "s_write")
  \/ SetBit(t, "hostovr", "s_write", "s_unlock")
  \/ UnlockReg(t, "s_unlock", "running")

StartSoftware(t) ==
  /\ t \notin Driven
  /\ Goto(t, "held", "running")
  /\ hstart' = hstart \cup {ch[t]}
  /\ UNCHANGED <<ch, tmp, reserved, reg, intr, regMutex, irqVars, isr>>

StopDriven(t) ==
  \/ t \in Driven /\ LockReg(t, "running", "t_read")
  \/ ReadReg(t, "hostovr", "t_read", "t_write")
  \/ ClearBit(t, "hostovr", "t_write", "t_unlock")
  \/ UnlockReg(t, "t_unlock", "held")

\* Nothing stops a channel that software has started.
StopSoftware(t) ==
  /\ t \notin Driven
  /\ Goto(t, "running", "held")
  /\ UNCHANGED <<ch, tmp, reserved, hwVars, regMutex, irqVars, isr>>

-----------------------------------------------------------------------------
(* sdma_channel_release *)

\* The interrupt is cleared first, and the channel stopped after it.
ReleaseClear(t) ==
  /\ pc[t] \in {"held", "running"}
  /\ pc' = [pc EXCEPT ![t] = "r_lock"]
  /\ intr' = intr \ {ch[t]}
  /\ UNCHANGED <<ch, tmp, reserved, reg, hstart, regMutex, irqVars, isr>>

DisableEvent(t) ==
  \/ LockReg(t, "r_lock", "r_evt_read")
  \/ ReadReg(t, "evtovr", "r_evt_read", "r_evt_write")
  \/ SetBit(t, "evtovr", "r_evt_write", "r_host_read")
  \/ ReadReg(t, "hostovr", "r_host_read", "r_host_write")
  \/ ClearBit(t, "hostovr", "r_host_write", "r_enbl_read")
  \/ ReadReg(t, "chnenbl", "r_enbl_read", "r_enbl_write")
  \/ ClearBit(t, "chnenbl", "r_enbl_write", "r_unlock")
  \/ UnlockReg(t, "r_unlock", "r_callback")

CallbackRemove(t) ==
  /\ Goto(t, "r_callback", "r_mask")
  /\ callback' = [callback EXCEPT ![ProcOf[t]] = IF t \in Regen THEN @ \ {ch[t]} ELSE @]
  /\ UNCHANGED <<ch, tmp, reserved, hwVars, regMutex, mask, event, list, isr>>

\* Mutated form of EventRemoveMask: the mask bit stays set.
EventRemoveMaskSkipped(t) ==
  /\ Goto(t, "r_mask", "r_event")
  /\ UNCHANGED <<ch, tmp, reserved, hwVars, regMutex, irqVars, isr>>

EventRemoveMask(t) ==
  LET p == ProcOf[t] IN
  /\ Goto(t, "r_mask", "r_event")
  /\ mask' = [mask EXCEPT ![p] = @ \ {ch[t]}]
  /\ UNCHANGED <<ch, tmp, reserved, hwVars, regMutex, event, callback, list, isr>>

EventRemoveEvent(t) ==
  /\ Goto(t, "r_event", "r_destroy")
  /\ event' = [event EXCEPT ![ProcOf[t]][ch[t]] = NoThread]
  /\ UNCHANGED <<ch, tmp, reserved, hwVars, regMutex, mask, callback, list, isr>>

\* chan_destroy
ChanDestroy(t) ==
  /\ Goto(t, "r_destroy", "r_detach")
  /\ list' = [list EXCEPT ![ProcOf[t]] = @ \ {ch[t]}]
  /\ UNCHANGED <<ch, tmp, reserved, hwVars, regMutex, mask, event, callback, isr>>

\* The number is read from the structure chan_destroy has freed.
Detach(t) ==
  /\ Goto(t, "r_detach", "out")
  /\ GiveBackFreed(t)
  /\ UNCHANGED <<tmp, hwVars, regMutex, irqVars, isr>>

-----------------------------------------------------------------------------
(* The controller: external *)

Runs(c) == c \in hstart \/ c \in (reg["hostovr"] \cap reg["chnenbl"]) \ reg["evtovr"]

\* A transfer of channel c is complete.
Complete(c) ==
  /\ Runs(c)
  /\ hstart' = hstart \ {c}
  /\ intr' = intr \cup {c}
  /\ UNCHANGED <<threadVars, reserved, reg, regMutex, irqVars, isr>>

-----------------------------------------------------------------------------
(* irq_handler *)

\* The lowest channel of this process is claimed; the handlers of one interrupt run one
\* after another.
IsrClaim(p) ==
  /\ \A q \in Process : isr[q] = Away
  /\ \E c \in intr \cap mask[p] :
       /\ \A d \in intr \cap mask[p] : c <= d
       /\ isr' = [isr EXCEPT ![p] = [at |-> "claimed", ch |-> c]]
       /\ intr' = intr \ {c}
  /\ UNCHANGED <<threadVars, reserved, reg, hstart, regMutex, irqVars>>

IsrCallback(p) ==
  /\ isr[p].at = "claimed"
  /\ isr' = [isr EXCEPT ![p].at = IF isr[p].ch \in callback[p] THEN "callback" ELSE "return"]
  /\ UNCHANGED <<threadVars, reserved, hwVars, regMutex, irqVars>>

\* callback_reenable_descr is done, and the event, if there is one, is delivered.
IsrReturn(p) ==
  /\ isr[p].at \in {"callback", "return"}
  /\ isr' = [isr EXCEPT ![p] = Away]
  /\ UNCHANGED <<threadVars, reserved, hwVars, regMutex, irqVars>>

-----------------------------------------------------------------------------
\* The steps of a call that has begun and holds, or does not need, the mutex.
Inside(t) ==
  \/ ChanCreate(t) \/ ChanCreateFails(t) \/ CtxLoad(t) \/ CtxLoadFails(t)
  \/ EnableEvent(t) \/ EventAddMask(t) \/ EventAddEvent(t) \/ CallbackAdd(t)
  \/ CallbackRemove(t) \/ EventRemoveMask(t) \/ EventRemoveEvent(t) \/ ChanDestroy(t) \/ Detach(t)

Begin(t) == Reserve(t) \/ ReserveFails(t) \/ StartSoftware(t) \/ StopSoftware(t) \/ ReleaseClear(t)

Registers(t) == StartDriven(t) \/ StopDriven(t) \/ DisableEvent(t)

Next ==
  \/ \E t \in Thread : Begin(t) \/ Inside(t) \/ Registers(t)
  \/ \E c \in Channel : Complete(c)
  \/ \E p \in Process : IsrClaim(p) \/ IsrCallback(p) \/ IsrReturn(p)

Spec == Init /\ [][Next]_vars

-----------------------------------------------------------------------------
Calling == {"a_create", "a_load", "a_evt_read", "a_evt_write", "a_enbl_read", "a_enbl_write",
            "a_mask", "a_event", "a_callback", "s_read", "s_write", "s_unlock", "t_read",
            "t_write", "t_unlock", "r_lock", "r_evt_read", "r_evt_write", "r_host_read",
            "r_host_write", "r_enbl_read", "r_enbl_write", "r_unlock", "r_callback", "r_mask",
            "r_event", "r_destroy", "r_detach"}

\* The values of the library's state and the controller's (sdma_channel_attach, _release).
TypeOK ==
  /\ pc \in [Thread -> {"out", "held", "running", "dead"} \cup Calling]
  /\ ch \in [Thread -> Channel \cup {0}]
  /\ tmp \in [Thread -> SUBSET Channel]
  /\ reserved \subseteq Channel
  /\ reg \in [Register -> SUBSET Channel]
  /\ hstart \subseteq Channel /\ intr \subseteq Channel
  /\ regMutex \in Thread \cup {NoThread}
  /\ mask \in [Process -> SUBSET Channel]
  /\ event \in [Process -> [Channel -> Thread \cup {NoThread}]]
  /\ callback \in [Process -> SUBSET Channel]
  /\ list \in [Process -> SUBSET Channel]
  /\ isr \in [Process -> [at : {"off", "claimed", "callback", "return"}, ch : Channel \cup {0}]]

\* HOSTOVR is read and written back whole, yet a thread that starts, stops or releases its
\* channel changes the bit of no other, of its own process or another (register_mutex).
HostOvrOwnBit ==
  [][\A c \in Channel : (c \in reg["hostovr"]) # (c \in reg'["hostovr"]) =>
       \E t \in Thread : ch[t] = c /\ pc'[t] # pc[t]]_vars

\* irq.c of a process listens for, calls back for and notifies of a channel only while a
\* thread of that process holds it, and the thread notified is such a thread, though
\* channels pass from process to process and may be given out twice
\* (sdma_channel_release takes the channel out of irq.c before the structure is freed).
ListensToOwn ==
  \A p \in Process, c \in Channel :
    LET Holder == {t \in Thread : ProcOf[t] = p /\ ch[t] = c} IN
    /\ c \in mask[p] \cup callback[p] => Holder # {}
    /\ event[p][c] \in Holder \cup {NoThread}

\* "deactivate dma-events, default to software triggered": a channel nobody holds has its
\* bit in EVTOVR.
SoftwareByDefault == Channel \ reserved \subseteq reg["evtovr"]

\* "clear interrupts on this channel": a channel nobody holds raises no interrupt, which no
\* process would answer.
ReleasedIsQuiet == intr \subseteq reserved

\* "List of chan contextes so that ISR callbacks can access contextes": the callback finds
\* the context of its channel.
CallbackFindsChannel ==
  \A p \in Process : isr[p].at = "callback" => isr[p].ch \in list[p]
===============================================================================
